------------------------- MODULE IngestionDagProofs -------------------------
(***************************************************************************)
(* The stored snapshot of an ingestion DAG run is well formed for every    *)
(* number of nodes, of executors and of deliveries: executors overwrite    *)
(* each other's copies as a whole, and every copy is well formed.          *)
(***************************************************************************)
EXTENDS IngestionDag, FiniteSetTheorems, TLAPS

\* A set of nodes has at most as many members as there are nodes.
LEMMA NodeCount ==
  ASSUME NEW S \in SUBSET Node
  PROVE  Cardinality(S) \in 0..Last
<1>1. IsFiniteSet(Node) /\ Cardinality(Node) = Last
  BY FS_Interval, LastAssumption DEF Node
<1>2. IsFiniteSet(S) /\ Cardinality(S) <= Cardinality(Node)
  BY <1>1, FS_Subset
<1> QED
  BY <1>1, <1>2, FS_CardinalityType, LastAssumption

\* _execute_dag's head yields a snapshot.
LEMMA BegunWellFormed ==
  ASSUME NEW dag \in Dag, NEW isResume \in BOOLEAN,
         PrefixCompleted(dag), Recorded(dag)
  PROVE  /\ Begun(dag, isResume) \in Dag
         /\ PrefixCompleted(Begun(dag, isResume))
         /\ Recorded(Begun(dag, isResume))
         /\ Open(Begun(dag, isResume)) = {}
<1> DEFINE b == Begun(dag, isResume)
<1>1. b.node = dag.node
  BY DEF Begun, Dag
<1>2. b.inject \in 0..Last
  BY LastAssumption DEF Begun, Dag
<1>3. b \in Dag
  <2> DEFINE Retried(n) == IF dag.queue[n].status = "open"
                           THEN [dag.queue[n] EXCEPT !.status = "retrying"]
                           ELSE dag.queue[n]
             q == [n \in Node |-> Retried(n)]
             i == IF isResume THEN 0 ELSE dag.inject
  <2>1. \A n \in Node : Retried(n) \in Entry
    BY DEF Dag, Entry
  <2>2. q \in [Node -> Entry]
    BY <2>1
  <2>3. i \in 0..Last
    BY LastAssumption DEF Dag
  <2>4. b = [dag EXCEPT !.queue = q, !.inject = i]
    BY DEF Begun
  <2> HIDE DEF b, q, i
  <2> QED
    BY <2>2, <2>3, <2>4 DEF Dag
<1>4. \A n \in Node : b.queue[n].status = IF dag.queue[n].status = "open" THEN "retrying"
                                          ELSE dag.queue[n].status
  BY DEF Begun, Dag, Entry
<1>5. Remaining(b) = Remaining(dag)
  BY <1>1 DEF Remaining
<1> HIDE DEF b
<1>6. PrefixCompleted(b)
  BY <1>1, <1>4 DEF PrefixCompleted
<1>7. Recorded(b)
  BY <1>1, <1>4, <1>5 DEF Recorded
<1>8. Open(b) = {}
  BY <1>4 DEF Open
<1> QED
  BY <1>3, <1>6, <1>7, <1>8 DEF b

\* Everything before the next node is completed, nothing behind it was reached.
LEMMA AroundNext ==
  ASSUME NEW dag \in Dag, NEW n \in Node, IsNext(n, dag),
         PrefixCompleted(dag), Recorded(dag)
  PROVE  /\ \A m \in Node : m < n => dag.node[m] = "completed"
         /\ \A m \in Node : n < m => dag.node[m] = "pending" /\ dag.queue[m].status = "none"
         /\ dag.node[n] # "completed"
         /\ \A m \in Node : dag.queue[m].status # "resolved"
<1>1. \A m \in Node : m < n => dag.node[m] = "completed"
  <2> SUFFICES ASSUME NEW m \in Node, m < n, dag.node[m] # "completed"
               PROVE  FALSE
    OBVIOUS
  <2>1. n <= m
    BY DEF IsNext, Remaining
  <2> QED
    BY <2>1, LastAssumption DEF Node
<1>2. n \in Remaining(dag) /\ dag.node[n] # "completed"
  BY DEF IsNext, Remaining
<1>3. \A m \in Node : n < m => dag.node[m] = "pending" /\ dag.queue[m].status = "none"
  BY <1>2 DEF PrefixCompleted
<1>4. \A m \in Node : dag.queue[m].status # "resolved"
  BY <1>2 DEF Recorded
<1> QED
  BY <1>1, <1>2, <1>3, <1>4

\* The next node completes.
LEMMA CompletedAtWellFormed ==
  ASSUME NEW dag \in Dag, NEW n \in Node, IsNext(n, dag),
         PrefixCompleted(dag), Recorded(dag), Open(dag) = {}
  PROVE  /\ CompletedAt(dag, n) \in Dag
         /\ PrefixCompleted(CompletedAt(dag, n))
         /\ Recorded(CompletedAt(dag, n))
         /\ Open(CompletedAt(dag, n)) = {}
<1> DEFINE c == CompletedAt(dag, n)
<1>1. c \in Dag /\ c.queue = dag.queue
  BY DEF CompletedAt, Dag
<1>2. \A m \in Node : c.node[m] = IF m = n THEN "completed" ELSE dag.node[m]
  BY DEF CompletedAt, Dag
<1>3. Open(c) = {}
  BY <1>1 DEF Open
<1> HIDE DEF c
<1>4. PrefixCompleted(c)
  BY <1>1, <1>2, AroundNext, LastAssumption DEF PrefixCompleted, Node
<1>5. Recorded(c)
  BY <1>1, <1>2, <1>3, AroundNext DEF Recorded, Open
<1> QED
  BY <1>1, <1>3, <1>4, <1>5 DEF c

\* The next node fails, by itself or by injection.
LEMMA FailedAtWellFormed ==
  ASSUME NEW dag \in Dag, NEW n \in Node, IsNext(n, dag),
         PrefixCompleted(dag), Recorded(dag), Open(dag) = {}
  PROVE  \A f \in {FailedAt(dag, n), [FailedAt(dag, n) EXCEPT !.inject = 0]} :
           f \in Dag /\ PrefixCompleted(f) /\ Recorded(f)
<1> DEFINE entry == IF dag.queue[n].status \in {"open", "retrying"}
                    THEN [status |-> "open", retries |-> dag.queue[n].retries + 1]
                    ELSE [status |-> "open", retries |-> 0]
<1>1. dag.queue[n] \in Entry
  BY DEF Dag
<1>2. entry \in Entry /\ entry.status = "open"
  BY <1>1 DEF Entry
<1> HIDE DEF entry
<1>3. FailedAt(dag, n) = [dag EXCEPT !.node[n] = "failed", !.queue[n] = entry]
  BY DEF FailedAt, entry
<1> SUFFICES ASSUME NEW f \in {FailedAt(dag, n), [FailedAt(dag, n) EXCEPT !.inject = 0]}
             PROVE  f \in Dag /\ PrefixCompleted(f) /\ Recorded(f)
  OBVIOUS
<1>4. FailedAt(dag, n) \in Dag
  <2>1. [dag.node EXCEPT ![n] = "failed"] \in [Node -> {"pending", "completed", "failed"}]
    BY DEF Dag
  <2>2. [dag.queue EXCEPT ![n] = entry] \in [Node -> Entry]
    BY <1>2 DEF Dag
  <2>3. FailedAt(dag, n) = [dag EXCEPT !.node = [dag.node EXCEPT ![n] = "failed"],
                                      !.queue = [dag.queue EXCEPT ![n] = entry]]
    BY <1>3 DEF Dag
  <2> QED
    BY <2>1, <2>2, <2>3 DEF Dag
<1>5. f \in Dag
  BY <1>4, LastAssumption DEF Dag
<1>6. f.node = FailedAt(dag, n).node /\ f.queue = FailedAt(dag, n).queue
  BY <1>4 DEF Dag
<1>7. \A m \in Node : f.node[m] = IF m = n THEN "failed" ELSE dag.node[m]
  BY <1>3, <1>6 DEF Dag
<1>8. \A m \in Node : f.queue[m] = IF m = n THEN entry ELSE dag.queue[m]
  BY <1>3, <1>6 DEF Dag
<1>9. PrefixCompleted(f)
  BY <1>7, <1>8, AroundNext, LastAssumption DEF PrefixCompleted, Node
<1>10. Recorded(f)
  BY <1>2, <1>7, <1>8, AroundNext DEF Recorded, Open
<1> QED
  BY <1>5, <1>9, <1>10

\* The end of an execution.
LEMMA EndedWellFormed ==
  ASSUME NEW r \in Row, PrefixCompleted(r.dag), Recorded(r.dag)
  PROVE  Ended(r) \in Row /\ PrefixCompleted(Ended(r).dag) /\ Recorded(Ended(r).dag)
<1> DEFINE dag == IF Remaining(r.dag) = {} THEN Resolved(r.dag) ELSE r.dag
<1>1. r.dag \in Dag
  BY DEF Row
<1>2. dag \in Dag /\ PrefixCompleted(dag) /\ Recorded(dag)
  <2>1. CASE Remaining(r.dag) = {}
    <3> DEFINE Res(n) == IF r.dag.queue[n].status = "retrying"
                         THEN [r.dag.queue[n] EXCEPT !.status = "resolved"]
                         ELSE r.dag.queue[n]
               q == [n \in Node |-> Res(n)]
    <3>1. \A n \in Node : Res(n) \in Entry
      BY <1>1 DEF Dag, Entry
    <3>2. q \in [Node -> Entry]
      BY <3>1
    <3>3. Resolved(r.dag) = [r.dag EXCEPT !.queue = q]
      BY DEF Resolved
    <3>4. \A n \in Node : q[n].status \in {"resolved", r.dag.queue[n].status}
      BY <1>1 DEF Dag, Entry
    <3> HIDE DEF q
    <3>5. Resolved(r.dag) \in Dag /\ Resolved(r.dag).node = r.dag.node /\ Resolved(r.dag).queue = q
      BY <1>1, <3>2, <3>3 DEF Dag
    <3>6. \A n \in Node : r.dag.node[n] = "completed"
      BY <2>1 DEF Remaining
    <3>7. Remaining(Resolved(r.dag)) = {}
      BY <3>5, <3>6 DEF Remaining
    <3>8. PrefixCompleted(Resolved(r.dag))
      BY <3>5, <3>6 DEF PrefixCompleted
    <3>9. Recorded(Resolved(r.dag))
      BY <3>4, <3>5, <3>6, <3>7 DEF Recorded
    <3> QED
      BY <2>1, <3>5, <3>8, <3>9
  <2>2. CASE Remaining(r.dag) # {}
    BY <1>1, <2>2
  <2> QED
    BY <2>1, <2>2
<1> HIDE DEF dag
<1>5. Completed(dag) \in SUBSET Node /\ Open(dag) \in SUBSET Node
  BY DEF Completed, Open
<1>6. Cardinality(Completed(dag)) \in 0..Last /\ Cardinality(Open(dag)) \in 0..Last
  BY <1>5, NodeCount
<1>7. Ended(r) = [status |-> IF Remaining(r.dag) = {} THEN "completed"
                             ELSE "completed_with_failures",
                  dag |-> dag,
                  success |-> Cardinality(Completed(dag)),
                  failures |-> Cardinality(Open(dag))]
  BY DEF Ended, dag
<1> QED
  BY <1>2, <1>6, <1>7 DEF Row, RunStatus

\* A commit stores a well-formed copy or leaves the stored one.
LEMMA CommitKeeps ==
  ASSUME SnapshotInv, NEW e \in Exec, NEW new \in Row,
         PrefixCompleted(new.dag), Recorded(new.dag), Commit(e, new),
         pc' = [pc EXCEPT ![e] = pc'[e]], pc'[e] = "node" => Open(new.dag) = {}
  PROVE  /\ row' \in Row /\ mem' \in [Exec -> Row]
         /\ PrefixCompleted(row'.dag) /\ Recorded(row'.dag)
         /\ \A f \in Exec : /\ PrefixCompleted(mem'[f].dag) /\ Recorded(mem'[f].dag)
                            /\ pc'[f] = "node" => Open(mem'[f].dag) = {}
<1>1. row \in Row /\ mem \in [Exec -> Row] /\ pc \in [Exec -> {"idle", "begin", "node", "finish"}]
  BY DEF SnapshotInv, TypeOK
<1>2. /\ row'.dag \in {row.dag, new.dag} /\ row'.status \in {row.status, new.status}
      /\ row'.success \in {row.success, new.success}
      /\ row'.failures \in {row.failures, new.failures}
      /\ row' = [status |-> row'.status, dag |-> row'.dag,
                 success |-> row'.success, failures |-> row'.failures]
  BY DEF Commit, Merged
<1>3. row' \in Row
  BY <1>1, <1>2 DEF Row
<1>4. PrefixCompleted(row'.dag) /\ Recorded(row'.dag)
  BY <1>2 DEF SnapshotInv
<1>5. mem' \in [Exec -> Row] /\ \A f \in Exec : mem'[f] = IF f = e THEN new ELSE mem[f]
  BY <1>1 DEF Commit
<1>6. \A f \in Exec : f # e => pc'[f] = pc[f]
  BY <1>1
<1>7. ASSUME NEW f \in Exec
      PROVE  /\ PrefixCompleted(mem'[f].dag) /\ Recorded(mem'[f].dag)
             /\ pc'[f] = "node" => Open(mem'[f].dag) = {}
  <2>1. CASE f = e
    BY <1>5, <2>1
  <2>2. CASE f # e
    BY <1>5, <1>6, <2>2 DEF SnapshotInv
  <2> QED
    BY <2>1, <2>2
<1> QED
  BY <1>3, <1>4, <1>5, <1>7

\* The new run satisfies the invariant.
LEMMA SnapshotInit == Init => SnapshotInv
<1> SUFFICES ASSUME Init PROVE SnapshotInv
  OBVIOUS
<1>1. PICK failureNode \in 0..Last : row = NewRow(failureNode)
  BY DEF Init
<1>2. /\ row.dag \in Dag
      /\ \A n \in Node : row.dag.node[n] = "pending" /\ row.dag.queue[n].status = "none"
  BY <1>1 DEF NewRow, NewDag, Dag, Entry
<1>3. row \in Row
  BY <1>1, <1>2, LastAssumption DEF NewRow, Row, RunStatus
<1>4. PrefixCompleted(row.dag) /\ Recorded(row.dag)
  BY <1>2 DEF PrefixCompleted, Recorded
<1>5. TypeOK
  BY <1>3, BoundsAssumption DEF Init, TypeOK, MaxDeliveries
<1> QED
  BY <1>4, <1>5 DEF Init, SnapshotInv

\* Every step preserves it.
LEMMA SnapshotStep == SnapshotInv /\ [Next]_vars => SnapshotInv'
<1> SUFFICES ASSUME SnapshotInv, [Next]_vars PROVE SnapshotInv'
  OBVIOUS
<1> USE DEF SnapshotInv, MaxDeliveries
<1>1. CASE UNCHANGED vars
  BY <1>1 DEF vars, TypeOK, PrefixCompleted, Recorded, Remaining, Open
<1>2. ASSUME NEW e \in Exec, Execute(e) \/ Resume(e) PROVE SnapshotInv'
  <2>1. /\ row' = row /\ mem' = [mem EXCEPT ![e] = row] /\ pc' = [pc EXCEPT ![e] = "begin"]
        /\ resumed' \in [Exec -> BOOLEAN] /\ faults' = faults /\ overlap' = overlap
        /\ deliveries' \in 0..MaxDeliveries
    <3>1. CASE Execute(e)
      BY <3>1, BoundsAssumption DEF Execute, Free, TypeOK
    <3>2. CASE Resume(e)
      BY <3>2 DEF Resume, Free, TypeOK
    <3> QED
      BY <1>2, <3>1, <3>2
  <2>2. TypeOK'
    BY <2>1 DEF TypeOK
  <2>3. \A f \in Exec : /\ mem'[f] = IF f = e THEN row ELSE mem[f]
                        /\ pc'[f] = IF f = e THEN "begin" ELSE pc[f]
    BY <2>1 DEF TypeOK
  <2>4. ASSUME NEW f \in Exec
        PROVE  /\ PrefixCompleted(mem'[f].dag) /\ Recorded(mem'[f].dag)
               /\ pc'[f] = "node" => Open(mem'[f].dag) = {}
    BY <2>3
  <2>5. PrefixCompleted(row'.dag) /\ Recorded(row'.dag)
    BY <2>1
  <2> QED
    BY <2>2, <2>4, <2>5
<1>3. ASSUME NEW e \in Exec, Begin(e) PROVE SnapshotInv'
  <2> DEFINE dag == Begun(mem[e].dag, resumed[e])
             new == [mem[e] EXCEPT !.status = "running", !.dag = dag]
  <2>1. mem[e] \in Row /\ mem[e].dag \in Dag /\ resumed[e] \in BOOLEAN
    BY DEF TypeOK, Row
  <2>2. dag \in Dag /\ PrefixCompleted(dag) /\ Recorded(dag) /\ Open(dag) = {}
    BY <2>1, BegunWellFormed
  <2>3. /\ Commit(e, new) /\ pc' = [pc EXCEPT ![e] = After(dag)]
        /\ UNCHANGED <<resumed, deliveries, faults, overlap>>
    BY <1>3 DEF Begin
  <2> HIDE DEF dag
  <2>4. new \in Row /\ new.dag = dag
    BY <2>1, <2>2 DEF Row, RunStatus
  <2> HIDE DEF new
  <2>5. pc' \in [Exec -> {"idle", "begin", "node", "finish"}] /\ pc' = [pc EXCEPT ![e] = pc'[e]]
    BY <2>3 DEF TypeOK, After
  <2> QED
    BY <2>2, <2>3, <2>4, <2>5, CommitKeeps DEF TypeOK
<1>4. ASSUME NEW e \in Exec, NEW n \in Node, NodeSucceeds(e, n) PROVE SnapshotInv'
  <2> DEFINE dag == CompletedAt(mem[e].dag, n)
             new == [mem[e] EXCEPT !.dag = dag]
  <2>1. mem[e] \in Row /\ mem[e].dag \in Dag
    BY DEF TypeOK, Row
  <2>2. dag \in Dag /\ PrefixCompleted(dag) /\ Recorded(dag) /\ Open(dag) = {}
    BY <1>4, <2>1, CompletedAtWellFormed DEF NodeSucceeds
  <2>3. /\ Commit(e, new) /\ pc' = [pc EXCEPT ![e] = After(dag)]
        /\ UNCHANGED <<resumed, deliveries, faults, overlap>>
    BY <1>4 DEF NodeSucceeds
  <2> HIDE DEF dag
  <2>4. new \in Row /\ new.dag = dag
    BY <2>1, <2>2 DEF Row
  <2> HIDE DEF new
  <2>5. pc' \in [Exec -> {"idle", "begin", "node", "finish"}] /\ pc' = [pc EXCEPT ![e] = pc'[e]]
    BY <2>3 DEF TypeOK, After
  <2> QED
    BY <2>2, <2>3, <2>4, <2>5, CommitKeeps DEF TypeOK
<1>5. ASSUME NEW e \in Exec, NEW n \in Node, NodeFails(e, n) PROVE SnapshotInv'
  <2> DEFINE failed == FailedAt(mem[e].dag, n)
             consumed == [failed EXCEPT !.inject = 0]
  <2>1. mem[e] \in Row /\ mem[e].dag \in Dag
    BY DEF TypeOK, Row
  <2>2. PICK dag \in {failed, consumed} : Commit(e, [mem[e] EXCEPT !.dag = dag])
    BY <1>5 DEF NodeFails
  <2>3. dag \in Dag /\ PrefixCompleted(dag) /\ Recorded(dag)
    BY <1>5, <2>1, FailedAtWellFormed DEF NodeFails
  <2>4. pc' = [pc EXCEPT ![e] = "finish"] /\ UNCHANGED <<resumed, deliveries, faults, overlap>>
    BY <1>5 DEF NodeFails
  <2> DEFINE new == [mem[e] EXCEPT !.dag = dag]
  <2>5. new \in Row /\ new.dag = dag /\ Commit(e, new)
    BY <2>1, <2>2, <2>3 DEF Row
  <2> HIDE DEF new
  <2>6. /\ pc' \in [Exec -> {"idle", "begin", "node", "finish"}]
        /\ pc' = [pc EXCEPT ![e] = pc'[e]] /\ pc'[e] = "finish"
    BY <2>4 DEF TypeOK
  <2> QED
    BY <2>3, <2>4, <2>5, <2>6, CommitKeeps DEF TypeOK
<1>6. ASSUME NEW e \in Exec, Finish(e) PROVE SnapshotInv'
  <2> DEFINE new == Ended(mem[e])
  <2>1. mem[e] \in Row
    BY DEF TypeOK
  <2>2. new \in Row /\ PrefixCompleted(new.dag) /\ Recorded(new.dag)
    BY <2>1, EndedWellFormed
  <2>3. /\ Commit(e, new) /\ pc' = [pc EXCEPT ![e] = "idle"]
        /\ UNCHANGED <<resumed, deliveries, faults, overlap>>
    BY <1>6 DEF Finish
  <2> HIDE DEF new
  <2>4. /\ pc' \in [Exec -> {"idle", "begin", "node", "finish"}]
        /\ pc' = [pc EXCEPT ![e] = pc'[e]] /\ pc'[e] = "idle"
    BY <2>3 DEF TypeOK
  <2> QED
    BY <2>2, <2>3, <2>4, CommitKeeps DEF TypeOK
<1>7. ASSUME NEW e \in Exec, BreakOff(e) PROVE SnapshotInv'
  <2>1. /\ row' = row /\ mem' = mem /\ pc' = [pc EXCEPT ![e] = "idle"]
        /\ resumed' = resumed /\ deliveries' = deliveries /\ overlap' = overlap
        /\ faults' \in 0..MaxFaults
    BY <1>7, BoundsAssumption DEF BreakOff, TypeOK
  <2>2. TypeOK'
    BY <2>1 DEF TypeOK
  <2>3. \A f \in Exec : pc'[f] = "node" => pc[f] = "node"
    BY <2>1 DEF TypeOK
  <2> QED
    BY <2>1, <2>2, <2>3
<1> QED
  BY <1>1, <1>2, <1>3, <1>4, <1>5, <1>6, <1>7 DEF Next, Step

\* The inductive invariant holds throughout.
THEOREM SnapshotInvariant == Spec => []SnapshotInv
BY SnapshotInit, SnapshotStep, PTL DEF Spec

\* Rows stay rows.
THEOREM DagTypeCorrect == Spec => []TypeOK
<1>1. SnapshotInv => TypeOK
  BY DEF SnapshotInv
<1> QED
  BY <1>1, SnapshotInvariant, PTL

\* However many executors interleave, and wherever they break off, the nodes
\* of the stored snapshot are completed in order.
THEOREM NodesCompleteInOrder == Spec => []CompletedIsPrefix
<1>1. SnapshotInv => CompletedIsPrefix
  BY DEF SnapshotInv, CompletedIsPrefix
<1> QED
  BY <1>1, SnapshotInvariant, PTL

\* However many executors interleave, the failure queue tells what the nodes
\* tell.
THEOREM FailuresAreRecorded == Spec => []FailureRecorded
<1>1. SnapshotInv => FailureRecorded
  BY DEF SnapshotInv, FailureRecorded
<1> QED
  BY <1>1, SnapshotInvariant, PTL

-----------------------------------------------------------------------------
(* One executor at a time implements DagRun.                               *)

\* Without overlap at most one executor is busy, what it holds is what is
\* stored, and in its loop the run is running.
SerialInv ==
  ~ overlap =>
    /\ \A e, f \in Exec : pc[e] # "idle" /\ pc[f] # "idle" => e = f
    /\ \A e \in Exec : pc[e] # "idle" => mem[e] = row
    /\ \A e \in Exec : pc[e] \in {"node", "finish"} => row.status = "running"

\* Then a commit stores what it has computed.
LEMMA CommitAlone ==
  ASSUME TypeOK, SerialInv, ~ overlap, NEW e \in Exec, pc[e] # "idle",
         NEW new \in Row, Commit(e, new)
  PROVE  row' = new /\ mem' = [mem EXCEPT ![e] = new]
<1>1. mem[e] = row
  BY DEF SerialInv
<1>2. row' = [status |-> new.status, dag |-> new.dag,
              success |-> new.success, failures |-> new.failures]
  BY <1>1 DEF Commit, Merged
<1>3. row' = new
  BY <1>2 DEF Row
<1> QED
  BY <1>3 DEF Commit

\* The commits of an executor that is alone: what it stores, and where it is.
LEMMA AloneAfterCommit ==
  ASSUME TypeOK, SerialInv, ~ overlap, NEW e \in Exec, pc[e] # "idle",
         NEW new \in Row, Commit(e, new), NEW to, pc' = [pc EXCEPT ![e] = to],
         to \in {"node", "finish"} => new.status = "running", overlap' = overlap
  PROVE  SerialInv'
<1>1. row' = new /\ mem' = [mem EXCEPT ![e] = new]
  BY CommitAlone
<1>2. \A f \in Exec : f # e => pc[f] = "idle"
  BY DEF SerialInv
<1>3. \A f \in Exec : /\ pc'[f] = IF f = e THEN to ELSE "idle"
                      /\ mem'[f] = IF f = e THEN new ELSE mem[f]
  BY <1>1, <1>2 DEF TypeOK
<1> QED
  BY <1>1, <1>3 DEF SerialInv

\* What the steps of an executor store.
LEMMA StoredRows ==
  ASSUME SnapshotInv, NEW e \in Exec
  PROVE  /\ [mem[e] EXCEPT !.status = "running", !.dag = Begun(mem[e].dag, resumed[e])] \in Row
         /\ \A n \in Node : IsNext(n, mem[e].dag) /\ pc[e] = "node" =>
              /\ [mem[e] EXCEPT !.dag = CompletedAt(mem[e].dag, n)] \in Row
              /\ [mem[e] EXCEPT !.dag = FailedAt(mem[e].dag, n)] \in Row
              /\ [mem[e] EXCEPT !.dag = [FailedAt(mem[e].dag, n) EXCEPT !.inject = 0]] \in Row
         /\ Ended(mem[e]) \in Row
<1>1. /\ mem[e] \in Row /\ mem[e].dag \in Dag /\ resumed[e] \in BOOLEAN
      /\ PrefixCompleted(mem[e].dag) /\ Recorded(mem[e].dag)
  BY DEF SnapshotInv, TypeOK, Row
<1>2. Begun(mem[e].dag, resumed[e]) \in Dag
  BY <1>1, BegunWellFormed
<1>3. ASSUME NEW n \in Node, IsNext(n, mem[e].dag), pc[e] = "node"
      PROVE  /\ CompletedAt(mem[e].dag, n) \in Dag /\ FailedAt(mem[e].dag, n) \in Dag
             /\ [FailedAt(mem[e].dag, n) EXCEPT !.inject = 0] \in Dag
  <2>1. Open(mem[e].dag) = {}
    BY <1>3 DEF SnapshotInv
  <2> QED
    BY <1>1, <1>3, <2>1, CompletedAtWellFormed, FailedAtWellFormed
<1>4. \A dag \in Dag : [mem[e] EXCEPT !.dag = dag] \in Row
  BY <1>1 DEF Row
<1>5. \A dag \in Dag : [mem[e] EXCEPT !.status = "running", !.dag = dag] \in Row
  BY <1>1 DEF Row, RunStatus
<1> QED
  BY <1>1, <1>2, <1>3, <1>4, <1>5, EndedWellFormed

\* Every step preserves it.
LEMMA SerialStep == SnapshotInv /\ SerialInv /\ [Next]_vars => SerialInv'
<1> SUFFICES ASSUME SnapshotInv, SerialInv, [Next]_vars, ~ overlap' PROVE SerialInv'
  BY DEF SerialInv
<1>1. TypeOK
  BY DEF SnapshotInv
<1>2. CASE UNCHANGED vars
  BY <1>2 DEF vars, SerialInv
<1>3. ASSUME NEW e \in Exec, Execute(e) \/ Resume(e) PROVE SerialInv'
  <2>1. /\ row' = row /\ mem' = [mem EXCEPT ![e] = row] /\ pc' = [pc EXCEPT ![e] = "begin"]
        /\ overlap' = overlap /\ Free(e)
    BY <1>3 DEF Execute, Resume
  <2>2. \A f \in Exec : pc[f] = "idle"
    BY <2>1 DEF Free
  <2>3. \A f \in Exec : /\ pc'[f] = IF f = e THEN "begin" ELSE "idle"
                        /\ mem'[f] = IF f = e THEN row ELSE mem[f]
    BY <1>1, <2>1, <2>2 DEF TypeOK
  <2> QED
    BY <2>1, <2>3 DEF SerialInv
<1>4. ASSUME NEW e \in Exec, Begin(e) PROVE SerialInv'
  <2> DEFINE new == [mem[e] EXCEPT !.status = "running", !.dag = Begun(mem[e].dag, resumed[e])]
             to == After(Begun(mem[e].dag, resumed[e]))
  <2>1. pc[e] # "idle" /\ Commit(e, new) /\ pc' = [pc EXCEPT ![e] = to] /\ overlap' = overlap
    BY <1>4 DEF Begin
  <2>2. new \in Row /\ new.status = "running"
    BY <1>1, StoredRows DEF TypeOK, Row
  <2> HIDE DEF new, to
  <2> QED
    BY <1>1, <2>1, <2>2, AloneAfterCommit
<1>5. ASSUME NEW e \in Exec, NEW n \in Node, NodeSucceeds(e, n) PROVE SerialInv'
  <2> DEFINE new == [mem[e] EXCEPT !.dag = CompletedAt(mem[e].dag, n)]
             to == After(CompletedAt(mem[e].dag, n))
  <2>1. pc[e] = "node" /\ Commit(e, new) /\ pc' = [pc EXCEPT ![e] = to] /\ overlap' = overlap
        /\ IsNext(n, mem[e].dag)
    BY <1>5 DEF NodeSucceeds
  <2>2. new \in Row
    BY <2>1, StoredRows
  <2>3. new.status = "running"
    BY <1>1, <2>1 DEF SerialInv, TypeOK, Row
  <2> HIDE DEF new, to
  <2> QED
    BY <1>1, <2>1, <2>2, <2>3, AloneAfterCommit
<1>6. ASSUME NEW e \in Exec, NEW n \in Node, NodeFails(e, n) PROVE SerialInv'
  <2>1. PICK dag \in {FailedAt(mem[e].dag, n), [FailedAt(mem[e].dag, n) EXCEPT !.inject = 0]} :
          Commit(e, [mem[e] EXCEPT !.dag = dag])
    BY <1>6 DEF NodeFails
  <2> DEFINE new == [mem[e] EXCEPT !.dag = dag]
  <2>2. pc[e] = "node" /\ pc' = [pc EXCEPT ![e] = "finish"] /\ overlap' = overlap
        /\ IsNext(n, mem[e].dag)
    BY <1>6 DEF NodeFails
  <2>3. new \in Row
    BY <2>1, <2>2, StoredRows
  <2>4. new.status = "running"
    BY <1>1, <2>2 DEF SerialInv, TypeOK, Row
  <2>5. Commit(e, new)
    BY <2>1
  <2> HIDE DEF new
  <2> QED
    BY <1>1, <2>2, <2>3, <2>4, <2>5, AloneAfterCommit
<1>7. ASSUME NEW e \in Exec, Finish(e) PROVE SerialInv'
  <2>1. pc[e] # "idle" /\ Commit(e, Ended(mem[e])) /\ pc' = [pc EXCEPT ![e] = "idle"]
        /\ overlap' = overlap
    BY <1>7 DEF Finish
  <2>2. Ended(mem[e]) \in Row
    BY StoredRows
  <2> QED
    BY <1>1, <2>1, <2>2, AloneAfterCommit
<1>8. ASSUME NEW e \in Exec, BreakOff(e) PROVE SerialInv'
  <2>1. row' = row /\ mem' = mem /\ pc' = [pc EXCEPT ![e] = "idle"] /\ overlap' = overlap
    BY <1>8 DEF BreakOff
  <2>2. \A f \in Exec : pc'[f] = IF f = e THEN "idle" ELSE pc[f]
    BY <1>1, <2>1 DEF TypeOK
  <2> QED
    BY <2>1, <2>2 DEF SerialInv
<1> QED
  BY <1>2, <1>3, <1>4, <1>5, <1>6, <1>7, <1>8 DEF Next, Step

\* The new run satisfies the invariant.
LEMMA SerialInit == Init => SerialInv
BY DEF Init, SerialInv

\* How many nodes are completed.
LEMMA DoneCount ==
  ASSUME NEW dag \in Dag
  PROVE  /\ Cardinality(Completed(dag)) \in 0..Last
         /\ Remaining(dag) = {} <=> Cardinality(Completed(dag)) = Last
<1>1. Completed(dag) \in SUBSET Node
  BY DEF Completed
<1>2. IsFiniteSet(Node) /\ Cardinality(Node) = Last
  BY FS_Interval, LastAssumption DEF Node
<1>3. Remaining(dag) = {} <=> Completed(dag) = Node
  BY DEF Completed, Remaining
<1>4. Cardinality(Completed(dag)) = Cardinality(Node) => Completed(dag) = Node
  BY <1>1, <1>2, FS_Subset
<1> QED
  BY <1>1, <1>2, <1>3, <1>4, NodeCount

\* One more is, when a node completes.
LEMMA OneMoreDone ==
  ASSUME NEW dag \in Dag, NEW n \in Node, IsNext(n, dag)
  PROVE  Cardinality(Completed(CompletedAt(dag, n))) = Cardinality(Completed(dag)) + 1
<1>1. Completed(CompletedAt(dag, n)) = Completed(dag) \cup {n} /\ n \notin Completed(dag)
  BY DEF Completed, CompletedAt, Dag, IsNext, Remaining
<1>2. IsFiniteSet(Node) /\ Completed(dag) \in SUBSET Node
  BY FS_Interval, LastAssumption DEF Node, Completed
<1>3. IsFiniteSet(Completed(dag))
  BY <1>2, FS_Subset
<1> QED
  BY <1>1, <1>3, FS_AddElement

\* The nodes that are completed after the other commits are those before.
LEMMA SameDone ==
  ASSUME NEW dag \in Dag
  PROVE  /\ \A isResume \in BOOLEAN : Completed(Begun(dag, isResume)) = Completed(dag)
         /\ \A n \in Node : IsNext(n, dag) =>
              \A f \in {FailedAt(dag, n), [FailedAt(dag, n) EXCEPT !.inject = 0]} :
                Completed(f) = Completed(dag)
         /\ Completed(Resolved(dag)) = Completed(dag)
<1>1. ASSUME NEW isResume \in BOOLEAN PROVE Completed(Begun(dag, isResume)) = Completed(dag)
  <2>1. Begun(dag, isResume).node = dag.node
    BY DEF Begun, Dag
  <2> QED
    BY <2>1 DEF Completed
<1>2. ASSUME NEW n \in Node, IsNext(n, dag),
             NEW f \in {FailedAt(dag, n), [FailedAt(dag, n) EXCEPT !.inject = 0]}
      PROVE  Completed(f) = Completed(dag)
  <2>1. f.node = [dag.node EXCEPT ![n] = "failed"]
    BY DEF FailedAt, Dag
  <2>2. dag.node[n] # "completed"
    BY <1>2 DEF IsNext, Remaining
  <2> QED
    BY <2>1, <2>2 DEF Completed, Dag
<1>3. Completed(Resolved(dag)) = Completed(dag)
  <2>1. Resolved(dag).node = dag.node
    BY DEF Resolved, Dag
  <2> QED
    BY <2>1 DEF Completed
<1> QED
  BY <1>1, <1>2, <1>3

\* Every step of a run whose executors do not overlap is one of DagRun or none.
LEMMA StepRefines ==
  ASSUME SnapshotInv, SerialInv, [Next]_vars
  PROVE  [Abstract!Next]_(Abstract!vars)
<1> DEFINE Done(r) == Cardinality(Completed(r.dag))
<1>1. TypeOK /\ overlap' = overlap /\ row \in Row /\ row.dag \in Dag
  BY DEF SnapshotInv, TypeOK, Row, vars, Next, Step, Execute, Resume, Begin, NodeSucceeds,
         NodeFails, Finish, BreakOff
<1>2. CASE overlap
  BY <1>1, <1>2 DEF Abstract!vars
<1> SUFFICES ASSUME ~ overlap
             PROVE  \/ Abstract!Next
                    \/ Done(row') = Done(row) /\ row'.status = row.status
  BY <1>1, <1>2 DEF Abstract!vars
<1>3. CASE row' = row
  BY <1>3
<1>4. ASSUME NEW e \in Exec, Begin(e) PROVE Done(row') = Done(row) /\
        (row'.status = row.status \/ (row.status # "running" /\ row'.status = "running"))
  <2> DEFINE new == [mem[e] EXCEPT !.status = "running", !.dag = Begun(mem[e].dag, resumed[e])]
  <2>1. pc[e] # "idle" /\ Commit(e, new) /\ new \in Row
    BY <1>4, StoredRows DEF Begin
  <2>2. row' = new /\ mem[e] = row
    BY <1>1, <2>1, CommitAlone DEF SerialInv
  <2>3. row'.status = "running" /\ row'.dag = Begun(row.dag, resumed[e])
    BY <1>1, <2>2 DEF Row
  <2> QED
    BY <1>1, <2>3, SameDone DEF TypeOK
<1>5. ASSUME NEW e \in Exec, NEW n \in Node, NodeSucceeds(e, n)
      PROVE  /\ Done(row') = Done(row) + 1 /\ Done(row) < Last
             /\ row.status = "running" /\ row'.status = row.status
  <2> DEFINE new == [mem[e] EXCEPT !.dag = CompletedAt(mem[e].dag, n)]
  <2>1. pc[e] = "node" /\ IsNext(n, mem[e].dag) /\ Commit(e, new)
    BY <1>5 DEF NodeSucceeds
  <2>2. new \in Row
    BY <2>1, StoredRows
  <2>3. row' = new /\ mem[e] = row /\ row.status = "running"
    BY <1>1, <2>1, <2>2, CommitAlone DEF SerialInv
  <2>4. row'.status = row.status /\ row'.dag = CompletedAt(row.dag, n) /\ IsNext(n, row.dag)
    BY <1>1, <2>1, <2>3 DEF Row
  <2>5. Done(row') = Done(row) + 1
    BY <1>1, <2>4, OneMoreDone
  <2>6. Remaining(row.dag) # {}
    BY <2>4 DEF IsNext
  <2>7. Done(row) \in 0..Last /\ Done(row) # Last
    BY <1>1, <2>6, DoneCount
  <2> QED
    BY <2>3, <2>4, <2>5, <2>7, LastAssumption
<1>6. ASSUME NEW e \in Exec, NEW n \in Node, NodeFails(e, n)
      PROVE  Done(row') = Done(row) /\ row'.status = row.status
  <2>1. PICK dag \in {FailedAt(mem[e].dag, n), [FailedAt(mem[e].dag, n) EXCEPT !.inject = 0]} :
          Commit(e, [mem[e] EXCEPT !.dag = dag])
    BY <1>6 DEF NodeFails
  <2> DEFINE new == [mem[e] EXCEPT !.dag = dag]
  <2>2. pc[e] = "node" /\ IsNext(n, mem[e].dag)
    BY <1>6 DEF NodeFails
  <2>3. new \in Row /\ Commit(e, new)
    BY <2>1, <2>2, StoredRows
  <2>4. row' = new /\ mem[e] = row
    BY <1>1, <2>2, <2>3, CommitAlone DEF SerialInv
  <2>5. row'.status = row.status /\ row'.dag = dag
    BY <1>1, <2>4 DEF Row
  <2>6. Completed(dag) = Completed(row.dag)
    BY <1>1, <2>1, <2>2, <2>4, SameDone
  <2> QED
    BY <2>5, <2>6
<1>7. ASSUME NEW e \in Exec, Finish(e)
      PROVE  /\ row.status = "running" /\ Done(row') = Done(row)
             /\ row'.status = IF Done(row) = Last THEN "completed" ELSE "completed_with_failures"
  <2>1. pc[e] = "finish" /\ Commit(e, Ended(mem[e])) /\ Ended(mem[e]) \in Row
    BY <1>7, StoredRows DEF Finish
  <2>2. row' = Ended(row) /\ row.status = "running"
    BY <1>1, <2>1, CommitAlone DEF SerialInv
  <2>3. /\ row'.dag = IF Remaining(row.dag) = {} THEN Resolved(row.dag) ELSE row.dag
        /\ row'.status = IF Remaining(row.dag) = {} THEN "completed" ELSE "completed_with_failures"
    BY <2>2 DEF Ended
  <2>4. Completed(row'.dag) = Completed(row.dag)
    BY <1>1, <2>3, SameDone
  <2> QED
    BY <1>1, <2>2, <2>3, <2>4, DoneCount
<1>8. Done(row) \in 0..Last /\ row.status \in RunStatus
  BY <1>1, DoneCount DEF Row
<1>9. \/ row' = row
      \/ \E e \in Exec : Begin(e) \/ Finish(e) \/ \E n \in Node : NodeSucceeds(e, n) \/ NodeFails(e, n)
  BY DEF vars, Next, Step, Execute, Resume, BreakOff
<1> HIDE DEF Done
<1>10. CASE \E e \in Exec : Begin(e)
  BY <1>1, <1>4, <1>10 DEF Abstract!Next, Abstract!Reopen, Done
<1>11. CASE \E e \in Exec : Finish(e)
  <2>1. /\ row.status = "running" /\ Done(row') = Done(row)
        /\ row'.status = IF Done(row) = Last THEN "completed" ELSE "completed_with_failures"
    BY <1>7, <1>11
  <2>2. CASE Done(row) = Last
    BY <1>1, <2>1, <2>2 DEF Abstract!Next, Abstract!Complete, Done
  <2>3. CASE Done(row) # Last
    <3>1. Done(row) < Last
      BY <1>8, <2>3, LastAssumption
    <3> QED
      BY <1>1, <2>1, <2>3, <3>1 DEF Abstract!Next, Abstract!Halt, Done
  <2> QED
    BY <2>2, <2>3
<1>12. CASE \E e \in Exec, n \in Node : NodeSucceeds(e, n)
  BY <1>1, <1>5, <1>12 DEF Abstract!Next, Abstract!Advance, Done
<1>13. CASE \E e \in Exec, n \in Node : NodeFails(e, n)
  BY <1>6, <1>13
<1> QED
  BY <1>3, <1>9, <1>10, <1>11, <1>12, <1>13

\* Executed by one executor at a time, for any number of nodes, executors,
\* deliveries and broken-off executions, the run is the abstract one.
THEOREM DagImplementsRun == Spec => ImplementsDagRun
<1>1. Init => Abstract!Init
  <2> SUFFICES ASSUME Init PROVE Abstract!Init
    OBVIOUS
  <2>1. PICK failureNode \in 0..Last : row = NewRow(failureNode)
    BY DEF Init
  <2>2. row.status = "running" /\ Completed(row.dag) = {}
    BY <2>1 DEF NewRow, NewDag, Completed
  <2> QED
    BY <2>2, FS_EmptySet DEF Abstract!Init
<1>2. Init => SnapshotInv /\ SerialInv
  BY SnapshotInit, SerialInit
<1>3. SnapshotInv /\ SerialInv /\ [Next]_vars => (SnapshotInv /\ SerialInv)'
  BY SnapshotStep, SerialStep
<1>4. SnapshotInv /\ SerialInv /\ [Next]_vars => [Abstract!Next]_(Abstract!vars)
  BY StepRefines
<1> QED
  BY <1>1, <1>2, <1>3, <1>4, PTL DEF Spec, ImplementsDagRun, Abstract!Spec
=============================================================================
