---------------------------- MODULE IndexProofs -----------------------------
(***************************************************************************)
(* Proofs about ChunkIndex, Throttle and Crawl, for any number of          *)
(* versions, runs, reviewers and faults, threads and limits, any site:     *)
(*                                                                         *)
(*   CurrentIndexIsTruthful - a version marked current is served the       *)
(*                            chunks its metadata call for;                *)
(*   SomeRunGoesOn          - runs never wait for each other in a circle,  *)
(*                            and none waits for chunks nobody can build;  *)
(*   LimitsAreHeld          - no more requests than the limit pass in a    *)
(*                            window, nor many more logins than lock;      *)
(*   ScansReachAll          - a scan brings what stays within reach once.  *)
(*                                                                         *)
(* What a run marks current it has built from the metadata it loaded, and  *)
(* writes both at once (RunFits).  All metadata can be built (Sane), as no *)
(* override is saved under a parent-child template.  Runs visit versions   *)
(* in one order, so that the run which has come furthest waits for nobody. *)
(* Whatever passes a limiter has left a stamp that is forgotten no sooner  *)
(* than it leaves the window (Stamped, Recorded).  What is as near as the  *)
(* next page in the queue of a scan has been visited or is in the queue at *)
(* its depth, and what was visited had its links followed (Covered).       *)
(***************************************************************************)
EXTENDS ChunkIndex, Throttle, Crawl, FiniteSetTheorems, FunctionTheorems, WellFoundedInduction,
        TLAPS

\* Metadata that can be built, with a revision some edit has given.
Sane(m) == m \in Meta /\ Buildable(m) /\ m.override.rev <= edits

\* A run that has visited a version has visited those before it, and what it
\* wrote it built from what it loaded.
RunFits(r) ==
  /\ r \in RunState
  /\ \A v \in Version : Sane(r.mem[v])
  /\ \A v \in Version : r.item[v] = "success" => r.new[v] = Built(r.mem[v])
  /\ \A v \in Version : r.item[v] # "none" =>
       v \in r.scope /\ \A u \in r.scope : u < v => r.item[u] # "none"
  /\ r.pc = "insert" =>
       /\ r.at \in r.scope /\ r.item[r.at] = "none"
       /\ \A u \in r.scope : r.item[u] = "none" => r.at <= u

IndexInv ==
  /\ TypeOK
  /\ \A i \in Indexer : RunFits(run[i])
  /\ \A v \in Version : Sane(meta[v])
  /\ \A d \in Editor : Sane(edit[d].mem)
  /\ CurrentIsTruthful

\* A run can take its next step: skip or delete, insert or fail, or commit.
\* These are the guards of Work.
CanGoOn(i) ==
  \/ run[i].pc = "visit" /\ Visited(i)
  \/ \E v \in Version :
       /\ run[i].pc = "visit" /\ VisitNext(i, v)
       /\ \/ v \in Empty \/ (~ run[i].force /\ AlreadyIndexed(i, v))
          \/ chunks[v].built => \A j \in Indexer \ {i} : ~ Deleting(j, v)
  \/ /\ run[i].pc = "insert"
     /\ \A j \in Indexer \ {i} : ~ Wrote(j, run[i].at)
     /\ Conflict(i, run[i].at) \/ Buildable(run[i].mem[run[i].at])

\* Of the runs that have begun one can go on: the others wait for it or for
\* each other, and never for good.
SomeGoesOn ==
  (\E i \in Indexer : run[i].pc # "idle") =>
    \E i \in Indexer : run[i].pc # "idle" /\ CanGoOn(i)

-----------------------------------------------------------------------------
(* Metadata and runs.                                                      *)

\* Every nonempty set of naturals has a least element.
LEMMA Least ==
  ASSUME NEW S \in SUBSET Nat, S # {}
  PROVE  \E n \in S : \A m \in S : n <= m
<1> DEFINE Less == {p \in Nat \X Nat : p[1] < p[2]}
<1>1. IsWellFoundedOn(Less, Nat)
  BY NatLessThanWellFounded DEF OpToRel
<1>2. \A m, n \in Nat : m < n => <<m, n>> \in Less
  OBVIOUS
<1> HIDE DEF Less
<1>3. PICK n \in S : \A m \in S : ~ (<<m, n>> \in Less)
  BY <1>1, WFMin
<1>4. \A m \in S : ~ (m < n)
  BY <1>2, <1>3
<1>5. \A m \in S : m \in Nat
  OBVIOUS
<1> QED
  BY <1>4, <1>5

\* Versions are numbers, the first of which is there.
LEMMA Versions == Version \subseteq Nat /\ 1 \in Version /\ Last \in Nat
BY LastAssumption DEF Version

\* Metadata nobody has edited can be built.
LEMMA NewIsSane == ASSUME edits \in Nat PROVE Sane(NewMeta)
<1>1. NoOverride \in Override /\ NoOverride.rev = 0
  BY BoundsAssumption DEF NoOverride, Override
<1>2. NewMeta \in Meta /\ NewMeta.override = NoOverride
  BY <1>1 DEF NewMeta, Meta, Template
<1> QED
  BY <1>1, <1>2 DEF Sane, Buildable

\* The chunks built from metadata are chunks.
LEMMA BuiltType == ASSUME NEW m \in Meta PROVE Built(m) \in Chunks
BY DEF Built, Configured, Meta, Chunks, Template

\* A run that has not begun, and the request of nobody, fit.
LEMMA NothingFits ==
  ASSUME edits \in Nat
  PROVE  RunFits(NoRun) /\ NoEdit \in EditState /\ Sane(NoEdit.mem)
<1>1. Sane(NewMeta) /\ NewMeta \in Meta
  BY NewIsSane DEF Sane
<1>2. NoChunks \in Chunks
  BY BoundsAssumption DEF NoChunks, Chunks, NoOverride, Override
<1>3. NoRun \in RunState
  BY <1>1, <1>2, LastAssumption DEF NoRun, RunState, Outcome
<1>4. RunFits(NoRun)
  BY <1>1, <1>3 DEF RunFits, NoRun
<1>5. NoEdit \in EditState /\ Sane(NoEdit.mem)
  BY <1>1, Versions DEF NoEdit, EditState
<1> QED
  BY <1>4, <1>5

\* What fits goes on to fit, as edits only grow.
LEMMA FitsLater ==
  ASSUME edits \in Nat, edits' \in Nat, edits <= edits'
  PROVE  /\ \A m : Sane(m) => Sane(m)'
         /\ \A r : RunFits(r) => RunFits(r)'
<1>1. \A m : Sane(m) => Sane(m)'
  <2> SUFFICES ASSUME NEW m, Sane(m) PROVE Sane(m)'
    OBVIOUS
  <2>1. m.override.rev \in Nat
    BY BoundsAssumption DEF Sane, Meta, Override
  <2> QED
    BY <2>1 DEF Sane, Buildable
<1>2. \A r : RunFits(r) => RunFits(r)'
  BY <1>1 DEF RunFits
<1> QED
  BY <1>1, <1>2

\* A step of one run that writes nothing for others to see.
LEMMA RunMoves ==
  ASSUME IndexInv, NEW i \in Indexer, NEW r, RunFits(r),
         run' = [run EXCEPT ![i] = r], runs' \in 0..MaxRuns, faults' \in 0..MaxFaults,
         UNCHANGED <<meta, chunks, edited, edit, edits, locking>>
  PROVE  IndexInv'
<1>1. \A m : Sane(m) => Sane(m)'
  BY DEF Sane, Buildable
<1>2. \A q : RunFits(q) => RunFits(q)'
  BY <1>1 DEF RunFits
<1>3. run \in [Indexer -> RunState] /\ r \in RunState
  BY DEF IndexInv, TypeOK, RunFits
<1>4. \A j \in Indexer : run'[j] = IF j = i THEN r ELSE run[j]
  BY <1>3
<1>5. TypeOK'
  BY <1>3 DEF IndexInv, TypeOK
<1>6. \A j \in Indexer : RunFits(run[j])'
  BY <1>2, <1>4 DEF IndexInv
<1>7. CurrentIsTruthful'
  BY DEF IndexInv, CurrentIsTruthful
<1> QED
  BY <1>1, <1>5, <1>6, <1>7 DEF IndexInv

-----------------------------------------------------------------------------
(* The steps of a run.                                                     *)

\* What every step of a run begins with.
LEMMA RunAt ==
  ASSUME IndexInv, NEW i \in Indexer
  PROVE  /\ run \in [Indexer -> RunState] /\ run[i] \in RunState /\ RunFits(run[i])
         /\ edits \in Nat /\ runs \in 0..MaxRuns /\ faults \in 0..MaxFaults
         /\ MaxRuns \in Nat /\ MaxFaults \in Nat
BY BoundsAssumption DEF IndexInv, TypeOK

\* A run that starts has visited nothing and has loaded what can be built.
LEMMA StartStep ==
  ASSUME IndexInv, NEW i \in Indexer, NEW scope \in SUBSET Version, NEW force \in BOOLEAN,
         Start(i, scope, force)
  PROVE  IndexInv'
<1>1. PICK r : r = [NoRun EXCEPT !.pc = "visit", !.scope = scope,
                                 !.force = force, !.mem = meta]
  OBVIOUS
<1>2. RunFits(NoRun) /\ \A v \in Version : Sane(meta[v])
  BY RunAt, NothingFits DEF IndexInv
<1>3. meta \in [Version -> Meta] /\ NoRun \in RunState
  BY <1>2 DEF IndexInv, TypeOK, RunFits
<1>4. /\ r \in RunState /\ r.mem = meta /\ r.pc = "visit"
      /\ r.item = [v \in Version |-> "none"]
  BY <1>1, <1>3 DEF RunState, NoRun
<1>5. RunFits(r)
  BY <1>2, <1>4 DEF RunFits
<1>6. run' = [run EXCEPT ![i] = r] /\ runs' \in 0..MaxRuns /\ faults' \in 0..MaxFaults
  BY <1>1, RunAt DEF Start
<1> QED
  BY <1>5, <1>6, RunMoves DEF Start

\* A version visited next is visited in order.
LEMMA VisitInOrder ==
  ASSUME NEW r, RunFits(r), NEW v \in r.scope, NEW o \in Outcome \ {"none", "success"},
         r.pc # "idle", r.item[v] = "none", \A u \in r.scope : r.item[u] = "none" => v <= u
  PROVE  RunFits([r EXCEPT !.pc = "visit", !.item[v] = o])
<1>1. PICK q : q = [r EXCEPT !.pc = "visit", !.item[v] = o]
  OBVIOUS
<1>2. /\ r \in RunState /\ v \in Version /\ r.item \in [Version -> Outcome]
      /\ r.scope \subseteq Version
  BY DEF RunFits, RunState
<1>3. /\ q \in RunState /\ q.pc = "visit" /\ q.scope = r.scope /\ q.mem = r.mem
      /\ q.new = r.new /\ q.item = [r.item EXCEPT ![v] = o]
  BY <1>1, <1>2 DEF RunState
<1>4. \A u \in Version : q.item[u] = IF u = v THEN o ELSE r.item[u]
  BY <1>2, <1>3
<1>5. ASSUME NEW u \in Version, q.item[u] # "none"
      PROVE  u \in q.scope /\ \A w \in q.scope : w < u => q.item[w] # "none"
  <2>1. o # "none"
    OBVIOUS
  <2>2. CASE u = v
    <3>1. ASSUME NEW w \in r.scope, w < v PROVE r.item[w] # "none"
      <4>1. w \in Nat /\ v \in Nat
        BY <1>2, Versions
      <4> QED
        BY <3>1, <4>1
    <3> QED
      BY <1>2, <1>3, <1>4, <2>1, <2>2, <3>1
  <2>3. CASE u # v
    <3>1. r.item[u] # "none"
      BY <1>4, <1>5, <2>3
    <3>2. u \in r.scope /\ \A w \in r.scope : w < u => r.item[w] # "none"
      BY <3>1 DEF RunFits
    <3> QED
      BY <1>2, <1>3, <1>4, <2>1, <3>2
  <2> QED
    BY <2>2, <2>3
<1>6. \A u \in Version : q.item[u] = "success" => q.new[u] = Built(q.mem[u])
  BY <1>3, <1>4 DEF RunFits
<1>7. \A u \in Version : Sane(q.mem[u])
  BY <1>3 DEF RunFits
<1> QED
  BY <1>1, <1>3, <1>5, <1>6, <1>7 DEF RunFits

\* A version that is skipped.
LEMMA SkipStep ==
  ASSUME IndexInv, NEW i \in Indexer, NEW v \in Version, Skip(i, v)
  PROVE  IndexInv'
<1>1. PICK r : r = [run[i] EXCEPT !.pc = "visit", !.item[v] = "skipped"]
  OBVIOUS
<1>2. RunFits(r)
  <2>1. /\ run[i].pc = "visit" /\ v \in run[i].scope /\ run[i].item[v] = "none"
        /\ \A u \in run[i].scope : run[i].item[u] = "none" => v <= u
    BY DEF Skip, VisitNext
  <2>2. "skipped" \in Outcome \ {"none", "success"}
    BY DEF Outcome
  <2> QED
    BY <1>1, <2>1, <2>2, RunAt, VisitInOrder
<1>3. run' = [run EXCEPT ![i] = r]
  <2>1. run[i] \in RunState /\ run[i].pc = "visit"
    BY RunAt DEF Skip
  <2>2. r = [run[i] EXCEPT !.item[v] = "skipped"]
    BY <1>1, <2>1 DEF RunState
  <2>3. run' = [run EXCEPT ![i].item[v] = "skipped"] /\ run \in [Indexer -> RunState]
    BY RunAt DEF Skip
  <2> QED
    BY <2>2, <2>3
<1> QED
  BY <1>2, <1>3, RunAt, RunMoves DEF Skip

\* A version whose rows are deleted is the one to insert.
LEMMA DeleteStep ==
  ASSUME IndexInv, NEW i \in Indexer, NEW v \in Version, Delete(i, v)
  PROVE  IndexInv'
<1> DEFINE old == run[i]
<1>0. PICK c : c = chunks[v]
  OBVIOUS
<1>1. PICK r : r = [old EXCEPT !.pc = "insert", !.at = v, !.deleted[v] = c]
  OBVIOUS
<1>2. run[i] \in RunState /\ RunFits(run[i])
  BY RunAt
<1>3. c \in Chunks /\ v \in 1..Last + 1
  BY <1>0, LastAssumption DEF IndexInv, TypeOK, Version
<1>4. /\ r \in RunState /\ r.pc = "insert" /\ r.at = v /\ r.item = run[i].item
      /\ r.scope = run[i].scope /\ r.mem = run[i].mem /\ r.new = run[i].new
  BY <1>1, <1>2, <1>3 DEF RunState
<1>5. /\ v \in run[i].scope /\ run[i].item[v] = "none"
      /\ \A u \in run[i].scope : run[i].item[u] = "none" => v <= u
  BY DEF Delete, VisitNext
<1>6. RunFits(r)
  BY <1>2, <1>4, <1>5 DEF RunFits
<1>7. run' = [run EXCEPT ![i] = r]
  <2>1. run' = [run EXCEPT ![i].pc = "insert", ![i].at = v, ![i].deleted[v] = c]
    BY <1>0 DEF Delete
  <2>2. run \in [Indexer -> RunState]
    BY RunAt
  <2> QED
    BY <1>1, <2>1, <2>2 DEF RunState
<1> QED
  BY <1>6, <1>7, RunAt, RunMoves DEF Delete

\* Generated: what is inserted is what was loaded calls for.
LEMMA InsertStep ==
  ASSUME IndexInv, NEW i \in Indexer, Insert(i)
  PROVE  IndexInv'
<1> DEFINE old == run[i]
           v == run[i].at
<1>1. /\ old \in RunState /\ RunFits(old)
      /\ old.pc = "insert" /\ v \in old.scope /\ old.item[v] = "none"
      /\ \A u \in old.scope : old.item[u] = "none" => v <= u
  BY RunAt DEF Insert, RunFits
<1>2. PICK b : b = Built(old.mem[v])
  OBVIOUS
<1>3. PICK r : r = [old EXCEPT !.pc = "visit", !.item[v] = "success", !.new[v] = b]
  OBVIOUS
<1>4. /\ v \in Version /\ old.item \in [Version -> Outcome] /\ old.new \in [Version -> Chunks]
      /\ old.scope \subseteq Version /\ old.mem \in [Version -> Meta]
  BY <1>1 DEF RunState
<1>5. b \in Chunks
  BY <1>2, <1>4, BuiltType
<1>6. /\ r \in RunState /\ r.pc = "visit" /\ r.scope = old.scope /\ r.mem = old.mem
      /\ r.item = [old.item EXCEPT ![v] = "success"] /\ r.new = [old.new EXCEPT ![v] = b]
  BY <1>1, <1>3, <1>4, <1>5 DEF RunState, Outcome
<1>7. \A u \in Version : /\ r.item[u] = IF u = v THEN "success" ELSE old.item[u]
                         /\ r.new[u] = IF u = v THEN b ELSE old.new[u]
  BY <1>4, <1>6
<1>8. \A u \in Version : r.item[u] = "success" => r.new[u] = Built(r.mem[u])
  BY <1>1, <1>2, <1>6, <1>7 DEF RunFits
<1>9. ASSUME NEW u \in Version, r.item[u] # "none"
      PROVE  u \in r.scope /\ \A w \in r.scope : w < u => r.item[w] # "none"
  <2>1. CASE u = v
    <3>1. ASSUME NEW w \in old.scope, w < v PROVE old.item[w] # "none"
      <4>1. w \in Nat /\ v \in Nat
        BY <1>4, Versions
      <4>2. ~ (v <= w)
        BY <3>1, <4>1
      <4> QED
        BY <1>1, <4>2
    <3> QED
      BY <1>1, <1>4, <1>6, <1>7, <2>1, <3>1
  <2>2. CASE u # v
    <3>1. old.item[u] # "none"
      BY <1>7, <1>9, <2>2
    <3>2. u \in old.scope /\ \A w \in old.scope : w < u => old.item[w] # "none"
      BY <1>1, <3>1 DEF RunFits
    <3> QED
      BY <1>4, <1>6, <1>7, <3>2
  <2> QED
    BY <2>1, <2>2
<1>10. \A u \in Version : Sane(r.mem[u])
  BY <1>1, <1>6 DEF RunFits
<1>11. RunFits(r)
  BY <1>6, <1>8, <1>9, <1>10 DEF RunFits
<1>12. run' = [run EXCEPT ![i] = r]
  BY <1>2, <1>3, RunAt DEF Insert, RunState
<1> QED
  BY <1>11, <1>12, RunAt, RunMoves DEF Insert

\* A version whose savepoint is rolled back is visited too.
LEMMA FailedStep ==
  ASSUME IndexInv, NEW i \in Indexer, Fail(i) \/ ProviderFails(i)
  PROVE  IndexInv'
<1>1. PICK v : v = run[i].at
  OBVIOUS
<1>2. PICK r : r = [run[i] EXCEPT !.pc = "visit", !.item[v] = "failed"]
  OBVIOUS
<1>3. RunFits(r)
  <2>1. /\ run[i].pc = "insert" /\ v \in run[i].scope /\ run[i].item[v] = "none"
        /\ \A u \in run[i].scope : run[i].item[u] = "none" => v <= u
    BY <1>1, RunAt DEF Fail, ProviderFails, RunFits
  <2>2. "failed" \in Outcome \ {"none", "success"}
    BY DEF Outcome
  <2> QED
    BY <1>2, <2>1, <2>2, RunAt, VisitInOrder
<1>4. run' = [run EXCEPT ![i] = r]
  BY <1>1, <1>2, RunAt DEF Fail, ProviderFails, Failed, RunState
<1>5. runs' \in 0..MaxRuns /\ faults' \in 0..MaxFaults
  BY RunAt DEF Fail, ProviderFails
<1> QED
  BY <1>3, <1>4, <1>5, RunMoves DEF Fail, ProviderFails

\* A run that is broken off leaves nothing.
LEMMA BreakOffStep ==
  ASSUME IndexInv, NEW i \in Indexer, BreakOff(i)
  PROVE  IndexInv'
<1>1. runs' \in 0..MaxRuns /\ faults' \in 0..MaxFaults
  BY RunAt DEF BreakOff
<1> QED
  BY <1>1, RunAt, NothingFits, RunMoves DEF BreakOff

\* A run that commits publishes chunks together with the metadata they were
\* built from.
LEMMA CommitStep ==
  ASSUME IndexInv, NEW i \in Indexer, Commit(i)
  PROVE  IndexInv'
<1>1. /\ RunFits(run[i]) /\ run[i] \in RunState /\ edits \in Nat
      /\ RunFits(NoRun) /\ run \in [Indexer -> RunState]
  BY RunAt, NothingFits
<1>2. UNCHANGED <<edited, edit, edits, runs, faults, locking>>
  BY DEF Commit
<1>3. (\A m : Sane(m) => Sane(m)') /\ \A q : RunFits(q) => RunFits(q)'
  BY <1>1, <1>2, FitsLater
<1>4. \A v \in Version : Wrote(i, v) => run[i].new[v] = Built(run[i].mem[v])
  BY <1>1 DEF RunFits, Wrote
<1>5. \A v \in Version : run[i].new[v] \in Chunks /\ Sane(run[i].mem[v])
  BY <1>1 DEF RunFits, RunState
<1>6. ASSUME NEW v \in Version
      PROVE  Sane(Marked(i, v)) /\ Built(Marked(i, v)) = Built(run[i].mem[v])
  <2>1. PICK m : m = run[i].mem[v]
    OBVIOUS
  <2>2. PICK n : n = [m EXCEPT !.status = "current"]
    OBVIOUS
  <2>3. Sane(m) /\ m \in Meta
    BY <1>5, <2>1 DEF Sane
  <2>4. n \in Meta /\ n.override = m.override /\ n.template = m.template
    BY <2>2, <2>3 DEF Meta
  <2> QED
    BY <2>1, <2>2, <2>3, <2>4 DEF Marked, Sane, Built, Buildable, Configured
<1>7. \A v \in Version : /\ meta'[v] = IF Wrote(i, v) THEN Marked(i, v) ELSE meta[v]
                         /\ chunks'[v] = IF Wrote(i, v) THEN run[i].new[v] ELSE chunks[v]
  BY DEF Commit
<1>8. \A v \in Version : Sane(meta[v]) /\ chunks[v] \in Chunks
  BY DEF IndexInv, TypeOK
<1>9. \A v \in Version : Sane(meta'[v]) /\ chunks'[v] \in Chunks
  BY <1>5, <1>6, <1>7, <1>8
<1>10. \A v \in Version : Sane(meta[v])'
  BY <1>3, <1>9
<1>11. \A j \in Indexer : run'[j] = IF j = i THEN NoRun ELSE run[j]
  BY <1>1 DEF Commit
<1>12. \A j \in Indexer : RunFits(run[j])'
  BY <1>1, <1>3, <1>11 DEF IndexInv
<1>13. TypeOK'
  <2>1. meta' \in [Version -> Meta]
    BY <1>9 DEF Commit, Sane
  <2>2. chunks' \in [Version -> Chunks]
    BY <1>9 DEF Commit
  <2>3. run' \in [Indexer -> RunState]
    BY <1>1 DEF Commit, RunFits
  <2> QED
    BY <1>2, <2>1, <2>2, <2>3 DEF IndexInv, TypeOK
<1>14. \A d \in Editor : Sane(edit[d].mem)'
  BY <1>2, <1>3 DEF IndexInv
<1>15. ASSUME NEW v \in Version, meta'[v].status = "current"
       PROVE  chunks'[v] = Built(meta'[v])
  <2>1. CASE Wrote(i, v)
    BY <1>4, <1>6, <1>7, <2>1
  <2>2. CASE ~ Wrote(i, v)
    BY <1>7, <1>15, <2>2 DEF IndexInv, CurrentIsTruthful
  <2> QED
    BY <2>1, <2>2
<1>16. CurrentIsTruthful'
  BY <1>15 DEF CurrentIsTruthful, Built, Configured
<1> QED
  BY <1>10, <1>12, <1>13, <1>14, <1>16 DEF IndexInv

-----------------------------------------------------------------------------
(* The steps of a reviewer.                                                *)

\* A request that reads a version has read what can be built.
LEMMA ReadStep ==
  ASSUME IndexInv, NEW d \in Editor, NEW v \in Version, NEW op \in {"save", "reset"},
         Read(d, v, op)
  PROVE  IndexInv'
<1>1. PICK e : e = [pc |-> op, version |-> v, mem |-> meta[v]]
  OBVIOUS
<1>2. edit \in [Editor -> EditState] /\ edits \in Nat /\ Sane(meta[v]) /\ meta[v] \in Meta
  BY BoundsAssumption DEF IndexInv, TypeOK
<1>3. UNCHANGED <<meta, chunks, edited, run, edits, runs, faults, locking>>
  BY DEF Read
<1>4. e \in EditState /\ Sane(e.mem)
  BY <1>1, <1>2 DEF EditState
<1>5. edit' = [edit EXCEPT ![d] = e]
  BY <1>1 DEF Read
<1>6. \A c \in Editor : edit'[c] = IF c = d THEN e ELSE edit[c]
  BY <1>2, <1>5
<1>7. (\A m : Sane(m) => Sane(m)') /\ \A q : RunFits(q) => RunFits(q)'
  BY <1>2, <1>3, FitsLater
<1>8. \A c \in Editor : Sane(edit[c].mem)'
  BY <1>4, <1>6, <1>7 DEF IndexInv
<1>9. TypeOK'
  BY <1>2, <1>3, <1>4, <1>5 DEF IndexInv, TypeOK
<1>10. CurrentIsTruthful'
  BY <1>3 DEF IndexInv, CurrentIsTruthful
<1> QED
  BY <1>3, <1>7, <1>8, <1>9, <1>10 DEF IndexInv

\* A request that writes marks its version stale, and leaves what can be built.
LEMMA WriteStep ==
  ASSUME IndexInv, NEW d \in Editor, NEW new \in Meta, NEW e \in 0..edits + 1,
         Buildable(new), new.override.rev <= edits + 1, new.status = "stale",
         Write(d, new, e)
  PROVE  IndexInv'
<1> DEFINE v == edit[d].version
<1>1. /\ edit \in [Editor -> EditState] /\ edits \in Nat /\ MaxEdits \in Nat
      /\ edits < MaxEdits /\ meta \in [Version -> Meta] /\ v \in Version
  BY BoundsAssumption DEF IndexInv, TypeOK, EditState, Write
<1>2. UNCHANGED <<chunks, run, runs, faults, locking>> /\ edits' = edits + 1
  BY DEF Write
<1>3. /\ edits' \in 0..MaxEdits /\ edits <= edits' /\ e \in 0..MaxEdits
      /\ edits' \in Nat
  BY <1>1, <1>2
<1>4. (\A m : Sane(m) => Sane(m)') /\ \A q : RunFits(q) => RunFits(q)'
  BY <1>1, <1>3, FitsLater
<1>5. Sane(new)'
  BY <1>2 DEF Sane, Buildable
<1>6. \A u \in Version : meta'[u] = IF u = v THEN new ELSE meta[u]
  BY <1>1 DEF Write
<1>7. \A u \in Version : Sane(meta[u])'
  BY <1>4, <1>5, <1>6 DEF IndexInv
<1>8. \A c \in Editor : edit'[c] = IF c = d THEN NoEdit ELSE edit[c]
  BY <1>1 DEF Write
<1>9. \A c \in Editor : Sane(edit[c].mem)'
  <2>1. Sane(NoEdit.mem)
    BY <1>1, NothingFits
  <2> QED
    BY <1>4, <1>8, <2>1 DEF IndexInv
<1>10. TypeOK'
  <2>1. meta' \in [Version -> Meta] /\ edited' \in [Version -> 0..MaxEdits]
    BY <1>1, <1>3 DEF IndexInv, TypeOK, Write
  <2>2. edit' \in [Editor -> EditState]
    BY <1>1, NothingFits DEF Write
  <2> QED
    BY <1>2, <1>3, <2>1, <2>2 DEF IndexInv, TypeOK
<1>11. CurrentIsTruthful'
  BY <1>2, <1>6 DEF IndexInv, CurrentIsTruthful, Built, Configured
<1>12. \A i \in Indexer : RunFits(run[i])'
  BY <1>2, <1>4 DEF IndexInv
<1> QED
  BY <1>7, <1>9, <1>10, <1>11, <1>12 DEF IndexInv

\* A save goes under a flat template.
LEMMA SaveStep ==
  ASSUME IndexInv, NEW d \in Editor, SaveOverride(d)
  PROVE  IndexInv'
<1>1. PICK m : m = edit[d].mem
  OBVIOUS
<1>2. PICK new : new = Saved(m, "flat")
  OBVIOUS
<1>3. edits \in Nat /\ MaxEdits \in Nat /\ edits < MaxEdits
  BY BoundsAssumption DEF IndexInv, TypeOK, SaveOverride, Write
<1>4. m \in Meta /\ m.override.rev \in Nat /\ m.override.rev <= edits
  BY <1>1, <1>3 DEF IndexInv, Sane, Meta, Override
<1>5. /\ new.override = [edit |-> edits + 1, rev |-> m.override.rev + 1]
      /\ new.template = "flat" /\ new.status = "stale"
      /\ new = [override |-> new.override, template |-> new.template, status |-> new.status]
  BY <1>2 DEF Saved
<1>6. new.override \in Override /\ new.override.rev <= edits + 1
  BY <1>3, <1>4, <1>5 DEF Override
<1>7. new \in Meta /\ Buildable(new)
  BY <1>5, <1>6 DEF Meta, Template, Buildable, Configured
<1>8. Write(d, new, edits + 1) /\ edits + 1 \in 0..edits + 1
  BY <1>1, <1>2, <1>3 DEF SaveOverride
<1> QED
  BY <1>5, <1>6, <1>7, <1>8, WriteStep

\* A reset leaves no override.
LEMMA ResetStep ==
  ASSUME IndexInv, NEW d \in Editor, NEW t \in {"flat", "parent"}, ResetOverride(d, t)
  PROVE  IndexInv'
<1>1. PICK m : m = edit[d].mem
  OBVIOUS
<1>2. PICK new : new = Reset(m, t)
  OBVIOUS
<1>3. edits \in Nat /\ m \in Meta
  BY <1>1, BoundsAssumption DEF IndexInv, TypeOK, Sane
<1>4. NoOverride \in Override /\ NoOverride.rev = 0
  BY BoundsAssumption DEF NoOverride, Override
<1>5. new \in Meta /\ new.override = NoOverride /\ new.status = "stale"
  BY <1>2, <1>3, <1>4 DEF Reset, Meta, Template
<1>6. Buildable(new) /\ new.override.rev <= edits + 1 /\ 0 \in 0..edits + 1
  BY <1>3, <1>4, <1>5 DEF Buildable
<1>7. Write(d, new, 0)
  BY <1>1, <1>2 DEF ResetOverride
<1> QED
  BY <1>5, <1>6, <1>7, WriteStep

\* Every step keeps the invariant.
LEMMA IndexStep == IndexInv /\ [Next]_vars => IndexInv'
<1> SUFFICES ASSUME IndexInv, [Next]_vars PROVE IndexInv'
  OBVIOUS
<1>1. ASSUME NEW i \in Indexer, Index(i) PROVE IndexInv'
  <2>1. CASE \E v \in Version : Skip(i, v) \/ Delete(i, v)
    BY <2>1, SkipStep, DeleteStep
  <2>2. CASE Insert(i) \/ Fail(i) \/ ProviderFails(i)
    BY <2>2, InsertStep, FailedStep
  <2>3. CASE Commit(i) \/ BreakOff(i)
    BY <2>3, CommitStep, BreakOffStep
  <2>4. CASE Start(i, Version, FALSE) \/ \E v \in Version : Start(i, {v}, TRUE)
    BY <2>4, StartStep
  <2> QED
    BY <1>1, <2>1, <2>2, <2>3, <2>4 DEF Index, Work
<1>2. ASSUME NEW d \in Editor, Review(d) PROVE IndexInv'
  BY <1>2, ReadStep, SaveStep, ResetStep DEF Review
<1>3. CASE UNCHANGED vars
  <2>1. /\ \A m : Sane(m) => Sane(m)'
        /\ \A q : RunFits(q) => RunFits(q)'
    BY <1>3 DEF vars, RunFits, Sane, Buildable
  <2> QED
    BY <1>3, <2>1 DEF vars, IndexInv, TypeOK, CurrentIsTruthful
<1> QED
  BY <1>1, <1>2, <1>3 DEF Next

\* Nothing is indexed at first.
LEMMA IndexInit == Init => IndexInv
<1> SUFFICES ASSUME Init PROVE IndexInv
  OBVIOUS
<1>1. /\ edits = 0 /\ edits \in Nat /\ 0 \in 0..MaxEdits /\ 0 \in 0..MaxRuns
      /\ 0 \in 0..MaxFaults
  BY BoundsAssumption DEF Init
<1>2. /\ RunFits(NoRun) /\ NoEdit \in EditState /\ Sane(NoEdit.mem)
      /\ Sane(NewMeta)
  BY <1>1, NothingFits, NewIsSane
<1>3. NewMeta \in Meta /\ NoRun \in RunState /\ NewMeta.status = "unknown"
  BY <1>2 DEF Sane, RunFits, NewMeta
<1>4. NoChunks \in Chunks
  BY BoundsAssumption DEF NoChunks, Chunks, NoOverride, Override
<1>5. TypeOK
  BY <1>1, <1>2, <1>3, <1>4 DEF Init, TypeOK
<1> QED
  BY <1>2, <1>3, <1>5 DEF Init, IndexInv, CurrentIsTruthful

-----------------------------------------------------------------------------
(* Waiting.                                                                *)

\* A run that visits goes on when nobody works on what it has yet to visit.
LEMMA VisitorGoesOn ==
  ASSUME IndexInv, NEW i \in Indexer, run[i].pc = "visit",
         \A w \in run[i].scope : run[i].item[w] = "none" =>
           \A j \in Indexer : ~ Deleting(j, w)
  PROVE  CanGoOn(i)
<1> DEFINE left == {w \in run[i].scope : run[i].item[w] = "none"}
<1>1. run[i].scope \subseteq Version /\ Version \subseteq Nat
  BY RunAt, Versions DEF RunState
<1>2. CASE left = {}
  BY <1>2 DEF CanGoOn, Visited
<1>3. CASE left # {}
  <2>1. left \in SUBSET Nat
    BY <1>1
  <2>2. PICK v \in left : \A w \in left : v <= w
    BY <1>3, <2>1, Least
  <2>3. v \in Version /\ VisitNext(i, v) /\ \A j \in Indexer : ~ Deleting(j, v)
    BY <1>1, <2>2 DEF VisitNext
  <2> QED
    BY <2>3 DEF CanGoOn
<1> QED
  BY <1>2, <1>3

\* A run has nothing left to visit up to a version it has written.
LEMMA WrittenInOrder ==
  ASSUME IndexInv, NEW i \in Indexer, NEW v \in Version, Wrote(i, v),
         NEW w \in run[i].scope, run[i].item[w] = "none"
  PROVE  v < w
<1>1. RunFits(run[i]) /\ run[i].item[v] = "success"
  BY RunAt DEF Wrote
<1>2. w # v /\ ~ (w < v)
  BY <1>1 DEF RunFits
<1>3. w \in Nat /\ v \in Nat
  BY <1>1, Versions DEF RunFits, RunState
<1> QED
  BY <1>2, <1>3

\* Of the versions some run works on take the last.  A run that has written it
\* has only later ones to visit, on which nobody works; when nobody has written
\* it, the run about to do so waits for nobody.
LEMMA OneGoesOn == IndexInv => SomeGoesOn
<1> SUFFICES ASSUME IndexInv, NEW a \in Indexer, run[a].pc # "idle"
             PROVE  \E i \in Indexer : run[i].pc # "idle" /\ CanGoOn(i)
  BY DEF SomeGoesOn
<1> DEFINE inWork == {v \in Version : \E i \in Indexer : Deleting(i, v)}
<1>1. \A i \in Indexer : run[i].pc \in {"idle", "visit", "insert"}
  BY RunAt DEF RunState
<1>2. \A i \in Indexer : run[i].pc = "insert" =>
        /\ run[i].at \in inWork /\ run[i].at \in run[i].scope
        /\ run[i].item[run[i].at] = "none"
  BY RunAt DEF RunFits, RunState, Deleting
<1>3. \A i \in Indexer : run[i].scope \subseteq Version
  BY RunAt DEF RunState
<1>4. CASE inWork = {}
  <2>1. run[a].pc = "visit"
    BY <1>1, <1>2, <1>4
  <2>2. \A w \in run[a].scope : \A j \in Indexer : ~ Deleting(j, w)
    BY <1>3, <1>4
  <2> QED
    BY <2>1, <2>2, VisitorGoesOn
<1>5. CASE inWork # {}
  <2>1. PICK v \in inWork : \A w \in inWork : w <= v
    <3> DEFINE gap == {Last - w : w \in inWork}
    <3>1. Last \in Nat /\ \A w \in inWork : w \in Nat /\ w <= Last
      BY LastAssumption DEF Version
    <3>2. gap \in SUBSET Nat /\ gap # {}
      BY <1>5, <3>1
    <3>3. PICK n \in gap : \A m \in gap : n <= m
      BY <3>2, Least
    <3>4. PICK v \in inWork : n = Last - v
      BY <3>3
    <3>5. \A w \in inWork : Last - v <= Last - w
      BY <3>3, <3>4
    <3> QED
      BY <3>1, <3>5
  <2>2. v \in Version
    BY <2>1
  <2>3. CASE \E i \in Indexer : Wrote(i, v)
    <3>1. PICK i \in Indexer : Wrote(i, v)
      BY <2>3
    <3>2. \A w \in run[i].scope : run[i].item[w] = "none" => w \notin inWork
      <4>1. \A w \in run[i].scope : run[i].item[w] = "none" => v < w
        BY <2>2, <3>1, WrittenInOrder
      <4>2. \A w \in inWork : w \in Nat
        BY Versions
      <4> QED
        BY <2>1, <4>1, <4>2
    <3>3. run[i].pc = "visit"
      BY <1>1, <1>2, <3>1, <3>2 DEF Wrote
    <3>4. \A w \in run[i].scope : run[i].item[w] = "none" =>
            \A j \in Indexer : ~ Deleting(j, w)
      BY <1>3, <3>2
    <3> QED
      BY <3>3, <3>4, VisitorGoesOn
  <2>4. CASE ~ \E i \in Indexer : Wrote(i, v)
    <3>1. PICK i \in Indexer : run[i].pc = "insert" /\ run[i].at = v
      BY <2>1, <2>4 DEF Deleting
    <3>2. Buildable(run[i].mem[v])
      BY <2>2, RunAt DEF RunFits, Sane
    <3> QED
      BY <2>4, <3>1, <3>2 DEF CanGoOn
  <2> QED
    BY <2>3, <2>4
<1> QED
  BY <1>4, <1>5

-----------------------------------------------------------------------------
(* Theorems.                                                               *)

\* Versions, chunks, runs and requests keep their types
\* (db/models/corpus.py:90-160, indexing/pipeline.py:563-892).
THEOREM IndexTypes == Spec => []TypeOK
<1>1. IndexInv => TypeOK
  BY DEF IndexInv
<1> QED
  BY <1>1, IndexInit, IndexStep, PTL DEF Spec

\* A version whose metadata say that its index is current has the chunks its
\* override and template call for, however runs, saves, resets and faults meet
\* (chunking_overrides.py:112-135, indexing/pipeline.py:482-486).
THEOREM CurrentIndexIsTruthful == Spec => []CurrentIsTruthful
<1>1. IndexInv => CurrentIsTruthful
  BY DEF IndexInv
<1> QED
  BY <1>1, IndexInit, IndexStep, PTL DEF Spec

\* At any time some run of those under way can take its next step: visiting the
\* versions in one order keeps runs from waiting in a circle for the rows of
\* each other, and what a run has loaded can be built
\* (repositories/document.py:90, indexing/pipeline.py:191-260).
THEOREM SomeRunGoesOn == Spec => []SomeGoesOn
BY IndexInit, IndexStep, OneGoesOn, PTL DEF Spec

-----------------------------------------------------------------------------
(* The limiters.                                                           *)

\* What was let through since a time, and which stamps are as late as that.
PassedSince(at, b) == Passes(at, {m \in Time : m >= b})
StampsSince(s, b) == {i \in DOMAIN s : s[i] >= b}
Recent(b) == b \in Time /\ b + Window > clock
Verifying == {t \in Thread : thread[t].pc \in {"verify", "record"}}

ThrottleTypes ==
  /\ clock \in Time
  /\ stamps \in Seq(Time)
  /\ login \in [failures: Seq(Time), until: Nat]
  /\ thread \in [Thread -> [pc: {"idle", "allow", "check", "verify", "record"}, now: Time]]
  /\ admitted \in [Time -> Nat] /\ guesses \in [Time -> Nat]
  /\ late \in BOOLEAN
  /\ \A t \in Thread : thread[t].now <= clock
  /\ \A i \in DOMAIN login.failures : login.failures[i] <= clock
  /\ \A m \in Time : m > clock => admitted[m] = 0 /\ guesses[m] = 0
  /\ IsFiniteSet(PassedSince(admitted, 0)) /\ IsFiniteSet(PassedSince(guesses, 0))

\* Whatever has been admitted of late has its stamp.
Stamped ==
  \A b \in Time : Recent(b) =>
    Cardinality(PassedSince(admitted, b)) <= Cardinality(StampsSince(stamps, b))

\* Before the lock: whatever attempt has passed of late has its failure, or its thread.
Recorded ==
  login.until = 0 =>
    /\ Len(login.failures) < MaxFailures
    /\ \A b \in Time : Recent(b) =>
         Cardinality(PassedSince(guesses, b)) <=
           Cardinality(StampsSince(login.failures, b)) + Cardinality(Verifying)

\* Since the lock: nothing has passed.
LockedOut ==
  login.until # 0 =>
    /\ \A m \in Time : guesses[m] # 0 => m + Lockout <= login.until
    /\ \A i \in DOMAIN login.failures : login.failures[i] + Lockout <= login.until

GuessInv == (Lockout >= Window /\ ~ late) => Recorded /\ LockedOut
ThrottleInv == ThrottleTypes /\ Stamped /\ GuessInv /\ RateHolds /\ GuessesBounded

-----------------------------------------------------------------------------

LEMMA TimeIs ==
  Time \subseteq Nat /\ 0 \in Time /\ MaxTime \in Nat /\ \A b \in Time : b \in Nat /\ b >= 0 /\ b <= MaxTime
BY ThrottleAssumption DEF Time

LEMMA PassedIs ==
  ASSUME NEW at, NEW b
  PROVE  PassedSince(at, b) = {p \in UNION {{m} \X (1..at[m]) : m \in Time} : p[1] >= b}
BY DEF PassedSince, Passes

LEMMA PassedFinite ==
  ASSUME NEW at, IsFiniteSet(PassedSince(at, 0)), NEW b \in Time
  PROVE  IsFiniteSet(PassedSince(at, b)) /\ Cardinality(PassedSince(at, b)) \in Nat
<1>1. PassedSince(at, b) \in SUBSET PassedSince(at, 0)
  <2>1. {m \in Time : m >= b} \subseteq {m \in Time : m >= 0}
    BY TimeIs
  <2> QED BY <2>1 DEF PassedSince, Passes
<1> QED BY <1>1, FS_Subset, FS_CardinalityType

\* What passes at one more time, or another at the same, is one more.
LEMMA OneMore ==
  ASSUME NEW at \in [Time -> Nat], IsFiniteSet(PassedSince(at, 0)), NEW t \in Time,
         NEW new, new = [at EXCEPT ![t] = @ + 1]
  PROVE  /\ new \in [Time -> Nat] /\ IsFiniteSet(PassedSince(new, 0))
         /\ \A b \in Time : Cardinality(PassedSince(new, b)) <= Cardinality(PassedSince(at, b)) + 1
<1>1. new \in [Time -> Nat] /\ new[t] = at[t] + 1 /\ \A m \in Time : m # t => new[m] = at[m]
  OBVIOUS
<1>2. PICK x : x = <<t, at[t] + 1>>
  OBVIOUS
<1>3. ASSUME NEW b \in Time
      PROVE  /\ IsFiniteSet(PassedSince(new, b))
             /\ Cardinality(PassedSince(new, b)) <= Cardinality(PassedSince(at, b)) + 1
  <2>1. PassedSince(new, b) \in SUBSET (PassedSince(at, b) \cup {x})
    <3> SUFFICES ASSUME NEW m \in Time, m >= b, NEW k \in 1..new[m]
                 PROVE  <<m, k>> \in PassedSince(at, b) \cup {x}
      BY DEF PassedSince, Passes
    <3>1. CASE k \in 1..at[m]
      BY <3>1 DEF PassedSince, Passes
    <3>2. CASE k \notin 1..at[m]
      <4>1. m = t /\ at[t] \in Nat /\ k \in 1..(at[t] + 1)
        BY <1>1, <3>2
      <4>2. k = at[t] + 1
        BY <3>2, <4>1
      <4> QED BY <1>2, <4>1, <4>2
    <3> QED BY <3>1, <3>2
  <2>2. IsFiniteSet(PassedSince(at, b)) /\ Cardinality(PassedSince(at, b)) \in Nat
    BY PassedFinite
  <2>3. /\ IsFiniteSet(PassedSince(at, b) \cup {x})
        /\ Cardinality(PassedSince(at, b) \cup {x}) =
             IF x \in PassedSince(at, b) THEN Cardinality(PassedSince(at, b))
             ELSE Cardinality(PassedSince(at, b)) + 1
    BY <2>2, FS_AddElement
  <2>4. /\ IsFiniteSet(PassedSince(new, b))
        /\ Cardinality(PassedSince(new, b)) <= Cardinality(PassedSince(at, b) \cup {x})
    BY <2>1, <2>3, FS_Subset
  <2>5. Cardinality(PassedSince(new, b)) \in Nat
    BY <2>4, FS_CardinalityType
  <2> QED BY <2>2, <2>3, <2>4, <2>5
<1> QED BY <1>1, <1>3, TimeIs

LEMMA NonePassed ==
  ASSUME NEW at \in [Time -> Nat], NEW b \in Time, \A m \in Time : m >= b => at[m] = 0
  PROVE  PassedSince(at, b) = {} /\ Cardinality(PassedSince(at, b)) = 0
<1>1. PassedSince(at, b) = {}
  BY DEF PassedSince, Passes
<1> QED BY <1>1, FS_EmptySet

\* A window is a part of what has passed since some time in it.
LEMMA WindowFrom ==
  ASSUME NEW at, IsFiniteSet(PassedSince(at, 0)), NEW n \in Time
  PROVE  \E b \in Time : b + Window > n /\ Within(at, n) <= Cardinality(PassedSince(at, b))
<1> DEFINE b == IF n + 1 > Window THEN n + 1 - Window ELSE 0
<1>1. n \in Nat /\ n <= MaxTime /\ Window \in Nat /\ Window # 0 /\ MaxTime \in Nat
  BY TimeIs, ThrottleAssumption
<1>2. b \in Time /\ b + Window > n
  BY <1>1 DEF Time
<1>3. \A m \in Time : m + Window > n => m >= b
  BY <1>1, TimeIs
<1> HIDE DEF b
<1>4. Passes(at, {m \in Time : m <= n /\ m + Window > n}) \in SUBSET PassedSince(at, b)
  BY <1>3 DEF Passes, PassedSince
<1>5. IsFiniteSet(PassedSince(at, b))
  BY <1>2, PassedFinite
<1>6. Within(at, n) <= Cardinality(PassedSince(at, b))
  BY <1>4, <1>5, FS_Subset DEF Within
<1> QED BY <1>2, <1>6

LEMMA WithinIs ==
  ASSUME NEW at, IsFiniteSet(PassedSince(at, 0)), NEW n \in Time
  PROVE  Within(at, n) \in Nat
<1>1. Passes(at, {m \in Time : m <= n /\ m + Window > n}) \in SUBSET PassedSince(at, 0)
  <2>1. {m \in Time : m <= n /\ m + Window > n} \subseteq {m \in Time : m >= 0}
    BY TimeIs
  <2> QED BY <2>1 DEF Passes, PassedSince
<1>2. IsFiniteSet(Passes(at, {m \in Time : m <= n /\ m + Window > n}))
  BY <1>1, FS_Subset
<1> QED BY <1>2, FS_CardinalityType DEF Within

\* What passes now is in no window that has ended.
LEMMA EarlierWithin ==
  ASSUME NEW at \in [Time -> Nat], NEW t \in Time, NEW n \in Time, n < t,
         NEW new, new = [at EXCEPT ![t] = @ + 1]
  PROVE  Within(new, n) = Within(at, n)
<1>1. n \in Nat /\ t \in Nat
  BY TimeIs
<1>2. \A m \in {k \in Time : k <= n /\ k + Window > n} : new[m] = at[m]
  BY <1>1, TimeIs
<1>3. Passes(new, {m \in Time : m <= n /\ m + Window > n}) = Passes(at, {m \in Time : m <= n /\ m + Window > n})
  BY <1>2 DEF Passes
<1> QED BY <1>3 DEF Within

-----------------------------------------------------------------------------
(* Stamps.                                                                 *)

LEMMA StampsAre ==
  ASSUME NEW s \in Seq(Time), NEW b \in Time
  PROVE  /\ IsFiniteSet(StampsSince(s, b)) /\ Cardinality(StampsSince(s, b)) \in Nat
         /\ Cardinality(StampsSince(s, b)) <= Len(s)
<1>1. 1 \in Int /\ Len(s) \in Nat /\ DOMAIN s = 1..Len(s)
  OBVIOUS
<1>2. IsFiniteSet(1..Len(s)) /\ Cardinality(1..Len(s)) = Len(s)
  BY <1>1, FS_Interval
<1>3. StampsSince(s, b) \in SUBSET (1..Len(s))
  BY <1>1 DEF StampsSince
<1>4. IsFiniteSet(StampsSince(s, b)) /\ Cardinality(StampsSince(s, b)) <= Len(s)
  BY <1>2, <1>3, FS_Subset
<1> QED BY <1>4, FS_CardinalityType

LEMMA StampAdded ==
  ASSUME NEW s \in Seq(Time), NEW x \in Time, NEW b \in Time
  PROVE  /\ Cardinality(StampsSince(Append(s, x), b)) >= Cardinality(StampsSince(s, b))
         /\ x >= b => Cardinality(StampsSince(Append(s, x), b)) = Cardinality(StampsSince(s, b)) + 1
<1>1. /\ Append(s, x) \in Seq(Time) /\ Len(s) \in Nat /\ DOMAIN s = 1..Len(s)
      /\ DOMAIN Append(s, x) = 1..(Len(s) + 1) /\ Append(s, x)[Len(s) + 1] = x
      /\ \A i \in 1..Len(s) : Append(s, x)[i] = s[i]
  OBVIOUS
<1>2. StampsSince(Append(s, x), b) =
        StampsSince(s, b) \cup (IF x >= b THEN {Len(s) + 1} ELSE {})
  BY <1>1 DEF StampsSince
<1>3. Len(s) + 1 \notin StampsSince(s, b)
  BY <1>1 DEF StampsSince
<1>4. IsFiniteSet(StampsSince(s, b)) /\ Cardinality(StampsSince(s, b)) \in Nat
  BY StampsAre
<1>5. CASE x >= b
  <2>1. StampsSince(Append(s, x), b) = StampsSince(s, b) \cup {Len(s) + 1}
    BY <1>2, <1>5
  <2>2. Cardinality(StampsSince(s, b) \cup {Len(s) + 1}) = Cardinality(StampsSince(s, b)) + 1
    BY <1>3, <1>4, FS_AddElement
  <2> QED BY <1>4, <2>1, <2>2
<1>6. CASE ~ (x >= b)
  BY <1>2, <1>4, <1>6
<1> QED BY <1>5, <1>6

\* What is forgotten is out of the window.
LEMMA PrunedIs ==
  ASSUME NEW s \in Seq(Time), NEW now \in Time
  PROVE  /\ Pruned(s, now) \in Seq(Time) /\ Len(Pruned(s, now)) <= Len(s)
         /\ \A i \in DOMAIN Pruned(s, now) : \E j \in DOMAIN s : Pruned(s, now)[i] = s[j]
         /\ (\A i \in DOMAIN s : s[i] + Window <= now) => Pruned(s, now) = << >>
         /\ \A b \in Time : b + Window > now =>
              Cardinality(StampsSince(Pruned(s, now), b)) = Cardinality(StampsSince(s, b))
<1> DEFINE in == {i \in DOMAIN s : s[i] + Window > now}
<1>1. /\ Len(s) \in Nat /\ DOMAIN s = 1..Len(s) /\ \A i \in 1..Len(s) : s[i] \in Nat
      /\ Window \in Nat /\ now \in Nat
  <2>1. /\ Len(s) \in Nat /\ DOMAIN s = 1..Len(s) /\ \A i \in 1..Len(s) : s[i] \in Time
    OBVIOUS
  <2> QED BY <2>1, TimeIs, ThrottleAssumption
<1>2. (\A i \in DOMAIN s : s[i] + Window <= now) => in = {}
  BY <1>1
<1>3. CASE in = {}
  <2>1. Pruned(s, now) = << >>
    BY <1>3 DEF Pruned
  <2>2. << >> \in Seq(Time) /\ Len(<< >>) = 0 /\ DOMAIN << >> = {}
    OBVIOUS
  <2>3. ASSUME NEW b \in Time, b + Window > now
        PROVE  StampsSince(s, b) = StampsSince(<< >>, b)
    <3>1. b \in Nat
      BY TimeIs
    <3>2. \A i \in 1..Len(s) : ~ (s[i] >= b)
      BY <1>1, <1>3, <2>3, <3>1
    <3>3. StampsSince(s, b) = {}
      BY <1>1, <3>2 DEF StampsSince
    <3> QED BY <2>2, <3>3 DEF StampsSince
  <2> QED BY <1>1, <2>1, <2>2, <2>3
<1>4. CASE in # {}
  <2>1. PICK k : k = Min(in)
    OBVIOUS
  <2>2. PICK l \in in : \A i \in in : l <= i
    <3>1. in \in SUBSET Nat
      BY <1>1
    <3> QED BY <1>4, <3>1, Least
  <2>3. k \in in /\ \A i \in in : k <= i
    BY <2>1, <2>2 DEF Min
  <2>4. k \in 1..Len(s)
    BY <1>1, <2>3
  <2>5. PICK t : t = Pruned(s, now)
    OBVIOUS
  <2>6. t = SubSeq(s, k, Len(s))
    BY <1>4, <2>1, <2>5 DEF Pruned
  <2>7. /\ t \in Seq(Time) /\ Len(t) = Len(s) - k + 1 /\ DOMAIN t = 1..(Len(s) - k + 1)
        /\ \A i \in 1..(Len(s) - k + 1) : t[i] = s[i + k - 1]
    BY <1>1, <2>4, <2>6
  <2>8. \A i \in DOMAIN t : i + k - 1 \in DOMAIN s /\ t[i] = s[i + k - 1]
    <3> TAKE i \in DOMAIN t
    <3>1. i \in Nat /\ k \in Nat /\ i >= 1 /\ i <= Len(s) - k + 1 /\ k >= 1
      BY <1>1, <2>4, <2>7
    <3>2. i + k - 1 \in 1..Len(s)
      BY <1>1, <3>1
    <3> QED BY <1>1, <2>7, <3>2
  <2>9. ASSUME NEW b \in Time, b + Window > now
        PROVE  Cardinality(StampsSince(t, b)) = Cardinality(StampsSince(s, b))
    <3> DEFINE f == [i \in StampsSince(t, b) |-> i + k - 1]
    <3>1. f \in [StampsSince(t, b) -> StampsSince(s, b)]
      BY <2>8 DEF StampsSince
    <3>2. \A i, j \in StampsSince(t, b) : f[i] = f[j] => i = j
      BY <2>4, <2>7 DEF StampsSince
    <3>3. \A j \in StampsSince(s, b) : \E i \in StampsSince(t, b) : f[i] = j
      <4> TAKE j \in StampsSince(s, b)
      <4>1. j \in 1..Len(s) /\ s[j] >= b /\ s[j] \in Nat /\ b \in Nat
        BY <1>1, TimeIs DEF StampsSince
      <4>2. j >= k
        BY <1>1, <2>3, <2>9, <4>1
      <4>3. j - k + 1 \in DOMAIN t /\ t[j - k + 1] = s[j]
        BY <1>1, <2>4, <2>7, <4>1, <4>2
      <4>4. j - k + 1 \in StampsSince(t, b) /\ f[j - k + 1] = j
        BY <1>1, <2>4, <4>1, <4>3 DEF StampsSince
      <4> QED BY <4>4
    <3> HIDE DEF f
    <3>4. f \in Bijection(StampsSince(t, b), StampsSince(s, b))
      BY <3>1, <3>2, <3>3, Fun_IsBij
    <3>5. ExistsBijection(StampsSince(t, b), StampsSince(s, b))
      BY <3>4 DEF ExistsBijection
    <3>6. IsFiniteSet(StampsSince(t, b))
      BY <2>7, StampsAre
    <3> QED BY <3>5, <3>6, FS_Bijection
  <2>10. Len(t) <= Len(s)
    BY <1>1, <2>4, <2>7
  <2>11. \A i \in DOMAIN t : \E j \in DOMAIN s : t[i] = s[j]
    BY <2>8
  <2> QED BY <1>2, <1>4, <2>5, <2>7, <2>9, <2>10, <2>11
<1> QED BY <1>3, <1>4

-----------------------------------------------------------------------------
(* The steps.                                                              *)

\* The login window after pruning, seen by a thread that is not late.
LEMMA PrunedLoginIs ==
  ASSUME ThrottleTypes, NEW now \in Time, NEW w, w = PrunedLogin(login, now)
  PROVE  /\ w \in [failures: Seq(Time), until: Nat] /\ w.until \in {0, login.until}
         /\ w.failures = Pruned(login.failures, now) /\ Len(w.failures) <= Len(login.failures)
         /\ \A i \in DOMAIN w.failures : \E j \in DOMAIN login.failures : w.failures[i] = login.failures[j]
<1>1. login \in [failures: Seq(Time), until: Nat]
  BY DEF ThrottleTypes
<1>2. /\ Pruned(login.failures, now) \in Seq(Time) /\ Len(Pruned(login.failures, now)) <= Len(login.failures)
      /\ \A i \in DOMAIN Pruned(login.failures, now) :
           \E j \in DOMAIN login.failures : Pruned(login.failures, now)[i] = login.failures[j]
  BY <1>1, PrunedIs
<1>3. /\ w.failures = Pruned(login.failures, now) /\ w.until \in {0, login.until}
      /\ w = [failures |-> w.failures, until |-> w.until]
  BY DEF PrunedLogin
<1> QED BY <1>1, <1>2, <1>3

LEMMA OpenWindow ==
  ASSUME ThrottleTypes, Recorded, LockedOut, Lockout >= Window,
         NEW w, w = PrunedLogin(login, clock), ~ Locked(w, clock)
  PROVE  /\ w.until = 0 /\ Len(w.failures) < MaxFailures
         /\ \A b \in Time : Recent(b) =>
              Cardinality(PassedSince(guesses, b)) <=
                Cardinality(StampsSince(w.failures, b)) + Cardinality(Verifying)
<1>1. /\ login \in [failures: Seq(Time), until: Nat] /\ clock \in Time /\ clock \in Nat
      /\ guesses \in [Time -> Nat] /\ Window \in Nat /\ Lockout \in Nat /\ MaxFailures \in Nat \ {0}
  BY TimeIs, ThrottleAssumption DEF ThrottleTypes
<1>2. w.failures = Pruned(login.failures, clock) /\ Len(w.failures) <= Len(login.failures)
      /\ w \in [failures: Seq(Time), until: Nat] /\ w.until \in {0, login.until}
  BY <1>1, PrunedLoginIs
<1>3. CASE login.until = 0
  <2>1. /\ Len(login.failures) < MaxFailures
        /\ \A b \in Time : Recent(b) =>
             Cardinality(PassedSince(guesses, b)) <=
               Cardinality(StampsSince(login.failures, b)) + Cardinality(Verifying)
    BY <1>3 DEF Recorded
  <2>2. \A b \in Time : Recent(b) =>
          Cardinality(StampsSince(w.failures, b)) = Cardinality(StampsSince(login.failures, b))
    BY <1>1, <1>2, PrunedIs DEF Recent
  <2>3. Len(w.failures) \in Nat /\ Len(login.failures) \in Nat
    BY <1>1, <1>2
  <2>4. w.until = 0
    BY <1>2, <1>3
  <2>5. Len(w.failures) < MaxFailures
    BY <1>1, <1>2, <2>1, <2>3
  <2> QED BY <2>1, <2>2, <2>4, <2>5
<1>4. CASE login.until # 0
  <2>1. login.until <= clock
    BY <1>1, <1>2, <1>4 DEF Locked, PrunedLogin
  <2>2. /\ \A m \in Time : guesses[m] # 0 => m + Lockout <= login.until
        /\ \A i \in DOMAIN login.failures : login.failures[i] + Lockout <= login.until
    BY <1>4 DEF LockedOut
  <2>3. \A i \in DOMAIN login.failures : login.failures[i] \in Nat
    <3>1. login.failures \in Seq(Time)
      BY <1>1
    <3>2. \A i \in DOMAIN login.failures : login.failures[i] \in Time
      BY <3>1
    <3> QED BY <3>2, TimeIs
  <2>4. \A i \in DOMAIN login.failures : login.failures[i] + Window <= clock
    BY <1>1, <2>1, <2>2, <2>3
  <2>5. w.failures = << >>
    BY <1>1, <1>2, <2>4, PrunedIs
  <2>6. w.until = 0
    BY <1>1, <1>2, <2>1, <2>5 DEF PrunedLogin
  <2>7. ASSUME NEW b \in Time, Recent(b)
        PROVE  Cardinality(PassedSince(guesses, b)) = 0
    <3>1. \A m \in Time : m >= b => guesses[m] = 0
      BY <1>1, <2>1, <2>2, <2>7, TimeIs DEF Recent
    <3> QED BY <1>1, <3>1, NonePassed
  <2>8. Cardinality(Verifying) \in Nat
    BY ThrottleAssumption, FS_Subset, FS_CardinalityType DEF Verifying
  <2>9. \A b \in Time : Cardinality(StampsSince(w.failures, b)) \in Nat
    BY <1>2, StampsAre
  <2>10. Len(w.failures) < MaxFailures
    BY <1>1, <2>5
  <2>11. \A b \in Time : Recent(b) =>
           Cardinality(PassedSince(guesses, b)) <=
             Cardinality(StampsSince(w.failures, b)) + Cardinality(Verifying)
    BY <2>7, <2>8, <2>9
  <2> QED BY <2>6, <2>10, <2>11
<1> QED BY <1>3, <1>4

LEMMA VerifyingIs ==
  /\ IsFiniteSet(Verifying) /\ Cardinality(Verifying) \in Nat /\ Cardinality(Thread) \in Nat
  /\ Cardinality(Verifying) <= Cardinality(Thread)
<1>1. Verifying \in SUBSET Thread
  BY DEF Verifying
<1> QED BY <1>1, ThrottleAssumption, FS_Subset, FS_CardinalityType

LEMMA ThrottleInitially == ThrottleInit => ThrottleInv
<1> SUFFICES ASSUME ThrottleInit PROVE ThrottleInv
  OBVIOUS
<1>1. /\ clock = 0 /\ stamps = << >> /\ login = NoFailures /\ thread = [t \in Thread |-> Nowhere]
      /\ admitted = [n \in Time |-> 0] /\ guesses = [n \in Time |-> 0] /\ late = FALSE
  BY DEF ThrottleInit
<1>2. \A b \in Time : PassedSince(admitted, b) = {} /\ PassedSince(guesses, b) = {}
  BY <1>1, NonePassed
<1>3. IsFiniteSet(PassedSince(admitted, 0)) /\ IsFiniteSet(PassedSince(guesses, 0)) /\ Cardinality({}) = 0
  BY <1>2, FS_EmptySet, TimeIs
<1>4. ThrottleTypes
  BY <1>1, <1>3, TimeIs DEF ThrottleTypes, NoFailures, Nowhere
<1>5. Stamped
  <2>1. \A b \in Time : Cardinality(StampsSince(stamps, b)) \in Nat
    BY <1>4, StampsAre DEF ThrottleTypes
  <2>2. \A b \in Time : Cardinality(PassedSince(admitted, b)) = 0
    BY <1>2, <1>3
  <2>3. \A b \in Time : Cardinality(PassedSince(admitted, b)) <= Cardinality(StampsSince(stamps, b))
    BY <2>1, <2>2
  <2> QED BY <2>3 DEF Stamped
<1>6. GuessInv
  <2>1. \A b \in Time : Cardinality(StampsSince(login.failures, b)) \in Nat
    BY <1>4, StampsAre DEF ThrottleTypes
  <2>2. Len(login.failures) = 0 /\ login.until = 0
    BY <1>1 DEF NoFailures
  <2>3. Len(login.failures) < MaxFailures
    BY <2>2, ThrottleAssumption
  <2>4. \A b \in Time : Cardinality(PassedSince(guesses, b)) <=
                        Cardinality(StampsSince(login.failures, b)) + Cardinality(Verifying)
    <3> TAKE b \in Time
    <3>1. Cardinality(PassedSince(guesses, b)) = 0
      BY <1>2, <1>3
    <3> QED BY <2>1, <3>1, VerifyingIs
  <2>5. Recorded
    BY <2>3, <2>4 DEF Recorded
  <2> QED BY <2>2, <2>5 DEF GuessInv, LockedOut
<1>7. \A n \in Time : Within(admitted, n) = 0 /\ Within(guesses, n) = 0
  <2> TAKE n \in Time
  <2>1. PICK b \in Time : b + Window > n /\ Within(admitted, n) <= Cardinality(PassedSince(admitted, b))
    BY <1>3, WindowFrom
  <2>2. PICK c \in Time : c + Window > n /\ Within(guesses, n) <= Cardinality(PassedSince(guesses, c))
    BY <1>3, WindowFrom
  <2>3. Within(admitted, n) \in Nat /\ Within(guesses, n) \in Nat
    BY <1>3, WithinIs
  <2> QED BY <1>2, <1>3, <2>1, <2>2, <2>3
<1>8. RateHolds
  BY <1>7, ThrottleAssumption DEF RateHolds
<1>9. GuessesBounded
  <2>1. 0 <= MaxFailures + Cardinality(Thread) - 1
    BY VerifyingIs, ThrottleAssumption
  <2> QED BY <1>7, <2>1 DEF GuessesBounded
<1> QED BY <1>4, <1>5, <1>6, <1>8, <1>9 DEF ThrottleInv

\* A thread that reads the clock.
LEMMA ClockRead ==
  ASSUME ThrottleInv, NEW t \in Thread, NEW from, NEW to \in {"idle", "allow", "check", "verify", "record"},
         ReadClock(t, from, to), from \in {"verify", "record"} <=> to \in {"verify", "record"},
         UNCHANGED <<limiter, clock, stamps, login, admitted, guesses, late>>
  PROVE  ThrottleInv'
<1>1. thread \in [Thread -> [pc: {"idle", "allow", "check", "verify", "record"}, now: Time]] /\ clock \in Time
  BY DEF ThrottleInv, ThrottleTypes
<1>2. thread[t].pc = from /\ thread' = [thread EXCEPT ![t] = [pc |-> to, now |-> clock]]
  BY DEF ReadClock
<1>3. ThrottleTypes'
  BY <1>1, <1>2, TimeIs DEF ThrottleInv, ThrottleTypes, PassedSince, Passes
<1>4. Verifying' = Verifying
  BY <1>1, <1>2 DEF Verifying
<1>5. Stamped' /\ GuessInv'
  BY <1>4 DEF ThrottleInv, Stamped, GuessInv, Recorded, LockedOut, Recent, StampsSince, PassedSince, Passes
<1>6. RateHolds' /\ GuessesBounded'
  BY DEF ThrottleInv, RateHolds, GuessesBounded, Within, Passes
<1> QED BY <1>3, <1>5, <1>6 DEF ThrottleInv

LEMMA TickKeeps == ThrottleInv /\ Tick => ThrottleInv'
<1> SUFFICES ASSUME ThrottleInv, Tick PROVE ThrottleInv'
  OBVIOUS
<1>1. clock < MaxTime /\ clock' = clock + 1 /\ UNCHANGED <<limiter, stamps, login, thread, admitted, guesses, late>>
  BY DEF Tick
<1>2. clock \in Nat /\ clock \in Time /\ ThrottleTypes /\ clock' \in Time
  <2>1. ThrottleTypes /\ clock \in Time
    BY DEF ThrottleInv, ThrottleTypes
  <2>2. clock \in Nat /\ MaxTime \in Nat
    BY <2>1, TimeIs
  <2>3. clock + 1 \in 0..MaxTime
    BY <1>1, <2>2
  <2> QED BY <1>1, <2>1, <2>2, <2>3 DEF Time
<1>3. ThrottleTypes'
  <2>1. \A t \in Thread : thread[t].now <= clock /\ thread[t].now \in Nat
    BY <1>2, TimeIs DEF ThrottleTypes
  <2>2. \A m \in Time : m > clock + 1 => m > clock
    BY <1>2, TimeIs
  <2>3. \A i \in DOMAIN login.failures : login.failures[i] <= clock /\ login.failures[i] \in Nat
    <3>1. \A i \in DOMAIN login.failures : login.failures[i] <= clock /\ login.failures[i] \in Time
      BY <1>2 DEF ThrottleTypes
    <3> QED BY <3>1, TimeIs
  <2> QED BY <1>1, <1>2, <2>1, <2>2, <2>3 DEF ThrottleTypes, PassedSince, Passes
<1>4. \A b \in Time : Recent(b)' => Recent(b)
  BY <1>1, <1>2, TimeIs, ThrottleAssumption DEF Recent
<1>5. Stamped'
  BY <1>1, <1>4 DEF ThrottleInv, Stamped, StampsSince, PassedSince, Passes
<1>6. GuessInv'
  BY <1>1, <1>4 DEF ThrottleInv, GuessInv, Recorded, LockedOut, StampsSince, PassedSince, Passes, Verifying
<1>7. RateHolds' /\ GuessesBounded'
  BY <1>1 DEF ThrottleInv, RateHolds, GuessesBounded, Within, Passes
<1> QED BY <1>3, <1>5, <1>6, <1>7 DEF ThrottleInv


\* A thread that is not late sees the window as it is: whatever passes now takes
\* the place of nothing.
LEMMA AllowKeeps ==
  ASSUME ThrottleInv, NEW t \in Thread, Allow(t)
  PROVE  ThrottleInv'
<1> DEFINE now == thread[t].now
           left == Pruned(stamps, now)
<1>1. /\ ThrottleTypes /\ Stamped /\ GuessInv /\ RateHolds /\ GuessesBounded
      /\ thread \in [Thread -> [pc: {"idle", "allow", "check", "verify", "record"}, now: Time]]
      /\ clock \in Time /\ stamps \in Seq(Time) /\ admitted \in [Time -> Nat] /\ late \in BOOLEAN
      /\ IsFiniteSet(PassedSince(admitted, 0)) /\ now \in Time /\ now <= clock
  BY DEF ThrottleInv, ThrottleTypes
<1>2. /\ thread[t].pc = "allow" /\ thread' = [thread EXCEPT ![t] = Nowhere]
      /\ IF Len(left) >= Limit
           THEN stamps' = left /\ UNCHANGED admitted
           ELSE /\ stamps' = Append(left, now)
                /\ admitted' = IF now = clock THEN [admitted EXCEPT ![now] = @ + 1] ELSE admitted
      /\ late' = (late \/ now # clock)
      /\ UNCHANGED <<limiter, clock, login, guesses>>
  BY DEF Allow
<1>3. /\ left \in Seq(Time) /\ Len(left) \in Nat
      /\ \A b \in Time : b + Window > now =>
           Cardinality(StampsSince(left, b)) = Cardinality(StampsSince(stamps, b))
  <2>1. PICK n \in Time : n = now
    BY <1>1
  <2>2. /\ Pruned(stamps, n) \in Seq(Time)
        /\ \A b \in Time : b + Window > n =>
             Cardinality(StampsSince(Pruned(stamps, n), b)) = Cardinality(StampsSince(stamps, b))
    BY <1>1, PrunedIs
  <2>3. Len(Pruned(stamps, n)) \in Nat
    BY <2>2
  <2> QED BY <2>1, <2>2, <2>3
<1>4. now \in Nat /\ clock \in Nat /\ Limit \in Nat /\ Limit # 0 /\ Window \in Nat /\ Window # 0
  BY <1>1, TimeIs, ThrottleAssumption
<1>5. \A b \in Time : /\ Cardinality(PassedSince(admitted, b)) \in Nat
                      /\ Cardinality(StampsSince(stamps, b)) \in Nat
                      /\ Cardinality(StampsSince(left, b)) \in Nat
                      /\ Cardinality(StampsSince(left, b)) <= Len(left)
                      /\ b \in Nat
  BY <1>1, <1>3, PassedFinite, StampsAre, TimeIs
<1>6. \A b \in Time : Recent(b) => Cardinality(PassedSince(admitted, b)) <= Cardinality(StampsSince(left, b))
  <2> SUFFICES ASSUME NEW b \in Time, Recent(b)
               PROVE  Cardinality(PassedSince(admitted, b)) <= Cardinality(StampsSince(left, b))
    OBVIOUS
  <2>1. b + Window > now
    BY <1>1, <1>4, <1>5 DEF Recent
  <2>2. Cardinality(StampsSince(left, b)) = Cardinality(StampsSince(stamps, b))
    BY <1>3, <2>1
  <2> QED BY <1>1, <2>2 DEF Stamped
<1> HIDE DEF left
<1>7. /\ Verifying' = Verifying
      /\ thread' \in [Thread -> [pc: {"idle", "allow", "check", "verify", "record"}, now: Time]]
      /\ \A q \in Thread : thread'[q].now <= clock
  <2>1. Nowhere \in [pc: {"idle", "allow", "check", "verify", "record"}, now: Time] /\ Nowhere.now <= clock
    BY <1>4, TimeIs DEF Nowhere
  <2>2. \A q \in Thread : thread[q].now <= clock
    BY <1>1 DEF ThrottleTypes
  <2> QED BY <1>1, <1>2, <2>1, <2>2 DEF Verifying, Nowhere
<1>8. GuessInv' /\ GuessesBounded'
  BY <1>1, <1>2, <1>7 DEF GuessInv, GuessesBounded, Recorded, LockedOut, Recent, StampsSince, PassedSince,
                          Passes, Within
<1>9. CASE Len(left) >= Limit
  <2>1. stamps' = left /\ UNCHANGED <<admitted, clock, guesses, login>>
    BY <1>2, <1>9
  <2>2. ThrottleTypes'
    BY <1>1, <1>2, <1>3, <1>7, <2>1 DEF ThrottleTypes, PassedSince, Passes
  <2>3. Stamped'
    BY <1>6, <2>1 DEF Stamped, Recent, PassedSince, Passes, StampsSince
  <2>4. RateHolds'
    BY <1>1, <2>1 DEF RateHolds, Within, Passes
  <2> QED BY <1>8, <2>2, <2>3, <2>4 DEF ThrottleInv
<1>10. CASE ~ (Len(left) >= Limit) /\ now # clock
  <2>1. stamps' = Append(left, now) /\ UNCHANGED <<admitted, clock, guesses, login>>
    BY <1>2, <1>10
  <2>2. ThrottleTypes'
    <3>1. stamps' \in Seq(Time) /\ late' \in BOOLEAN
      BY <1>1, <1>2, <1>3, <2>1
    <3> QED BY <1>1, <1>7, <2>1, <3>1 DEF ThrottleTypes, PassedSince, Passes
  <2>3. \A b \in Time : /\ Cardinality(StampsSince(Append(left, now), b)) >= Cardinality(StampsSince(left, b))
                        /\ Cardinality(StampsSince(Append(left, now), b)) \in Nat
    <3>1. Append(left, now) \in Seq(Time)
      BY <1>1, <1>3
    <3> QED BY <1>1, <1>3, <3>1, StampAdded, StampsAre
  <2>4. \A b \in Time : Recent(b) =>
          Cardinality(PassedSince(admitted, b)) <= Cardinality(StampsSince(Append(left, now), b))
    BY <1>5, <1>6, <2>3
  <2>5. Stamped'
    BY <2>1, <2>4 DEF Stamped, Recent, PassedSince, Passes, StampsSince
  <2>6. RateHolds'
    BY <1>1, <2>1 DEF RateHolds, Within, Passes
  <2> QED BY <1>8, <2>2, <2>5, <2>6 DEF ThrottleInv
<1>11. CASE ~ (Len(left) >= Limit) /\ now = clock
  <2>1. /\ stamps' = Append(left, clock) /\ admitted' = [admitted EXCEPT ![clock] = @ + 1]
        /\ UNCHANGED <<clock, guesses, login>> /\ Len(left) + 1 <= Limit
    BY <1>2, <1>3, <1>4, <1>11
  <2>2. /\ admitted' \in [Time -> Nat] /\ IsFiniteSet(PassedSince(admitted', 0))
        /\ \A b \in Time : Cardinality(PassedSince(admitted', b)) <= Cardinality(PassedSince(admitted, b)) + 1
    BY <1>1, <2>1, OneMore
  <2>3. \A m \in Time : m > clock => admitted'[m] = 0
    <3>1. \A m \in Time : m > clock => admitted[m] = 0 /\ m # clock
      BY <1>1, <1>4, <1>5 DEF ThrottleTypes
    <3> QED BY <1>1, <2>1, <3>1
  <2>4. \A b \in Time : Cardinality(PassedSince(admitted', b)) \in Nat
    BY <2>2, PassedFinite
  <2>5. ThrottleTypes'
    <3>1. stamps' \in Seq(Time)
      BY <1>1, <1>3, <2>1
    <3>2. PassedSince(admitted, 0)' = PassedSince(admitted', 0) /\ PassedSince(guesses, 0)' = PassedSince(guesses, 0)
      BY <2>1 DEF PassedSince, Passes
    <3>3. /\ clock' \in Time /\ login' \in [failures: Seq(Time), until: Nat] /\ late' \in BOOLEAN
          /\ guesses' \in [Time -> Nat] /\ IsFiniteSet(PassedSince(guesses', 0))
      BY <1>1, <1>2, <2>1, <3>2 DEF ThrottleTypes
    <3>4. \A m \in Time : m > clock' => admitted'[m] = 0 /\ guesses'[m] = 0
      BY <1>1, <2>1, <2>3 DEF ThrottleTypes
    <3>5. \A q \in Thread : thread'[q].now <= clock'
      BY <1>7, <2>1
    <3>6. IsFiniteSet(PassedSince(admitted, 0))' /\ IsFiniteSet(PassedSince(guesses, 0))'
      BY <2>2, <3>2, <3>3
    <3>7. \A i \in DOMAIN login'.failures : login'.failures[i] <= clock'
      BY <1>1, <2>1 DEF ThrottleTypes
    <3> QED BY <1>7, <2>2, <3>1, <3>3, <3>4, <3>5, <3>6, <3>7 DEF ThrottleTypes
  <2>6. \A b \in Time : b <= clock /\ Recent(b) => Cardinality(PassedSince(admitted', b)) <= Len(left) + 1
    BY <1>3, <1>5, <1>6, <2>2, <2>4
  <2>7. \A b \in Time : b > clock => Cardinality(PassedSince(admitted', b)) = 0
    <3> SUFFICES ASSUME NEW b \in Time, b > clock PROVE Cardinality(PassedSince(admitted', b)) = 0
      OBVIOUS
    <3>1. \A m \in Time : m >= b => admitted'[m] = 0
      BY <1>4, <1>5, <2>3
    <3> QED BY <2>2, <3>1, NonePassed
  <2>8. Stamped'
    <3> SUFFICES ASSUME NEW b \in Time, Recent(b)
                 PROVE  Cardinality(PassedSince(admitted', b)) <= Cardinality(StampsSince(stamps', b))
      BY <2>1 DEF Stamped, Recent, PassedSince, Passes, StampsSince
    <3>1. Cardinality(StampsSince(stamps', b)) \in Nat
      BY <2>5, StampsAre DEF ThrottleTypes
    <3>2. CASE b > clock
      BY <2>7, <3>1, <3>2
    <3>3. CASE b <= clock
      <4>1. Cardinality(StampsSince(stamps', b)) = Cardinality(StampsSince(left, b)) + 1
        BY <1>1, <1>3, <1>4, <1>5, <2>1, <3>3, StampAdded
      <4> QED BY <1>5, <1>6, <2>2, <2>4, <4>1
    <3> QED BY <1>4, <1>5, <3>2, <3>3
  <2>9. RateHolds'
    <3> SUFFICES ASSUME NEW n \in Time PROVE Within(admitted', n) <= Limit
      BY DEF RateHolds, Within, Passes
    <3>1. n \in Nat /\ Within(admitted', n) \in Nat
      BY <2>2, TimeIs, WithinIs
    <3>2. CASE n < clock
      <4>1. Within(admitted', n) = Within(admitted, n)
        BY <1>1, <2>1, <3>2, EarlierWithin
      <4> QED BY <1>1, <4>1 DEF RateHolds
    <3>3. CASE n >= clock
      <4>1. PICK b \in Time : b + Window > n /\ Within(admitted', n) <= Cardinality(PassedSince(admitted', b))
        BY <2>2, WindowFrom
      <4>2. b \in Nat
        BY TimeIs
      <4>3. Recent(b)
        BY <1>4, <3>1, <3>3, <4>1, <4>2 DEF Recent
      <4>4. Cardinality(PassedSince(admitted', b)) <= Limit
        <5>1. CASE b <= clock
          <6>1. Cardinality(PassedSince(admitted', b)) <= Len(left) + 1
            BY <2>6, <4>3, <5>1
          <6>2. Len(left) + 1 <= Limit /\ Len(left) \in Nat
            BY <1>3, <2>1
          <6>3. Cardinality(PassedSince(admitted', b)) \in Nat
            BY <2>4
          <6> QED BY <1>4, <6>1, <6>2, <6>3
        <5>2. CASE b > clock
          BY <1>4, <2>7, <5>2
        <5> QED BY <1>4, <4>2, <5>1, <5>2
      <4>5. Cardinality(PassedSince(admitted', b)) \in Nat /\ Within(admitted', n) \in Nat /\ Limit \in Nat
        BY <1>4, <2>4, <3>1
      <4>6. Within(admitted', n) <= Cardinality(PassedSince(admitted', b))
        BY <4>1
      <4> QED BY <4>4, <4>5, <4>6
    <3> QED BY <1>4, <3>1, <3>2, <3>3
  <2> QED BY <1>8, <2>5, <2>8, <2>9 DEF ThrottleInv
<1> QED BY <1>9, <1>10, <1>11


\* A state of the login window that the types allow, whatever the step.
LEMMA WithTypes ==
  ASSUME ThrottleTypes, UNCHANGED <<clock, stamps, admitted>>,
         login' \in [failures: Seq(Time), until: Nat], late' \in BOOLEAN,
         \A i \in DOMAIN login'.failures : login'.failures[i] <= clock,
         NEW t \in Thread, NEW x \in [pc: {"idle", "allow", "check", "verify", "record"}, now: Time],
         x.now <= clock, thread' = [thread EXCEPT ![t] = x],
         guesses' \in [Time -> Nat], IsFiniteSet(PassedSince(guesses', 0)),
         \A m \in Time : m > clock => guesses'[m] = 0
  PROVE  ThrottleTypes'
<1>1. /\ thread' \in [Thread -> [pc: {"idle", "allow", "check", "verify", "record"}, now: Time]]
      /\ \A q \in Thread : thread'[q].now <= clock
  BY DEF ThrottleTypes
<1>2. PassedSince(admitted, 0)' = PassedSince(admitted, 0) /\ PassedSince(guesses, 0)' = PassedSince(guesses', 0)
  BY DEF PassedSince, Passes
<1> QED BY <1>1, <1>2 DEF ThrottleTypes

\* The password check of a thread that is not late: one more attempt, and one more
\* thread at it.
LEMMA CheckKeeps ==
  ASSUME ThrottleInv, NEW t \in Thread, Check(t)
  PROVE  ThrottleInv'
<1> DEFINE now == thread[t].now
           w == PrunedLogin(login, now)
<1>1. /\ ThrottleTypes /\ Stamped /\ GuessInv /\ RateHolds /\ GuessesBounded
      /\ thread \in [Thread -> [pc: {"idle", "allow", "check", "verify", "record"}, now: Time]]
      /\ clock \in Time /\ guesses \in [Time -> Nat] /\ late \in BOOLEAN
      /\ IsFiniteSet(PassedSince(guesses, 0)) /\ now \in Time /\ now <= clock
      /\ login \in [failures: Seq(Time), until: Nat]
  BY DEF ThrottleInv, ThrottleTypes
<1>2. /\ thread[t].pc = "check" /\ login' = w
      /\ thread' = [thread EXCEPT ![t] = IF Locked(w, now) THEN Nowhere ELSE [@ EXCEPT !.pc = "verify"]]
      /\ guesses' = IF Locked(w, now) THEN guesses ELSE [guesses EXCEPT ![clock] = @ + 1]
      /\ late' = (late \/ now # clock)
      /\ UNCHANGED <<limiter, clock, stamps, admitted>>
  BY DEF Check
<1>3. /\ w \in [failures: Seq(Time), until: Nat] /\ w.until \in {0, login.until}
      /\ w.failures = Pruned(login.failures, now) /\ Len(w.failures) <= Len(login.failures)
      /\ \A i \in DOMAIN w.failures : \E j \in DOMAIN login.failures : w.failures[i] = login.failures[j]
  BY <1>1, PrunedLoginIs
<1>4. now \in Nat /\ clock \in Nat /\ Window \in Nat /\ Window # 0 /\ Lockout \in Nat /\ MaxFailures \in Nat
      /\ MaxFailures # 0
  BY <1>1, TimeIs, ThrottleAssumption
<1>5. /\ guesses' \in [Time -> Nat] /\ IsFiniteSet(PassedSince(guesses', 0))
      /\ \A b \in Time : Cardinality(PassedSince(guesses', b)) <= Cardinality(PassedSince(guesses, b)) + 1
  <2>1. CASE Locked(w, now)
    <3>1. \A b \in Time : Cardinality(PassedSince(guesses, b)) \in Nat
      BY <1>1, PassedFinite
    <3>2. guesses' = guesses
      BY <1>2, <2>1
    <3> QED BY <1>1, <3>1, <3>2
  <2>2. CASE ~ Locked(w, now)
    <3>1. guesses' = [guesses EXCEPT ![clock] = @ + 1]
      BY <1>2, <2>2
    <3> QED BY <1>1, <3>1, OneMore
  <2> QED BY <2>1, <2>2
<1>6. \A m \in Time : m > clock => guesses'[m] = 0
  <2>1. \A m \in Time : m > clock => guesses[m] = 0 /\ m # clock
    BY <1>4, TimeIs DEF ThrottleInv, ThrottleTypes
  <2> QED BY <1>1, <1>2, <2>1
<1>7. PICK x : /\ x = IF Locked(w, now) THEN Nowhere ELSE [thread[t] EXCEPT !.pc = "verify"]
               /\ thread' = [thread EXCEPT ![t] = x]
  BY <1>1, <1>2
<1>8. x \in [pc: {"idle", "allow", "check", "verify", "record"}, now: Time] /\ x.now <= clock
  BY <1>1, <1>4, <1>7, TimeIs DEF Nowhere
<1>9. ThrottleTypes'
  <2>1. /\ UNCHANGED <<clock, stamps, admitted>> /\ late' \in BOOLEAN
        /\ login' \in [failures: Seq(Time), until: Nat]
    BY <1>1, <1>2, <1>3
  <2>2. \A i \in DOMAIN login'.failures : login'.failures[i] <= clock
    BY <1>1, <1>2, <1>3 DEF ThrottleTypes
  <2>3. thread' = [thread EXCEPT ![t] = x]
    BY <1>7
  <2> QED BY <1>1, <1>5, <1>6, <1>8, <2>1, <2>2, <2>3, WithTypes
<1>10. Stamped' /\ RateHolds'
  BY <1>1, <1>2 DEF Stamped, Recent, RateHolds, Within, PassedSince, Passes, StampsSince
<1> HIDE DEF w
<1>11. CASE late' \/ ~ (Lockout >= Window)
  BY <1>9, <1>10, <1>11 DEF ThrottleInv, GuessInv, GuessesBounded
<1>12. CASE ~ late' /\ Lockout >= Window
  <2>1. /\ now = clock /\ ~ late /\ Recorded /\ LockedOut
        /\ \A n \in Time : Within(guesses, n) <= MaxFailures + Cardinality(Thread) - 1
    BY <1>1, <1>2, <1>12 DEF GuessInv, GuessesBounded
  <2>2. CASE Locked(w, now)
    <3>1. login'.until = login.until /\ login.until # 0 /\ guesses' = guesses /\ login' = w
      BY <1>1, <1>2, <1>3, <1>4, <2>2 DEF Locked
    <3>2. LockedOut'
      BY <1>3, <2>1, <3>1 DEF LockedOut
    <3>3. Recorded'
      BY <3>1 DEF Recorded
    <3>4. GuessesBounded'
      BY <2>1, <3>1 DEF GuessesBounded, Within, Passes
    <3> QED BY <1>9, <1>10, <3>2, <3>3, <3>4 DEF ThrottleInv, GuessInv
  <2>3. CASE ~ Locked(w, now)
    <3>1. /\ w.until = 0 /\ Len(w.failures) < MaxFailures
          /\ \A b \in Time : Recent(b) =>
               Cardinality(PassedSince(guesses, b)) <=
                 Cardinality(StampsSince(w.failures, b)) + Cardinality(Verifying)
      BY <1>1, <1>12, <2>1, <2>3, OpenWindow DEF w
    <3>2. t \notin Verifying /\ Verifying' = Verifying \cup {t}
      BY <1>1, <1>2, <1>7, <2>3 DEF Verifying
    <3>3. /\ Cardinality(Verifying') = Cardinality(Verifying) + 1 /\ Cardinality(Verifying) \in Nat
          /\ Cardinality(Verifying') <= Cardinality(Thread) /\ Cardinality(Thread) \in Nat
      <4>1. Verifying' \in SUBSET Thread
        BY DEF Verifying
      <4>2. Cardinality(Verifying') <= Cardinality(Thread)
        BY <4>1, ThrottleAssumption, FS_Subset
      <4> QED BY <3>2, <4>2, VerifyingIs, FS_AddElement
    <3>4. \A b \in Time : /\ Cardinality(PassedSince(guesses', b)) \in Nat
                          /\ Cardinality(PassedSince(guesses, b)) \in Nat
                          /\ Cardinality(StampsSince(w.failures, b)) \in Nat
                          /\ Cardinality(StampsSince(w.failures, b)) <= Len(w.failures)
      BY <1>1, <1>3, <1>5, PassedFinite, StampsAre
    <3>5. \A b \in Time : Recent(b) =>
            Cardinality(PassedSince(guesses', b)) <=
              Cardinality(StampsSince(w.failures, b)) + Cardinality(Verifying')
      BY <1>5, <3>1, <3>3, <3>4
    <3>6. Recorded' /\ LockedOut'
      BY <1>2, <3>1, <3>5 DEF Recorded, LockedOut, Recent, PassedSince, Passes, StampsSince
    <3>7. \A b \in Time : Recent(b) =>
            Cardinality(PassedSince(guesses', b)) <= MaxFailures + Cardinality(Thread) - 1
      <4> SUFFICES ASSUME NEW b \in Time, Recent(b)
                   PROVE  Cardinality(PassedSince(guesses', b)) <= MaxFailures + Cardinality(Thread) - 1
        OBVIOUS
      <4>1. Len(w.failures) \in Nat /\ Len(w.failures) <= MaxFailures - 1
        BY <1>3, <1>4, <3>1
      <4>2. Cardinality(StampsSince(w.failures, b)) <= MaxFailures - 1
        BY <1>4, <3>4, <4>1
      <4>3. Cardinality(PassedSince(guesses', b)) <= Cardinality(StampsSince(w.failures, b)) + Cardinality(Verifying')
        BY <3>5
      <4> QED BY <1>4, <3>3, <3>4, <4>2, <4>3
    <3>8. ASSUME NEW n \in Time
          PROVE  Within(guesses', n) <= MaxFailures + Cardinality(Thread) - 1
      <4>1. n \in Nat /\ Within(guesses', n) \in Nat
        BY <1>5, TimeIs, WithinIs
      <4>2. CASE n < clock
        <5>1. Within(guesses', n) = Within(guesses, n)
          <6>1. guesses' = [guesses EXCEPT ![clock] = @ + 1]
            BY <1>2, <2>3
          <6>2. guesses \in [Time -> Nat] /\ clock \in Time
            BY <1>1
          <6> QED BY <4>2, <6>1, <6>2, EarlierWithin
        <5> QED BY <2>1, <5>1
      <4>3. CASE n >= clock
        <5>1. PICK b \in Time : b + Window > n /\ Within(guesses', n) <= Cardinality(PassedSince(guesses', b))
          BY <1>5, WindowFrom
        <5>2. b \in Nat
          BY TimeIs
        <5>3. Recent(b)
          BY <1>4, <4>1, <4>3, <5>1, <5>2 DEF Recent
        <5>4. Cardinality(PassedSince(guesses', b)) <= MaxFailures + Cardinality(Thread) - 1
          BY <3>7, <5>3
        <5>5. /\ Cardinality(PassedSince(guesses', b)) \in Nat /\ Within(guesses', n) \in Nat
              /\ MaxFailures + Cardinality(Thread) - 1 \in Nat
          BY <1>4, <3>3, <3>4, <4>1
        <5>6. Within(guesses', n) <= Cardinality(PassedSince(guesses', b))
          BY <5>1
        <5> QED BY <5>4, <5>5, <5>6
      <4> QED BY <1>4, <4>1, <4>2, <4>3
    <3>9. GuessesBounded'
      BY <3>8 DEF GuessesBounded, Within, Passes
    <3> QED BY <1>9, <1>10, <3>6, <3>9 DEF ThrottleInv, GuessInv
  <2> QED BY <2>2, <2>3
<1> QED BY <1>11, <1>12

LEMMA RightKeeps ==
  ASSUME ThrottleInv, NEW t \in Thread, Right(t)
  PROVE  ThrottleInv'
<1>1. /\ ThrottleTypes /\ Stamped /\ RateHolds
      /\ thread \in [Thread -> [pc: {"idle", "allow", "check", "verify", "record"}, now: Time]]
      /\ clock \in Time /\ late \in BOOLEAN
  BY DEF ThrottleInv, ThrottleTypes
<1>2. /\ login' = NoFailures /\ thread' = [thread EXCEPT ![t] = Nowhere]
      /\ guesses' = [n \in Time |-> 0] /\ UNCHANGED <<limiter, clock, stamps, admitted, late>>
  BY DEF Right
<1>3. /\ guesses' \in [Time -> Nat] /\ \A m \in Time : guesses'[m] = 0
      /\ login' \in [failures: Seq(Time), until: Nat] /\ login'.failures = << >> /\ login'.until = 0
  BY <1>2 DEF NoFailures
<1>4. \A b \in Time : PassedSince(guesses', b) = {} /\ Cardinality(PassedSince(guesses', b)) = 0
  BY <1>3, NonePassed
<1>5. IsFiniteSet(PassedSince(guesses', 0))
  BY <1>4, TimeIs, FS_EmptySet
<1>6. ThrottleTypes'
  <2>1. Nowhere \in [pc: {"idle", "allow", "check", "verify", "record"}, now: Time] /\ Nowhere.now <= clock
    BY <1>1, TimeIs DEF Nowhere
  <2>2. \A i \in DOMAIN login'.failures : login'.failures[i] <= clock
    BY <1>3
  <2> QED BY <1>1, <1>2, <1>3, <1>5, <2>1, <2>2, WithTypes
<1>7. Stamped' /\ RateHolds'
  BY <1>1, <1>2 DEF Stamped, Recent, RateHolds, Within, PassedSince, Passes, StampsSince
<1>8. Recorded' /\ LockedOut'
  <2>1. Cardinality(Verifying') \in Nat
    <3>1. Verifying' \in SUBSET Thread
      BY DEF Verifying
    <3> QED BY <3>1, ThrottleAssumption, FS_Subset, FS_CardinalityType
  <2>2. \A b \in Time : Cardinality(StampsSince(login'.failures, b)) \in Nat
    BY <1>3, StampsAre
  <2>3. \A b \in Time : Cardinality(PassedSince(guesses', b)) <=
                        Cardinality(StampsSince(login'.failures, b)) + Cardinality(Verifying')
    BY <1>4, <2>1, <2>2
  <2>4. Len(login'.failures) < MaxFailures
    BY <1>3, ThrottleAssumption
  <2> QED BY <1>3, <2>3, <2>4 DEF Recorded, LockedOut, PassedSince, Passes, StampsSince
<1>9. GuessesBounded'
  <2>1. MaxFailures + Cardinality(Thread) - 1 \in Nat
    BY VerifyingIs, ThrottleAssumption
  <2> SUFFICES ASSUME NEW n \in Time PROVE Within(guesses', n) <= MaxFailures + Cardinality(Thread) - 1
    BY DEF GuessesBounded, Within, Passes
  <2>2. PICK b \in Time : Within(guesses', n) <= Cardinality(PassedSince(guesses', b))
    BY <1>5, WindowFrom
  <2>3. Within(guesses', n) \in Nat
    BY <1>5, WithinIs
  <2> QED BY <1>4, <2>1, <2>2, <2>3
<1> QED BY <1>6, <1>7, <1>8, <1>9 DEF ThrottleInv, GuessInv


LEMMA RecordFailureKeeps ==
  ASSUME ThrottleInv, NEW t \in Thread, RecordFailure(t)
  PROVE  ThrottleInv'
<1> DEFINE now == thread[t].now
           w == PrunedLogin(login, now)
           failures == Append(w.failures, now)
<1>1. /\ ThrottleTypes /\ Stamped /\ GuessInv /\ RateHolds /\ GuessesBounded
      /\ thread \in [Thread -> [pc: {"idle", "allow", "check", "verify", "record"}, now: Time]]
      /\ clock \in Time /\ guesses \in [Time -> Nat] /\ late \in BOOLEAN
      /\ IsFiniteSet(PassedSince(guesses, 0)) /\ now \in Time /\ now <= clock
      /\ login \in [failures: Seq(Time), until: Nat]
      /\ \A m \in Time : m > clock => guesses[m] = 0
      /\ \A i \in DOMAIN login.failures : login.failures[i] <= clock
  BY DEF ThrottleInv, ThrottleTypes
<1>2. /\ thread[t].pc = "record" /\ thread' = [thread EXCEPT ![t] = Nowhere]
      /\ login' = IF Locked(w, now) THEN w
                  ELSE [failures |-> failures,
                        until |-> IF Len(failures) >= MaxFailures THEN now + Lockout ELSE w.until]
      /\ late' = (late \/ now # clock)
      /\ UNCHANGED <<limiter, clock, stamps, admitted, guesses>>
  BY DEF RecordFailure
<1>3. /\ w \in [failures: Seq(Time), until: Nat] /\ w.until \in {0, login.until}
      /\ \A i \in DOMAIN w.failures : \E j \in DOMAIN login.failures : w.failures[i] = login.failures[j]
  BY <1>1, PrunedLoginIs
<1>4. now \in Nat /\ clock \in Nat /\ Window \in Nat /\ Window # 0 /\ Lockout \in Nat /\ Lockout # 0
      /\ MaxFailures \in Nat /\ MaxFailures # 0
  BY <1>1, TimeIs, ThrottleAssumption
<1> HIDE DEF w
<1>5. /\ failures \in Seq(Time) /\ Len(failures) \in Nat
      /\ \A i \in DOMAIN failures : failures[i] <= clock /\ failures[i] \in Nat
  <2>1. /\ w.failures \in Seq(Time) /\ Len(w.failures) \in Nat
        /\ failures \in Seq(Time) /\ Len(failures) \in Nat /\ DOMAIN failures = 1..(Len(w.failures) + 1)
        /\ DOMAIN w.failures = 1..Len(w.failures) /\ failures[Len(w.failures) + 1] = now
        /\ \A i \in 1..Len(w.failures) : failures[i] = w.failures[i]
    BY <1>1, <1>3
  <2>2. \A i \in DOMAIN w.failures : w.failures[i] <= clock
    BY <1>1, <1>3
  <2>3. \A i \in DOMAIN failures : failures[i] <= clock
    BY <1>1, <2>1, <2>2
  <2>4. \A i \in DOMAIN failures : failures[i] \in Time
    BY <2>1
  <2> QED BY <2>1, <2>3, <2>4, TimeIs
<1>6. ThrottleTypes'
  <2>1. login' \in [failures: Seq(Time), until: Nat]
    BY <1>2, <1>3, <1>4, <1>5
  <2>2. \A i \in DOMAIN login'.failures : login'.failures[i] <= clock
    <3>1. CASE Locked(w, now)
      BY <1>1, <1>2, <1>3, <3>1
    <3>2. CASE ~ Locked(w, now)
      BY <1>2, <1>5, <3>2
    <3> QED BY <3>1, <3>2
  <2>3. Nowhere \in [pc: {"idle", "allow", "check", "verify", "record"}, now: Time] /\ Nowhere.now <= clock
    BY <1>4, TimeIs DEF Nowhere
  <2>4. /\ UNCHANGED <<clock, stamps, admitted>> /\ late' \in BOOLEAN /\ guesses' = guesses
        /\ thread' = [thread EXCEPT ![t] = Nowhere]
    BY <1>1, <1>2
  <2> QED BY <1>1, <2>1, <2>2, <2>3, <2>4, WithTypes
<1>7. Stamped' /\ RateHolds'
  BY <1>1, <1>2 DEF Stamped, Recent, RateHolds, Within, PassedSince, Passes, StampsSince
<1>8. GuessesBounded'
  BY <1>1, <1>2 DEF GuessesBounded, Within, Passes
<1>9. CASE late' \/ ~ (Lockout >= Window)
  BY <1>6, <1>7, <1>8, <1>9 DEF ThrottleInv, GuessInv
<1>10. CASE ~ late' /\ Lockout >= Window
  <2>1. now = clock /\ ~ late /\ Recorded /\ LockedOut /\ guesses' = guesses
    BY <1>1, <1>2, <1>10 DEF GuessInv
  <2>2. CASE Locked(w, now)
    <3>1. login'.until = login.until /\ login.until # 0 /\ login' = w
      BY <1>2, <1>3, <1>4, <2>2 DEF Locked
    <3>2. LockedOut'
      BY <1>3, <2>1, <3>1 DEF LockedOut
    <3>3. Recorded'
      BY <3>1 DEF Recorded
    <3> QED BY <1>6, <1>7, <1>8, <3>2, <3>3 DEF ThrottleInv, GuessInv
  <2>3. CASE ~ Locked(w, now)
    <3>1. /\ w.until = 0 /\ Len(w.failures) < MaxFailures
          /\ \A b \in Time : Recent(b) =>
               Cardinality(PassedSince(guesses, b)) <=
                 Cardinality(StampsSince(w.failures, b)) + Cardinality(Verifying)
      BY <1>1, <1>10, <2>1, <2>3, OpenWindow DEF w
    <3>2. CASE Len(failures) >= MaxFailures
      <4>1. login'.until = clock + Lockout /\ login'.failures = failures
        BY <1>2, <2>1, <2>3, <3>2
      <4>2. \A m \in Time : guesses'[m] # 0 => m + Lockout <= login'.until
        <5>1. \A m \in Time : guesses[m] # 0 => m <= clock /\ m \in Nat
          BY <1>1, <1>4, TimeIs
        <5> QED BY <1>4, <2>1, <4>1, <5>1
      <4>3. \A i \in DOMAIN login'.failures : login'.failures[i] + Lockout <= login'.until
        BY <1>4, <1>5, <4>1
      <4>4. login'.until # 0
        BY <1>4, <4>1
      <4>5. LockedOut' /\ Recorded'
        BY <4>2, <4>3, <4>4 DEF LockedOut, Recorded
      <4> QED BY <1>6, <1>7, <1>8, <4>5 DEF ThrottleInv, GuessInv
    <3>3. CASE ~ (Len(failures) >= MaxFailures)
      <4>1. login'.until = 0 /\ login'.failures = failures /\ Len(failures) < MaxFailures
        BY <1>2, <1>4, <1>5, <2>3, <3>1, <3>3
      <4>2. t \in Verifying /\ Verifying' = Verifying \ {t}
        BY <1>1, <1>2 DEF Verifying, Nowhere
      <4>3. Cardinality(Verifying') = Cardinality(Verifying) - 1 /\ Cardinality(Verifying) \in Nat
            /\ Cardinality(Verifying') \in Nat
        BY <4>2, VerifyingIs, FS_RemoveElement, FS_CardinalityType
      <4>4. ASSUME NEW b \in Time, Recent(b)
            PROVE  Cardinality(PassedSince(guesses, b)) <=
                     Cardinality(StampsSince(failures, b)) + Cardinality(Verifying')
        <5>1. /\ Cardinality(PassedSince(guesses, b)) \in Nat /\ Cardinality(StampsSince(failures, b)) \in Nat
              /\ Cardinality(StampsSince(w.failures, b)) \in Nat /\ b \in Nat
          BY <1>1, <1>3, <1>5, PassedFinite, StampsAre, TimeIs
        <5>2. CASE b <= clock
          <6>1. Cardinality(StampsSince(failures, b)) = Cardinality(StampsSince(w.failures, b)) + 1
            BY <1>1, <1>3, <1>4, <2>1, <5>1, <5>2, StampAdded
          <6>2. Cardinality(PassedSince(guesses, b)) <=
                  Cardinality(StampsSince(w.failures, b)) + Cardinality(Verifying)
            BY <3>1, <4>4
          <6> QED BY <4>3, <5>1, <6>1, <6>2
        <5>3. CASE b > clock
          <6>1. \A m \in Time : m >= b => guesses[m] = 0
            BY <1>1, <1>4, <5>1, <5>3, TimeIs
          <6>2. Cardinality(PassedSince(guesses, b)) = 0
            BY <1>1, <6>1, NonePassed
          <6> QED BY <4>3, <5>1, <6>2
        <5> QED BY <1>4, <5>1, <5>2, <5>3
      <4>5. LockedOut'
        BY <4>1 DEF LockedOut
      <4>6. Recorded'
        BY <1>2, <4>1, <4>4 DEF Recorded, Recent, PassedSince, Passes, StampsSince
      <4> QED BY <1>6, <1>7, <1>8, <4>5, <4>6 DEF ThrottleInv, GuessInv
    <3> QED BY <3>2, <3>3
  <2> QED BY <2>2, <2>3
<1> QED BY <1>9, <1>10

LEMMA ThrottleKept == ThrottleInv /\ [ThrottleNext]_throttleVars => ThrottleInv'
<1> SUFFICES ASSUME ThrottleInv, [ThrottleNext]_throttleVars PROVE ThrottleInv'
  OBVIOUS
<1>1. CASE \E t \in Thread : Ask(t)
  <2>1. PICK t \in Thread : Ask(t)
    BY <1>1
  <2> QED BY <2>1, ClockRead DEF Ask
<1>2. CASE \E t \in Thread : TryLogin(t)
  <2>1. PICK t \in Thread : TryLogin(t)
    BY <1>2
  <2> QED BY <2>1, ClockRead DEF TryLogin
<1>3. CASE \E t \in Thread : Wrong(t)
  <2>1. PICK t \in Thread : Wrong(t)
    BY <1>3
  <2> QED BY <2>1, ClockRead DEF Wrong
<1>4. CASE \E t \in Thread : Allow(t) \/ Check(t) \/ Right(t) \/ RecordFailure(t)
  BY <1>4, AllowKeeps, CheckKeeps, RightKeeps, RecordFailureKeeps
<1>5. CASE Tick
  BY <1>5, TickKeeps
<1>6. CASE UNCHANGED throttleVars
  <2>1. UNCHANGED <<clock, stamps, login, thread, admitted, guesses, late>>
    BY <1>6 DEF throttleVars
  <2>2. ThrottleTypes'
    BY <2>1 DEF ThrottleInv, ThrottleTypes, PassedSince, Passes
  <2>3. Stamped'
    BY <2>1 DEF ThrottleInv, Stamped, Recent, PassedSince, Passes, StampsSince
  <2>4. GuessInv'
    BY <2>1 DEF ThrottleInv, GuessInv, Recorded, LockedOut, Recent, Verifying, PassedSince, Passes, StampsSince
  <2>5. RateHolds' /\ GuessesBounded'
    BY <2>1 DEF ThrottleInv, RateHolds, GuessesBounded, Within, Passes
  <2> QED BY <2>2, <2>3, <2>4, <2>5 DEF ThrottleInv
<1> QED BY <1>1, <1>2, <1>3, <1>4, <1>5, <1>6 DEF ThrottleNext

\* However many threads ask, and however late they are: no more requests than the
\* limit pass in a window, and before a lock no more attempts than lock and one for
\* each other thread (ratelimit.py, auth_throttle.py).
THEOREM LimitsAreHeld == ThrottleSpec => []LimitsHold
<1>1. ThrottleInv => LimitsHold
  BY DEF ThrottleInv, LimitsHold
<1> QED BY <1>1, ThrottleInitially, ThrottleKept, PTL DEF ThrottleSpec

-----------------------------------------------------------------------------
(* The scan of a web site.                                                 *)

PagesOf(s) == {s[i] : i \in DOMAIN s}
Distinct(s) == \A i, j \in DOMAIN s : s[i] = s[j] => i = j

\* The pages in a queue, and those that are in it at no more than a depth.
Queued(q) == {q[i][1] : i \in DOMAIN q}
QueuedTo(q, d) == {q[i][1] : i \in {j \in DOMAIN q : q[j][2] <= d}}

\* What is nearer comes first, and the depths in a queue are one or two.
Ordered(q) ==
  \A i, j \in DOMAIN q : i <= j => q[i][2] <= q[j][2] /\ q[j][2] <= q[i][2] + 1

\* What is in the queue has been found at the end of a path of its depth.
FoundAlong(web, max, q, along) ==
  \A i \in DOMAIN q : q[i][2] \in 1..max /\ q[i][1] \in Near(web, q[i][2], along)

\* What is as near as the next in the queue, or nearer, has been visited or is in
\* the queue at that depth, and what has been visited had its links followed.
Covered(web, max, q, visited, html) ==
  /\ q = << >> => \A n \in 1..max : Near(web, n, html) \subseteq visited
  /\ q # << >> =>
       /\ \A n \in 1..q[1][2] : Near(web, n, html) \subseteq visited \cup QueuedTo(q, q[1][2])
       /\ q[1][2] < max => \A v \in visited \cap html : web.links[v] \subseteq visited \cup Queued(q)

BreadthFirst(web, max, q, visited, html, along) ==
  Ordered(q) /\ FoundAlong(web, max, q, along) /\ Covered(web, max, q, visited, html)

Html == Steady({"html"})
Along == Html \cup changed

CrawlTypes ==
  /\ site.links \in [Url -> {pages \in SUBSET Url : IsFiniteSet(pages)}]
  /\ site \in [links : {site.links}, answer : [Url -> Answers]]
  /\ scan.seeds \in Seq(Url) /\ scan.depth \in Nat \ {0}
  /\ cursor \in [queue : Seq(Url \X Nat), visited : SUBSET Url, more : BOOLEAN]
  /\ call \in [on : BOOLEAN, queue : Seq(Url \X Nat), visited : SUBSET Url, fetched : Seq(Url)]
  /\ harvest \in Seq(Url) /\ changed \in SUBSET Url

\* What the caller has: of the pages visited, those that answer were brought.
CursorFits ==
  /\ BreadthFirst(Web, scan.depth, cursor.queue, cursor.visited, Html, Along)
  /\ ~ cursor.more => cursor.queue = << >>
  /\ Distinct(harvest) /\ Brought \subseteq cursor.visited
  /\ Brought \subseteq Reached(Along)
  /\ cursor.visited \cap Steady({"html", "text"}) \subseteq Brought

\* What a call has: the same of what it has added.
CallFits ==
  call.on =>
    /\ BreadthFirst(Web, scan.depth, call.queue, call.visited, Html, Along)
    /\ cursor.visited \subseteq call.visited
    /\ Distinct(call.fetched) /\ PagesOf(call.fetched) \subseteq call.visited \ cursor.visited
    /\ PagesOf(call.fetched) \subseteq Reached(Along)
    /\ (call.visited \ cursor.visited) \cap Steady({"html", "text"}) \subseteq PagesOf(call.fetched)

CrawlInv == CrawlTypes /\ CursorFits /\ CallFits

-----------------------------------------------------------------------------
(* Paths.                                                                  *)

LEMMA NearGrows ==
  ASSUME NEW web, NEW n, NEW A, NEW B, A \subseteq B
  PROVE  Near(web, n, A) \subseteq Near(web, n, B)
BY DEF Near

LEMMA NearPages ==
  ASSUME NEW web, NEW n \in Nat \ {0}, NEW A
  PROVE  Near(web, n, A) \subseteq Url
BY DEF Near

LEMMA SeedsAreNear ==
  ASSUME NEW web, web.seeds \in Seq(Url), NEW A
  PROVE  /\ \A i \in DOMAIN web.seeds : web.seeds[i] \in Near(web, 1, A)
         /\ \A u \in Near(web, 1, A) : \E i \in DOMAIN web.seeds : u = web.seeds[i]
<1>1. ASSUME NEW i \in DOMAIN web.seeds PROVE web.seeds[i] \in Near(web, 1, A)
  <2> DEFINE p == [k \in 1..1 |-> web.seeds[i]]
  <2>1. p \in [1..1 -> Url] /\ p[1] = web.seeds[i]
    OBVIOUS
  <2>2. \A k \in 1..1 - 1 : FALSE
    OBVIOUS
  <2> HIDE DEF p
  <2> QED BY <2>1, <2>2 DEF Near
<1>2. \A u \in Near(web, 1, A) : \E i \in DOMAIN web.seeds : u = web.seeds[i]
  BY DEF Near
<1> QED BY <1>1, <1>2

LEMMA NearOn ==
  ASSUME NEW web, NEW n \in Nat \ {0}, NEW A, NEW v \in Near(web, n, A) \cap A,
         NEW u \in Url, u \in web.links[v]
  PROVE  u \in Near(web, n + 1, A)
<1>1. PICK p \in [1..n -> Url] :
        /\ \E i \in DOMAIN web.seeds : p[1] = web.seeds[i]
        /\ \A i \in 1..n - 1 : p[i] \in A /\ p[i + 1] \in web.links[p[i]]
        /\ p[n] = v
  BY DEF Near
<1> DEFINE r == [i \in 1..(n + 1) |-> IF i = n + 1 THEN u ELSE p[i]]
<1>2. r \in [1..(n + 1) -> Url] /\ r[n + 1] = u /\ \A i \in 1..n : r[i] = p[i]
  OBVIOUS
<1> HIDE DEF r
<1>3. r[1] = p[1]
  BY <1>2
<1>4. \A i \in 1..(n + 1) - 1 : r[i] \in A /\ r[i + 1] \in web.links[r[i]]
  <2> TAKE i \in 1..(n + 1) - 1
  <2>1. CASE i = n
    BY <1>1, <1>2, <2>1
  <2>2. CASE i # n
    <3>1. i \in 1..n - 1 /\ i \in 1..n /\ i + 1 \in 1..n
      BY <2>2
    <3> QED BY <1>1, <1>2, <3>1
  <2> QED BY <2>1, <2>2
<1> QED BY <1>1, <1>2, <1>3, <1>4 DEF Near

LEMMA NearFrom ==
  ASSUME NEW web, NEW n \in Nat \ {0}, NEW A, NEW u \in Near(web, n + 1, A)
  PROVE  \E v \in Near(web, n, A) \cap A : u \in web.links[v]
<1>1. PICK p \in [1..(n + 1) -> Url] :
        /\ \E i \in DOMAIN web.seeds : p[1] = web.seeds[i]
        /\ \A i \in 1..(n + 1) - 1 : p[i] \in A /\ p[i + 1] \in web.links[p[i]]
        /\ p[n + 1] = u
  BY DEF Near
<1> DEFINE r == [i \in 1..n |-> p[i]]
<1>2. r \in [1..n -> Url] /\ \A i \in 1..n : r[i] = p[i]
  OBVIOUS
<1> HIDE DEF r
<1>3. \A i \in 1..n - 1 : r[i] \in A /\ r[i + 1] \in web.links[r[i]]
  <2> TAKE i \in 1..n - 1
  <2>1. i \in 1..n /\ i + 1 \in 1..n /\ i \in 1..(n + 1) - 1
    OBVIOUS
  <2> QED BY <1>1, <1>2, <2>1
<1>4. r[1] = p[1] /\ r[n] = p[n] /\ n \in 1..(n + 1) - 1
  BY <1>2
<1>5. p[n] \in Near(web, n, A)
  BY <1>1, <1>2, <1>3, <1>4 DEF Near
<1> QED BY <1>1, <1>4, <1>5

\* What has the seeds and, of each page, the links, has all there is.
LEMMA NearWithin ==
  ASSUME NEW web, NEW A, NEW V, Near(web, 1, A) \subseteq V, \A v \in V \cap A : web.links[v] \subseteq V
  PROVE  \A n \in Nat \ {0} : Near(web, n, A) \subseteq V
<1> DEFINE S == {n \in Nat \ {0} : ~ (Near(web, n, A) \subseteq V)}
<1> SUFFICES ASSUME S # {} PROVE FALSE
  OBVIOUS
<1>1. PICK n \in S : \A m \in S : n <= m
  BY Least
<1>2. n \in Nat /\ n # 0 /\ n # 1
  OBVIOUS
<1>3. n - 1 \in Nat \ {0} /\ n - 1 \notin S /\ (n - 1) + 1 = n
  BY <1>1, <1>2
<1>4. PICK m \in Nat \ {0} : m + 1 = n /\ Near(web, m, A) \subseteq V
  BY <1>3
<1>5. ASSUME NEW u \in Near(web, n, A) PROVE u \in V
  <2>1. PICK v \in Near(web, m, A) \cap A : u \in web.links[v]
    BY <1>4, NearFrom
  <2> QED BY <1>4, <2>1
<1> QED BY <1>1, <1>5

-----------------------------------------------------------------------------
(* One turn of the loop.                                                   *)

\* A queue after its first has left and others have joined, without the sequences.
AfterTurn(q, list, d, r) ==
  /\ 1 \in DOMAIN q /\ q[1][2] = d
  /\ \A j \in DOMAIN q : j \in Nat /\ j >= 1 /\ q[j][2] \in Nat
  /\ \A i \in DOMAIN r : i \in Nat /\ i >= 1 /\ r[i][2] \in Nat
  /\ r = << >> => DOMAIN r = {}
  /\ r # << >> => 1 \in DOMAIN r
  /\ \E k \in Nat : \A i \in DOMAIN r :
       \/ i <= k /\ i + 1 \in DOMAIN q /\ r[i] = q[i + 1]
       \/ i > k /\ \E n \in DOMAIN list : r[i] = <<list[n], d + 1>>
  /\ \A j \in DOMAIN q : j = 1 \/ \E i \in DOMAIN r : r[i] = q[j]
  /\ \A n \in DOMAIN list : \E i \in DOMAIN r : r[i] = <<list[n], d + 1>>

LEMMA UpTo ==
  ASSUME NEW n \in Nat
  PROVE  IsFiniteSet(1..n) /\ Cardinality(1..n) = n
<1>1. 1 \in Int /\ n \in Int
  OBVIOUS
<1> QED BY <1>1, FS_Interval

LEMMA Joined ==
  ASSUME NEW S, NEW s \in Seq(S), NEW t \in Seq(S)
  PROVE  /\ s \o t \in Seq(S) /\ Len(s \o t) = Len(s) + Len(t)
         /\ \A i \in 1..Len(s) : (s \o t)[i] = s[i]
         /\ \A i \in 1..Len(t) : (s \o t)[Len(s) + i] = t[i]
OBVIOUS

LEMMA Entries ==
  ASSUME NEW S, NEW s \in Seq(S \X Nat)
  PROVE  /\ Len(s) \in Nat /\ DOMAIN s = 1..Len(s)
         /\ \A i \in DOMAIN s : i \in Nat /\ i >= 1 /\ s[i] \in S \X Nat /\ s[i][2] \in Nat
         /\ s = << >> => DOMAIN s = {}
         /\ s # << >> => 1 \in DOMAIN s
<1>1. Len(s) \in Nat /\ DOMAIN s = 1..Len(s) /\ \A i \in 1..Len(s) : s[i] \in S \X Nat
  OBVIOUS
<1>2. \A i \in DOMAIN s : i \in Nat /\ i >= 1 /\ s[i] \in S \X Nat /\ s[i][2] \in Nat
  <2> TAKE i \in DOMAIN s
  <2>1. i \in Nat /\ i >= 1 /\ s[i] \in S \X Nat
    BY <1>1
  <2> QED BY <2>1
<1>3. s # << >> => Len(s) # 0
  BY <1>1
<1>4. s = << >> => DOMAIN s = {}
  OBVIOUS
<1> QED BY <1>1, <1>2, <1>3, <1>4

LEMMA TurnIs ==
  ASSUME NEW q \in Seq(Url \X Nat), q # << >>, NEW list \in Seq(Url), NEW d, d = q[1][2]
  PROVE  /\ Behind(Tail(q), list, d + 1) \in Seq(Url \X Nat)
         /\ AfterTurn(q, list, d, Behind(Tail(q), list, d + 1))
<1> DEFINE f == [n \in DOMAIN list |-> <<list[n], d + 1>>]
<1>1. /\ Len(q) \in Nat /\ DOMAIN q = 1..Len(q) /\ 1 \in DOMAIN q
      /\ \A j \in DOMAIN q : j \in Nat /\ j >= 1 /\ q[j] \in Url \X Nat /\ q[j][2] \in Nat
  BY Entries
<1>2. d \in Nat /\ Len(q) >= 1
  BY <1>1
<1>3. Len(list) \in Nat /\ DOMAIN list = 1..Len(list) /\ \A n \in 1..Len(list) : list[n] \in Url
  OBVIOUS
<1>4. /\ f \in Seq(Url \X Nat) /\ Len(f) = Len(list)
      /\ \A n \in 1..Len(list) : f[n] = <<list[n], d + 1>>
  BY <1>2, <1>3
<1>5. Tail(q) \in Seq(Url \X Nat) /\ Len(Tail(q)) = Len(q) - 1 /\ \A i \in 1..(Len(q) - 1) : Tail(q)[i] = q[i + 1]
  BY <1>1, <1>2
<1>6. PICK r : r = Tail(q) \o f
  OBVIOUS
<1>7. Behind(Tail(q), list, d + 1) = r
  BY <1>6 DEF Behind
<1> HIDE DEF f
<1>8. r \in Seq(Url \X Nat) /\ Len(r) = Len(q) - 1 + Len(list)
  <2>1. Tail(q) \o f \in Seq(Url \X Nat) /\ Len(Tail(q) \o f) = Len(Tail(q)) + Len(f)
    BY <1>4, <1>5, Joined
  <2> QED BY <1>4, <1>5, <1>6, <2>1
<1>9. /\ DOMAIN r = 1..Len(r)
      /\ \A i \in DOMAIN r : i \in Nat /\ i >= 1 /\ r[i] \in Url \X Nat /\ r[i][2] \in Nat
      /\ r = << >> => DOMAIN r = {}
      /\ r # << >> => 1 \in DOMAIN r
  BY <1>8, Entries
<1>10. \A i \in 1..(Len(q) - 1) : r[i] = q[i + 1]
  BY <1>4, <1>5, <1>6, Joined
<1>11. \A n \in 1..Len(list) : r[Len(q) - 1 + n] = <<list[n], d + 1>>
  BY <1>4, <1>5, <1>6, Joined
<1>12. PICK k \in Nat : k = Len(q) - 1
  <2>1. Len(q) - 1 \in Nat
    BY <1>1, <1>2
  <2> QED BY <2>1
<1>13. ASSUME NEW i \in DOMAIN r
       PROVE  \/ i <= k /\ i + 1 \in DOMAIN q /\ r[i] = q[i + 1]
              \/ i > k /\ \E n \in DOMAIN list : r[i] = <<list[n], d + 1>>
  <2>1. i \in Nat /\ i >= 1 /\ i <= k + Len(list)
    BY <1>1, <1>3, <1>8, <1>9, <1>12
  <2>2. CASE i <= k
    <3>1. i \in 1..(Len(q) - 1) /\ i + 1 \in DOMAIN q
      BY <1>1, <1>12, <2>1, <2>2
    <3> QED BY <1>10, <2>2, <3>1
  <2>3. CASE i > k
    <3>1. i - k \in 1..Len(list) /\ Len(q) - 1 + (i - k) = i
      BY <1>1, <1>3, <1>12, <2>1, <2>3
    <3>2. r[i] = <<list[i - k], d + 1>> /\ i - k \in DOMAIN list
      BY <1>3, <1>11, <3>1
    <3> QED BY <2>3, <3>2
  <2>4. i <= k \/ i > k
    BY <1>12, <2>1
  <2> QED BY <2>2, <2>3, <2>4
<1>14. ASSUME NEW j \in DOMAIN q PROVE j = 1 \/ \E i \in DOMAIN r : r[i] = q[j]
  <2>1. CASE j # 1
    <3>1. j \in Nat /\ j >= 1 /\ j <= Len(q) /\ Len(q) \in Nat /\ Len(list) \in Nat
      BY <1>1, <1>3
    <3>2. j - 1 \in 1..(Len(q) - 1) /\ (j - 1) + 1 = j
      BY <2>1, <3>1
    <3>3. j - 1 \in 1..(Len(q) - 1 + Len(list))
      BY <2>1, <3>1
    <3>4. j - 1 \in DOMAIN r
      BY <1>8, <1>9, <3>3
    <3> QED BY <1>10, <3>2, <3>4
  <2> QED BY <2>1
<1>15. ASSUME NEW n \in DOMAIN list PROVE \E i \in DOMAIN r : r[i] = <<list[n], d + 1>>
  <2>1. Len(q) - 1 + n \in DOMAIN r
    <3>1. n \in Nat /\ n >= 1 /\ n <= Len(list) /\ Len(q) \in Nat /\ Len(list) \in Nat
      BY <1>1, <1>3
    <3>2. Len(q) - 1 + n \in 1..(Len(q) - 1 + Len(list))
      BY <1>2, <3>1
    <3> QED BY <1>8, <1>9, <3>2
  <2> QED BY <1>3, <1>11, <2>1
<1>16. AfterTurn(q, list, d, r)
  BY <1>1, <1>9, <1>13, <1>14, <1>15 DEF AfterTurn
<1> QED BY <1>7, <1>8, <1>16

LEMMA TurnOrdered ==
  ASSUME NEW q, NEW list, NEW d \in Nat, NEW r, AfterTurn(q, list, d, r), Ordered(q)
  PROVE  Ordered(r) /\ \A i \in DOMAIN r : d <= r[i][2] /\ r[i][2] <= d + 1
<1>1. /\ 1 \in DOMAIN q /\ q[1][2] = d
      /\ \A j \in DOMAIN q : j \in Nat /\ j >= 1 /\ q[j][2] \in Nat
      /\ \A i \in DOMAIN r : i \in Nat /\ i >= 1 /\ r[i][2] \in Nat
  BY DEF AfterTurn
<1>2. PICK k \in Nat : \A i \in DOMAIN r :
        \/ i <= k /\ i + 1 \in DOMAIN q /\ r[i] = q[i + 1]
        \/ i > k /\ \E n \in DOMAIN list : r[i] = <<list[n], d + 1>>
  BY DEF AfterTurn
<1>3. \A j \in DOMAIN q : d <= q[j][2] /\ q[j][2] <= d + 1
  <2> TAKE j \in DOMAIN q
  <2>1. 1 <= j
    BY <1>1
  <2> QED BY <1>1, <2>1 DEF Ordered
<1>4. ASSUME NEW i \in DOMAIN r
      PROVE  d <= r[i][2] /\ r[i][2] <= d + 1 /\ (i > k => r[i][2] = d + 1)
  <2>1. CASE i <= k /\ i + 1 \in DOMAIN q /\ r[i] = q[i + 1]
    BY <1>1, <1>3, <2>1
  <2>2. CASE i > k /\ \E n \in DOMAIN list : r[i] = <<list[n], d + 1>>
    <3>1. r[i][2] = d + 1
      BY <2>2
    <3> QED BY <3>1
  <2> QED BY <1>2, <2>1, <2>2
<1>5. ASSUME NEW i \in DOMAIN r, NEW j \in DOMAIN r, i <= j
      PROVE  r[i][2] <= r[j][2] /\ r[j][2] <= r[i][2] + 1
  <2>1. i \in Nat /\ j \in Nat /\ r[i][2] \in Nat /\ r[j][2] \in Nat
    BY <1>1
  <2>2. CASE j <= k
    <3>1. i <= k
      BY <1>5, <2>1, <2>2
    <3>2. i + 1 \in DOMAIN q /\ r[i] = q[i + 1] /\ j + 1 \in DOMAIN q /\ r[j] = q[j + 1] /\ i + 1 <= j + 1
      BY <1>2, <1>5, <2>1, <2>2, <3>1
    <3> QED BY <3>2 DEF Ordered
  <2>3. CASE j > k
    <3>1. r[j][2] = d + 1 /\ d <= r[i][2] /\ r[i][2] <= d + 1
      BY <1>4, <2>3
    <3> QED BY <2>1, <3>1
  <2> QED BY <2>1, <2>2, <2>3
<1>6. Ordered(r)
  BY <1>5 DEF Ordered
<1> QED BY <1>4, <1>6

LEMMA TurnFound ==
  ASSUME NEW web, NEW max \in Nat, NEW along, NEW q, NEW list \in Seq(Url), NEW d \in Nat,
         NEW r, AfterTurn(q, list, d, r), FoundAlong(web, max, q, along),
         list # << >> => q[1][1] \in along /\ d < max,
         PagesOf(list) \subseteq web.links[q[1][1]]
  PROVE  FoundAlong(web, max, r, along)
<1>1. 1 \in DOMAIN q /\ q[1][2] = d
  BY DEF AfterTurn
<1>2. \A i \in DOMAIN r : \/ i + 1 \in DOMAIN q /\ r[i] = q[i + 1]
                          \/ \E n \in DOMAIN list : r[i] = <<list[n], d + 1>>
  BY DEF AfterTurn
<1>3. d \in 1..max /\ q[1][1] \in Near(web, d, along)
  BY <1>1 DEF FoundAlong
<1>4. ASSUME NEW n \in DOMAIN list
      PROVE  d + 1 \in 1..max /\ list[n] \in Near(web, d + 1, along)
  <2>1. list[n] \in Url /\ list[n] \in web.links[q[1][1]] /\ list # << >>
    BY DEF PagesOf
  <2>2. q[1][1] \in Near(web, d, along) \cap along /\ d + 1 \in 1..max /\ d \in Nat \ {0}
    BY <1>3, <2>1
  <2> QED BY <2>1, <2>2, NearOn
<1>5. ASSUME NEW i \in DOMAIN r
      PROVE  r[i][2] \in 1..max /\ r[i][1] \in Near(web, r[i][2], along)
  <2>1. CASE i + 1 \in DOMAIN q /\ r[i] = q[i + 1]
    BY <2>1 DEF FoundAlong
  <2>2. CASE \E n \in DOMAIN list : r[i] = <<list[n], d + 1>>
    <3>1. PICK n \in DOMAIN list : r[i] = <<list[n], d + 1>>
      BY <2>2
    <3>2. r[i][1] = list[n] /\ r[i][2] = d + 1
      BY <3>1
    <3> QED BY <1>4, <3>2
  <2> QED BY <1>2, <2>1, <2>2
<1> QED BY <1>5 DEF FoundAlong

\* What was in the queue still is, but for the page that has left.
LEMMA TurnQueued ==
  ASSUME NEW q, NEW list, NEW d \in Nat, NEW r, AfterTurn(q, list, d, r)
  PROVE  /\ Queued(q) \subseteq {q[1][1]} \cup Queued(r) /\ PagesOf(list) \subseteq Queued(r)
         /\ \A e : QueuedTo(q, e) \subseteq {q[1][1]} \cup QueuedTo(r, e)
<1>1. /\ \A j \in DOMAIN q : j = 1 \/ \E i \in DOMAIN r : r[i] = q[j]
      /\ \A n \in DOMAIN list : \E i \in DOMAIN r : r[i] = <<list[n], d + 1>>
  BY DEF AfterTurn
<1>2. ASSUME NEW j \in DOMAIN q PROVE q[j][1] \in {q[1][1]} \cup Queued(r)
  BY <1>1 DEF Queued
<1>3. ASSUME NEW n \in DOMAIN list PROVE list[n] \in Queued(r)
  <2>1. PICK i \in DOMAIN r : r[i] = <<list[n], d + 1>>
    BY <1>1
  <2>2. r[i][1] = list[n]
    BY <2>1
  <2> QED BY <2>2 DEF Queued
<1>4. ASSUME NEW e, NEW j \in DOMAIN q, q[j][2] <= e PROVE q[j][1] \in {q[1][1]} \cup QueuedTo(r, e)
  <2>1. CASE j = 1
    BY <2>1
  <2>2. CASE j # 1
    <3>1. PICK i \in DOMAIN r : r[i] = q[j]
      BY <1>1, <2>2
    <3>2. i \in {k \in DOMAIN r : r[k][2] <= e} /\ q[j][1] = r[i][1]
      BY <1>4, <3>1
    <3> QED BY <3>2 DEF QueuedTo
  <2> QED BY <2>1, <2>2
<1> QED BY <1>2, <1>3, <1>4 DEF Queued, QueuedTo, PagesOf

LEMMA TurnCovered ==
  ASSUME NEW web, NEW max \in Nat, NEW html, NEW visited, NEW q, q # << >>, NEW list, NEW d \in Nat, NEW r,
         NEW url, url = q[1][1], AfterTurn(q, list, d, r), d \in 1..max,
         \A i \in DOMAIN r : r[i][2] \in 1..max /\ d <= r[i][2] /\ r[i][2] <= d + 1, Ordered(r),
         Covered(web, max, q, visited, html),
         url \in html /\ url \notin visited /\ d < max =>
           web.links[url] \subseteq visited \cup {url} \cup PagesOf(list)
  PROVE  Covered(web, max, r, visited \cup {url}, html)
<1>1. /\ q[1][2] = d /\ \A i \in DOMAIN r : i \in Nat /\ i >= 1 /\ r[i][2] \in Nat
      /\ r = << >> => DOMAIN r = {}
      /\ r # << >> => 1 \in DOMAIN r
  BY DEF AfterTurn
<1>2. /\ \A n \in 1..d : Near(web, n, html) \subseteq visited \cup QueuedTo(q, d)
      /\ d < max => \A v \in visited \cap html : web.links[v] \subseteq visited \cup Queued(q)
  BY <1>1 DEF Covered
<1>3. /\ Queued(q) \subseteq {url} \cup Queued(r) /\ PagesOf(list) \subseteq Queued(r)
      /\ QueuedTo(q, d) \subseteq {url} \cup QueuedTo(r, d)
  BY TurnQueued
<1>4. \A n \in 1..d : Near(web, n, html) \subseteq visited \cup {url} \cup QueuedTo(r, d)
  BY <1>2, <1>3
<1>5. ASSUME d < max, NEW v \in (visited \cup {url}) \cap html
      PROVE  web.links[v] \subseteq visited \cup {url} \cup Queued(r)
  <2>1. CASE v \in visited
    BY <1>2, <1>3, <1>5, <2>1
  <2>2. CASE v \notin visited
    BY <1>3, <1>5, <2>2
  <2> QED BY <2>1, <2>2
<1>6. CASE r = << >>
  <2>1. QueuedTo(r, d) = {} /\ Queued(r) = {}
    BY <1>1, <1>6 DEF QueuedTo, Queued
  <2>2. \A n \in 1..d : Near(web, n, html) \subseteq visited \cup {url}
    BY <1>4, <2>1
  <2>3. CASE d = max
    BY <1>6, <2>2, <2>3 DEF Covered
  <2>4. CASE d # max
    <3>1. d < max /\ 1 \in 1..d
      BY <2>4
    <3>2. \A v \in (visited \cup {url}) \cap html : web.links[v] \subseteq visited \cup {url}
      BY <1>5, <2>1, <3>1
    <3>3. Near(web, 1, html) \subseteq visited \cup {url}
      BY <2>2, <3>1
    <3>4. \A n \in Nat \ {0} : Near(web, n, html) \subseteq visited \cup {url}
      BY <3>2, <3>3, NearWithin
    <3>5. \A n \in 1..max : n \in Nat \ {0}
      OBVIOUS
    <3> QED BY <1>6, <3>4, <3>5 DEF Covered
  <2> QED BY <2>3, <2>4
<1>7. CASE r # << >>
  <2>1. 1 \in DOMAIN r /\ r[1][2] \in Nat /\ (r[1][2] = d \/ r[1][2] = d + 1)
    BY <1>1, <1>7
  <2>2. CASE r[1][2] = d
    BY <1>4, <1>5, <1>7, <2>2 DEF Covered
  <2>3. CASE r[1][2] = d + 1
    <3>1. QueuedTo(r, d) = {}
      <4>1. ASSUME NEW i \in DOMAIN r PROVE ~ (r[i][2] <= d)
        <5>1. 1 <= i /\ r[1][2] <= r[i][2] /\ r[i][2] \in Nat
          BY <1>1, <2>1 DEF Ordered
        <5> QED BY <2>3, <5>1
      <4> QED BY <4>1 DEF QueuedTo
    <3>2. Queued(r) = QueuedTo(r, d + 1)
      <4>1. {j \in DOMAIN r : r[j][2] <= d + 1} = DOMAIN r
        OBVIOUS
      <4> QED BY <4>1 DEF Queued, QueuedTo
    <3>3. d < max
      <4>1. d + 1 \in 1..max
        BY <2>1, <2>3
      <4> QED BY <4>1
    <3>4. ASSUME NEW n \in 1..(d + 1)
          PROVE  Near(web, n, html) \subseteq visited \cup {url} \cup QueuedTo(r, d + 1)
      <4>1. CASE n <= d
        <5>1. n \in 1..d
          BY <4>1
        <5> QED BY <1>4, <3>1, <5>1
      <4>2. CASE ~ (n <= d)
        <5>1. n = d + 1 /\ d \in Nat \ {0} /\ d \in 1..d
          BY <4>2
        <5>2. ASSUME NEW u \in Near(web, d + 1, html) PROVE u \in visited \cup {url} \cup QueuedTo(r, d + 1)
          <6>1. PICK v \in Near(web, d, html) \cap html : u \in web.links[v]
            BY <5>1, NearFrom
          <6>2. v \in visited \cup {url}
            BY <1>4, <3>1, <5>1, <6>1
          <6> QED BY <1>5, <3>2, <3>3, <6>1, <6>2
        <5> QED BY <5>1, <5>2
      <4> QED BY <4>1, <4>2
    <3>5. r[1][2] < max => \A v \in (visited \cup {url}) \cap html :
                             web.links[v] \subseteq visited \cup {url} \cup Queued(r)
      BY <1>5, <3>3
    <3> QED BY <1>7, <2>3, <3>4, <3>5 DEF Covered
  <2> QED BY <2>1, <2>2, <2>3
<1> QED BY <1>6, <1>7

\* Breadth first: a page that leaves the queue is visited, and the links it may have
\* are behind everything that is as near as the page.
LEMMA TurnKeeps ==
  ASSUME NEW web, NEW max \in Nat, NEW html, NEW along, NEW visited,
         NEW q \in Seq(Url \X Nat), q # << >>, BreadthFirst(web, max, q, visited, html, along),
         NEW list \in Seq(Url), list # << >> => q[1][1] \in along /\ q[1][2] < max,
         PagesOf(list) \subseteq web.links[q[1][1]],
         q[1][1] \in html /\ q[1][1] \notin visited /\ q[1][2] < max =>
           web.links[q[1][1]] \subseteq visited \cup {q[1][1]} \cup PagesOf(list)
  PROVE  /\ Behind(Tail(q), list, q[1][2] + 1) \in Seq(Url \X Nat)
         /\ BreadthFirst(web, max, Behind(Tail(q), list, q[1][2] + 1), visited \cup {q[1][1]}, html, along)
<1>1. PICK d, r : d = q[1][2] /\ r = Behind(Tail(q), list, d + 1)
  OBVIOUS
<1>2. r \in Seq(Url \X Nat) /\ AfterTurn(q, list, d, r)
  BY <1>1, TurnIs
<1>3. 1 \in DOMAIN q /\ d \in Nat
  BY <1>1, Entries
<1>4. Ordered(q) /\ FoundAlong(web, max, q, along) /\ Covered(web, max, q, visited, html)
  BY DEF BreadthFirst
<1>5. Ordered(r) /\ \A i \in DOMAIN r : d <= r[i][2] /\ r[i][2] <= d + 1
  BY <1>2, <1>3, <1>4, TurnOrdered
<1>6. FoundAlong(web, max, r, along) /\ \A i \in DOMAIN r : r[i][2] \in 1..max
  <2>1. FoundAlong(web, max, r, along)
    <3>1. list # << >> => q[1][1] \in along /\ d < max
      BY <1>1
    <3> QED BY <1>2, <1>3, <1>4, <3>1, TurnFound
  <2> QED BY <2>1 DEF FoundAlong
<1>7. d \in 1..max
  BY <1>1, <1>3, <1>4 DEF FoundAlong
<1>8. Covered(web, max, r, visited \cup {q[1][1]}, html)
  BY <1>1, <1>2, <1>3, <1>4, <1>5, <1>6, <1>7, TurnCovered
<1> QED BY <1>1, <1>2, <1>5, <1>6, <1>8 DEF BreadthFirst

-----------------------------------------------------------------------------
(* The steps.                                                              *)

\* Fewer pages have been there throughout, and more may have been followed.
LEMMA Monotone ==
  ASSUME NEW web, NEW max \in Nat, NEW q \in Seq(Url \X Nat), NEW visited, NEW html, NEW along,
         BreadthFirst(web, max, q, visited, html, along),
         NEW less, less \subseteq html, NEW more, along \subseteq more
  PROVE  BreadthFirst(web, max, q, visited, less, more)
<1>1. \A n : Near(web, n, less) \subseteq Near(web, n, html)
  BY NearGrows
<1>2. \A n : Near(web, n, along) \subseteq Near(web, n, more)
  BY NearGrows
<1>3. Ordered(q)
  BY DEF BreadthFirst
<1>4. FoundAlong(web, max, q, more)
  BY <1>2 DEF BreadthFirst, FoundAlong
<1>5. Covered(web, max, q, visited, less)
  <2>1. Covered(web, max, q, visited, html)
    BY DEF BreadthFirst
  <2>2. CASE q = << >>
    BY <1>1, <2>1, <2>2 DEF Covered
  <2>3. CASE q # << >>
    <3>1. \A n \in 1..q[1][2] : Near(web, n, less) \subseteq visited \cup QueuedTo(q, q[1][2])
      BY <1>1, <2>1, <2>3 DEF Covered
    <3>2. q[1][2] < max => \A v \in visited \cap less : web.links[v] \subseteq visited \cup Queued(q)
      BY <2>1, <2>3 DEF Covered
    <3> QED BY <2>3, <3>1, <3>2 DEF Covered
  <2> QED BY <2>2, <2>3
<1> QED BY <1>3, <1>4, <1>5 DEF BreadthFirst

LEMMA Still ==
  ASSUME UNCHANGED <<site, scan, changed>>
  PROVE  /\ Web' = Web /\ Html' = Html /\ Along' = Along /\ scan' = scan
         /\ Steady({"html", "text"})' = Steady({"html", "text"})
         /\ Reached(Along)' = Reached(Along)
<1>1. Web' = Web /\ Html' = Html /\ Along' = Along /\ scan' = scan
  BY DEF Web, Html, Along, Steady
<1>2. Steady({"html", "text"})' = Steady({"html", "text"})
  BY DEF Steady
<1>3. Reached(Along)' = Reached(Along)
  BY <1>1 DEF Reached
<1> QED BY <1>1, <1>2, <1>3

LEMMA WebIs ==
  ASSUME CrawlTypes
  PROVE  /\ Web.links = site.links /\ Web.seeds = scan.seeds
         /\ Web.links \in [Url -> SUBSET Url] /\ Web.seeds \in Seq(Url)
         /\ scan.depth \in Nat \ {0}
         /\ Html \subseteq Url /\ Html \subseteq Along /\ Html \subseteq Steady({"html", "text"})
         /\ \A u \in Url : site.answer[u] \in Answers
         /\ \A u \in Url : IsFiniteSet(site.links[u])
BY DEF CrawlTypes, Web, Html, Along, Steady

LEMMA CrawlInitially == CrawlInit => CrawlInv
<1> SUFFICES ASSUME CrawlInit PROVE CrawlInv
  OBVIOUS
<1>1. /\ site \in [links : Sites, answer : [Url -> Answers]]
      /\ scan \in [seeds : Seeds, depth : Depths, portion : Portions]
      /\ cursor = FromSeeds(scan.seeds) /\ call = NoCall /\ harvest = << >> /\ changed = {}
  BY DEF CrawlInit
<1>2. /\ site.links \in [Url -> {pages \in SUBSET Url : IsFiniteSet(pages)}] /\ scan.seeds \in Seq(Url)
      /\ scan.depth \in Nat \ {0}
  BY <1>1, CrawlAssumption
<1> DEFINE q == [n \in DOMAIN scan.seeds |-> <<scan.seeds[n], 1>>]
<1>3. /\ Len(scan.seeds) \in Nat /\ DOMAIN scan.seeds = 1..Len(scan.seeds)
      /\ \A n \in DOMAIN scan.seeds : scan.seeds[n] \in Url
  BY <1>2
<1>4. q \in Seq(Url \X Nat) /\ DOMAIN q = DOMAIN scan.seeds /\ \A n \in DOMAIN q : q[n] = <<scan.seeds[n], 1>>
  BY <1>3
<1>5. cursor.queue = q /\ cursor.visited = {} /\ cursor.more = TRUE /\ cursor = [queue |-> q, visited |-> {}, more |-> TRUE]
  BY <1>1 DEF FromSeeds
<1> HIDE DEF q
<1>6. CrawlTypes
  <2>1. site \in [links : {site.links}, answer : [Url -> Answers]]
    BY <1>1
  <2>2. cursor \in [queue : Seq(Url \X Nat), visited : SUBSET Url, more : BOOLEAN]
    BY <1>4, <1>5
  <2>3. call \in [on : BOOLEAN, queue : Seq(Url \X Nat), visited : SUBSET Url, fetched : Seq(Url)]
    BY <1>1 DEF NoCall
  <2> QED BY <1>1, <1>2, <2>1, <2>2, <2>3 DEF CrawlTypes
<1>7. BreadthFirst(Web, scan.depth, q, {}, Html, Along)
  <2>1. Ordered(q)
    BY <1>4 DEF Ordered
  <2>2. FoundAlong(Web, scan.depth, q, Along)
    BY <1>2, <1>4, <1>6, WebIs, SeedsAreNear DEF FoundAlong
  <2>3. CASE q = << >>
    <3>1. Near(Web, 1, Html) \subseteq {}
      BY <1>4, <1>6, <2>3, WebIs, SeedsAreNear
    <3>2. \A n \in Nat \ {0} : Near(Web, n, Html) \subseteq {}
      BY <3>1, NearWithin
    <3>3. \A n \in 1..scan.depth : n \in Nat \ {0}
      BY <1>2
    <3> QED BY <2>1, <2>2, <2>3, <3>2, <3>3 DEF BreadthFirst, Covered
  <2>4. CASE q # << >>
    <3>1. q[1][2] = 1 /\ 1 \in DOMAIN q
      BY <1>3, <1>4, <2>4
    <3>2. \A u \in Near(Web, 1, Html) : u \in QueuedTo(q, 1)
      <4> TAKE u \in Near(Web, 1, Html)
      <4>1. PICK i \in DOMAIN scan.seeds : u = scan.seeds[i]
        BY <1>6, WebIs, SeedsAreNear
      <4>2. i \in DOMAIN q /\ q[i][1] = u /\ q[i][2] <= 1
        BY <1>4, <4>1
      <4> QED BY <4>2 DEF QueuedTo
    <3>3. \A n \in 1..1 : n = 1
      OBVIOUS
    <3> QED BY <2>1, <2>2, <2>4, <3>1, <3>2, <3>3 DEF BreadthFirst, Covered
  <2> QED BY <2>3, <2>4
<1>8. CursorFits
  <2>1. Brought = {} /\ Distinct(harvest)
    BY <1>1 DEF Brought, Distinct
  <2> QED BY <1>5, <1>7, <2>1 DEF CursorFits
<1>9. CallFits
  BY <1>1 DEF CallFits, NoCall
<1> QED BY <1>6, <1>8, <1>9 DEF CrawlInv

LEMMA CallKeeps ==
  ASSUME CrawlInv, CallScan \/ LoseCall
  PROVE  CrawlInv'
<1>1. CrawlTypes /\ CursorFits /\ UNCHANGED <<site, scan, cursor, harvest, changed>>
  BY DEF CrawlInv, CallScan, LoseCall
<1>2. /\ Web' = Web /\ Html' = Html /\ Along' = Along /\ scan' = scan
      /\ Steady({"html", "text"})' = Steady({"html", "text"})
      /\ Reached(Along)' = Reached(Along)
  BY <1>1, Still
<1>3. CursorFits'
  BY <1>1, <1>2 DEF CursorFits, Brought
<1>4. CASE CallScan
  <2>1. call' = [on |-> TRUE, queue |-> cursor.queue, visited |-> cursor.visited, fetched |-> << >>]
    BY <1>4 DEF CallScan
  <2>2. CrawlTypes'
    BY <1>1, <2>1 DEF CrawlTypes
  <2>3. PagesOf(<< >>) = {} /\ Distinct(<< >>)
    BY DEF PagesOf, Distinct
  <2>4. CallFits'
    BY <1>1, <1>2, <2>1, <2>3 DEF CursorFits, CallFits
  <2> QED BY <1>3, <2>2, <2>4 DEF CrawlInv
<1>5. CASE LoseCall
  <2>1. call' = NoCall
    BY <1>5 DEF LoseCall
  <2>2. CrawlTypes' /\ CallFits'
    BY <1>1, <2>1 DEF CrawlTypes, CallFits, NoCall
  <2> QED BY <1>3, <2>2 DEF CrawlInv
<1> QED BY <1>4, <1>5

LEMMA PassOverKeeps ==
  ASSUME CrawlInv, PassOver
  PROVE  CrawlInv'
<1>1. CrawlTypes /\ CursorFits /\ CallFits
  BY DEF CrawlInv
<1>2. PICK q, url : q = call.queue /\ url = q[1][1]
  OBVIOUS
<1>3. /\ call.on /\ q # << >>
      /\ url \in call.visited \/ site.answer[url] = "none"
      /\ call' = [call EXCEPT !.queue = Tail(q), !.visited = @ \cup {url}]
      /\ UNCHANGED <<site, scan, cursor, harvest, changed>>
  BY <1>2 DEF PassOver, InLoop, Popped
<1>4. /\ q \in Seq(Url \X Nat) /\ call.visited \in SUBSET Url /\ q[1][2] \in Nat /\ url \in Url
      /\ call \in [on : BOOLEAN, queue : Seq(Url \X Nat), visited : SUBSET Url, fetched : Seq(Url)]
  <2>1. /\ q \in Seq(Url \X Nat) /\ call.visited \in SUBSET Url
        /\ call \in [on : BOOLEAN, queue : Seq(Url \X Nat), visited : SUBSET Url, fetched : Seq(Url)]
    BY <1>1, <1>2 DEF CrawlTypes
  <2>2. q[1] \in Url \X Nat
    BY <1>3, <2>1
  <2> QED BY <1>2, <2>1, <2>2
<1>5. /\ Web' = Web /\ Html' = Html /\ Along' = Along /\ scan' = scan
      /\ Steady({"html", "text"})' = Steady({"html", "text"})
      /\ Reached(Along)' = Reached(Along)
  BY <1>3, Still
<1>6. url \notin Steady({"html", "text"}) \/ url \in call.visited
  BY <1>3 DEF Steady
<1>7. Tail(q) \in Seq(Url \X Nat) /\ BreadthFirst(Web, scan.depth, Tail(q), call.visited \cup {url}, Html, Along)
  <2>1. PICK list : list = << >>
    OBVIOUS
  <2>2. PICK r : r = Behind(Tail(q), list, q[1][2] + 1)
    OBVIOUS
  <2>3. r = Tail(q)
    <3>1. [n \in DOMAIN list |-> <<list[n], q[1][2] + 1>>] = << >>
      BY <2>1
    <3>2. Tail(q) \in Seq(Url \X Nat)
      BY <1>3, <1>4
    <3> QED BY <2>2, <3>1, <3>2 DEF Behind
  <2>4. list \in Seq(Url) /\ PagesOf(list) = {}
    BY <2>1 DEF PagesOf
  <2>5. BreadthFirst(Web, scan.depth, q, call.visited, Html, Along)
    BY <1>1, <1>2, <1>3 DEF CallFits
  <2>6. ~ (url \in Html /\ url \notin call.visited)
    BY <1>1, <1>6, WebIs
  <2>7. Web.links \in [Url -> SUBSET Url] /\ Web.seeds \in Seq(Url) /\ scan.depth \in Nat \ {0}
    BY <1>1, WebIs
  <2>8. /\ q # << >> /\ scan.depth \in Nat
        /\ list # << >> => q[1][1] \in Along /\ q[1][2] < scan.depth
        /\ PagesOf(list) \subseteq Web.links[q[1][1]]
        /\ q[1][1] \in Html /\ q[1][1] \notin call.visited /\ q[1][2] < scan.depth =>
             Web.links[q[1][1]] \subseteq call.visited \cup {q[1][1]} \cup PagesOf(list)
    BY <1>2, <1>3, <2>1, <2>4, <2>6, <2>7
  <2>9. /\ Behind(Tail(q), list, q[1][2] + 1) \in Seq(Url \X Nat)
        /\ BreadthFirst(Web, scan.depth, Behind(Tail(q), list, q[1][2] + 1), call.visited \cup {q[1][1]},
                        Html, Along)
    BY <1>4, <2>4, <2>5, <2>8, TurnKeeps
  <2> QED BY <1>2, <2>2, <2>3, <2>9
<1>8. CrawlTypes'
  BY <1>1, <1>3, <1>4, <1>7 DEF CrawlTypes
<1>9. CursorFits'
  BY <1>1, <1>3, <1>5 DEF CursorFits, Brought
<1>10. CallFits'
  <2>1. call'.on /\ call'.queue = Tail(q) /\ call'.visited = call.visited \cup {url} /\ call'.fetched = call.fetched
    BY <1>3, <1>4
  <2> QED BY <1>1, <1>3, <1>5, <1>6, <1>7, <2>1 DEF CallFits
<1> QED BY <1>8, <1>9, <1>10 DEF CrawlInv

LEMMA InOrderIs ==
  ASSUME NEW pages \in SUBSET Url, IsFiniteSet(pages), NEW list \in InOrder(pages)
  PROVE  list \in Seq(Url) /\ PagesOf(list) = pages /\ (list # << >> => pages # {})
<1>1. Cardinality(pages) \in Nat
  BY FS_CardinalityType
<1>2. list \in [1..Cardinality(pages) -> pages] /\ \A u \in pages : \E n \in DOMAIN list : list[n] = u
  BY DEF InOrder
<1>3. list \in Seq(Url)
  BY <1>1, <1>2
<1>4. PagesOf(list) = pages
  BY <1>2 DEF PagesOf
<1>5. list # << >> => 1 \in DOMAIN list
  BY <1>1, <1>2
<1> QED BY <1>2, <1>3, <1>4, <1>5

LEMMA FetchKeeps ==
  ASSUME CrawlInv, FetchPage
  PROVE  CrawlInv'
<1>1. CrawlTypes /\ CursorFits /\ CallFits
  BY DEF CrawlInv
<1>2. PICK q, url, d : q = call.queue /\ url = q[1][1] /\ d = q[1][2]
  OBVIOUS
<1>3. /\ call.on /\ q # << >>
      /\ url \notin call.visited /\ site.answer[url] # "none"
      /\ \E list \in InOrder(Found(url, d, call.visited \cup {url})) :
           call' = [on |-> TRUE, visited |-> call.visited \cup {url}, fetched |-> Append(call.fetched, url),
                    queue |-> Behind(Tail(q), list, d + 1)]
      /\ UNCHANGED <<site, scan, cursor, harvest, changed>>
  <2>1. Popped(call.queue).head = q[1] /\ Popped(call.queue).rest = Tail(q)
    BY <1>2 DEF Popped
  <2> QED BY <1>2, <2>1 DEF FetchPage, InLoop
<1>4. PICK list \in InOrder(Found(url, d, call.visited \cup {url})) :
        call' = [on |-> TRUE, visited |-> call.visited \cup {url}, fetched |-> Append(call.fetched, url),
                 queue |-> Behind(Tail(q), list, d + 1)]
  BY <1>3
<1>5. /\ q \in Seq(Url \X Nat) /\ call.visited \in SUBSET Url /\ d \in Nat /\ url \in Url
      /\ call.fetched \in Seq(Url)
  <2>1. /\ q \in Seq(Url \X Nat) /\ call.visited \in SUBSET Url /\ call.fetched \in Seq(Url)
    BY <1>1, <1>2 DEF CrawlTypes
  <2>2. q[1] \in Url \X Nat
    BY <1>3, <2>1
  <2> QED BY <1>2, <2>1, <2>2
<1>6. /\ Web' = Web /\ Html' = Html /\ Along' = Along /\ scan' = scan
      /\ Steady({"html", "text"})' = Steady({"html", "text"})
      /\ Reached(Along)' = Reached(Along)
  BY <1>3, Still
<1>7. BreadthFirst(Web, scan.depth, q, call.visited, Html, Along)
  BY <1>1, <1>2, <1>3 DEF CallFits
<1>8. /\ Web.links = site.links /\ Web.links \in [Url -> SUBSET Url] /\ Web.seeds \in Seq(Url)
      /\ scan.depth \in Nat \ {0} /\ site.answer[url] \in Answers /\ IsFiniteSet(site.links[url])
  BY <1>1, <1>5, WebIs
<1>9. /\ list \in Seq(Url) /\ PagesOf(list) = Found(url, d, call.visited \cup {url})
      /\ list # << >> => site.answer[url] = "html" /\ d < scan.depth
  <2>1. Found(url, d, call.visited \cup {url}) \in SUBSET site.links[url]
    BY DEF Found
  <2>2. Found(url, d, call.visited \cup {url}) \in SUBSET Url
    BY <1>5, <1>8, <2>1
  <2>3. IsFiniteSet(Found(url, d, call.visited \cup {url}))
    BY <1>8, <2>1, FS_Subset
  <2>4. list \in Seq(Url) /\ PagesOf(list) = Found(url, d, call.visited \cup {url})
        /\ (list # << >> => Found(url, d, call.visited \cup {url}) # {})
    BY <2>2, <2>3, InOrderIs
  <2> QED BY <2>4 DEF Found
<1>10. PICK r : r = Behind(Tail(q), list, d + 1)
  OBVIOUS
<1>11. r \in Seq(Url \X Nat) /\ BreadthFirst(Web, scan.depth, r, call.visited \cup {url}, Html, Along)
  <2>1. list # << >> => url \in Along /\ d < scan.depth
    BY <1>5, <1>9 DEF Along, Html, Steady
  <2>2. PagesOf(list) \subseteq Web.links[url]
    BY <1>8, <1>9 DEF Found
  <2>3. url \in Html /\ url \notin call.visited /\ d < scan.depth =>
          Web.links[url] \subseteq call.visited \cup {url} \cup PagesOf(list)
    BY <1>8, <1>9 DEF Found, Html, Steady
  <2>4. /\ q # << >> /\ scan.depth \in Nat
        /\ list # << >> => q[1][1] \in Along /\ q[1][2] < scan.depth
        /\ PagesOf(list) \subseteq Web.links[q[1][1]]
        /\ q[1][1] \in Html /\ q[1][1] \notin call.visited /\ q[1][2] < scan.depth =>
             Web.links[q[1][1]] \subseteq call.visited \cup {q[1][1]} \cup PagesOf(list)
    BY <1>2, <1>3, <1>8, <2>1, <2>2, <2>3
  <2>5. /\ Behind(Tail(q), list, q[1][2] + 1) \in Seq(Url \X Nat)
        /\ BreadthFirst(Web, scan.depth, Behind(Tail(q), list, q[1][2] + 1), call.visited \cup {q[1][1]},
                        Html, Along)
    BY <1>5, <1>7, <1>9, <2>4, TurnKeeps
  <2> QED BY <1>2, <1>10, <2>5
<1>12. /\ call'.on /\ call'.queue = r /\ call'.visited = call.visited \cup {url}
       /\ call'.fetched = Append(call.fetched, url)
       /\ call' = [on |-> TRUE, queue |-> r, visited |-> call.visited \cup {url}, fetched |-> Append(call.fetched, url)]
  BY <1>4, <1>10
<1>13. CrawlTypes'
  <2>1. call' \in [on : BOOLEAN, queue : Seq(Url \X Nat), visited : SUBSET Url, fetched : Seq(Url)]
    BY <1>5, <1>11, <1>12
  <2> QED BY <1>1, <1>3, <2>1 DEF CrawlTypes
<1>14. CursorFits'
  BY <1>1, <1>3, <1>6 DEF CursorFits, Brought
<1>15. PagesOf(call'.fetched) = PagesOf(call.fetched) \cup {url} /\ Distinct(call'.fetched)
  <2>1. /\ Len(call.fetched) \in Nat /\ DOMAIN call.fetched = 1..Len(call.fetched)
        /\ DOMAIN call'.fetched = 1..(Len(call.fetched) + 1) /\ call'.fetched[Len(call.fetched) + 1] = url
        /\ \A i \in 1..Len(call.fetched) : call'.fetched[i] = call.fetched[i]
    BY <1>5, <1>12
  <2>2. Distinct(call.fetched) /\ \A i \in DOMAIN call.fetched : call.fetched[i] # url
    BY <1>1, <1>3 DEF CallFits, PagesOf
  <2>3. \A i \in 1..(Len(call.fetched) + 1) : i \in 1..Len(call.fetched) \/ i = Len(call.fetched) + 1
    BY <2>1
  <2>4. Distinct(call'.fetched)
    BY <2>1, <2>2, <2>3 DEF Distinct
  <2>5. Len(call.fetched) + 1 \in 1..(Len(call.fetched) + 1)
        /\ \A i \in 1..Len(call.fetched) : i \in 1..(Len(call.fetched) + 1)
    BY <2>1
  <2>6. PagesOf(call'.fetched) = PagesOf(call.fetched) \cup {url}
    BY <2>1, <2>3, <2>5 DEF PagesOf
  <2> QED BY <2>4, <2>6
<1>16. url \in Reached(Along)
  <2>1. q[1][2] \in 1..scan.depth /\ q[1][1] \in Near(Web, q[1][2], Along)
    <3>1. 1 \in DOMAIN q
      BY <1>3, <1>5
    <3> QED BY <1>7, <3>1 DEF BreadthFirst, FoundAlong
  <2> QED BY <1>2, <2>1 DEF Reached
<1>17. url \notin cursor.visited
  BY <1>1, <1>3 DEF CallFits
<1>18. CallFits'
  BY <1>1, <1>3, <1>6, <1>11, <1>12, <1>15, <1>16, <1>17 DEF CallFits
<1> QED BY <1>13, <1>14, <1>18 DEF CrawlInv


LEMMA ReturnKeeps ==
  ASSUME CrawlInv, Return
  PROVE  CrawlInv'
<1>1. /\ CrawlTypes /\ CursorFits /\ CallFits
      /\ call \in [on : BOOLEAN, queue : Seq(Url \X Nat), visited : SUBSET Url, fetched : Seq(Url)]
      /\ harvest \in Seq(Url)
  BY DEF CrawlInv, CrawlTypes
<1>2. /\ call.on
      /\ cursor' = [queue |-> call.queue, visited |-> call.visited, more |-> call.queue # << >>]
      /\ harvest' = harvest \o call.fetched
      /\ call' = NoCall
      /\ UNCHANGED <<site, scan, changed>>
  BY DEF Return
<1>3. /\ Web' = Web /\ Html' = Html /\ Along' = Along /\ scan' = scan
      /\ Steady({"html", "text"})' = Steady({"html", "text"})
      /\ Reached(Along)' = Reached(Along)
  BY <1>2, Still
<1>4. harvest' \in Seq(Url)
  BY <1>1, <1>2
<1>5. CrawlTypes'
  <2>1. cursor' \in [queue : Seq(Url \X Nat), visited : SUBSET Url, more : BOOLEAN]
    BY <1>1, <1>2
  <2>2. call' \in [on : BOOLEAN, queue : Seq(Url \X Nat), visited : SUBSET Url, fetched : Seq(Url)]
    BY <1>2 DEF NoCall
  <2> QED BY <1>1, <1>2, <1>4, <2>1, <2>2 DEF CrawlTypes
<1>6. CallFits'
  BY <1>2 DEF CallFits, NoCall
<1>7. /\ Distinct(harvest) /\ Distinct(call.fetched)
      /\ \A i \in DOMAIN harvest, j \in DOMAIN call.fetched : harvest[i] # call.fetched[j]
  BY <1>1, <1>2 DEF CursorFits, CallFits, Brought, PagesOf
<1>8. /\ Len(harvest) \in Nat /\ Len(call.fetched) \in Nat
      /\ DOMAIN harvest = 1..Len(harvest) /\ DOMAIN call.fetched = 1..Len(call.fetched)
      /\ DOMAIN harvest' = 1..(Len(harvest) + Len(call.fetched))
      /\ \A i \in 1..Len(harvest) : harvest'[i] = harvest[i]
      /\ \A i \in 1..Len(call.fetched) : harvest'[Len(harvest) + i] = call.fetched[i]
  BY <1>1, <1>2
<1>9. ASSUME NEW i \in DOMAIN harvest', i \notin 1..Len(harvest)
      PROVE  i - Len(harvest) \in 1..Len(call.fetched) /\ harvest'[i] = call.fetched[i - Len(harvest)]
  <2>1. i - Len(harvest) \in 1..Len(call.fetched) /\ Len(harvest) + (i - Len(harvest)) = i
    BY <1>8, <1>9
  <2> QED BY <1>8, <2>1
<1>10. Distinct(harvest')
  <2> SUFFICES ASSUME NEW i \in DOMAIN harvest', NEW j \in DOMAIN harvest', harvest'[i] = harvest'[j]
               PROVE  i = j
    BY DEF Distinct
  <2>1. CASE i \in 1..Len(harvest) /\ j \in 1..Len(harvest)
    BY <1>7, <1>8, <2>1 DEF Distinct
  <2>2. CASE i \in 1..Len(harvest) /\ j \notin 1..Len(harvest)
    BY <1>7, <1>8, <1>9, <2>2
  <2>3. CASE i \notin 1..Len(harvest) /\ j \in 1..Len(harvest)
    BY <1>7, <1>8, <1>9, <2>3
  <2>4. CASE i \notin 1..Len(harvest) /\ j \notin 1..Len(harvest)
    <3>1. i - Len(harvest) = j - Len(harvest)
      BY <1>7, <1>8, <1>9, <2>4 DEF Distinct
    <3> QED BY <1>8, <3>1
  <2> QED BY <2>1, <2>2, <2>3, <2>4
<1>11. Brought' = Brought \cup PagesOf(call.fetched)
  <2>1. \A i \in DOMAIN harvest' : harvest'[i] \in Brought \cup PagesOf(call.fetched)
    <3> TAKE i \in DOMAIN harvest'
    <3>1. CASE i \in 1..Len(harvest)
      BY <1>8, <3>1 DEF Brought
    <3>2. CASE i \notin 1..Len(harvest)
      BY <1>8, <1>9, <3>2 DEF PagesOf
    <3> QED BY <3>1, <3>2
  <2>2. \A i \in DOMAIN harvest : i \in DOMAIN harvest' /\ harvest'[i] = harvest[i]
    BY <1>8
  <2>3. \A i \in DOMAIN call.fetched :
          Len(harvest) + i \in DOMAIN harvest' /\ harvest'[Len(harvest) + i] = call.fetched[i]
    BY <1>8
  <2> QED BY <2>1, <2>2, <2>3 DEF Brought, PagesOf
<1>12. CursorFits'
  <2>1. cursor'.queue = call.queue /\ cursor'.visited = call.visited /\ (~ cursor'.more => call.queue = << >>)
    BY <1>2
  <2>2. BreadthFirst(Web, scan.depth, call.queue, call.visited, Html, Along)
    BY <1>1, <1>2 DEF CallFits
  <2>3. Brought \cup PagesOf(call.fetched) \subseteq call.visited
    BY <1>1, <1>2 DEF CallFits, CursorFits
  <2>4. Brought \cup PagesOf(call.fetched) \subseteq Reached(Along)
    BY <1>1, <1>2 DEF CallFits, CursorFits
  <2>5. call.visited \cap Steady({"html", "text"}) \subseteq Brought \cup PagesOf(call.fetched)
    BY <1>1, <1>2 DEF CallFits, CursorFits
  <2> QED BY <1>3, <1>10, <1>11, <2>1, <2>2, <2>3, <2>4, <2>5 DEF CursorFits
<1> QED BY <1>5, <1>6, <1>12 DEF CrawlInv

LEMMA ChangeKeeps ==
  ASSUME CrawlInv, NEW url \in Url, ChangePage(url)
  PROVE  CrawlInv'
<1>1. /\ CrawlTypes /\ CursorFits /\ CallFits
  BY DEF CrawlInv
<1>2. /\ site' = [site EXCEPT !.answer[url] = IF @ = "none" THEN "html" ELSE "none"]
      /\ changed' = changed \cup {url}
      /\ UNCHANGED <<scan, cursor, call, harvest>>
  BY DEF ChangePage
<1>3. /\ site'.links = site.links /\ site'.answer \in [Url -> Answers]
      /\ site' = [links |-> site.links, answer |-> site'.answer]
      /\ \A u \in Url \ {url} : site'.answer[u] = site.answer[u]
  BY <1>1, <1>2 DEF CrawlTypes, Answers
<1>4. CrawlTypes'
  BY <1>1, <1>2, <1>3 DEF CrawlTypes
<1>5. Web' = Web
  BY <1>2, <1>3 DEF Web
<1>6. Html' \subseteq Html /\ Steady({"html", "text"})' \subseteq Steady({"html", "text"})
  BY <1>2, <1>3 DEF Html, Steady
<1>7. Along \subseteq Along'
  BY <1>2, <1>3 DEF Along, Html, Steady
<1>8. Reached(Along) \subseteq Reached(Along)'
  <2>1. \A n : Near(Web, n, Along) \subseteq Near(Web, n, Along')
    BY <1>7, NearGrows
  <2> QED BY <1>2, <1>5, <2>1 DEF Reached
<1>9. scan.depth \in Nat /\ cursor.queue \in Seq(Url \X Nat) /\ call.queue \in Seq(Url \X Nat)
  BY <1>1 DEF CrawlTypes
<1>10. CursorFits'
  <2>1. BreadthFirst(Web, scan.depth, cursor.queue, cursor.visited, Html', Along')
    BY <1>1, <1>6, <1>7, <1>9, Monotone DEF CursorFits
  <2> QED BY <1>1, <1>2, <1>5, <1>6, <1>8, <2>1 DEF CursorFits, Brought
<1>11. CallFits'
  <2>1. call.on => BreadthFirst(Web, scan.depth, call.queue, call.visited, Html', Along')
    BY <1>1, <1>6, <1>7, <1>9, Monotone DEF CallFits
  <2> QED BY <1>1, <1>2, <1>5, <1>6, <1>8, <2>1 DEF CallFits
<1> QED BY <1>4, <1>10, <1>11 DEF CrawlInv

LEMMA CrawlKept == CrawlInv /\ [CrawlNext]_crawlVars => CrawlInv'
<1> SUFFICES ASSUME CrawlInv, [CrawlNext]_crawlVars PROVE CrawlInv'
  OBVIOUS
<1>1. CASE CallScan \/ LoseCall
  BY <1>1, CallKeeps
<1>2. CASE PassOver
  BY <1>2, PassOverKeeps
<1>3. CASE FetchPage
  BY <1>3, FetchKeeps
<1>4. CASE Return
  BY <1>4, ReturnKeeps
<1>5. CASE \E url \in Url : ChangePage(url)
  BY <1>5, ChangeKeeps
<1>6. CASE UNCHANGED crawlVars
  <2>1. UNCHANGED <<site, scan, cursor, call, harvest, changed>>
    BY <1>6 DEF crawlVars
  <2>2. /\ Web' = Web /\ Html' = Html /\ Along' = Along /\ scan' = scan
        /\ Steady({"html", "text"})' = Steady({"html", "text"})
        /\ Reached(Along)' = Reached(Along)
    BY <2>1, Still
  <2> QED BY <2>1, <2>2 DEF CrawlInv, CrawlTypes, CursorFits, CallFits, Brought
<1> QED BY <1>1, <1>2, <1>3, <1>4, <1>5, <1>6 DEF CrawlNext

\* Whatever the site, the seeds, the depth and the portions, and whenever calls are
\* lost and pages change: no page comes twice or from too deep, and what is there
\* throughout is brought (plugins/sources/web/scanner.py).
THEOREM ScansReachAll == CrawlSpec => []CrawlReaches
<1>1. CrawlInv => CrawlReaches
  <2> SUFFICES ASSUME CrawlInv PROVE CrawlReaches
    OBVIOUS
  <2>1. CrawlTypes /\ CursorFits /\ harvest \in Seq(Url)
    BY DEF CrawlInv, CrawlTypes
  <2>2. Len(harvest) = Cardinality(Brought)
    <3>1. Len(harvest) \in Nat /\ DOMAIN harvest = 1..Len(harvest)
      BY <2>1
    <3>2. \A i \in DOMAIN harvest : harvest[i] \in Brought
      BY DEF Brought
    <3> DEFINE f == [i \in 1..Len(harvest) |-> harvest[i]]
    <3>3. f \in [1..Len(harvest) -> Brought]
      BY <3>1, <3>2
    <3>4. \A i, j \in 1..Len(harvest) : f[i] = f[j] => i = j
      BY <2>1, <3>1 DEF CursorFits, Distinct
    <3>5. \A u \in Brought : \E i \in 1..Len(harvest) : f[i] = u
      BY <3>1 DEF Brought
    <3> HIDE DEF f
    <3>6. f \in Bijection(1..Len(harvest), Brought)
      BY <3>3, <3>4, <3>5, Fun_IsBij
    <3>7. ExistsBijection(1..Len(harvest), Brought)
      BY <3>6 DEF ExistsBijection
    <3>8. IsFiniteSet(1..Len(harvest)) /\ Cardinality(1..Len(harvest)) = Len(harvest)
      BY <3>1, UpTo
    <3> QED BY <3>7, <3>8, FS_Bijection
  <2>3. Brought \subseteq Reached(Steady({"html"}) \cup changed)
    BY <2>1 DEF CursorFits, Along, Html
  <2>4. ASSUME ~ cursor.more
        PROVE  Reached(Steady({"html"})) \cap Steady({"html", "text"}) \subseteq Brought
    <3>1. \A n \in 1..scan.depth : Near(Web, n, Html) \subseteq cursor.visited
      BY <2>1, <2>4 DEF CursorFits, BreadthFirst, Covered
    <3>2. Reached(Steady({"html"})) \subseteq cursor.visited
      BY <3>1 DEF Reached, Html
    <3> QED BY <2>1, <3>2 DEF CursorFits
  <2> QED BY <2>2, <2>3, <2>4 DEF CrawlReaches
<1> QED BY <1>1, CrawlInitially, CrawlKept, PTL DEF CrawlSpec
=============================================================================
