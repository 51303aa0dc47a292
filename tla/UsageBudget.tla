----------------------------- MODULE UsageBudget -----------------------------
(***************************************************************************)
(* The monthly budget of one workspace: calls that record what they cost   *)
(* and evaluate the budget, the alert they send when the spend crosses the *)
(* threshold, and administrators who change the budget meanwhile.          *)
(*                                                                         *)
(* Time is the number of the month; last_alert_at is the month it lies in. *)
(* A request writes back only the columns it changed.                      *)
(***************************************************************************)
EXTENDS Naturals

CONSTANTS
  Caller,     \* requests that can be under way together
  Admin,      \* administrators that can be changing the budget together
  Limits,     \* the limits a budget may be given
  Percents,   \* the alert thresholds it may be given
  Months,     \* bound on months
  MaxCalls,   \* bound on calls, and on immediate evaluations
  MaxEdits,   \* bound on changes to the budget
  MaxBroken   \* bound on requests broken off

ASSUME LimitsAssumption == Limits \subseteq Nat \ {0} /\ Limits # {}
ASSUME PercentsAssumption == Percents \subseteq 1..100 /\ Percents # {}
ASSUME BudgetBoundsAssumption ==
  Months \in Nat \ {0} /\ MaxCalls \in Nat /\ MaxEdits \in Nat /\ MaxBroken \in Nat

\* budgets: id is the number of the change that created the row, alerted the
\* month of last_alert_at, 0 for none.
BudgetRow == [exists: BOOLEAN, id: 0..MaxEdits, limit: Limits, pct: Percents, alerted: 0..Months]
Terms == [limit: Limits, pct: Percents]

VARIABLES
  month,    \* the current month
  spend,    \* usage_events: the cost recorded in each month
  budget,   \* the budget, as committed
  caller,   \* requests
  admin,    \* administrators
  alerts,   \* alerts sent, by the month they speak of
  overlap,  \* whether requests may overlap; it does not change
  calls, edits, broken

budgetVars == <<month, spend, budget, caller, admin, alerts, overlap, calls, edits, broken>>

NoCaller(b) == [pc |-> "idle", mem |-> b, window |-> 1]
NoAdmin(b) ==
  [pc |-> "idle", mem |-> b, no |-> 0, terms |-> [limit |-> b.limit, pct |-> b.pct]]

BudgetInit ==
  /\ month = 1
  /\ spend = [m \in 1..Months |-> 0]
  /\ budget \in {b \in BudgetRow : b.id = 0 /\ b.alerted = 0}
  /\ caller = [r \in Caller |-> NoCaller(budget)]
  /\ admin = [a \in Admin |-> NoAdmin(budget)]
  /\ alerts = [m \in 1..Months |-> 0]
  /\ overlap \in BOOLEAN
  /\ calls = 0 /\ edits = 0 /\ broken = 0

-----------------------------------------------------------------------------
(* Plausible slips in the definitions below, used to see that the          *)
(* properties notice them; no specification refers to one.                 *)

DueWithoutLatch(b, spent, window) == b.exists /\ spent * 100 >= b.pct * b.limit
DueAbove(b, spent, window) ==
  b.exists /\ spent * 100 > b.pct * b.limit /\ b.alerted < window

-----------------------------------------------------------------------------
(* What the code computes.                                                 *)

OverThreshold(b, spent) == spent * 100 >= b.pct * b.limit

\* The alert is due if the last one was before the window.
Due(b, spent, window) == b.exists /\ OverThreshold(b, spent) /\ b.alerted < window

\* The UPDATE of a row loaded as mem and changed to new.
Updated(b, mem, new) ==
  [b EXCEPT !.limit = IF new.limit = mem.limit THEN @ ELSE new.limit,
            !.pct = IF new.pct = mem.pct THEN @ ELSE new.pct,
            !.alerted = IF new.alerted = mem.alerted THEN @ ELSE new.alerted]

\* The row that was loaded is still there.
SameRow(mem) == budget.exists /\ budget.id = mem.id

-----------------------------------------------------------------------------
(* Calls.                                                                  *)

Free(r) == IF overlap THEN caller[r].pc = "idle" ELSE \A c \in Caller : caller[c].pc = "idle"

\* A retrieval or an answer is begun.  Nothing looks at the budget.
Call(r) ==
  /\ Free(r)
  /\ calls < MaxCalls
  /\ calls' = calls + 1
  /\ caller' = [caller EXCEPT ![r].pc = "record"]
  /\ UNCHANGED <<month, spend, budget, admin, alerts, overlap, edits, broken>>

\* record_usage_events, committed: a call may have cost nothing.
Record(r, cost) ==
  /\ caller[r].pc = "record"
  /\ spend' = [spend EXCEPT ![month] = @ + cost]
  /\ caller' = [caller EXCEPT ![r].pc = "load"]
  /\ UNCHANGED <<month, budget, admin, alerts, overlap, calls, edits, broken>>

\* POST /admin/usage/evaluate.
EvaluateNow(r) ==
  /\ Free(r)
  /\ calls < MaxCalls
  /\ calls' = calls + 1
  /\ caller' = [caller EXCEPT ![r].pc = "load"]
  /\ UNCHANGED <<month, spend, budget, admin, alerts, overlap, edits, broken>>

\* evaluate_budget reads the budget, then the clock and the spend of that month.
Load(r) ==
  /\ caller[r].pc = "load"
  /\ caller' = [caller EXCEPT ![r] = [pc |-> "measure", mem |-> budget, window |-> 1]]
  /\ UNCHANGED <<month, spend, budget, admin, alerts, overlap, calls, edits, broken>>

Measure(r) ==
  /\ caller[r].pc = "measure"
  /\ caller' = [caller EXCEPT ![r] =
       IF Due(caller[r].mem, spend[month], month)
         THEN [@ EXCEPT !.pc = "send", !.window = month] ELSE NoCaller(@.mem)]
  /\ UNCHANGED <<month, spend, budget, admin, alerts, overlap, calls, edits, broken>>

\* _send_budget_alert: the webhook and the mail.
Send(r) ==
  /\ caller[r].pc = "send"
  /\ alerts' = [alerts EXCEPT ![caller[r].window] = @ + 1]
  /\ caller' = [caller EXCEPT ![r].pc = "mark"]
  /\ UNCHANGED <<month, spend, budget, admin, overlap, calls, edits, broken>>

\* last_alert_at is the time after the sending.  If the row is gone the UPDATE
\* finds none and raises, which the caller logs.
Mark(r) ==
  LET mem == caller[r].mem
  IN  /\ caller[r].pc = "mark"
      /\ budget' = IF SameRow(mem) THEN Updated(budget, mem, [mem EXCEPT !.alerted = month])
                                   ELSE budget
      /\ caller' = [caller EXCEPT ![r] = NoCaller(mem)]
      /\ UNCHANGED <<month, spend, admin, alerts, overlap, calls, edits, broken>>

BreakOff(r) ==
  /\ caller[r].pc # "idle"
  /\ broken < MaxBroken
  /\ broken' = broken + 1
  /\ caller' = [caller EXCEPT ![r] = NoCaller(@.mem)]
  /\ UNCHANGED <<month, spend, budget, admin, alerts, overlap, calls, edits>>

-----------------------------------------------------------------------------
(* Administrators.                                                         *)

\* PUT and DELETE /budgets read the row; a delete that finds none ends there.
StartEdit(a, pc, terms) ==
  /\ admin[a].pc = "idle"
  /\ edits < MaxEdits
  /\ pc = "delete" => budget.exists
  /\ edits' = edits + 1
  /\ admin' = [admin EXCEPT ![a] = [pc |-> pc, mem |-> budget, no |-> edits',
                                       terms |-> terms]]
  /\ UNCHANGED <<month, spend, budget, caller, alerts, overlap, calls, broken>>

\* The terms are written and the latch is reset, where that changes what was
\* loaded.  Where nothing was loaded the row is inserted, unless another has
\* been, which the unique constraint refuses.
Upsert(a) ==
  LET mem == admin[a].mem
      terms == admin[a].terms
      new == [mem EXCEPT !.limit = terms.limit, !.pct = terms.pct,
                         !.alerted = 0]
  IN  /\ admin[a].pc = "upsert"
      /\ budget' =
           CASE mem.exists /\ SameRow(mem) -> Updated(budget, mem, new)
             [] ~ mem.exists /\ ~ budget.exists ->
                  [new EXCEPT !.exists = TRUE, !.id = admin[a].no]
             [] OTHER -> budget
      /\ admin' = [admin EXCEPT ![a] = NoAdmin(mem)]
      /\ UNCHANGED <<month, spend, caller, alerts, overlap, calls, edits, broken>>

DeleteBudget(a) ==
  LET mem == admin[a].mem
  IN  /\ admin[a].pc = "delete"
      /\ budget' = IF SameRow(mem) THEN [budget EXCEPT !.exists = FALSE] ELSE budget
      /\ admin' = [admin EXCEPT ![a] = NoAdmin(mem)]
      /\ UNCHANGED <<month, spend, caller, alerts, overlap, calls, edits, broken>>

NextMonth ==
  /\ month < Months
  /\ month' = month + 1
  /\ UNCHANGED <<spend, budget, caller, admin, alerts, overlap, calls, edits, broken>>

BudgetNext ==
  \/ \E r \in Caller : \/ Call(r) \/ EvaluateNow(r) \/ Load(r) \/ Measure(r)
                       \/ Send(r) \/ Mark(r) \/ BreakOff(r)
                       \/ \E cost \in 0..1 : Record(r, cost)
  \/ \E a \in Admin : \/ Upsert(a) \/ DeleteBudget(a)
                      \/ \E pc \in {"upsert", "delete"}, terms \in Terms : StartEdit(a, pc, terms)
  \/ NextMonth

BudgetSpec == BudgetInit /\ [][BudgetNext]_budgetVars

-----------------------------------------------------------------------------
(* Properties.                                                             *)

\* The variables keep their types: no latch is set beyond the present month's
\* bound.
BudgetTypeOK ==
  /\ month \in 1..Months
  /\ spend \in [1..Months -> Nat]
  /\ budget \in BudgetRow
  /\ caller \in [Caller -> [pc: {"idle", "record", "load", "measure", "send", "mark"},
                            mem: BudgetRow, window: 1..Months]]
  /\ admin \in [Admin -> [pc: {"idle", "upsert", "delete"}, mem: BudgetRow, no: 0..MaxEdits,
                          terms: Terms]]
  /\ alerts \in [1..Months -> Nat]
  /\ overlap \in BOOLEAN
  /\ calls \in 0..MaxCalls /\ edits \in 0..MaxEdits /\ broken \in 0..MaxBroken

Quiet == \A r \in Caller : caller[r].pc = "idle"

\* usage.py:309-310: alert_fired is True "the *first* time the spend crosses
\* alert_threshold_pct in a period".  However calls overlap, the one that takes
\* the spend over the threshold is seen by some evaluation, so when none is
\* under way the alert of this month has been sent (the spend is read after it
\* was recorded, common.py:232-239).  For a budget nobody has changed and with
\* no request broken off; in the first month, for the alert of a month that is
\* marked in the next (usage.py:385) stands in the way of the next one's.
AlertNotMissed ==
  (/\ Quiet /\ edits = 0 /\ broken = 0 /\ month = 1
   /\ budget.exists /\ OverThreshold(budget, spend[month]) /\ spend[month] > 0)
    => alerts[month] > 0

\* interaction.py:169: the alert "is sent (at most once per period)", counting
\* the resets of the latch by an administrator (routers/usage.py:138) and the
\* evaluations broken off between the sending and the commit; for calls that do
\* not overlap, since two that do can both find the latch open (usage.py:375).
AlertOncePerPeriod ==
  ~ overlap => \A m \in 1..Months : alerts[m] <= 1 + edits + broken

\* The alert of a month is sent, and sent once: both of the above
\* (usage.py evaluate_budget).
AlertedOnce == AlertNotMissed /\ AlertOncePerPeriod
=============================================================================
