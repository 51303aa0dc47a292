------------------------------ MODULE Throttle -------------------------------
(***************************************************************************)
(* The two limiters a request passes: the sliding window over searches,    *)
(* answers and uploads, and the one over failed logins, which locks.  Each *)
(* is one key's window behind a lock; a thread reads the clock before it   *)
(* takes the lock, so what it does there may be late.                      *)
(***************************************************************************)
EXTENDS Naturals, Sequences, FiniteSetsExt

CONSTANTS
  Thread,      \* threads that serve requests
  Limit,       \* requests allowed in a window
  MaxFailures, \* failed logins that lock
  Window,      \* the length of both windows
  Lockout,     \* how long a lock lasts
  MaxTime      \* bound on time

ASSUME ThrottleAssumption ==
  /\ Limit \in Nat \ {0} /\ MaxFailures \in Nat \ {0} /\ MaxTime \in Nat
  /\ Window \in Nat \ {0} /\ Lockout \in Nat \ {0}
  /\ IsFiniteSet(Thread)

Time == 0..MaxTime

VARIABLES
  limiter,  \* which of the two the requests pass; it does not change
  clock,    \* time.monotonic()
  stamps,   \* _SlidingWindow._timestamps
  login,    \* _LoginAttemptWindow: failures, until
  thread,   \* [pc, now]: threads, and the time each has read
  admitted, \* history: requests allowed at a time by threads that were not late
  guesses,  \* history: attempts let through at a time since the last success
  late      \* history: some thread has been late

throttleVars == <<limiter, clock, stamps, login, thread, admitted, guesses, late>>

Nowhere == [pc |-> "idle", now |-> 0]
NoFailures == [failures |-> <<>>, until |-> 0]

ThrottleInit ==
  /\ limiter \in {"rate", "login"}
  /\ clock = 0
  /\ stamps = <<>> /\ login = NoFailures
  /\ thread = [t \in Thread |-> Nowhere]
  /\ admitted = [n \in Time |-> 0] /\ guesses = [n \in Time |-> 0]
  /\ late = FALSE

-----------------------------------------------------------------------------
(* Plausible slips in the definitions below, used to see that the          *)
(* properties notice them; no specification refers to one.                 *)

PrunedInclusive(s, now) == SelectSeq(s, LAMBDA n : n + Window > now + 1)
LockForgotten(w, now) == FALSE

-----------------------------------------------------------------------------
(* What the code computes.                                                 *)

\* popleft while the first is out of the window: what is behind a younger one
\* stays.
Pruned(s, now) ==
  LET in == {i \in DOMAIN s : s[i] + Window > now}
  IN  IF in = {} THEN <<>> ELSE SubSeq(s, Min(in), Len(s))

\* The window of a key after _prune.
PrunedLogin(w, now) ==
  LET left == Pruned(w.failures, now)
  IN  [failures |-> left, until |-> IF w.until <= now /\ left = <<>> THEN 0 ELSE w.until]

Locked(w, now) == w.until > now

-----------------------------------------------------------------------------
(* The sliding window.                                                     *)

ReadClock(t, from, to) ==
  /\ thread[t].pc = from
  /\ thread' = [thread EXCEPT ![t] = [pc |-> to, now |-> clock]]

\* RateLimiter._check: the clock is read,
Ask(t) ==
  /\ limiter = "rate" /\ ReadClock(t, "idle", "allow")
  /\ UNCHANGED <<limiter, clock, stamps, login, admitted, guesses, late>>

\* and under the lock the request is counted or refused.
Allow(t) ==
  LET now == thread[t].now
      left == Pruned(stamps, now)
  IN  /\ thread[t].pc = "allow"
      /\ thread' = [thread EXCEPT ![t] = Nowhere]
      /\ IF Len(left) >= Limit
           THEN stamps' = left /\ UNCHANGED admitted
           ELSE /\ stamps' = Append(left, now)
                /\ admitted' = IF now = clock THEN [admitted EXCEPT ![now] = @ + 1] ELSE admitted
      /\ late' = (late \/ now # clock)
      /\ UNCHANGED <<limiter, clock, login, guesses>>

-----------------------------------------------------------------------------
(* Logins.                                                                 *)

TryLogin(t) ==
  /\ limiter = "login" /\ ReadClock(t, "idle", "check")
  /\ UNCHANGED <<limiter, clock, stamps, login, admitted, guesses, late>>

\* check_allowed: locked, or on to the password.
Check(t) ==
  LET now == thread[t].now
      w == PrunedLogin(login, now)
  IN  /\ thread[t].pc = "check"
      /\ login' = w
      /\ thread' = [thread EXCEPT ![t] = IF Locked(w, now) THEN Nowhere ELSE [@ EXCEPT !.pc = "verify"]]
      /\ guesses' = IF Locked(w, now) THEN guesses ELSE [guesses EXCEPT ![clock] = @ + 1]
      /\ late' = (late \/ now # clock)
      /\ UNCHANGED <<limiter, clock, stamps, admitted>>

\* record_success forgets the window.
Right(t) ==
  /\ thread[t].pc = "verify"
  /\ login' = NoFailures
  /\ thread' = [thread EXCEPT ![t] = Nowhere]
  /\ guesses' = [n \in Time |-> 0]
  /\ UNCHANGED <<limiter, clock, stamps, admitted, late>>

Wrong(t) ==
  /\ ReadClock(t, "verify", "record")
  /\ UNCHANGED <<limiter, clock, stamps, login, admitted, guesses, late>>

\* record_failure: counted unless another has locked meanwhile.
RecordFailure(t) ==
  LET now == thread[t].now
      w == PrunedLogin(login, now)
      failures == Append(w.failures, now)
  IN  /\ thread[t].pc = "record"
      /\ login' = IF Locked(w, now) THEN w
                  ELSE [failures |-> failures,
                        until |-> IF Len(failures) >= MaxFailures THEN now + Lockout ELSE w.until]
      /\ thread' = [thread EXCEPT ![t] = Nowhere]
      /\ late' = (late \/ now # clock)
      /\ UNCHANGED <<limiter, clock, stamps, admitted, guesses>>

Tick ==
  /\ clock < MaxTime
  /\ clock' = clock + 1
  /\ UNCHANGED <<limiter, stamps, login, thread, admitted, guesses, late>>

ThrottleNext ==
  \/ \E t \in Thread :
       Ask(t) \/ Allow(t) \/ TryLogin(t) \/ Check(t) \/ Right(t) \/ Wrong(t) \/ RecordFailure(t)
  \/ Tick

ThrottleSpec == ThrottleInit /\ [][ThrottleNext]_throttleVars

-----------------------------------------------------------------------------
(* Properties.                                                             *)

\* What was let through at these times, one by one.
Passes(at, times) == UNION {{m} \X (1..at[m]) : m \in times}
Within(at, n) == Cardinality(Passes(at, {m \in Time : m <= n /\ m + Window > n}))

\* However late some threads are, no more requests than the limit are allowed in
\* a window by the others: a late one neither makes room (ratelimit.py:55) nor
\* forgets what is still in the window.
RateHolds == \A n \in Time : Within(admitted, n) <= Limit

\* A lock that outlasts the window lets no more attempts through in a window
\* than lock, and one for each other thread that was let through before it
\* (auth_throttle.py:47,61), as long as no thread is late.
GuessesBounded ==
  (Lockout >= Window /\ ~ late) =>
    \A n \in Time : Within(guesses, n) <= MaxFailures + Cardinality(Thread) - 1

\* What the two limiters promise to whoever is behind them, with clocks read before
\* locks are taken and checks made before what they check for is done.
LimitsHold == RateHolds /\ GuessesBounded
=============================================================================
