------------------------------- MODULE MCIndex -------------------------------
(***************************************************************************)
(* The chunk index, the chunkers that cut what it holds, and the limiters  *)
(* of requests and logins, checked one at a time: the state space is the   *)
(* sum of theirs, for those that are not in focus stay in an initial       *)
(* state.                                                                  *)
(***************************************************************************)
EXTENDS ChunkIndex, Chunkers, Throttle

\* Kinds of characters that matter to a strategy, and how long a text of them
\* has to be for windows, joints and boundaries to meet.
Letters(strategy) ==
  CASE strategy = "char_window" -> {"letter"}
    [] strategy = "paragraph" -> {"letter", "newline"}
    [] strategy = "heading" -> {"letter", "newline", "heading"}
    [] strategy \in {"sentence", "token_aware"} -> {"letter", "blank", "stop", "wide"}
    [] strategy = "recursive" -> {"letter", "newline", "stop", "heading"}
Longest(strategy) ==
  CASE strategy = "char_window" -> 9
    [] strategy = "paragraph" -> 8
    [] strategy = "heading" -> 6
    [] strategy \in {"sentence", "token_aware", "recursive"} -> 5

VARIABLE focus  \* the component that moves

ChunkersAtRest ==
  /\ text = <<>> /\ parents = <<>> /\ drafts = <<>> /\ phase = "text"
  /\ config = [strategy |-> "char_window", size |-> 1, overlap |-> 0, parent |-> 0]

IndexInit ==
  /\ focus \in {"index", "chunkers", "throttle"}
  /\ Init /\ (focus # "index" => ~ locking)
  /\ IF focus = "chunkers" THEN ChunkersInit ELSE ChunkersAtRest
  /\ ThrottleInit /\ (focus # "throttle" => limiter = "rate")

IndexNext ==
  \/ focus = "index" /\ Next /\ UNCHANGED <<focus, chunkerVars, throttleVars>>
  \/ focus = "chunkers" /\ ChunkersNext /\ UNCHANGED <<focus, vars, throttleVars>>
  \/ focus = "throttle" /\ ThrottleNext /\ UNCHANGED <<focus, vars, chunkerVars>>

IndexSpec ==
  IndexInit /\ [][IndexNext]_<<focus, vars, chunkerVars, throttleVars>> /\ Fairness
=============================================================================
