------------------------------ MODULE LoadSpec ------------------------------
(***************************************************************************)
(* What a load test promises its caller (loadtest.h:66-74): one experiment *)
(* of overlapping connections with one tally.  Connections begin until the *)
(* experiment is over, by its duration or by the signal; it ends when none *)
(* is open, and its result is the tally.  There are no threads and no      *)
(* slots here: LoadTest implements this module.                            *)
(***************************************************************************)
EXTENDS Integers

CONSTANTS
  Width,            \* connections that may be open at once
  Rtts              \* round-trip times of successful connections

VARIABLES
  running,
  over,             \* the duration has passed, or the user interrupted
  open,             \* connections that are open
  tally,            \* of the connections that have ended
  result,           \* *out
  ret               \* 1 until the experiment returns 0 or -1

loadVars == <<running, over, open, tally, result, ret>>

Zero == [attempts |-> 0, success |-> 0, failed |-> 0, total |-> 0,
         minRtt |-> 0, maxRtt |-> 0]

Init ==
  /\ running = TRUE /\ over \in BOOLEAN /\ open = 0
  /\ tally = Zero /\ result = Zero /\ ret = 1

(* The experiment is over. *)
Stop ==
  /\ ~over /\ over' = TRUE
  /\ UNCHANGED <<running, open, tally, result, ret>>

(* A connection begins. *)
Begin ==
  /\ running /\ ~over /\ open < Width
  /\ open' = open + 1
  /\ UNCHANGED <<running, over, tally, result, ret>>

Won(t, rtt) ==
  [attempts |-> t.attempts + 1, success |-> t.success + 1, failed |-> t.failed,
   total |-> t.total + rtt,
   minRtt |-> IF t.success = 0 \/ rtt < t.minRtt THEN rtt ELSE t.minRtt,
   maxRtt |-> IF rtt > t.maxRtt THEN rtt ELSE t.maxRtt]
Lost(t) == [t EXCEPT !.attempts = @ + 1, !.failed = @ + 1]
Cut(t) == [t EXCEPT !.attempts = @ + 1]

(* A connection ends: it succeeded, failed, or was cut when all was over; the
   next may take its place at once. *)
End ==
  /\ open > 0
  /\ \/ \E rtt \in Rtts : tally' = Won(tally, rtt)
     \/ tally' = Lost(tally)
     \/ over /\ tally' = Cut(tally)
  /\ \/ open' = open - 1
     \/ ~over /\ UNCHANGED open
  /\ UNCHANGED <<running, over, result, ret>>

(* The experiment returns; before it is over only if nothing was begun. *)
Return ==
  /\ running /\ open = 0
  /\ over \/ tally = Zero
  /\ running' = FALSE /\ result' = tally /\ ret' = 0
  /\ UNCHANGED <<over, open, tally>>

(* It could not start. *)
Fail ==
  /\ running /\ open = 0 /\ tally = Zero
  /\ running' = FALSE /\ ret' = -1
  /\ UNCHANGED <<over, open, tally, result>>

Next == Stop \/ Begin \/ End \/ Return \/ Fail

(* The duration passes, connections end, and so does the experiment. *)
Fairness == WF_loadVars(Stop) /\ WF_loadVars(End) /\ WF_loadVars(Return \/ Fail)

SafeSpec == Init /\ [][Next]_loadVars
Spec == SafeSpec /\ Fairness
=============================================================================
