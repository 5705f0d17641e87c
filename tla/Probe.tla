------------------------------- MODULE Probe -------------------------------
(***************************************************************************)
(* One probe: Connect of socket.c in one thread, over the resolved         *)
(* addresses of a target, with the single-address probes of TCP, UDP and   *)
(* ICMP and the wait they share (WaitEvent).                               *)
(*                                                                         *)
(* Time is discrete and passes only in poll(); the code between two system *)
(* calls takes none.  The kernel may have an answer for the probe at any   *)
(* time, or never; signals arrive at any time and at any thread of the     *)
(* process, and only the thread that runs the handler gets EINTR.          *)
(***************************************************************************)
EXTENDS Integers, Sequences, SequencesExt

CONSTANTS
  AddrCount,      \* host->AddrCount
  Timeout,        \* timeout_ms, in ticks
  Protocols,      \* possible values of host->Type
  MaxEintr,       \* bound on EINTRs not caused by SIGINT or SIGTERM
  MaxForeign      \* bound on ICMP packets of somebody else

ASSUME ProbeAssumption ==
  /\ AddrCount \in Nat \ {0} /\ Timeout \in Nat \ {0}
  /\ Protocols \subseteq {"tcp", "udp", "icmp"}
  /\ MaxEintr \in Nat /\ MaxForeign \in Nat

(* What MapConnectError makes of an error of the socket, and what a probe of
   one address can fail with. *)
SocketError == {"refused", "unreach", "timeout", "failure"}
Failed == SocketError \cup {"openfiltered"}

VARIABLES
  proto,          \* host->Type
  pc,             \* where the thread is
  addr,           \* the address being probed (i of Connect, 1-based)
  now,            \* the monotonic clock
  budget,         \* the timer of the single-address probe
  wait,           \* the timer of WaitEvent, with its timeout_ms
  limit,          \* when the poll() under way times out
  answer,         \* what the kernel has for this address
  eintr,          \* poll() is about to fail with EINTR
  interrupted,    \* g_interrupted
  result, rtt,    \* what Connect returns
  tried,          \* history: the results of the addresses given up
  since,          \* history: when g_interrupted was set (-1: before Connect)
  eintrs, foreign \* counts, for the bounds

clocks == <<now, budget, wait, limit>>
kernel == <<answer, eintr, eintrs, foreign>>
signal == <<interrupted, since>>
vars == <<proto, pc, addr, clocks, kernel, signal, result, rtt, tried>>

(* timer.c: a timer that has been stopped reads 0 until it is re-armed. *)
TimerStart == [start |-> now, hasValue |-> TRUE]
Elapsed(timer) == IF timer.hasValue THEN now - timer.start ELSE 0

Init ==
  /\ proto \in Protocols
  /\ pc = "open" /\ addr = 1
  /\ now = 0 /\ limit = 0
  /\ budget = [start |-> 0, hasValue |-> FALSE]
  /\ wait = [start |-> 0, hasValue |-> FALSE, timeout |-> 0]
  /\ answer = "none" /\ eintr = FALSE
  /\ interrupted \in BOOLEAN /\ since = -1
  /\ result = "none" /\ rtt = 0 /\ tried = << >>
  /\ eintrs = 0 /\ foreign = 0

-----------------------------------------------------------------------------
(* Connect: what follows the result r of one address.                      *)

(* A success or an interrupt ends the probe, anything else leads to the
   next address, and the last error is the probe's. *)
Conclude(r) ==
  IF r \in {"ok", "interrupted"} \/ addr = AddrCount
  THEN /\ pc' = "returned"
       /\ result' = r
       /\ tried' = IF r \in {"ok", "interrupted"} THEN tried ELSE Append(tried, r)
       /\ UNCHANGED addr
  ELSE /\ pc' = "open"
       /\ addr' = addr + 1
       /\ tried' = Append(tried, r)
       /\ UNCHANGED result

(* Mutant of Open: the timer of the first address goes on. *)
OpenKeepsTimer ==
  /\ pc = "open"
  /\ rtt' = 0
  /\ answer' = "none" /\ eintr' = FALSE
  /\ budget' = IF addr = 1 THEN TimerStart ELSE budget
  /\ \/ \E r \in SocketError : Conclude(r) /\ UNCHANGED wait
     \/ /\ pc' = "turn"
        /\ UNCHANGED <<wait, addr, result, tried>>
  /\ UNCHANGED <<proto, now, limit, eintrs, foreign, signal>>

(* socket, fcntl, bind, connect and send or sendto: any may fail at once;
   then the timers start. *)
Open ==
  /\ pc = "open"
  /\ rtt' = 0
  /\ answer' = "none" /\ eintr' = FALSE
  /\ budget' = TimerStart
  /\ \/ \E r \in SocketError : Conclude(r) /\ UNCHANGED wait
     \/ /\ pc' = "turn"
        /\ UNCHANGED <<wait, addr, result, tried>>
  /\ UNCHANGED <<proto, now, limit, eintrs, foreign, signal>>

(* The probe enters WaitEvent.  ProbeIcmp does so again after every packet
   that is not its own, with what is left of its budget. *)
Left == IF proto = "icmp" THEN Timeout - Elapsed(budget) ELSE Timeout

Turn ==
  /\ pc = "turn"
  /\ budget' = [budget EXCEPT !.hasValue = TRUE]
  /\ IF proto = "icmp" /\ Left <= 0
     THEN Conclude("timeout") /\ UNCHANGED wait
     ELSE /\ pc' = "check"
          /\ wait' = [start |-> now, hasValue |-> TRUE, timeout |-> Left]
          /\ UNCHANGED <<addr, result, tried>>
  /\ UNCHANGED <<proto, now, limit, kernel, signal, rtt>>

(* Mutant of Remaining: the whole timeout again after every EINTR. *)
RemainingAll == wait.timeout

(* WaitEvent, top of its loop: read the clock, look at the signal, re-arm
   the timer and poll for what remains. *)
Remaining ==
  LET left == wait.timeout - Elapsed(wait) IN IF left < 0 THEN 0 ELSE left

(* Mutant of Check: the signal is not looked at. *)
CheckDeaf ==
  /\ pc = "check"
  /\ pc' = "poll"
  /\ limit' = now + Remaining
  /\ wait' = [wait EXCEPT !.hasValue = TRUE]
  /\ UNCHANGED <<addr, result, tried>>
  /\ UNCHANGED <<proto, now, budget, kernel, signal, rtt>>

Check ==
  /\ pc = "check"
  /\ IF interrupted
     THEN Conclude("interrupted") /\ UNCHANGED <<wait, limit>>
     ELSE /\ pc' = "poll"
          /\ limit' = now + Remaining
          /\ wait' = [wait EXCEPT !.hasValue = TRUE]
          /\ UNCHANGED <<addr, result, tried>>
  /\ UNCHANGED <<proto, now, budget, kernel, signal, rtt>>

(* poll() fails with EINTR, and WaitEvent goes round. *)
PollEintr ==
  /\ pc = "poll" /\ eintr
  /\ pc' = "check" /\ eintr' = FALSE
  /\ UNCHANGED <<proto, addr, clocks, answer, eintrs, foreign, signal, result, rtt, tried>>

(* poll() times out: silence, which UDP reports as open or filtered. *)
PollTimeout ==
  /\ pc = "poll" /\ answer = "none" /\ ~eintr /\ now >= limit
  /\ Conclude(IF proto = "udp" THEN "openfiltered" ELSE "timeout")
  /\ UNCHANGED <<proto, clocks, kernel, signal, rtt>>

(* poll() fails otherwise. *)
PollError ==
  /\ pc = "poll"
  /\ Conclude("failure")
  /\ UNCHANGED <<proto, clocks, kernel, signal, rtt>>

(* poll() says ready; SO_ERROR, recv or recvfrom tells the answer.  A packet
   that is not the reply to this probe sends ProbeIcmp back to waiting. *)
PollReady ==
  /\ pc = "poll" /\ answer # "none"
  /\ IF answer = "foreign"
     THEN /\ pc' = "turn" /\ answer' = "none"
          /\ UNCHANGED <<addr, result, tried, rtt, budget>>
     ELSE /\ Conclude(answer)
          /\ rtt' = IF answer = "ok" \/ proto # "icmp" THEN Elapsed(budget) ELSE rtt
          /\ UNCHANGED <<answer, budget>>
  /\ UNCHANGED <<proto, now, wait, limit, eintr, eintrs, foreign, signal>>

-----------------------------------------------------------------------------
(* The kernel and the user.                                                *)

(* An answer reaches the socket; "ok" also stands for recvfrom succeeding. *)
Answer(a) ==
  /\ pc \in {"turn", "check", "poll"} /\ answer = "none"
  /\ a = "foreign" => proto = "icmp" /\ foreign < MaxForeign
  /\ answer' = a
  /\ foreign' = foreign + (IF a = "foreign" THEN 1 ELSE 0)
  /\ UNCHANGED <<proto, pc, addr, clocks, eintr, eintrs, signal, result, rtt, tried>>

(* A tick: poll() has nothing to return for. *)
Tick ==
  /\ pc = "poll" /\ answer = "none" /\ ~eintr /\ now < limit
  /\ now' = now + 1
  /\ UNCHANGED <<proto, pc, addr, budget, wait, limit, kernel, signal, result, rtt, tried>>

(* SIGINT or SIGTERM; "here": this thread runs the handler. *)
Interrupt(here) ==
  /\ pc # "returned" /\ ~interrupted
  /\ interrupted' = TRUE /\ since' = now
  /\ eintr' = (eintr \/ (here /\ pc = "poll"))
  /\ UNCHANGED <<proto, pc, addr, clocks, answer, eintrs, foreign, result, rtt, tried>>

(* poll() is interrupted by something else, a stop and a continue say. *)
OtherEintr ==
  /\ pc = "poll" /\ ~eintr /\ eintrs < MaxEintr
  /\ eintr' = TRUE /\ eintrs' = eintrs + 1
  /\ UNCHANGED <<proto, pc, addr, clocks, answer, foreign, signal, result, rtt, tried>>

Returned == pc = "returned" /\ UNCHANGED vars

Thread == Open \/ Turn \/ Check \/ PollEintr \/ PollTimeout \/ PollReady

Next ==
  \/ Thread
  \/ PollError
  \/ Tick
  \/ \E a \in {"ok", "foreign"} \cup SocketError : Answer(a)
  \/ \E here \in BOOLEAN : Interrupt(here)
  \/ OtherEintr
  \/ Returned

(* The thread runs and time passes; answers and signals may never come, and
   poll() need not fail. *)
Fairness == WF_vars(Thread) /\ WF_vars(Tick)

Spec == Init /\ [][Next]_vars /\ Fairness

-----------------------------------------------------------------------------
(* Properties.                                                             *)

TypeOK ==
  /\ proto \in Protocols
  /\ pc \in {"open", "turn", "check", "poll", "returned"}
  /\ addr \in 1 .. AddrCount
  /\ now \in Nat /\ limit \in Nat /\ wait.timeout \in 0 .. Timeout
  /\ answer \in {"none", "ok", "foreign"} \cup SocketError
  /\ eintr \in BOOLEAN /\ interrupted \in BOOLEAN
  /\ result \in {"none", "ok", "interrupted"} \cup Failed
  /\ tried \in Seq(Failed)

(* An address never takes longer than the timeout, although the wait starts
   again after every EINTR (socket.c:252-306) and, for ICMP, after every
   packet of somebody else (socket.c:790-869). *)
AddressBudget ==
  /\ pc # "open" => now - budget.start <= Timeout
  /\ now <= Len(tried) * Timeout + (IF pc = "open" THEN 0 ELSE Timeout)

(* After the signal a probe goes on for one timeout at most, the rest of the
   address it is waiting for, however many addresses are left; and one that
   begins after the signal neither waits nor succeeds, on which ProbeLoop and
   LoadTest rely. *)
InterruptLag ==
  interrupted => IF since = -1 THEN now = 0 /\ result # "ok"
                               ELSE now - since <= Timeout

(* The result is that of the right address.  A success is the success of the
   address reported: all before it were tried and failed, and the time is
   that of this address alone.  An error is reported only when every address
   was tried, and it is that of the last one; and a UDP port is called open
   or filtered only after a full timeout of silence. *)
ResultIsRight ==
  /\ result = "ok" =>
       /\ answer = "ok" /\ Len(tried) = addr - 1
       /\ rtt = now - budget.start /\ rtt <= Timeout
  /\ result \in Failed =>
       /\ Len(tried) = AddrCount /\ addr = AddrCount /\ result = Last(tried)
       /\ result = "openfiltered" =>
            proto = "udp" /\ answer = "none" /\ now - budget.start = Timeout

(* socket.c:249 "restarting cleanly across EINTR and honouring
   g_interrupted": once the signal has come, WaitEvent does not wait on.
   The code breaks it: a signal between the test and poll(), or one that
   another thread handles, is not seen until the poll is over. *)
HonoursInterrupt == interrupted /\ since >= 0 => now = since

(* socket.h:39 "The first address that yields a definitive answer wins": a
   refusal is definitive (it is what PINGDD_SOCKET_CLOSED says of the port).
   The code breaks it: Connect goes on to the next address. *)
DefinitiveAnswerWins == \A i \in DOMAIN tried : tried[i] = "refused" => i = addr /\ pc = "returned"

-----------------------------------------------------------------------------
(* The inductive invariants.  Behind AddressBudget and InterruptLag (see    *)
(* ProbeProofs): a wait never reaches past the budget of its address,       *)
(* however often it was started again, because the timers it reads were     *)
(* armed again; and a wait that goes on after the signal began before it.   *)

Waiting == pc \in {"check", "poll"}

BudgetInv ==
  /\ budget \in [start : Nat, hasValue : BOOLEAN]
  /\ wait \in [start : Nat, hasValue : BOOLEAN, timeout : Nat]
  /\ pc = "open" => now <= Len(tried) * Timeout
  /\ pc # "open" =>
       /\ budget.start <= now /\ now <= budget.start + Timeout
       /\ now <= Len(tried) * Timeout + Timeout
  /\ pc \in {"turn", "check", "poll"} => budget.start <= Len(tried) * Timeout
  /\ pc \in {"turn", "check", "poll"} => budget.hasValue
  /\ pc = "turn" /\ proto # "icmp" => now = budget.start
  /\ answer = "foreign" => proto = "icmp"
  /\ Waiting =>
       /\ wait.hasValue /\ wait.start <= now /\ now <= wait.start + wait.timeout
       /\ wait.start + wait.timeout <= budget.start + Timeout
  /\ pc = "poll" => limit = wait.start + wait.timeout

SignalInv ==
  /\ since \in Int /\ since <= now
  /\ since >= -1 /\ (~interrupted => since = -1)
  /\ pc = "poll" /\ interrupted => since >= budget.start
  /\ InterruptLag

TimeInv == TypeOK /\ BudgetInv /\ SignalInv

(* And behind ResultIsRight: as long as the probe goes on, one result was
   given up for each address before this one; and the wait of a UDP probe
   ends with the whole timeout of its address. *)
ResultInv ==
  /\ pc # "returned" => result = "none" /\ Len(tried) = addr - 1
  /\ Waiting /\ proto # "icmp" => wait.start + wait.timeout = budget.start + Timeout
  /\ ResultIsRight
=============================================================================
