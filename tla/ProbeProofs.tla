---------------------------- MODULE ProbeProofs ----------------------------
(***************************************************************************)
(* How long a probe can take, for every number of addresses, every timeout *)
(* and any number of EINTRs and of packets of somebody else.               *)
(***************************************************************************)
EXTENDS Probe, TLAPS

(* One more address, one more timeout. *)
LEMMA OneMore ==
  ASSUME NEW k \in Nat
  PROVE  (k + 1) * Timeout = k * Timeout + Timeout
BY ProbeAssumption

LEMMA SpentType ==
  ASSUME TypeOK
  PROVE  Len(tried) \in Nat /\ Len(tried) * Timeout \in Nat /\ Timeout \in Nat \ {0}
<1>1. Timeout \in Nat \ {0}
  BY ProbeAssumption
<1>2. Len(tried) \in Nat
  BY DEF TypeOK
<1>3. QED BY <1>1, <1>2

(* What the end of an address does to the types and to the time: the next
   one may begin a timeout later. *)
LEMMA ConcludeKeeps ==
  ASSUME TypeOK, NEW r \in {"ok", "interrupted"} \cup Failed, Conclude(r),
         now <= Len(tried) * Timeout + Timeout
  PROVE  /\ pc' \in {"open", "returned"} /\ addr' \in 1 .. AddrCount
         /\ result' \in {"none", "ok", "interrupted"} \cup Failed
         /\ result' = "ok" => r = "ok" \/ result = "ok"
         /\ tried' \in Seq(Failed)
         /\ pc' = "open" => now <= Len(tried') * Timeout
         /\ now <= Len(tried') * Timeout + Timeout
<1> USE SpentType, ProbeAssumption
<1>1. CASE r \in {"ok", "interrupted"}
  BY <1>1 DEF Conclude, TypeOK
<1>2. CASE r \notin {"ok", "interrupted"}
  <2>1. r \in Failed /\ tried \in Seq(Failed)
    BY <1>2 DEF TypeOK
  <2>2. tried' = Append(tried, r)
    BY <1>2 DEF Conclude
  <2>3. tried' \in Seq(Failed) /\ Len(tried') = Len(tried) + 1
    BY <2>1, <2>2
  <2>4. Len(tried') * Timeout = Len(tried) * Timeout + Timeout
    BY <2>3, OneMore
  <2>5. CASE addr = AddrCount
    BY <1>2, <2>1, <2>3, <2>4, <2>5 DEF Conclude, TypeOK
  <2>6. CASE addr # AddrCount
    <3>1. pc' = "open" /\ addr' = addr + 1 /\ UNCHANGED result
      BY <1>2, <2>6 DEF Conclude
    <3>2. QED
      BY <2>3, <2>4, <2>6, <3>1 DEF TypeOK
  <2>7. QED BY <2>5, <2>6
<1>3. QED BY <1>1, <1>2

-----------------------------------------------------------------------------
LEMMA InitTime == Init => TimeInv
<1> SUFFICES ASSUME Init PROVE TimeInv
  OBVIOUS
<1> USE ProbeAssumption DEF Init
<1>1. tried \in Seq(Failed) /\ Len(tried) = 0
  OBVIOUS
<1>2. TypeOK
  <2>1. proto \in Protocols /\ addr \in 1 .. AddrCount /\ wait.timeout \in 0 .. Timeout
    OBVIOUS
  <2>2. now \in Nat /\ limit \in Nat /\ eintr \in BOOLEAN /\ interrupted \in BOOLEAN
    OBVIOUS
  <2>3. QED BY <1>1, <2>1, <2>2 DEF TypeOK
<1>3. Len(tried) * Timeout = 0
  BY <1>1
<1>4. BudgetInv
  BY <1>1, <1>3 DEF BudgetInv, Waiting
<1>5. SignalInv
  BY DEF SignalInv, InterruptLag
<1>6. QED BY <1>2, <1>4, <1>5 DEF TimeInv

(* A step that ends the address, or the probe, and takes no time. *)
LEMMA ConcludeTime ==
  ASSUME TimeInv, pc \in {"open", "turn", "check", "poll"},
         NEW r \in {"ok", "interrupted"} \cup Failed, Conclude(r),
         r = "ok" => pc = "poll",
         budget' \in [start : Nat, hasValue : BOOLEAN],
         budget'.start <= now /\ now <= budget'.start + Timeout,
         wait' = wait, limit' = limit, answer' \in {"none", "ok", "foreign"} \cup SocketError,
         answer' = "foreign" => proto = "icmp", eintr' \in BOOLEAN,
         UNCHANGED <<proto, now, signal>>
  PROVE  TimeInv'
<1> USE SpentType DEF TimeInv
<1>1. now <= Len(tried) * Timeout + Timeout
  BY DEF BudgetInv, TypeOK
<1>2. /\ pc' \in {"open", "returned"} /\ addr' \in 1 .. AddrCount
      /\ result' \in {"none", "ok", "interrupted"} \cup Failed
      /\ result' = "ok" => r = "ok" \/ result = "ok"
      /\ tried' \in Seq(Failed)
      /\ pc' = "open" => now <= Len(tried') * Timeout
      /\ now <= Len(tried') * Timeout + Timeout
  BY <1>1, ConcludeKeeps
<1>3. TypeOK'
  BY <1>2 DEF TypeOK, signal
<1>4. BudgetInv'
  BY <1>2 DEF BudgetInv, Waiting
<1>5. SignalInv'
  BY <1>2 DEF SignalInv, InterruptLag, signal, BudgetInv
<1>6. QED BY <1>3, <1>4, <1>5

LEMMA OpenTime == TimeInv /\ Open => TimeInv'
<1> SUFFICES ASSUME TimeInv, Open PROVE TimeInv'
  OBVIOUS
<1>1. now \in Nat /\ budget' = [start |-> now, hasValue |-> TRUE]
  BY DEF Open, TimerStart, TimeInv, TypeOK
<1>2. CASE \E r \in SocketError : Conclude(r) /\ UNCHANGED wait
  <2>1. PICK r \in SocketError : Conclude(r) /\ UNCHANGED wait
    BY <1>2
  <2>2. /\ r \in {"ok", "interrupted"} \cup Failed /\ r # "ok" /\ pc = "open"
        /\ answer' \in {"none", "ok", "foreign"} \cup SocketError /\ eintr' \in BOOLEAN
        /\ answer' = "foreign" => proto = "icmp"
        /\ UNCHANGED <<proto, now, limit, signal>>
    BY <2>1 DEF Open, Failed, SocketError
  <2>3. /\ budget' \in [start : Nat, hasValue : BOOLEAN]
        /\ budget'.start <= now /\ now <= budget'.start + Timeout
    BY <1>1, ProbeAssumption
  <2>4. QED
    BY <2>1, <2>2, <2>3, ConcludeTime
<1>3. CASE pc' = "turn" /\ UNCHANGED <<wait, addr, result, tried>>
  <2> USE <1>3, SpentType DEF TimeInv, Open
  <2>1. TypeOK'
    BY DEF TypeOK, signal
  <2>2. BudgetInv'
    BY <1>1 DEF BudgetInv, Waiting, TypeOK
  <2>3. SignalInv'
    BY DEF SignalInv, InterruptLag, signal
  <2>4. QED BY <2>1, <2>2, <2>3
<1>4. QED BY <1>2, <1>3 DEF Open

LEMMA TurnTime == TimeInv /\ Turn => TimeInv'
<1> SUFFICES ASSUME TimeInv, Turn PROVE TimeInv'
  OBVIOUS
<1> USE SpentType DEF TimeInv
<1>1. budget' \in [start : Nat, hasValue : BOOLEAN] /\ budget'.start = budget.start
  BY DEF Turn, BudgetInv
<1>2. CASE proto = "icmp" /\ Left <= 0
  <2>1. Conclude("timeout") /\ UNCHANGED wait
    BY <1>2 DEF Turn
  <2>2. budget'.start <= now /\ now <= budget'.start + Timeout
    BY <1>1 DEF BudgetInv, Turn
  <2>3. UNCHANGED <<proto, now, limit, answer, eintr, signal>>
    BY DEF Turn, kernel
  <2>4. /\ answer' \in {"none", "ok", "foreign"} \cup SocketError /\ eintr' \in BOOLEAN
        /\ answer' = "foreign" => proto = "icmp"
    BY <2>3 DEF TypeOK, BudgetInv
  <2>5. "timeout" \in {"ok", "interrupted"} \cup Failed /\ pc = "turn"
    BY DEF Turn, Failed, SocketError
  <2>6. QED
    BY <1>1, <2>1, <2>2, <2>3, <2>4, <2>5, ConcludeTime
<1>3. CASE ~(proto = "icmp" /\ Left <= 0)
  <2>1. /\ pc' = "check"
        /\ wait' = [start |-> now, hasValue |-> TRUE, timeout |-> Left]
        /\ UNCHANGED <<addr, result, tried, proto, now, limit, kernel, signal, rtt>>
    BY <1>3 DEF Turn
  <2>2. budget.hasValue /\ (proto # "icmp" => now = budget.start) /\ pc = "turn"
    BY DEF Turn, BudgetInv
  <2>3. Left \in 0 .. Timeout /\ now + Left <= budget.start + Timeout
    BY <1>3, <2>2 DEF Left, Elapsed, BudgetInv, TypeOK
  <2>4. TypeOK'
    BY <2>1, <2>3 DEF TypeOK, kernel, signal
  <2>5. BudgetInv'
    <3>1. /\ now \in Nat /\ wait' \in [start : Nat, hasValue : BOOLEAN, timeout : Nat]
          /\ wait'.hasValue /\ wait'.start = now /\ wait'.timeout = Left
          /\ Left \in Nat /\ UNCHANGED answer
      BY <2>1, <2>3, SpentType DEF TypeOK, kernel
    <3>2. budget'.hasValue
      BY <2>2 DEF Turn, BudgetInv
    <3>3. QED
      BY <1>1, <2>1, <2>2, <2>3, <3>1, <3>2 DEF BudgetInv, Waiting
  <2>6. SignalInv'
    BY <2>1, <2>2 DEF SignalInv, InterruptLag, signal
  <2>7. QED BY <2>4, <2>5, <2>6
<1>4. QED BY <1>2, <1>3

LEMMA CheckTime == TimeInv /\ Check => TimeInv'
<1> SUFFICES ASSUME TimeInv, Check PROVE TimeInv'
  OBVIOUS
<1> USE SpentType DEF TimeInv
<1>1. CASE interrupted
  <2>1. Conclude("interrupted") /\ UNCHANGED <<wait, limit, proto, now, budget, answer, eintr, signal>>
    BY <1>1 DEF Check, kernel
  <2>2. budget' \in [start : Nat, hasValue : BOOLEAN]
        /\ budget'.start <= now /\ now <= budget'.start + Timeout /\ pc = "check"
    BY <2>1 DEF BudgetInv, Check
  <2>3. /\ answer' \in {"none", "ok", "foreign"} \cup SocketError /\ eintr' \in BOOLEAN
        /\ answer' = "foreign" => proto = "icmp"
    BY <2>1 DEF TypeOK, BudgetInv
  <2>4. QED
    BY <2>1, <2>2, <2>3, ConcludeTime
<1>2. CASE ~interrupted
  <2>1. /\ pc = "check" /\ pc' = "poll"
        /\ limit' = now + Remaining
        /\ wait' = [wait EXCEPT !.hasValue = TRUE]
        /\ UNCHANGED <<addr, result, tried, proto, now, budget, kernel, signal, rtt>>
    BY <1>2 DEF Check
  <2>2. wait' \in [start : Nat, hasValue : BOOLEAN, timeout : Nat]
        /\ wait'.start = wait.start /\ wait'.timeout = wait.timeout /\ wait'.hasValue
    BY <2>1 DEF BudgetInv
  <2>3. now + Remaining = wait.start + wait.timeout /\ Remaining \in Nat
    BY <2>1 DEF Remaining, Elapsed, BudgetInv, Waiting, TypeOK
  <2>4. TypeOK'
    BY <2>1, <2>2, <2>3 DEF TypeOK, kernel, signal
  <2>5. BudgetInv'
    <3>1. UNCHANGED <<answer, budget, now, tried, proto>>
      BY <2>1 DEF kernel
    <3>2. /\ wait.start <= now /\ now <= wait.start + wait.timeout
          /\ wait.start + wait.timeout <= budget.start + Timeout
      BY <2>1 DEF BudgetInv, Waiting
    <3>3. QED
      BY <2>1, <2>2, <2>3, <3>1, <3>2 DEF BudgetInv, Waiting
  <2>6. SignalInv'
    BY <1>2, <2>1 DEF SignalInv, InterruptLag, signal
  <2>7. QED BY <2>4, <2>5, <2>6
<1>3. QED BY <1>1, <1>2

LEMMA PollTime ==
  ASSUME TimeInv, PollEintr \/ PollTimeout \/ PollReady \/ PollError
  PROVE  TimeInv'
<1> USE SpentType DEF TimeInv
<1>0. pc = "poll" /\ budget \in [start : Nat, hasValue : BOOLEAN]
      /\ budget.start <= now /\ now <= budget.start + Timeout
  BY DEF PollEintr, PollTimeout, PollReady, PollError, BudgetInv
<1>1. CASE PollEintr
  <2> USE <1>1 DEF PollEintr, clocks
  <2>1. TypeOK'
    BY DEF TypeOK, signal
  <2>2. BudgetInv'
    BY DEF BudgetInv, Waiting
  <2>3. SignalInv'
    BY <1>0 DEF SignalInv, InterruptLag, signal, BudgetInv, TypeOK
  <2>4. QED BY <2>1, <2>2, <2>3
<1>2. CASE PollTimeout \/ PollError
  <2>1. /\ \E r \in Failed : Conclude(r)
        /\ UNCHANGED <<proto, clocks, kernel, signal, rtt>>
    BY <1>2 DEF PollTimeout, PollError, Failed, SocketError
  <2>2. PICK r \in Failed : Conclude(r)
    BY <2>1
  <2>3. r \in {"ok", "interrupted"} \cup Failed /\ r # "ok"
    BY <2>2 DEF Failed, SocketError
  <2>4. /\ answer' \in {"none", "ok", "foreign"} \cup SocketError /\ eintr' \in BOOLEAN
        /\ answer' = "foreign" => proto = "icmp"
    BY <2>1 DEF TypeOK, BudgetInv, kernel
  <2>5. UNCHANGED <<proto, now, budget, wait, limit, signal>>
    BY <2>1 DEF clocks
  <2>6. QED
    BY <1>0, <2>2, <2>3, <2>4, <2>5, ConcludeTime
<1>3. CASE PollReady /\ answer = "foreign"
  <2>1. /\ pc' = "turn" /\ answer' = "none" /\ pc = "poll"
        /\ UNCHANGED <<addr, result, tried, rtt, budget, proto, now, wait, limit, eintr, signal>>
    BY <1>3 DEF PollReady
  <2>2. proto = "icmp" /\ budget.hasValue
    BY <1>3, <2>1 DEF BudgetInv
  <2>3. TypeOK'
    BY <2>1 DEF TypeOK, signal
  <2>4. BudgetInv'
    BY <1>0, <2>1, <2>2 DEF BudgetInv, Waiting
  <2>5. SignalInv'
    BY <2>1 DEF SignalInv, InterruptLag, signal
  <2>6. QED BY <2>3, <2>4, <2>5
<1>4. CASE PollReady /\ answer # "foreign"
  <2>1. answer \in {"ok", "interrupted"} \cup Failed /\ Conclude(answer)
    BY <1>4 DEF PollReady, TypeOK, Failed
  <2>2. UNCHANGED <<proto, now, budget, wait, limit, answer, eintr, signal>>
    BY <1>4 DEF PollReady
  <2>3. /\ answer' \in {"none", "ok", "foreign"} \cup SocketError /\ eintr' \in BOOLEAN
        /\ answer' = "foreign" => proto = "icmp"
    BY <2>2 DEF TypeOK, BudgetInv
  <2>4. QED
    BY <1>0, <2>1, <2>2, <2>3, ConcludeTime
<1>5. QED
  BY <1>1, <1>2, <1>3, <1>4

-----------------------------------------------------------------------------
(* The kernel and the user; only Tick moves the clock, and it stops at the
   limit of the wait. *)
LEMMA AnswerTime ==
  ASSUME TimeInv, NEW a \in {"ok", "foreign"} \cup SocketError, Answer(a)
  PROVE  TimeInv'
<1> USE DEF TimeInv, Answer, clocks, signal
<1>1. TypeOK'
  BY DEF TypeOK
<1>2. BudgetInv'
  BY DEF BudgetInv, Waiting
<1>3. SignalInv'
  BY DEF SignalInv, InterruptLag
<1>4. QED BY <1>1, <1>2, <1>3

LEMMA TickTime == TimeInv /\ Tick => TimeInv'
<1> SUFFICES ASSUME TimeInv, Tick PROVE TimeInv'
  OBVIOUS
<1> USE SpentType DEF TimeInv
<1>1. /\ pc = "poll" /\ now < limit /\ now' = now + 1
      /\ UNCHANGED <<proto, pc, addr, budget, wait, limit, answer, eintr,
                     interrupted, since, result, tried>>
  BY DEF Tick, kernel, signal
<1>2. now \in Nat /\ budget.start \in Nat /\ limit \in Nat
  BY DEF TypeOK, BudgetInv
<1>3. now' <= limit /\ limit <= budget.start + Timeout /\ budget.start <= Len(tried) * Timeout
  BY <1>1, <1>2 DEF BudgetInv, Waiting
<1>4. TypeOK'
  BY <1>1, <1>2 DEF TypeOK
<1>5. BudgetInv'
  BY <1>1, <1>2, <1>3 DEF BudgetInv, Waiting
<1>6. SignalInv'
  BY <1>1, <1>2, <1>3 DEF SignalInv, InterruptLag
<1>7. QED BY <1>4, <1>5, <1>6

LEMMA InterruptTime ==
  ASSUME TimeInv, NEW here \in BOOLEAN, Interrupt(here)
  PROVE  TimeInv'
<1> USE DEF TimeInv, Interrupt, clocks
<1>1. TypeOK'
  BY DEF TypeOK
<1>2. BudgetInv'
  BY DEF BudgetInv, Waiting
<1>3. SignalInv'
  BY SpentType DEF SignalInv, InterruptLag, BudgetInv, TypeOK
<1>4. QED BY <1>1, <1>2, <1>3

LEMMA OtherTime == TimeInv /\ (OtherEintr \/ UNCHANGED vars) => TimeInv'
<1> SUFFICES ASSUME TimeInv, OtherEintr \/ UNCHANGED vars PROVE TimeInv'
  OBVIOUS
<1>1. /\ eintr' \in BOOLEAN
      /\ UNCHANGED <<proto, pc, addr, now, budget, wait, limit, answer,
                     interrupted, since, result, tried>>
  BY DEF OtherEintr, vars, clocks, kernel, signal, TimeInv, TypeOK
<1> USE <1>1 DEF TimeInv
<1>2. TypeOK'
  BY DEF TypeOK
<1>3. BudgetInv'
  BY DEF BudgetInv, Waiting
<1>4. SignalInv'
  BY DEF SignalInv, InterruptLag
<1>5. QED BY <1>2, <1>3, <1>4

-----------------------------------------------------------------------------
(* The budgets of the addresses, and the place of the signal among them,
   hold in every state of a probe. *)
THEOREM TimeInvariance == Spec => []TimeInv
<1>1. TimeInv /\ [Next]_vars => TimeInv'
  <2> SUFFICES ASSUME TimeInv, [Next]_vars PROVE TimeInv'
    OBVIOUS
  <2>1. CASE Thread \/ PollError
    BY <2>1, OpenTime, TurnTime, CheckTime, PollTime DEF Thread
  <2>2. CASE Tick
    BY <2>2, TickTime
  <2>3. CASE \E a \in {"ok", "foreign"} \cup SocketError : Answer(a)
    BY <2>3, AnswerTime
  <2>4. CASE \E here \in BOOLEAN : Interrupt(here)
    BY <2>4, InterruptTime
  <2>5. CASE OtherEintr \/ Returned \/ UNCHANGED vars
    BY <2>5, OtherTime DEF Returned
  <2>6. QED
    BY <2>1, <2>2, <2>3, <2>4, <2>5 DEF Next
<1>2. QED
  BY InitTime, <1>1, PTL DEF Spec

(* However many EINTRs and packets of somebody else there are, an address
   takes one timeout at most, and so the probe one for each of its addresses
   (WaitEvent, ProbeIcmp). *)
THEOREM AddressBudgetHolds == Spec => []AddressBudget
<1>1. TimeInv => AddressBudget
  <2> SUFFICES ASSUME TimeInv PROVE AddressBudget
    OBVIOUS
  <2> USE SpentType DEF TimeInv, TypeOK, BudgetInv
  <2>1. CASE pc = "open"
    BY <2>1 DEF AddressBudget
  <2>2. CASE pc # "open"
    BY <2>2 DEF AddressBudget
  <2>3. QED BY <2>1, <2>2
<1>2. QED
  BY TimeInvariance, <1>1, PTL

(* A signal that the handler takes note of at any moment, in any thread, ends
   the probe within one timeout, whatever the number of addresses; a probe
   that begins after it neither waits nor succeeds. *)
THEOREM InterruptLagHolds == Spec => []InterruptLag
<1>1. TimeInv => InterruptLag
  BY DEF TimeInv, SignalInv
<1>2. QED
  BY TimeInvariance, <1>1, PTL

-----------------------------------------------------------------------------
(* The result.                                                             *)

LEMMA LastAppended ==
  ASSUME NEW s \in Seq(Failed), NEW r \in Failed
  PROVE  Append(s, r) \in Seq(Failed) /\ Len(Append(s, r)) = Len(s) + 1 /\ Last(Append(s, r)) = r
BY DEF Last

LEMMA InitResult == Init => ResultInv
BY ProbeAssumption DEF Init, ResultInv, ResultIsRight, Waiting, Failed, SocketError

(* The result of an address: a success has been answered and is timed, and a
   silence is called open or filtered only after the whole timeout. *)
LEMMA ConcludeResult ==
  ASSUME TimeInv, ResultInv, pc # "returned",
         NEW r \in {"ok", "interrupted"} \cup Failed, Conclude(r),
         UNCHANGED <<proto, now>>,
         r = "ok" => answer' = "ok" /\ rtt' = now - budget'.start /\ rtt' <= Timeout,
         r = "openfiltered" =>
           proto = "udp" /\ answer' = "none" /\ now - budget'.start = Timeout
  PROVE  ResultInv'
<1>1. tried \in Seq(Failed) /\ addr \in 1 .. AddrCount /\ AddrCount \in Nat \ {0}
  BY ProbeAssumption DEF TimeInv, TypeOK
<1>2. result = "none" /\ Len(tried) = addr - 1
  BY DEF ResultInv
<1>3. ~Waiting'
  BY DEF Conclude, Waiting
<1>4. "ok" \notin Failed /\ "interrupted" \notin Failed /\ "none" \notin Failed
  BY DEF Failed, SocketError
<1>5. CASE r \in {"ok", "interrupted"}
  <2>1. pc' = "returned" /\ result' = r /\ UNCHANGED <<tried, addr>>
    BY <1>5 DEF Conclude
  <2>2. QED
    BY <1>2, <1>3, <1>4, <1>5, <2>1 DEF ResultInv, ResultIsRight
<1>6. CASE r \notin {"ok", "interrupted"}
  <2>1. r \in Failed /\ tried' = Append(tried, r)
    BY <1>6 DEF Conclude
  <2>2. Len(tried') = addr /\ Last(tried') = r
    BY <1>1, <1>2, <2>1, LastAppended
  <2>3. CASE addr = AddrCount
    <3>1. pc' = "returned" /\ result' = r /\ addr' = addr
      BY <2>3, <1>6 DEF Conclude
    <3>2. QED
      BY <1>3, <1>4, <1>6, <2>1, <2>2, <2>3, <3>1 DEF ResultInv, ResultIsRight
  <2>4. CASE addr # AddrCount
    <3>1. pc' = "open" /\ result' = "none" /\ addr' = addr + 1
      BY <1>2, <1>6, <2>4 DEF Conclude
    <3>2. QED
      BY <1>1, <1>3, <1>4, <2>2, <3>1 DEF ResultInv, ResultIsRight
  <2>5. QED BY <2>3, <2>4
<1>7. QED BY <1>5, <1>6

(* As long as there is no result, what is said of results is void. *)
LEMMA NoResultYet ==
  ASSUME result' = "none", pc' # "returned", Len(tried') = addr' - 1,
         Waiting' /\ proto' # "icmp" => wait'.start + wait'.timeout = budget'.start + Timeout
  PROVE  ResultInv'
BY DEF ResultInv, ResultIsRight, Failed, SocketError

LEMMA OpenResult == TimeInv /\ ResultInv /\ Open => ResultInv'
<1> SUFFICES ASSUME TimeInv, ResultInv, Open PROVE ResultInv'
  OBVIOUS
<1>1. CASE \E r \in SocketError : Conclude(r) /\ UNCHANGED wait
  <2>1. PICK r \in SocketError : Conclude(r)
    BY <1>1
  <2>2. r \in {"ok", "interrupted"} \cup Failed /\ r \notin {"ok", "openfiltered"}
    BY <2>1 DEF Failed, SocketError
  <2>3. QED
    BY <2>1, <2>2, ConcludeResult DEF Open
<1>2. CASE pc' = "turn" /\ UNCHANGED <<wait, addr, result, tried>>
  BY <1>2, NoResultYet DEF Open, ResultInv, Waiting
<1>3. QED BY <1>1, <1>2 DEF Open

LEMMA TurnResult == TimeInv /\ ResultInv /\ Turn => ResultInv'
<1> SUFFICES ASSUME TimeInv, ResultInv, Turn PROVE ResultInv'
  OBVIOUS
<1>1. CASE proto = "icmp" /\ Left <= 0
  <2>1. "timeout" \in {"ok", "interrupted"} \cup Failed /\ Conclude("timeout")
    BY <1>1 DEF Turn, Failed, SocketError
  <2>2. QED
    BY <2>1, ConcludeResult DEF Turn
<1>2. CASE ~(proto = "icmp" /\ Left <= 0)
  <2>1. /\ pc = "turn" /\ pc' = "check"
        /\ wait' = [start |-> now, hasValue |-> TRUE, timeout |-> Left]
        /\ UNCHANGED <<addr, result, tried, proto, now>>
        /\ budget'.start = budget.start
    BY <1>2 DEF Turn, TimeInv, BudgetInv
  <2>2. proto # "icmp" => now = budget.start /\ Left = Timeout
    BY <2>1 DEF TimeInv, BudgetInv, Left
  <2>3. QED
    BY <2>1, <2>2, NoResultYet DEF ResultInv
<1>3. QED BY <1>1, <1>2

LEMMA CheckResult == TimeInv /\ ResultInv /\ Check => ResultInv'
<1> SUFFICES ASSUME TimeInv, ResultInv, Check PROVE ResultInv'
  OBVIOUS
<1>1. CASE interrupted
  BY <1>1, ConcludeResult DEF Check, Failed, SocketError
<1>2. CASE ~interrupted
  <2>1. /\ pc = "check" /\ pc' = "poll"
        /\ wait'.start = wait.start /\ wait'.timeout = wait.timeout
        /\ UNCHANGED <<addr, result, tried, proto, budget>>
    BY <1>2 DEF Check, TimeInv, BudgetInv
  <2>2. QED
    BY <2>1, NoResultYet DEF ResultInv, Waiting
<1>3. QED BY <1>1, <1>2

LEMMA PollResult ==
  ASSUME TimeInv, ResultInv, PollEintr \/ PollTimeout \/ PollReady \/ PollError
  PROVE  ResultInv'
<1>1. /\ pc = "poll" /\ result = "none" /\ Len(tried) = addr - 1
      /\ proto # "icmp" => wait.start + wait.timeout = budget.start + Timeout
  BY DEF ResultInv, Waiting, PollEintr, PollTimeout, PollReady, PollError
<1>2. CASE PollEintr
  BY <1>1, <1>2, NoResultYet DEF PollEintr, clocks
<1>3. CASE PollTimeout
  <2> DEFINE r == IF proto = "udp" THEN "openfiltered" ELSE "timeout"
  <2>1. /\ Conclude(r) /\ r \in {"ok", "interrupted"} \cup Failed /\ r # "ok"
        /\ answer = "none" /\ now >= limit
        /\ UNCHANGED <<proto, now, budget, answer>>
    BY <1>3 DEF PollTimeout, clocks, kernel, Failed, SocketError
  <2>2. proto = "udp" => now - budget.start = Timeout
    <3>1. now <= limit /\ limit = wait.start + wait.timeout
      BY <1>1 DEF TimeInv, BudgetInv, Waiting
    <3>2. now \in Nat /\ limit \in Nat /\ budget.start \in Nat /\ Timeout \in Nat
      BY ProbeAssumption DEF TimeInv, TypeOK, BudgetInv
    <3>3. QED
      BY <1>1, <2>1, <3>1, <3>2
  <2>3. QED
    BY <1>1, <2>1, <2>2, ConcludeResult
<1>4. CASE PollError
  BY <1>1, <1>4, ConcludeResult DEF PollError, clocks, Failed, SocketError
<1>5. CASE PollReady /\ answer = "foreign"
  BY <1>1, <1>5, NoResultYet DEF PollReady, Waiting
<1>6. CASE PollReady /\ answer # "foreign"
  <2>1. /\ Conclude(answer) /\ answer \in {"ok"} \cup SocketError
        /\ UNCHANGED <<proto, now, budget, answer>>
        /\ answer = "ok" => rtt' = Elapsed(budget)
    BY <1>6 DEF PollReady, TimeInv, TypeOK
  <2>2. /\ Elapsed(budget) = now - budget.start /\ now - budget.start <= Timeout
    BY <1>1, ProbeAssumption DEF TimeInv, TypeOK, BudgetInv, Elapsed
  <2>3. answer \in {"ok", "interrupted"} \cup Failed /\ answer # "openfiltered"
    BY <2>1 DEF Failed, SocketError
  <2>4. QED
    BY <1>1, <2>1, <2>2, <2>3, ConcludeResult
<1>7. QED BY <1>2, <1>3, <1>4, <1>5, <1>6

(* The kernel and the user give no result. *)
LEMMA OthersResult ==
  ASSUME TimeInv, ResultInv,
         \/ \E a \in {"ok", "foreign"} \cup SocketError : Answer(a)
         \/ Tick \/ OtherEintr
         \/ \E here \in BOOLEAN : Interrupt(here)
  PROVE  ResultInv'
<1>1. pc # "returned" /\ UNCHANGED <<proto, pc, addr, budget, wait, result, tried>>
  BY DEF Answer, Tick, OtherEintr, Interrupt, clocks
<1>2. QED
  BY <1>1, NoResultYet DEF ResultInv, Waiting

(* A success is the success of the address reported, after all before it were
   tried, with the time of that address alone; an error is that of the last
   one, and a UDP port is called open or filtered only after a full timeout
   of silence. *)
THEOREM ResultsAreRight == Spec => []ResultIsRight
<1>1. TimeInv /\ ResultInv /\ [Next]_vars => ResultInv'
  <2> SUFFICES ASSUME TimeInv, ResultInv, [Next]_vars PROVE ResultInv'
    OBVIOUS
  <2>1. CASE Thread \/ PollError
    BY <2>1, OpenResult, TurnResult, CheckResult, PollResult DEF Thread
  <2>2. CASE \/ \E a \in {"ok", "foreign"} \cup SocketError : Answer(a)
             \/ Tick \/ OtherEintr
             \/ \E here \in BOOLEAN : Interrupt(here)
    BY <2>2, OthersResult
  <2>3. CASE Returned \/ UNCHANGED vars
    BY <2>3 DEF Returned, vars, clocks, kernel, signal, ResultInv, ResultIsRight, Waiting
  <2>4. QED
    BY <2>1, <2>2, <2>3 DEF Next
<1>2. ResultInv => ResultIsRight
  BY DEF ResultInv
<1>3. QED
  BY TimeInvariance, InitResult, <1>1, <1>2, PTL DEF Spec
=============================================================================
