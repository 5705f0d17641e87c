----------------------------- MODULE ModeProofs -----------------------------
(***************************************************************************)
(* The modes of a run that need no probe pool, and how a run comes to      *)
(* them.  First HTTP: its sockets, its successes and its time, for every   *)
(* number of addresses, every timeout and every number of bytes the peer   *)
(* may send.  Then the resilience sweep: its levels, for every cap that    *)
(* levels[16] can hold, and its verdict.  Last the run of main: settings,  *)
(* targets, annotations, the choice of the mode and the exit, for every    *)
(* command line, file, list of interfaces and answer of the name server.   *)
(***************************************************************************)
EXTENDS Http, Resilience, Startup, SumTheorems, FiniteSetTheorems, TLAPS

-----------------------------------------------------------------------------
(* The HTTP mode.                                                          *)

(* The timeouts of the addresses tried so far. *)
LEMMA AddressTimes ==
  ASSUME NEW a \in 1 .. AddrCount
  PROVE  /\ a * Timeout \in Nat /\ (a + 1) * Timeout = a * Timeout + Timeout
         /\ Timeout <= a * Timeout /\ a * Timeout <= AddrCount * Timeout
         /\ AddrCount * Timeout \in Nat /\ 1 * Timeout = Timeout
         /\ (AddrCount + 2) * Timeout = AddrCount * Timeout + 2 * Timeout
<1>1. AddrCount \in Nat /\ Timeout \in Nat /\ a \in Nat
  BY HttpAssumption
<1>2. PICK d \in Nat : AddrCount = a + d
  <2>1. AddrCount - a \in Nat /\ AddrCount = a + (AddrCount - a)
    BY <1>1
  <2>2. QED BY <2>1
<1>3. PICK e \in Nat : a = 1 + e
  <2>1. a - 1 \in Nat /\ a = 1 + (a - 1)
    BY <1>1
  <2>2. QED BY <2>1
<1>4. (a + d) * Timeout = a * Timeout + d * Timeout /\ d * Timeout \in Nat
  BY <1>1
<1>5. (1 + e) * Timeout = Timeout + e * Timeout /\ e * Timeout \in Nat
  BY <1>1
<1>6. (a + 1) * Timeout = a * Timeout + Timeout /\ a * Timeout \in Nat
  BY <1>1
<1>7. (AddrCount + 2) * Timeout = AddrCount * Timeout + 2 * Timeout
  BY <1>1
<1>8. QED BY <1>1, <1>2, <1>3, <1>4, <1>5, <1>6, <1>7

(* The clocks count on until long after every bound they are held to. *)
LEMMA Advances ==
  ASSUME NEW x \in Nat
  PROVE  Advance(x) \in Nat /\ Advance(x) <= x + 1
BY HttpAssumption DEF Advance

-----------------------------------------------------------------------------
(* A new probe begins with nothing open and every clock at zero. *)
LEMMA TestHttp == HttpInv /\ Test => HttpInv'
<1> SUFFICES ASSUME HttpInv, Test PROVE HttpInv'
  OBVIOUS
<1>1. /\ pc = "test"
      /\ UNCHANGED <<https, cycle, stats, sockets, accepted, eintr>>
      /\ \/ /\ pc' = "exit" /\ UNCHANGED <<addr, cTls, resp, blocked, deadline, spent>>
            /\ exitCode' = IF stats.connects > 0 THEN "success" ELSE "failure"
         \/ /\ pc' = "resolve" /\ addr' = 1 /\ cTls' = FALSE /\ resp' = "nothing"
            /\ spent' = 0 /\ blocked' = 0 /\ deadline' = 0
  BY DEF Test, mode, totals, conn, clocks, signal
<1>2. HttpTypeOK'
  <2>1. https' \in BOOLEAN /\ cTls' \in BOOLEAN /\ eintr' \in BOOLEAN
    BY <1>1 DEF HttpInv, HttpTypeOK
  <2>2. addr' \in 1 .. AddrCount /\ blocked' \in 0 .. Timeout /\ deadline' \in Nat /\ spent' \in Nat
    BY <1>1, HttpAssumption DEF HttpInv, HttpTypeOK
  <2>3. /\ cycle' \in Nat /\ accepted' \in Nat
        /\ stats' \in [attempts : Nat, connects : Nat, failures : Nat]
        /\ resp' \in {"nothing", "accepted", "refused"}
    BY <1>1 DEF HttpInv, HttpTypeOK
  <2>4. QED
    BY <1>1, <2>1, <2>2, <2>3 DEF HttpInv, HttpTypeOK
<1>3. SocketsClosed'
  BY <1>1 DEF HttpInv, SocketsClosed
<1>4. SuccessInv'
  <2>1. /\ stats' = stats /\ cycle' = cycle /\ accepted' = accepted
        /\ accepted \in Nat /\ stats.connects \in Nat
    BY <1>1 DEF HttpInv, HttpTypeOK
  <2>2. CASE pc' = "exit"
    <3>1. accepted = stats.connects
      BY <1>1, <2>1 DEF HttpInv, SuccessInv
    <3>2. exitCode' = "success" <=> accepted > 0
      BY <1>1, <2>1, <2>2, <3>1
    <3>3. QED
      BY <1>1, <2>1, <2>2, <3>1, <3>2 DEF HttpInv, SuccessInv
  <2>3. CASE pc' = "resolve"
    BY <1>1, <2>1, <2>3 DEF HttpInv, SuccessInv
  <2>4. QED BY <1>1, <2>2, <2>3
<1>5. ClockInv'
  BY <1>1, HttpAssumption, AddressTimes DEF HttpInv, ClockInv, HttpTypeOK
<1>6. QED BY <1>2, <1>3, <1>4, <1>5 DEF HttpInv

(* A response that was accepted is the only success counted. *)
LEMMA JudgeHttp == HttpInv /\ Judge => HttpInv'
<1> SUFFICES ASSUME HttpInv, Judge PROVE HttpInv'
  OBVIOUS
<1>1. /\ pc = "judge" /\ pc' \in {"pause", "test"}
      /\ cycle' = cycle + 1
      /\ stats' = [stats EXCEPT !.attempts = @ + 1,
                            !.connects = IF resp = "accepted" THEN @ + 1 ELSE @,
                            !.failures = IF resp = "accepted" THEN @ ELSE @ + 1]
      /\ UNCHANGED <<https, exitCode, addr, sockets, cTls, resp, accepted, blocked, deadline, spent, eintr>>
  BY DEF Judge, mode, totals, conn, clocks, signal
<1>2. HttpTypeOK'
  <2>1. https' \in BOOLEAN /\ cTls' \in BOOLEAN /\ eintr' \in BOOLEAN
    BY <1>1 DEF HttpInv, HttpTypeOK
  <2>2. addr' \in 1 .. AddrCount /\ blocked' \in 0 .. Timeout /\ deadline' \in Nat /\ spent' \in Nat
    BY <1>1, HttpAssumption DEF HttpInv, HttpTypeOK
  <2>3. /\ cycle' \in Nat /\ accepted' \in Nat
        /\ stats' \in [attempts : Nat, connects : Nat, failures : Nat]
        /\ resp' \in {"nothing", "accepted", "refused"}
    <3>1. /\ stats \in [attempts : Nat, connects : Nat, failures : Nat]
          /\ stats.attempts + 1 \in Nat /\ stats.connects + 1 \in Nat
          /\ stats.failures + 1 \in Nat
      BY DEF HttpInv, HttpTypeOK
    <3>2. \A x \in Nat, y \in Nat, z \in Nat :
            [stats EXCEPT !.attempts = x, !.connects = y, !.failures = z]
              \in [attempts : Nat, connects : Nat, failures : Nat]
      BY <3>1
    <3>3. /\ (IF resp = "accepted" THEN stats.connects + 1 ELSE stats.connects) \in Nat
          /\ (IF resp = "accepted" THEN stats.failures ELSE stats.failures + 1) \in Nat
      BY <3>1
    <3>4. stats' \in [attempts : Nat, connects : Nat, failures : Nat]
      BY <1>1, <3>1, <3>2, <3>3
    <3>5. QED
      BY <1>1, <3>4 DEF HttpInv, HttpTypeOK
  <2>4. QED
    BY <1>1, <2>1, <2>2, <2>3 DEF HttpInv, HttpTypeOK
<1>3. SocketsClosed'
  BY <1>1 DEF HttpInv, SocketsClosed
<1>4. SuccessInv'
  <2>1. /\ stats'.attempts = stats.attempts + 1 /\ stats.attempts \in Nat
        /\ stats.connects \in Nat /\ stats.failures \in Nat
        /\ stats'.connects = (IF resp = "accepted" THEN stats.connects + 1 ELSE stats.connects)
        /\ stats'.failures = (IF resp = "accepted" THEN stats.failures ELSE stats.failures + 1)
    BY <1>1 DEF HttpInv, HttpTypeOK
  <2>2. /\ stats.attempts = cycle /\ stats.attempts = stats.connects + stats.failures
        /\ accepted = (IF resp = "accepted" THEN stats.connects + 1 ELSE stats.connects)
    BY <1>1, <2>1 DEF HttpInv, SuccessInv
  <2>3. QED
    BY <1>1, <2>1, <2>2 DEF SuccessInv
<1>5. ClockInv'
  BY <1>1, HttpAssumption, AddressTimes DEF HttpInv, ClockInv, HttpTypeOK
<1>6. QED BY <1>2, <1>3, <1>4, <1>5 DEF HttpInv

(* The pause and the look-up touch nothing. *)
LEMMA PauseHttp == HttpInv /\ (Pause \/ ResolveName) => HttpInv'
<1> SUFFICES ASSUME HttpInv, (Pause \/ ResolveName) PROVE HttpInv'
  OBVIOUS
<1>1. /\ \/ pc = "pause" /\ pc' = "test"
         \/ pc = "resolve" /\ pc' \in {"dial", "judge"}
      /\ UNCHANGED <<https, cycle, stats, exitCode, addr, sockets, cTls, resp, accepted, blocked, deadline, spent, eintr>>
  BY DEF Pause, ResolveName, mode, totals, conn, clocks, signal
<1>2. HttpTypeOK'
  BY <1>1, HttpAssumption DEF HttpInv, HttpTypeOK
<1>3. SocketsClosed'
  BY <1>1 DEF HttpInv, SocketsClosed
<1>4. SuccessInv'
  BY <1>1 DEF HttpInv, SuccessInv, HttpTypeOK
<1>5. ClockInv'
  BY <1>1, HttpAssumption, AddressTimes DEF HttpInv, ClockInv, HttpTypeOK
<1>6. QED BY <1>2, <1>3, <1>4, <1>5 DEF HttpInv

(* The next address is tried, with a timeout of its own. *)
LEMMA DialHttp == HttpInv /\ Dial => HttpInv'
<1> SUFFICES ASSUME HttpInv, Dial PROVE HttpInv'
  OBVIOUS
<1>1. /\ pc = "dial" /\ blocked' = 0
      /\ \/ sockets' = sockets /\ addr = AddrCount /\ pc' = "judge" /\ addr' = addr
         \/ sockets' = sockets /\ addr # AddrCount /\ pc' = "dial" /\ addr' = addr + 1
         \/ sockets' = sockets + 1 /\ pc' \in {"poll", "connected"} /\ addr' = addr
      /\ UNCHANGED <<https, cycle, stats, exitCode, cTls, resp, accepted, deadline, spent, eintr>>
  BY DEF Dial, NextAddr, mode, totals, conn, clocks, signal
<1>2. HttpTypeOK'
  BY <1>1, HttpAssumption DEF HttpInv, HttpTypeOK
<1>3. SocketsClosed'
  BY <1>1 DEF HttpInv, SocketsClosed
<1>4. SuccessInv'
  BY <1>1 DEF HttpInv, SuccessInv, HttpTypeOK
<1>5. ClockInv'
  BY <1>1, HttpAssumption, AddressTimes DEF HttpInv, ClockInv, HttpTypeOK
<1>6. QED BY <1>2, <1>3, <1>4, <1>5 DEF HttpInv

(* An address given up has used one timeout. *)
LEMMA PollFailsHttp == HttpInv /\ PollFails => HttpInv'
<1> SUFFICES ASSUME HttpInv, PollFails PROVE HttpInv'
  OBVIOUS
<1>1. /\ pc = "poll" /\ sockets' = sockets - 1 /\ eintr' = FALSE
      /\ \/ addr = AddrCount /\ pc' = "judge" /\ addr' = addr
         \/ addr # AddrCount /\ pc' = "dial" /\ addr' = addr + 1
      /\ UNCHANGED <<https, cycle, stats, exitCode, cTls, resp, accepted, blocked, deadline, spent>>
  BY DEF PollFails, NextAddr, mode, totals, conn, clocks, signal
<1>2. HttpTypeOK'
  <2>1. https' \in BOOLEAN /\ cTls' \in BOOLEAN /\ eintr' \in BOOLEAN
    BY <1>1 DEF HttpInv, HttpTypeOK
  <2>2. addr' \in 1 .. AddrCount /\ blocked' \in 0 .. Timeout /\ deadline' \in Nat /\ spent' \in Nat
    BY <1>1, HttpAssumption DEF HttpInv, HttpTypeOK
  <2>3. /\ cycle' \in Nat /\ accepted' \in Nat
        /\ stats' \in [attempts : Nat, connects : Nat, failures : Nat]
        /\ resp' \in {"nothing", "accepted", "refused"}
    BY <1>1 DEF HttpInv, HttpTypeOK
  <2>4. QED
    BY <1>1, <2>1, <2>2, <2>3 DEF HttpInv, HttpTypeOK
<1>3. SocketsClosed'
  BY <1>1 DEF HttpInv, SocketsClosed
<1>4. SuccessInv'
  BY <1>1 DEF HttpInv, SuccessInv, HttpTypeOK
<1>5. ClockInv'
  BY <1>1, HttpAssumption, AddressTimes DEF HttpInv, ClockInv, HttpTypeOK
<1>6. QED BY <1>2, <1>3, <1>4, <1>5 DEF HttpInv

(* The connection is made within the timeout of its address. *)
LEMMA PollOkHttp == HttpInv /\ PollOk => HttpInv'
<1> SUFFICES ASSUME HttpInv, PollOk PROVE HttpInv'
  OBVIOUS
<1>1. /\ pc = "poll" /\ pc' = "connected"
      /\ UNCHANGED <<https, cycle, stats, exitCode, addr, sockets, cTls, resp, accepted, blocked, deadline, spent, eintr>>
  BY DEF PollOk, mode, totals, conn, clocks, signal
<1>2. HttpTypeOK'
  BY <1>1, HttpAssumption DEF HttpInv, HttpTypeOK
<1>3. SocketsClosed'
  BY <1>1 DEF HttpInv, SocketsClosed
<1>4. SuccessInv'
  BY <1>1 DEF HttpInv, SuccessInv, HttpTypeOK
<1>5. ClockInv'
  BY <1>1, HttpAssumption, AddressTimes DEF HttpInv, ClockInv, HttpTypeOK
<1>6. QED BY <1>2, <1>3, <1>4, <1>5 DEF HttpInv

(* Plain HTTP sends at once, HTTPS has its handshake first. *)
LEMMA ConnectedHttp == HttpInv /\ Connected => HttpInv'
<1> SUFFICES ASSUME HttpInv, Connected PROVE HttpInv'
  OBVIOUS
<1>1. /\ pc = "connected" /\ blocked' = 0
      /\ \/ https /\ pc' = "handshake" /\ sockets' = sockets
         \/ https /\ pc' = "judge" /\ sockets' = sockets - 1
         \/ ~https /\ pc' = "send" /\ sockets' = sockets
      /\ UNCHANGED <<https, cycle, stats, exitCode, addr, cTls, resp, accepted, deadline, spent, eintr>>
  BY DEF Connected, mode, totals, conn, clocks, signal
<1>2. HttpTypeOK'
  BY <1>1, HttpAssumption DEF HttpInv, HttpTypeOK
<1>3. SocketsClosed'
  BY <1>1 DEF HttpInv, SocketsClosed
<1>4. SuccessInv'
  BY <1>1 DEF HttpInv, SuccessInv, HttpTypeOK
<1>5. ClockInv'
  BY <1>1, HttpAssumption, AddressTimes DEF HttpInv, ClockInv, HttpTypeOK
<1>6. QED BY <1>2, <1>3, <1>4, <1>5 DEF HttpInv

(* Only HTTPS comes to the handshake. *)
LEMMA HandshakeHttp == HttpInv /\ (HandshakeOk \/ HandshakeFails \/ HandshakeBytes \/ HandshakeTimeout) => HttpInv'
<1> SUFFICES ASSUME HttpInv, (HandshakeOk \/ HandshakeFails \/ HandshakeBytes \/ HandshakeTimeout) PROVE HttpInv'
  OBVIOUS
<1>1. /\ pc = "handshake" /\ blocked' \in {0, blocked}
      /\ cTls' \in BOOLEAN /\ eintr' \in BOOLEAN
      /\ \/ pc' \in {"send", "handshake"} /\ sockets' = sockets
         \/ pc' = "judge" /\ sockets' = sockets - 1
      /\ UNCHANGED <<https, cycle, stats, exitCode, addr, resp, accepted, deadline, spent>>
  BY DEF HandshakeOk, HandshakeFails, HandshakeBytes, HandshakeTimeout, ConnClose, HttpInv, HttpTypeOK, mode, totals, conn, clocks, signal
<1>2. HttpTypeOK'
  BY <1>1, HttpAssumption DEF HttpInv, HttpTypeOK
<1>3. SocketsClosed'
  BY <1>1 DEF HttpInv, SocketsClosed
<1>4. SuccessInv'
  BY <1>1 DEF HttpInv, SuccessInv, HttpTypeOK
<1>5. ClockInv'
  BY <1>1, HttpAssumption, AddressTimes DEF HttpInv, ClockInv, HttpTypeOK
<1>6. QED BY <1>2, <1>3, <1>4, <1>5 DEF HttpInv

(* The timer of the response starts when the request is sent. *)
LEMMA SendHttp == HttpInv /\ Send => HttpInv'
<1> SUFFICES ASSUME HttpInv, Send PROVE HttpInv'
  OBVIOUS
<1>1. /\ pc = "send" /\ deadline' = 0
      /\ \/ pc' = "judge" /\ sockets' = sockets - 1
         \/ pc' = "read" /\ sockets' = sockets
      /\ UNCHANGED <<https, cycle, stats, exitCode, addr, cTls, resp, accepted, blocked, spent, eintr>>
  BY DEF Send, ConnClose, mode, totals, conn, clocks, signal
<1>2. HttpTypeOK'
  BY <1>1, HttpAssumption DEF HttpInv, HttpTypeOK
<1>3. SocketsClosed'
  BY <1>1 DEF HttpInv, SocketsClosed
<1>4. SuccessInv'
  BY <1>1 DEF HttpInv, SuccessInv, HttpTypeOK
<1>5. ClockInv'
  BY <1>1, HttpAssumption, AddressTimes DEF HttpInv, ClockInv, HttpTypeOK
<1>6. QED BY <1>2, <1>3, <1>4, <1>5 DEF HttpInv

(* A recv begins only before the deadline. *)
LEMMA ReadTestHttp == HttpInv /\ ReadTest => HttpInv'
<1> SUFFICES ASSUME HttpInv, ReadTest PROVE HttpInv'
  OBVIOUS
<1>1. /\ pc = "read" /\ blocked' = 0
      /\ \/ pc' = "close" 
         \/ pc' = "recv" /\ ~(deadline > Timeout)
      /\ UNCHANGED <<https, cycle, stats, exitCode, addr, sockets, cTls, resp, accepted, deadline, spent, eintr>>
  BY DEF ReadTest, mode, totals, conn, clocks, signal
<1>2. HttpTypeOK'
  BY <1>1, HttpAssumption DEF HttpInv, HttpTypeOK
<1>3. SocketsClosed'
  BY <1>1 DEF HttpInv, SocketsClosed
<1>4. SuccessInv'
  BY <1>1 DEF HttpInv, SuccessInv, HttpTypeOK
<1>5. ClockInv'
  BY <1>1, HttpAssumption, AddressTimes DEF HttpInv, ClockInv, HttpTypeOK
<1>6. QED BY <1>2, <1>3, <1>4, <1>5 DEF HttpInv

(* What recv returns is judged later; a partial record is TLS. *)
LEMMA RecvHttp == HttpInv /\ (RecvData \/ RecvPartial \/ RecvEnds \/ RecvTimeout) => HttpInv'
<1> SUFFICES ASSUME HttpInv, (RecvData \/ RecvPartial \/ RecvEnds \/ RecvTimeout) PROVE HttpInv'
  OBVIOUS
<1>1. /\ pc = "recv"
      /\ \/ pc' \in {"read", "close"} /\ blocked' = blocked
         \/ pc' = "recv" /\ blocked' = 0 /\ cTls
      /\ resp' \in {"nothing", "accepted", "refused", resp} /\ eintr' \in {FALSE, eintr}
      /\ UNCHANGED <<https, cycle, stats, exitCode, addr, sockets, cTls, accepted, deadline, spent>>
  BY DEF RecvData, RecvPartial, RecvEnds, RecvTimeout, mode, totals, conn, clocks, signal
<1>2. HttpTypeOK'
  <2>1. https' \in BOOLEAN /\ cTls' \in BOOLEAN /\ eintr' \in BOOLEAN
    BY <1>1 DEF HttpInv, HttpTypeOK
  <2>2. addr' \in 1 .. AddrCount /\ blocked' \in 0 .. Timeout /\ deadline' \in Nat /\ spent' \in Nat
    BY <1>1, HttpAssumption DEF HttpInv, HttpTypeOK
  <2>3. /\ cycle' \in Nat /\ accepted' \in Nat
        /\ stats' \in [attempts : Nat, connects : Nat, failures : Nat]
        /\ resp' \in {"nothing", "accepted", "refused"}
    BY <1>1 DEF HttpInv, HttpTypeOK
  <2>4. QED
    BY <1>1, <2>1, <2>2, <2>3 DEF HttpInv, HttpTypeOK
<1>3. SocketsClosed'
  BY <1>1 DEF HttpInv, SocketsClosed
<1>4. SuccessInv'
  BY <1>1 DEF HttpInv, SuccessInv, HttpTypeOK
<1>5. ClockInv'
  BY <1>1, HttpAssumption, AddressTimes DEF HttpInv, ClockInv, HttpTypeOK
<1>6. QED BY <1>2, <1>3, <1>4, <1>5 DEF HttpInv

(* The response that ended is counted as received, once. *)
LEMMA CloseHttp == HttpInv /\ Close => HttpInv'
<1> SUFFICES ASSUME HttpInv, Close PROVE HttpInv'
  OBVIOUS
<1>1. /\ pc = "close" /\ pc' = "judge" /\ sockets' = sockets - 1
      /\ accepted' = IF resp = "accepted" THEN accepted + 1 ELSE accepted
      /\ UNCHANGED <<https, cycle, stats, exitCode, addr, cTls, resp, blocked, deadline, spent, eintr>>
  BY DEF Close, ConnClose, mode, totals, conn, clocks, signal
<1>2. HttpTypeOK'
  BY <1>1, HttpAssumption DEF HttpInv, HttpTypeOK
<1>3. SocketsClosed'
  BY <1>1 DEF HttpInv, SocketsClosed
<1>4. SuccessInv'
  <2>1. accepted = stats.connects /\ stats.attempts = cycle
        /\ stats.attempts = stats.connects + stats.failures
    <3>1. stats.connects \in Nat /\ accepted \in Nat
      BY DEF HttpInv, HttpTypeOK
    <3>2. accepted = stats.connects + 0
      BY <1>1 DEF HttpInv, SuccessInv
    <3>3. QED
      BY <3>1, <3>2 DEF HttpInv, SuccessInv
  <2>2. accepted \in Nat /\ stats' = stats /\ cycle' = cycle
    BY <1>1 DEF HttpInv, HttpTypeOK
  <2>3. accepted' = stats'.connects + (IF resp' = "accepted" THEN 1 ELSE 0)
    BY <1>1, <2>1, <2>2
  <2>4. QED
    BY <1>1, <2>1, <2>2, <2>3 DEF SuccessInv
<1>5. ClockInv'
  BY <1>1, HttpAssumption, AddressTimes DEF HttpInv, ClockInv, HttpTypeOK
<1>6. QED BY <1>2, <1>3, <1>4, <1>5 DEF HttpInv

(* Time passes in the calls that block, at most a timeout in each. *)
LEMMA TickHttp == HttpInv /\ Tick => HttpInv'
<1> SUFFICES ASSUME HttpInv, Tick PROVE HttpInv'
  OBVIOUS
<1>1. /\ pc \in {"poll", "handshake", "recv"} /\ blocked < Timeout /\ blocked' = blocked + 1
      /\ deadline' = (IF pc = "recv" THEN Advance(deadline) ELSE deadline)
      /\ spent' = Advance(spent)
      /\ UNCHANGED <<pc, https, cycle, stats, exitCode, addr, sockets, cTls, resp, accepted, eintr>>
  BY DEF Tick, Blocking, mode, totals, conn, signal
<1>2. /\ deadline' \in Nat /\ spent' \in Nat /\ spent' <= spent + 1
      /\ pc # "recv" => deadline' = deadline
      /\ pc = "recv" => \/ deadline' = deadline + 1
                        \/ deadline' = deadline /\ deadline >= MaxTicks
  <2>1. /\ deadline \in Nat /\ spent \in Nat
        /\ Advance(deadline) \in Nat /\ Advance(spent) \in Nat /\ Advance(spent) <= spent + 1
    BY Advances DEF HttpInv, HttpTypeOK
  <2>2. CASE pc = "recv"
    BY <1>1, <2>1, <2>2, HttpAssumption DEF Advance
  <2>3. CASE pc # "recv"
    BY <1>1, <2>1, <2>3
  <2>4. QED BY <2>2, <2>3
<1>3. HttpTypeOK'
  BY <1>1, <1>2, HttpAssumption DEF HttpInv, HttpTypeOK
<1>4. SocketsClosed'
  BY <1>1 DEF HttpInv, SocketsClosed
<1>5. SuccessInv'
  BY <1>1 DEF HttpInv, SuccessInv
<1>6. ClockInv'
  BY <1>1, <1>2, HttpAssumption, AddressTimes DEF HttpInv, HttpTypeOK, ClockInv
<1>7. QED BY <1>3, <1>4, <1>5, <1>6 DEF HttpInv

(* The signal changes no count and no clock. *)
LEMMA OthersHttp == HttpInv /\ (Interrupt \/ UNCHANGED vars) => HttpInv'
<1> SUFFICES ASSUME HttpInv, Interrupt \/ UNCHANGED vars PROVE HttpInv'
  OBVIOUS
<1>1. /\ UNCHANGED <<pc, https, cycle, stats, exitCode, addr, sockets, cTls, resp,
                    accepted, blocked, deadline, spent>>
      /\ eintr' \in BOOLEAN
  <2>1. CASE Interrupt
    <3>1. eintr' \in BOOLEAN
      <4>1. eintr' = (pc \in Blocking)
        BY <2>1 DEF Interrupt
      <4>2. (pc \in Blocking) \in BOOLEAN
        OBVIOUS
      <4>3. QED BY <4>1, <4>2, Zenon
    <3>2. QED
      BY <2>1, <3>1 DEF Interrupt, mode, totals, conn, clocks
  <2>2. CASE UNCHANGED vars
    BY <2>2 DEF vars, mode, totals, conn, clocks, signal, HttpInv, HttpTypeOK
  <2>3. QED BY <2>1, <2>2
<1>2. HttpTypeOK'
  BY <1>1 DEF HttpInv, HttpTypeOK
<1>3. SocketsClosed'
  BY <1>1 DEF HttpInv, SocketsClosed
<1>4. SuccessInv'
  BY <1>1 DEF HttpInv, SuccessInv
<1>5. ClockInv'
  BY <1>1 DEF HttpInv, ClockInv
<1>6. QED BY <1>2, <1>3, <1>4, <1>5 DEF HttpInv

LEMMA InitHttp == Init => HttpInv
<1> SUFFICES ASSUME Init PROVE HttpInv
  OBVIOUS
<1>1. 1 \in 1 .. AddrCount /\ 0 \in 0 .. Timeout
      /\ 0 <= 2 * Timeout /\ 0 <= (AddrCount + 2) * Timeout
  <2>1. 1 \in 1 .. AddrCount /\ 0 \in 0 .. Timeout /\ 0 <= 2 * Timeout
    BY HttpAssumption
  <2>2. QED BY <2>1, AddressTimes
<1>2. HttpTypeOK
  BY <1>1, HttpAssumption DEF Init, HttpTypeOK
<1>3. SocketsClosed /\ SuccessInv
  BY DEF Init, SocketsClosed, SuccessInv
<1>4. ClockInv
  BY <1>1, HttpAssumption DEF Init, ClockInv
<1>5. QED BY <1>2, <1>3, <1>4 DEF HttpInv

LEMMA StepHttp == HttpInv /\ [Next]_vars => HttpInv'
<1>1. ASSUME HttpInv, Program PROVE HttpInv'
  BY <1>1, TestHttp, JudgeHttp, PauseHttp, DialHttp, PollFailsHttp, ConnectedHttp,
     HandshakeHttp, SendHttp, ReadTestHttp, RecvHttp, CloseHttp
  DEF Program, PollTimeout, HandshakeEintr, RecvEintr
<1>2. ASSUME HttpInv, Peer PROVE HttpInv'
  BY <1>2, PollOkHttp, PollFailsHttp, HandshakeHttp, RecvHttp DEF Peer
<1>3. ASSUME HttpInv, Tick \/ Interrupt \/ Exited \/ UNCHANGED vars PROVE HttpInv'
  BY <1>3, TickHttp, OthersHttp DEF Exited
<1>4. QED BY <1>1, <1>2, <1>3 DEF Next

(* In every reachable state the sockets are accounted for, a success is one
   that was received, and the clocks keep their bounds. *)
THEOREM HttpInvariance == Spec => []HttpInv
<1>1. Init => HttpInv
  BY InitHttp
<1>2. HttpInv /\ [Next]_vars => HttpInv'
  BY StepHttp
<1>3. QED BY <1>1, <1>2, PTL DEF Spec

(* At most one socket is open, and none between two probes: every way out of
   Http_Probe closes what TcpConnect opened (http.c:204-240, 409-455). *)
THEOREM SocketsAreClosed == Spec => []SocketsClosed
<1>1. HttpInv => SocketsClosed
  BY DEF HttpInv
<1>2. QED BY <1>1, HttpInvariance, PTL

(* Connecting takes a timeout per address and a plain HTTP response two,
   whatever the peer does (http.c:436-439). *)
THEOREM TimeIsSpent == Spec => []TimeSpent
<1>1. HttpInv => TimeSpent
  <2> SUFFICES ASSUME HttpInv PROVE TimeSpent
    OBVIOUS
  <2>1. addr * Timeout \in Nat
    BY AddressTimes DEF HttpInv, HttpTypeOK
  <2>2. QED
    BY <2>1, HttpAssumption DEF HttpInv, HttpTypeOK, ClockInv, TimeSpent
<1>2. QED BY <1>1, HttpInvariance, PTL

(* A success is counted, and reported by the exit code, only for a status
   received for that very probe (main.c:517). *)
THEOREM SuccessesAreReceived == Spec => []SuccessesReceived
<1>1. HttpInv => SuccessesReceived
  BY DEF HttpInv, HttpTypeOK, SuccessInv, SuccessesReceived
<1>2. QED BY <1>1, HttpInvariance, PTL

-----------------------------------------------------------------------------
(* The resilience sweep.                                                   *)

LEMMA MaxConcBounds ==
  ASSUME NEW c \in Nat
  PROVE  /\ MaxConc(c) \in Nat /\ MaxConc(c) >= 1 /\ MaxConc(c) <= 32768
         /\ MaxConc(c) <= MaxConcurrency
BY ResilienceAssumption DEF MaxConc

LEMMA DoublingIs ==
  /\ Doubling \in Seq(Nat) /\ Len(Doubling) = 15
  /\ Doubling[1] = 1 /\ Doubling[15] = 16384
  /\ \A i \in DOMAIN Doubling : Doubling[i] \in Nat /\ Doubling[i] > 0
BY DEF Doubling

LEMMA DoublingDoubles ==
  \A i \in DOMAIN Doubling : i < 15 => Doubling[i + 1] = 2 * Doubling[i]
BY DEF Doubling

LEMMA DoublingGrows == \A i, j \in DOMAIN Doubling : i < j => Doubling[i] < Doubling[j]
BY DEF Doubling

LEMMA DoublingLen == Doubling \in Seq(Nat) /\ Len(Doubling) = 15
BY DoublingIs

LEMMA DoublingDomain ==
  \E n \in Nat : n = 15 /\ n = Len(Doubling) /\ DOMAIN Doubling = 1 .. n
<1>1. Len(Doubling) \in Nat /\ DOMAIN Doubling = 1 .. Len(Doubling)
  BY DoublingLen
<1>2. Len(Doubling) = 15
  BY DoublingLen
<1> WITNESS Len(Doubling) \in Nat
<1>3. QED
  BY <1>1, <1>2

(* Membership in an interval, without the interval. *)
LEMMA InInterval ==
  \A n \in Int : \A i : i \in 1 .. n <=> i \in Int /\ 1 <= i /\ i <= n
OBVIOUS

LEMMA DoublingIndex ==
  \A k : k \in DOMAIN Doubling <=> k \in Int /\ 1 <= k /\ k <= 15
<1>1. PICK top \in Nat : top = Len(Doubling) /\ DOMAIN Doubling = 1 .. top
  BY DoublingDomain
<1>2. \A k : k \in DOMAIN Doubling <=> k \in Int /\ 1 <= k /\ k <= top
  BY <1>1, InInterval
<1>3. top = 15
  BY <1>1, DoublingLen
<1>4. QED
  BY <1>2, <1>3

(* The powers below a maximum are the first ones, as they are sorted. *)
LEMMA BelowIs ==
  ASSUME NEW max \in Nat
  PROVE  /\ Cardinality(Below(max)) \in Nat /\ Cardinality(Below(max)) <= 15
         /\ \A i \in DOMAIN Doubling : i <= Cardinality(Below(max)) <=> Doubling[i] < max
<1> DEFINE Dom == DOMAIN Doubling
           Not == {i \in Dom : ~(Doubling[i] < max)}
<1>1. PICK top \in Nat : top = 15 /\ Dom = 1 .. top
  BY DoublingDomain
<1>2. \A i \in Dom : i \in Below(max) <=> Doubling[i] < max
  BY DEF Below
<1>3. Below(max) \subseteq Dom
  BY DEF Below
<1>4. /\ \A i, j \in Dom : i < j => Doubling[i] < Doubling[j]
      /\ \A i \in Dom : Doubling[i] \in Nat
  BY DoublingGrows, DoublingIs
<1>5. \A i \in Dom : i \in Not <=> ~(Doubling[i] < max)
  OBVIOUS
<1>6. Not \subseteq Dom
  OBVIOUS
<1> HIDE DEF Not, Dom
<1>7. \E n \in Nat : n <= top /\ \A i \in Dom : i <= n <=> Doubling[i] < max
  <2>1. CASE Not = {}
    BY <1>1, <1>5, <2>1
  <2>2. CASE Not # {}
    <3>1. Not \in SUBSET Nat /\ IsFiniteSet(Not)
      <4>1. IsFiniteSet(1 .. top)
        BY FS_Interval
      <4>2. IsFiniteSet(Dom) /\ Dom \subseteq Nat
        BY <1>1, <4>1
      <4>3. QED
        BY <1>6, <4>2, FS_Subset
    <3>2. PICK m \in Not : \A i \in Not : m <= i
      BY <2>2, <3>1, Extremes
    <3>3. m \in Dom /\ ~(Doubling[m] < max) /\ m \in Nat /\ m >= 1 /\ m <= top
      BY <1>1, <1>5, <1>6, <3>2
    <3>4. ASSUME NEW i \in Dom PROVE i <= m - 1 <=> Doubling[i] < max
      <4>1. i \in Nat /\ Doubling[i] \in Nat /\ Doubling[m] \in Nat
        BY <1>1, <1>4, <3>3
      <4>2. CASE i < m
        BY <1>5, <3>2, <3>3, <4>1, <4>2
      <4>3. CASE i = m
        BY <3>3, <4>3
      <4>4. CASE i > m
        <5>1. Doubling[m] < Doubling[i]
          BY <1>4, <3>3, <4>1, <4>4
        <5>2. QED
          BY <3>3, <4>1, <4>4, <5>1
      <4>5. QED BY <3>3, <4>1, <4>2, <4>3, <4>4
    <3>5. m - 1 \in Nat /\ m - 1 <= top
      BY <3>3
    <3>6. QED
      BY <3>4, <3>5
  <2>3. QED BY <2>1, <2>2
<1>8. PICK n \in Nat : n <= top /\ \A i \in Dom : i <= n <=> Doubling[i] < max
  BY <1>7
<1>9. Below(max) = 1 .. n
  <2>1. \A i : i \in Below(max) <=> i \in Dom /\ i <= n
    BY <1>2, <1>3, <1>8
  <2>2. \A i : i \in Dom <=> i \in Int /\ 1 <= i /\ i <= top
    BY <1>1, InInterval
  <2>3. \A i : i \in 1 .. n <=> i \in Int /\ 1 <= i /\ i <= n
    BY <1>8, InInterval
  <2>4. \A i : i \in Below(max) <=> i \in 1 .. n
    BY <1>1, <1>8, <2>1, <2>2, <2>3
  <2>5. QED
    BY <2>4
<1>10. Cardinality(1 .. n) = n
  BY FS_Interval
<1>11. Cardinality(Below(max)) = n
  BY <1>9, <1>10
<1>12. QED
  BY <1>1, <1>8, <1>11 DEF Dom

(* A ramp starts at one, doubles until it reaches its maximum, and ends
   there. *)
LEMMA RampIs ==
  ASSUME NEW max \in Nat, max >= 1, max <= 32768
  PROVE  LET r == Ramp(max)
         IN /\ r \in Seq(Nat) /\ Len(r) >= 1 /\ Len(r) <= 16
            /\ r[1] = 1 /\ r[Len(r)] = max
            /\ \A i \in 1 .. Len(r) - 1 : r[i] < r[i + 1] /\ r[i + 1] <= 2 * r[i]
<1> DEFINE n == Cardinality(Below(max))
           r == Ramp(max)
           head == SubSeq(Doubling, 1, n)
<1>1. n \in Nat /\ n <= 15 /\ \A i \in DOMAIN Doubling : i <= n <=> Doubling[i] < max
  BY BelowIs
<1>2. r = Append(head, max)
  BY DEF Ramp
<1>3. PICK top \in Nat : top = 15 /\ top = Len(Doubling) /\ DOMAIN Doubling = 1 .. top
  BY DoublingDomain
<1> HIDE DEF n, r
<1>4. /\ head \in Seq(Nat) /\ Len(head) = n
      /\ \A i \in 1 .. n : head[i] = Doubling[i]
  <2>1. Doubling \in Seq(Nat) /\ n <= Len(Doubling)
    BY <1>1, DoublingLen
  <2>2. QED
    BY <1>1, <2>1
<1> HIDE DEF head
<1>5. /\ r \in Seq(Nat) /\ Len(r) = n + 1 /\ r[n + 1] = max
      /\ \A i \in 1 .. n : r[i] = Doubling[i]
  BY <1>1, <1>2, <1>4
<1>6. r[1] = 1
  <2>1. 1 \in DOMAIN Doubling /\ Doubling[1] = 1
    BY <1>3, DoublingIs
  <2>2. CASE n = 0
    <3>1. ~(Doubling[1] < max)
      BY <1>1, <2>1, <2>2
    <3>2. QED
      BY <1>5, <2>1, <2>2, <3>1
  <2>3. CASE n # 0
    <3>1. 1 \in 1 .. n
      BY <1>1, <2>3
    <3>2. QED
      BY <1>5, <2>1, <3>1
  <2>4. QED BY <2>2, <2>3
<1>7. ASSUME NEW i \in 1 .. n PROVE r[i] < r[i + 1] /\ r[i + 1] <= 2 * r[i]
  <2>1. i \in DOMAIN Doubling /\ i \in Nat /\ i <= n
    <3>1. i \in Int /\ 1 <= i /\ i <= n
      BY <1>1, InInterval
    <3>2. i <= top
      BY <1>1, <1>3, <3>1
    <3>3. i \in DOMAIN Doubling
      BY <1>3, <3>1, <3>2, DoublingIndex
    <3>4. QED
      BY <3>1, <3>3
  <2>2. r[i] = Doubling[i] /\ Doubling[i] < max /\ Doubling[i] \in Nat /\ Doubling[i] > 0
    BY <1>1, <1>5, <2>1, DoublingIs
  <2>3. CASE i = n
    <3>1. r[i + 1] = max
      BY <1>5, <2>3
    <3>2. max <= 2 * Doubling[i]
      <4>1. CASE n = 15
        <5>1. Doubling[i] = 16384
          BY <2>3, <4>1, DoublingIs
        <5>2. QED
          BY <5>1
      <4>2. CASE n < 15
        <5>1. i < 15 /\ i + 1 \in DOMAIN Doubling /\ ~(i + 1 <= n)
          <6>1. i < 15 /\ i + 1 \in Int /\ 1 <= i + 1 /\ ~(i + 1 <= n)
            BY <1>1, <2>1, <2>3, <4>2
          <6>2. i + 1 <= top
            BY <1>1, <1>3, <2>1, <2>3, <4>2
          <6>3. i + 1 \in DOMAIN Doubling
            BY <1>3, <6>1, <6>2, DoublingIndex
          <6>4. QED
            BY <6>1, <6>3
        <5>2. Doubling[i + 1] = 2 * Doubling[i]
          BY <2>1, <5>1, DoublingDoubles
        <5>3. ~(Doubling[i + 1] < max)
          BY <1>1, <5>1
        <5>4. QED
          BY <2>2, <5>2, <5>3
      <4>3. QED BY <1>1, <4>1, <4>2
    <3>3. QED
      BY <2>2, <3>1, <3>2
  <2>4. CASE i # n
    <3>1. i < 15 /\ i + 1 \in 1 .. n
      BY <1>1, <2>1, <2>4
    <3>2. Doubling[i + 1] = 2 * Doubling[i]
      BY <2>1, <3>1, DoublingDoubles
    <3>3. r[i + 1] = 2 * Doubling[i]
      BY <1>5, <3>1, <3>2
    <3>4. QED
      BY <2>2, <3>3
  <2>5. QED BY <2>3, <2>4
<1>8. /\ r \in Seq(Nat) /\ Len(r) >= 1 /\ Len(r) <= 16 /\ r[Len(r)] = max
      /\ Len(r) - 1 = n
  BY <1>1, <1>5
<1>9. QED
  BY <1>6, <1>7, <1>8 DEF r

LEMMA InitSweep == SweepInit => SweepInv
BY ResilienceAssumption DEF SweepInit, SweepInv, RampSound

LEMMA PlanSweep == SweepInv /\ Plan => SweepInv'
<1> SUFFICES ASSUME SweepInv, Plan PROVE SweepInv'
  OBVIOUS
<1> DEFINE share == duration \div Len(levels')
<1>1. /\ step = "start" /\ step' = "sweep"
      /\ levels' = Ramp(MaxConc(request))
      /\ phaseMs' = IF share < MinPhase THEN MinPhase ELSE share
      /\ UNCHANGED <<request, duration, baseline, knee, rows, verdict>>
  BY DEF Plan
<1>2. /\ request \in Nat /\ duration \in Nat /\ rows = << >> /\ knee = -1
  BY <1>1 DEF SweepInv
<1>3. /\ levels' \in Seq(Nat) /\ Len(levels') >= 1 /\ Len(levels') <= 16
      /\ levels'[1] = 1 /\ levels'[Len(levels')] = MaxConc(request)
      /\ \A i \in 1 .. Len(levels') - 1 :
           levels'[i] < levels'[i + 1] /\ levels'[i + 1] <= 2 * levels'[i]
  <2>1. MaxConc(request) \in Nat /\ MaxConc(request) >= 1 /\ MaxConc(request) <= 32768
    BY <1>2, MaxConcBounds
  <2> DEFINE m == MaxConc(request)
             r == Ramp(m)
  <2> HIDE DEF share, m
  <2>2. /\ r \in Seq(Nat) /\ Len(r) >= 1 /\ Len(r) <= 16
        /\ r[1] = 1 /\ r[Len(r)] = m
        /\ \A i \in 1 .. Len(r) - 1 : r[i] < r[i + 1] /\ r[i + 1] <= 2 * r[i]
    <3>1. m \in Nat /\ m >= 1 /\ m <= 32768
      BY <2>1 DEF m
    <3>2. QED
      BY <3>1, RampIs
  <2>3. r = levels'
    BY <1>1 DEF m
  <2>4. m = MaxConc(request)
    BY DEF m
  <2> HIDE DEF r
  <2>5. QED
    BY <2>2, <2>3, <2>4
<1>4. phaseMs' >= MinPhase
  <2>1. share \in Nat /\ MinPhase \in Nat
    <3>1. PICK n \in Nat \ {0} : n = Len(levels')
      BY <1>3
    <3>2. duration \div n \in Nat
      BY <1>2
    <3>3. QED
      BY <3>1, <3>2, ResilienceAssumption
  <2> HIDE DEF share
  <2>2. QED
    BY <1>1, <2>1
<1>5. MaxConc(request) <= MaxConcurrency
  BY <1>2, MaxConcBounds
<1> HIDE DEF share
<1>6. RampSound'
  <2>1. Len(levels') \in 1 .. 16
    <3>1. PICK n \in Nat : n = Len(levels')
      BY <1>3
    <3>2. n \in Int /\ 1 <= n /\ n <= 16
      BY <1>3, <3>1
    <3>3. n \in 1 .. 16
      BY <3>2, InInterval
    <3>4. QED
      BY <3>1, <3>3
  <2>2. QED
    BY <1>1, <1>3, <1>4, <1>5, <2>1 DEF RampSound, MaxConc
<1>7. QED
  BY <1>1, <1>2, <1>3, <1>6 DEF SweepInv, Worse

LEMMA QuietSweep == SweepInv /\ (NextLevel \/ PhaseFails \/ StopSweep \/ UNCHANGED sweepVars) => SweepInv'
<1> SUFFICES ASSUME SweepInv, NextLevel \/ PhaseFails \/ StopSweep \/ UNCHANGED sweepVars
             PROVE  SweepInv'
  OBVIOUS
<1>1. /\ UNCHANGED <<request, duration, levels, phaseMs, baseline, knee, rows, verdict>>
      /\ \/ step' = step
         \/ step = "sweep" /\ step' = "phase" /\ Len(rows) < Len(levels)
         \/ step = "sweep" /\ step' = "verdict"
         \/ step = "phase" /\ step' = "error"
  BY DEF NextLevel, PhaseFails, StopSweep, sweepVars
<1>2. RampSound'
  BY <1>1 DEF SweepInv, RampSound, MaxConc
<1>3. QED
  BY <1>1, <1>2 DEF SweepInv, Worse, MaxConc

(* A row is added; the knee is decided by the first bad one. *)
LEMMA PhaseSweep ==
  ASSUME SweepInv, NEW r \in Outcomes, Phase(r)
  PROVE  SweepInv'
<1>0. PICK n \in Nat : n = Len(rows) + 1
  BY DEF SweepInv
<1>1. /\ step = "phase" /\ step' = "sweep" /\ rows' = Append(rows, r)
      /\ baseline' = IF rows = << >> THEN r ELSE baseline
      /\ knee' = IF Degraded(r, baseline') /\ knee < 0 THEN levels[Len(rows')] ELSE knee
      /\ UNCHANGED <<request, duration, levels, phaseMs, verdict>>
  BY DEF Phase
<1>2. /\ request \in Nat /\ duration \in Nat /\ levels \in Seq(Nat) /\ rows \in Seq(Outcomes)
      /\ Len(rows) < Len(levels)
  BY <1>1 DEF SweepInv
<1>3. /\ rows' \in Seq(Outcomes) /\ Len(rows') = n /\ n \in 1 .. Len(levels) /\ n \in Nat
      /\ rows'[n] = r /\ \A i \in 1 .. n - 1 : rows'[i] = rows[i]
      /\ DOMAIN rows' = 1 .. n /\ DOMAIN rows = 1 .. n - 1
      /\ rows' # << >>
  BY <1>0, <1>1, <1>2
<1>4. baseline' = rows'[1]
  <2>1. CASE rows = << >>
    BY <1>1, <1>3, <2>1
  <2>2. CASE rows # << >>
    <3>0. baseline = rows[1]
      BY <2>2 DEF SweepInv
    <3>1. baseline' = rows[1] /\ 1 \in 1 .. n - 1
      BY <1>0, <1>1, <1>2, <2>2, <3>0
    <3>2. QED
      BY <1>3, <3>1
  <2>3. QED BY <2>1, <2>2
<1>5. /\ \A i \in 1 .. n - 1 : Worse(i)' <=> Worse(i)
      /\ Worse(n)' <=> Degraded(r, baseline')
  <2>1. ASSUME NEW i \in 1 .. n - 1 PROVE Worse(i)' <=> Worse(i)
    <3>1. rows'[i] = rows[i] /\ rows'[1] = rows[1]
      BY <1>3
    <3>2. QED
      BY <3>1 DEF Worse, Degraded
  <2>2. Worse(n)' <=> Degraded(rows'[n], rows'[1])
    BY DEF Worse, Degraded
  <2>3. QED
    BY <1>3, <1>4, <2>1, <2>2
<1>6. knee' = IF Worse(n)' /\ knee < 0 THEN levels[n] ELSE knee
  BY <1>1, <1>3, <1>5
<1>7. levels[n] \in Nat
  BY <1>2, <1>3
<1>8. \/ knee = -1 /\ \A i \in 1 .. n - 1 : ~Worse(i)
      \/ \E i \in 1 .. n - 1 : /\ Worse(i) /\ knee = levels[i]
                               /\ \A j \in 1 .. i - 1 : ~Worse(j)
  BY <1>3 DEF SweepInv
<1>9. \/ knee' = -1 /\ \A i \in 1 .. n : ~Worse(i)'
      \/ \E i \in 1 .. n : /\ Worse(i)' /\ knee' = levels'[i]
                           /\ \A j \in 1 .. i - 1 : ~Worse(j)'
  <2>1. CASE knee = -1 /\ \A i \in 1 .. n - 1 : ~Worse(i)
    <3>1. \A i \in 1 .. n - 1 : ~Worse(i)'
      BY <1>5, <2>1
    <3>2. CASE Worse(n)'
      <4>1. knee' = levels'[n]
        BY <1>1, <1>6, <2>1, <3>2
      <4>2. n \in 1 .. n
        BY <1>3
      <4>3. QED
        BY <3>1, <3>2, <4>1, <4>2
    <3>3. CASE ~Worse(n)'
      <4>1. \A i \in 1 .. n : i = n \/ i \in 1 .. n - 1
        BY <1>3
      <4>2. QED
        BY <1>6, <2>1, <3>1, <3>3, <4>1
    <3>4. QED BY <3>2, <3>3
  <2>2. CASE \E i \in 1 .. n - 1 : /\ Worse(i) /\ knee = levels[i]
                                   /\ \A j \in 1 .. i - 1 : ~Worse(j)
    <3>1. PICK i \in 1 .. n - 1 : /\ Worse(i) /\ knee = levels[i]
                                  /\ \A j \in 1 .. i - 1 : ~Worse(j)
      BY <2>2
    <3>2. i \in 1 .. n /\ levels[i] \in Nat /\ \A j \in 1 .. i - 1 : j \in 1 .. n - 1
      BY <1>2, <1>3
    <3>3. knee' = levels'[i]
      BY <1>1, <1>6, <3>1, <3>2
    <3>4. Worse(i)' /\ \A j \in 1 .. i - 1 : ~Worse(j)'
      BY <1>5, <3>1, <3>2
    <3>5. QED
      BY <3>2, <3>3, <3>4
  <2>3. QED BY <1>8, <2>1, <2>2
<1>10. RampSound'
  BY <1>1 DEF SweepInv, RampSound, MaxConc
<1>11. \/ knee' = -1 /\ \A i \in DOMAIN rows' : ~Worse(i)'
       \/ \E i \in DOMAIN rows' : /\ Worse(i)' /\ knee' = levels'[i]
                                  /\ \A j \in 1 .. i - 1 : ~Worse(j)'
  BY <1>3, <1>9
<1>12. QED
  BY <1>1, <1>2, <1>3, <1>4, <1>10, <1>11 DEF SweepInv

LEMMA ConcludeSweep == SweepInv /\ Conclude => SweepInv'
<1> SUFFICES ASSUME SweepInv, Conclude PROVE SweepInv'
  OBVIOUS
<1>1. /\ step = "verdict" /\ step' = "done"
      /\ verdict' = IF knee >= 0 THEN <<"degrades", knee>> ELSE <<"steady", MaxConc(request)>>
      /\ UNCHANGED <<request, duration, levels, phaseMs, baseline, knee, rows>>
  BY DEF Conclude
<1>2. RampSound'
  BY <1>1 DEF SweepInv, RampSound, MaxConc
<1>3. QED
  BY <1>1, <1>2 DEF SweepInv, Worse, MaxConc

LEMMA SweepInvariant == SweepSpec => []SweepInv
<1>1. SweepInv /\ [SweepNext]_sweepVars => SweepInv'
  BY PlanSweep, QuietSweep, PhaseSweep, ConcludeSweep DEF SweepNext, Sweep, Finished
<1>2. QED
  BY InitSweep, <1>1, PTL DEF SweepSpec

(* The ramp of every sweep starts at one connection, doubles, fits its array
   and ends with the maximum asked for, for every cap it can hold. *)
THEOREM RampIsSound == SweepSpec => []RampSound
<1>1. SweepInv => RampSound
  BY DEF SweepInv
<1>2. QED
  BY SweepInvariant, <1>1, PTL

(* A sweep reports degradation exactly if it measured it, and the first level
   that was worse than the baseline, whenever the signal ends it. *)
THEOREM VerdictIsSound == SweepSpec => []VerdictSound
<1>1. SweepInv => VerdictSound
  <2> SUFFICES ASSUME SweepInv, step = "done" PROVE VerdictSound
    BY DEF VerdictSound
  <2> DEFINE worse == {i \in DOMAIN rows : Degraded(rows[i], rows[1])}
  <2>1. verdict = IF knee >= 0 THEN <<"degrades", knee>> ELSE <<"steady", MaxConc(request)>>
    BY DEF SweepInv
  <2>2. CASE knee = -1 /\ \A i \in DOMAIN rows : ~Worse(i)
    <3>1. worse = {} /\ verdict[1] # "degrades"
      BY <2>1, <2>2 DEF Worse
    <3>2. QED
      BY <3>1 DEF VerdictSound
  <2>3. CASE \E i \in DOMAIN rows : /\ Worse(i) /\ knee = levels[i]
                                    /\ \A j \in 1 .. i - 1 : ~Worse(j)
    <3>1. PICK i \in DOMAIN rows : /\ Worse(i) /\ knee = levels[i]
                                   /\ \A j \in 1 .. i - 1 : ~Worse(j)
      BY <2>3
    <3>2. worse \subseteq Nat /\ worse # {} /\ i \in worse /\ \A j \in worse : i <= j
      <4>1. Len(rows) \in Nat /\ DOMAIN rows = 1 .. Len(rows)
        BY DEF SweepInv
      <4>2. i \in Nat /\ worse \subseteq DOMAIN rows /\ worse \subseteq Nat /\ i >= 1
        BY <4>1
      <4>3. i \in worse
        BY <3>1 DEF Worse
      <4>4. ASSUME NEW j \in worse PROVE i <= j
        <5>1. Worse(j) /\ j \in Nat /\ j >= 1
          BY <4>1, <4>2 DEF Worse
        <5>2. j \notin 1 .. i - 1
          BY <3>1, <5>1
        <5>3. QED
          BY <4>2, <5>1, <5>2
      <4>5. QED
        BY <4>2, <4>3, <4>4
    <3>3. (CHOOSE k \in worse : \A j \in worse : k <= j) = i
      <4> HIDE DEF worse
      <4>1. ASSUME NEW k \in worse, \A j \in worse : k <= j PROVE k = i
        <5>1. k \in Nat /\ i \in Nat /\ k <= i /\ i <= k
          BY <3>2, <4>1
        <5>2. QED
          BY <5>1
      <4>2. QED
        BY <3>2, <4>1
    <3>4. knee >= 0
      BY <3>1 DEF SweepInv
    <3>5. verdict = <<"degrades", levels[CHOOSE k \in worse : \A j \in worse : k <= j]>>
      BY <2>1, <3>1, <3>3, <3>4
    <3>6. QED
      BY <3>2, <3>5 DEF VerdictSound
  <2>4. QED
    BY <2>2, <2>3 DEF SweepInv
<1>2. QED
  BY SweepInvariant, <1>1, PTL

-----------------------------------------------------------------------------
(* Folds from the left.  Startup has three: over the command line, over the *)
(* lines of the file and over the addresses of the interfaces.  The library *)
(* defines them by a recursion over sets of positions; here they are shown  *)
(* to go from one position to the next, whatever the step.                  *)

StepOf(kind, r, x) ==
  IF kind[1] = "text" THEN ReadText(r, x)
  ELSE IF kind[1] = "line" THEN ReadLine(r, x)
  ELSE IF x.name = kind[2] THEN Chosen(r, x) ELSE r

Iter(g, kind, b, s, S) ==
  [t \in SUBSET S |-> IF t = {} THEN b ELSE StepOf(kind, g[t \ {Max(t)}], s[Max(t)])]
Fold(kind, b, s, S) == (CHOOSE g : g = Iter(g, kind, b, s, S))[S]

LEMMA MaxIn ==
  ASSUME NEW S \in SUBSET Nat, IsFiniteSet(S)
  PROVE  \A t \in SUBSET S : t # {} => Max(t) \in t /\ \A x \in t : x <= Max(t)
<1> SUFFICES ASSUME NEW t \in SUBSET S, t # {}
             PROVE  Max(t) \in t /\ \A x \in t : x <= Max(t)
  OBVIOUS
<1>1. \E m \in t : \A x \in t : m >= x
  BY Extremes
<1>2. Max(t) \in t /\ \A x \in t : Max(t) >= x
  BY <1>1 DEF Max
<1>3. QED
  BY <1>2

LEMMA IterUnique ==
  ASSUME NEW kind, NEW b, NEW s, NEW S \in SUBSET Nat, IsFiniteSet(S),
         NEW g, g = Iter(g, kind, b, s, S), NEW h, h = Iter(h, kind, b, s, S)
  PROVE  \A t \in SUBSET S : g[t] = h[t]
<1> DEFINE F == {t \in SUBSET S : g[t] = h[t]}
<1>1. ASSUME NEW T \in SUBSET S, \A U \in SUBSET T : U # T => U \in F PROVE T \in F
  <2>1. g[T] = (IF T = {} THEN b ELSE StepOf(kind, g[T \ {Max(T)}], s[Max(T)]))
    BY DEF Iter
  <2>2. h[T] = (IF T = {} THEN b ELSE StepOf(kind, h[T \ {Max(T)}], s[Max(T)]))
    BY DEF Iter
  <2>3. CASE T = {}
    BY <2>1, <2>2, <2>3
  <2>4. CASE T # {}
    <3>1. T \ {Max(T)} \in SUBSET T /\ T \ {Max(T)} # T
      BY <2>4, MaxIn
    <3>2. g[T \ {Max(T)}] = h[T \ {Max(T)}]
      BY <1>1, <3>1
    <3>3. QED
      BY <2>1, <2>2, <2>4, <3>2
  <2>5. QED BY <2>3, <2>4
<1>2. SUBSET S \subseteq F
  <2> HIDE DEF F
  <2> QED BY <1>1, SubsetInduction
<1>3. QED
  BY <1>2

FoldStep(kind, b, s, S) ==
  Fold(kind, b, s, S) =
    IF S = {} THEN b ELSE StepOf(kind, Fold(kind, b, s, S \ {Max(S)}), s[Max(S)])

(* A function that satisfies the recursion exists on every set of positions. *)
LEMMA FoldRecursion ==
  ASSUME NEW kind, NEW b, NEW s, NEW S \in SUBSET Nat, IsFiniteSet(S)
  PROVE  \A t \in SUBSET S : FoldStep(kind, b, s, t)
<1> DEFINE F == {t \in SUBSET S : FoldStep(kind, b, s, t)}
<1>1. ASSUME NEW T \in SUBSET S, \A U \in SUBSET T : U # T => U \in F PROVE T \in F
  <2> DEFINE value == IF T = {} THEN b ELSE StepOf(kind, Fold(kind, b, s, T \ {Max(T)}), s[Max(T)])
             c == [t \in SUBSET T |-> IF t = T THEN value ELSE Fold(kind, b, s, t)]
             g == CHOOSE f : f = Iter(f, kind, b, s, T)
  <2>1. \A U \in SUBSET T : U # T => FoldStep(kind, b, s, U)
    BY <1>1
  <2>2. ASSUME NEW t \in SUBSET T
        PROVE  c[t] = IF t = {} THEN b ELSE StepOf(kind, c[t \ {Max(t)}], s[Max(t)])
    <3>1. CASE t = {}
      <4>1. T # {} => Fold(kind, b, s, {}) = b
        BY <2>1 DEF FoldStep
      <4>2. QED
        BY <3>1, <4>1
    <3>2. CASE t # {}
      <4>1. t \ {Max(t)} \in SUBSET T /\ t \ {Max(t)} # T
        BY <3>2, MaxIn
      <4>2. c[t \ {Max(t)}] = Fold(kind, b, s, t \ {Max(t)})
        BY <4>1
      <4>3. CASE t = T
        BY <3>2, <4>2, <4>3
      <4>4. CASE t # T
        <5>1. Fold(kind, b, s, t) = StepOf(kind, Fold(kind, b, s, t \ {Max(t)}), s[Max(t)])
          BY <2>1, <3>2, <4>4 DEF FoldStep
        <5>2. c[t] = Fold(kind, b, s, t)
          BY <4>4
        <5>3. QED
          BY <3>2, <4>2, <5>1, <5>2
      <4>5. QED BY <4>3, <4>4
    <3>3. QED BY <3>1, <3>2
  <2>3. c = Iter(c, kind, b, s, T)
    <3>1. c = [t \in SUBSET T |-> c[t]]
      OBVIOUS
    <3> HIDE DEF c
    <3>2. QED
      BY <2>2, <3>1 DEF Iter
  <2>4. g = Iter(g, kind, b, s, T)
    <3> HIDE DEF c
    <3> QED BY <2>3
  <2>5. g[T] = c[T]
    <3>1. T \in SUBSET Nat /\ IsFiniteSet(T) /\ T \in SUBSET T
      BY FS_Subset
    <3> HIDE DEF c, g
    <3>2. QED
      BY <2>3, <2>4, <3>1, IterUnique
  <2>6. Fold(kind, b, s, T) = g[T]
    BY DEF Fold
  <2>7. c[T] = value
    OBVIOUS
  <2>8. Fold(kind, b, s, T) = value
    <3> HIDE DEF c, g, value
    <3> QED BY <2>5, <2>6, <2>7
  <2>9. QED
    BY <2>8 DEF FoldStep
<1>2. SUBSET S \subseteq F
  <2> HIDE DEF F
  <2> QED BY <1>1, SubsetInduction
<1>3. QED
  BY <1>2

LEMMA Positions ==
  ASSUME NEW n \in Nat
  PROVE  (1 .. n) \in SUBSET Nat /\ IsFiniteSet(1 .. n)
BY FS_Interval

LEMMA FoldExists ==
  ASSUME NEW kind, NEW b, NEW s, NEW S \in SUBSET Nat, IsFiniteSet(S)
  PROVE  \E c : c = Iter(c, kind, b, s, S) /\ c[S] = Fold(kind, b, s, S)
<1> DEFINE c == [t \in SUBSET S |-> Fold(kind, b, s, t)]
<1>1. ASSUME NEW t \in SUBSET S
      PROVE  c[t] = IF t = {} THEN b ELSE StepOf(kind, c[t \ {Max(t)}], s[Max(t)])
  <2>1. FoldStep(kind, b, s, t)
    BY FoldRecursion
  <2>2. t \ {Max(t)} \in SUBSET S
    OBVIOUS
  <2>3. QED
    BY <2>1, <2>2 DEF FoldStep
<1>2. c = [t \in SUBSET S |-> c[t]] /\ c[S] = Fold(kind, b, s, S)
  OBVIOUS
<1> HIDE DEF c
<1>3. c = Iter(c, kind, b, s, S)
  BY <1>1, <1>2 DEF Iter
<1>4. QED
  BY <1>2, <1>3

LEMMA TextFold ==
  ASSUME NEW b, NEW s, DOMAIN s \in SUBSET Nat, IsFiniteSet(DOMAIN s)
  PROVE  FoldLeft(ReadText, b, s) = Fold(<<"text", 0>>, b, s, DOMAIN s)
<1> DEFINE kind == <<"text", 0>>
           TextMap(g) == [t \in SUBSET (DOMAIN s) |->
                          IF t = {} THEN b ELSE ReadText(g[t \ {Max(t)}], s[Max(t)])]
           it == CHOOSE g : g = TextMap(g)
<1>1. FoldLeft(ReadText, b, s) = it[DOMAIN s]
  BY DEF FoldLeft, MapThenFoldSet
<1>2. \A g : TextMap(g) = Iter(g, kind, b, s, DOMAIN s)
  BY DEF Iter, StepOf
<1> HIDE DEF kind, TextMap
<1>3. PICK c : c = Iter(c, kind, b, s, DOMAIN s) /\ c[DOMAIN s] = Fold(kind, b, s, DOMAIN s)
  BY FoldExists
<1>4. it = TextMap(it)
  BY <1>2, <1>3
<1>5. it = Iter(it, kind, b, s, DOMAIN s)
  BY <1>2, <1>4
<1> HIDE DEF it
<1>6. it[DOMAIN s] = c[DOMAIN s]
  <2>1. DOMAIN s \in SUBSET DOMAIN s
    OBVIOUS
  <2>2. QED
    BY <1>3, <1>5, <2>1, IterUnique
<1>7. QED
  BY <1>1, <1>3, <1>6 DEF kind

LEMMA LineFold ==
  ASSUME NEW s, DOMAIN s \in SUBSET Nat, IsFiniteSet(DOMAIN s)
  PROVE  Config_Load(s) = Fold(<<"line", 0>>, InitDefaults, s, DOMAIN s)
<1> DEFINE kind == <<"line", 0>>
           b == InitDefaults
           LineMap(g) == [t \in SUBSET (DOMAIN s) |->
                          IF t = {} THEN b ELSE ReadLine(g[t \ {Max(t)}], s[Max(t)])]
           it == CHOOSE g : g = LineMap(g)
<1>1. Config_Load(s) = it[DOMAIN s]
  BY DEF Config_Load, FoldLeft, MapThenFoldSet
<1> HIDE DEF b
<1>2. \A g : LineMap(g) = Iter(g, kind, b, s, DOMAIN s)
  BY DEF Iter, StepOf
<1> HIDE DEF kind, LineMap
<1>3. PICK c : c = Iter(c, kind, b, s, DOMAIN s) /\ c[DOMAIN s] = Fold(kind, b, s, DOMAIN s)
  BY FoldExists
<1>4. it = LineMap(it)
  BY <1>2, <1>3
<1>5. it = Iter(it, kind, b, s, DOMAIN s)
  BY <1>2, <1>4
<1> HIDE DEF it
<1>6. it[DOMAIN s] = c[DOMAIN s]
  <2>1. DOMAIN s \in SUBSET DOMAIN s
    OBVIOUS
  <2>2. QED
    BY <1>3, <1>5, <2>1, IterUnique
<1>7. QED
  BY <1>1, <1>3, <1>6 DEF kind, b

LEMMA AddressFold ==
  ASSUME NEW name, NEW s, DOMAIN s \in SUBSET Nat, IsFiniteSet(DOMAIN s)
  PROVE  SourceOf(name, s) = Fold(<<"address", name>>, NoSource, s, DOMAIN s)
<1> DEFINE kind == <<"address", name>>
           b == NoSource
           Step(r, a) == IF a.name = name THEN Chosen(r, a) ELSE r
           Addrs(g) == [t \in SUBSET (DOMAIN s) |->
                          IF t = {} THEN b ELSE Step(g[t \ {Max(t)}], s[Max(t)])]
           it == CHOOSE g : g = Addrs(g)
<1>1. SourceOf(name, s) = it[DOMAIN s]
  BY DEF SourceOf, FoldLeft, MapThenFoldSet
<1> HIDE DEF b
<1>2. \A g : Addrs(g) = Iter(g, kind, b, s, DOMAIN s)
  BY DEF Iter, StepOf
<1> HIDE DEF kind, Addrs
<1>3. PICK c : c = Iter(c, kind, b, s, DOMAIN s) /\ c[DOMAIN s] = Fold(kind, b, s, DOMAIN s)
  BY FoldExists
<1>4. it = Addrs(it)
  BY <1>2, <1>3
<1>5. it = Iter(it, kind, b, s, DOMAIN s)
  BY <1>2, <1>4
<1> HIDE DEF it
<1>6. it[DOMAIN s] = c[DOMAIN s]
  <2>1. DOMAIN s \in SUBSET DOMAIN s
    OBVIOUS
  <2>2. QED
    BY <1>3, <1>5, <2>1, IterUnique
<1>7. QED
  BY <1>1, <1>3, <1>6 DEF kind, b

(* So a fold is the last of a sequence of values, one per position. *)
IsRun(g, kind, b, s, n) ==
  /\ g[0] = b /\ g[n] = Fold(kind, b, s, 1 .. n)
  /\ \A k \in 1 .. n : g[k] = StepOf(kind, g[k - 1], s[k])

LEMMA FoldPrefixes ==
  ASSUME NEW kind, NEW b, NEW s, NEW n \in Nat
  PROVE  \E g : IsRun(g, kind, b, s, n)
<1> DEFINE g == [k \in 0 .. n |-> Fold(kind, b, s, 1 .. k)]
<1>0. (1 .. n) \in SUBSET Nat /\ IsFiniteSet(1 .. n)
  BY Positions
<1>1. g[0] = b
  <2>1. 1 .. 0 = {} /\ {} \in SUBSET (1 .. n) /\ 0 \in 0 .. n
    OBVIOUS
  <2>2. FoldStep(kind, b, s, {})
    BY <1>0, <2>1, FoldRecursion
  <2>3. QED
    BY <2>1, <2>2 DEF FoldStep
<1>2. ASSUME NEW k \in 1 .. n PROVE g[k] = StepOf(kind, g[k - 1], s[k])
  <2>1. /\ 1 .. k \in SUBSET (1 .. n) /\ 1 .. k # {} /\ k \in 1 .. k
        /\ (1 .. k) \ {k} = 1 .. k - 1 /\ k \in 0 .. n /\ k - 1 \in 0 .. n
    OBVIOUS
  <2>2. Max(1 .. k) = k
    <3>1. Max(1 .. k) \in 1 .. k /\ k <= Max(1 .. k)
      BY <1>0, <2>1, MaxIn
    <3>2. QED
      BY <3>1
  <2>3. FoldStep(kind, b, s, 1 .. k)
    BY <1>0, <2>1, FoldRecursion
  <2>4. Fold(kind, b, s, 1 .. k) = StepOf(kind, Fold(kind, b, s, 1 .. k - 1), s[k])
    BY <2>1, <2>2, <2>3 DEF FoldStep
  <2>5. QED
    BY <2>1, <2>4
<1>3. n \in 0 .. n /\ g[n] = Fold(kind, b, s, 1 .. n)
  OBVIOUS
<1> HIDE DEF g
<1>4. IsRun(g, kind, b, s, n)
  BY <1>1, <1>2, <1>3 DEF IsRun
<1>5. QED
  BY <1>4

(* Induction along a sequence, for a set of positions. *)
LEMMA UpTo ==
  ASSUME NEW n \in Nat, NEW F, 0 \in F, \A k \in 1 .. n : k - 1 \in F => k \in F
  PROVE  \A k \in 0 .. n : k \in F
<1> DEFINE Bad == {k \in 0 .. n : k \notin F}
<1> SUFFICES ASSUME Bad # {} PROVE FALSE
  OBVIOUS
<1>1. IsFiniteSet(Bad) /\ Bad \in SUBSET Nat
  <2>1. IsFiniteSet(0 .. n)
    BY FS_Interval
  <2>2. Bad \subseteq 0 .. n
    OBVIOUS
  <2>3. QED
    BY <2>1, <2>2, FS_Subset
<1>2. PICK m \in Bad : \A x \in Bad : m <= x
  <2> HIDE DEF Bad
  <2> QED BY <1>1, Extremes
<1>3. m # 0 /\ m \in 1 .. n /\ m - 1 \in 0 .. n /\ m - 1 \notin Bad
  BY <1>2
<1>4. QED
  BY <1>2, <1>3

TextRun(g, b, s, n) ==
  /\ g[0] = b /\ FoldLeft(ReadText, b, s) = g[n]
  /\ \A k \in 1 .. n : g[k] = ReadText(g[k - 1], s[k])

LEMMA ReadsText ==
  ASSUME NEW b, NEW n \in Nat, NEW s, DOMAIN s = 1 .. n
  PROVE  \E g : TextRun(g, b, s, n)
<1> DEFINE kind == <<"text", 0>>
<1>1. FoldLeft(ReadText, b, s) = Fold(kind, b, s, 1 .. n)
  <2>1. DOMAIN s \in SUBSET Nat /\ IsFiniteSet(DOMAIN s)
    BY Positions
  <2>2. FoldLeft(ReadText, b, s) = Fold(kind, b, s, DOMAIN s)
    BY <2>1, TextFold
  <2>3. QED BY <2>2
<1>2. PICK g : IsRun(g, kind, b, s, n)
  <2> HIDE DEF kind
  <2> QED BY FoldPrefixes
<1>3. \A k \in 1 .. n : g[k] = ReadText(g[k - 1], s[k])
  BY <1>2 DEF IsRun, StepOf
<1>4. TextRun(g, b, s, n)
  BY <1>1, <1>2, <1>3 DEF IsRun, TextRun
<1>5. QED
  BY <1>4

LineRun(g, s, n) ==
  /\ g[0] = InitDefaults /\ Config_Load(s) = g[n]
  /\ \A k \in 1 .. n : g[k] = ReadLine(g[k - 1], s[k])

LEMMA ReadsLines ==
  ASSUME NEW n \in Nat, NEW s, DOMAIN s = 1 .. n
  PROVE  \E g : LineRun(g, s, n)
<1> DEFINE kind == <<"line", 0>>
<1>1. Config_Load(s) = Fold(kind, InitDefaults, s, 1 .. n)
  <2>1. DOMAIN s \in SUBSET Nat /\ IsFiniteSet(DOMAIN s)
    BY Positions
  <2>2. Config_Load(s) = Fold(kind, InitDefaults, s, DOMAIN s)
    BY <2>1, LineFold
  <2>3. QED BY <2>2
<1>2. PICK g : IsRun(g, kind, InitDefaults, s, n)
  <2> HIDE DEF kind
  <2> QED BY FoldPrefixes
<1>3. \A k \in 1 .. n : g[k] = ReadLine(g[k - 1], s[k])
  BY <1>2 DEF IsRun, StepOf
<1>4. LineRun(g, s, n)
  BY <1>1, <1>2, <1>3 DEF IsRun, LineRun
<1>5. QED
  BY <1>4

AddressRun(g, name, s, n) ==
  /\ g[0] = NoSource /\ SourceOf(name, s) = g[n]
  /\ \A k \in 1 .. n : g[k] = IF s[k].name = name THEN Chosen(g[k - 1], s[k])
                                  ELSE g[k - 1]

LEMMA ReadsAddresses ==
  ASSUME NEW name, NEW n \in Nat, NEW s, DOMAIN s = 1 .. n
  PROVE  \E g : AddressRun(g, name, s, n)
<1> DEFINE kind == <<"address", name>>
<1>1. SourceOf(name, s) = Fold(kind, NoSource, s, 1 .. n)
  <2>1. DOMAIN s \in SUBSET Nat /\ IsFiniteSet(DOMAIN s)
    BY Positions
  <2>2. SourceOf(name, s) = Fold(kind, NoSource, s, DOMAIN s)
    BY <2>1, AddressFold
  <2>3. QED BY <2>2
<1>2. PICK g : IsRun(g, kind, NoSource, s, n)
  <2> HIDE DEF kind
  <2> QED BY FoldPrefixes
<1>3. \A k \in 1 .. n : g[k] = 
                     IF s[k].name = name THEN Chosen(g[k - 1], s[k]) ELSE g[k - 1]
  BY <1>2 DEF IsRun, StepOf
<1>4. AddressRun(g, name, s, n)
  BY <1>1, <1>2, <1>3 DEF IsRun, AddressRun
<1>5. QED
  BY <1>4

-----------------------------------------------------------------------------
(* The settings: what every command line and file leave in a field.        *)

LEMMA DefaultsFit == SettingsType(InitDefaults)
<1>1. Flags \cup Texts \cup Numbers \cup Lists \subseteq DOMAIN InitDefaults
  BY DEF InitDefaults, Flags, Texts, Numbers, Lists
<1>2. \A f \in Flags : InitDefaults[f] \in BOOLEAN
  <2>1. \A f \in Flags : InitDefaults[f] = TRUE \/ InitDefaults[f] = FALSE
    BY SMT DEF InitDefaults, Flags
  <2>2. QED
    BY <2>1
<1>4. \A f \in Lists : InitDefaults[f] \in Seq(Text)
  <2>1. InitDefaults["hosts"] = <<>> /\ InitDefaults["specs"] = <<>>
    BY SMT DEF InitDefaults
  <2>2. <<>> \in Seq(Text)
    OBVIOUS
  <2>3. QED
    BY <2>1, <2>2, Zenon DEF Lists
<1>5. \A f \in Numbers : InitDefaults[f] \in Int
  BY SMT DEF InitDefaults, Numbers
<1>6. /\ InitDefaults["maxHops"] = 30 /\ InitDefaults["queries"] = 3
      /\ InitDefaults["concurrency"] = 10 /\ InitDefaults["duration"] = 0
  BY SMT DEF InitDefaults
<1>7. QED
  BY SMT, <1>1, <1>2, <1>4, <1>5, <1>6 DEF SettingsType, Fits

LEMMA OverFits ==
  ASSUME NEW s, SettingsType(s), NEW change, \A f \in DOMAIN change : Fits(f, change[f])
  PROVE  SettingsType(Over(change, s))
BY DEF SettingsType, Over

LEMMA SettingFits ==
  ASSUME NEW s, SettingsType(s), NEW f, NEW v, Fits(f, v)
  PROVE  SettingsType(Over(Setting(f, v), s))
<1> DEFINE change == Setting(f, v)
<1>1. \A x \in DOMAIN change : Fits(x, change[x])
  BY DEF Setting
<1> HIDE DEF change
<1>2. SettingsType(Over(change, s))
  BY <1>1, OverFits
<1>3. QED BY <1>2 DEF change

LEMMA TableIs ==
  ASSUME NEW P, NEW k \in DOMAIN Table(P)
  PROVE  \E p \in P : p[1] = k /\ Table(P)[k] = p[2]
<1>1. \E p \in P : p[1] = k
  BY DEF Table
<1> DEFINE q == CHOOSE p \in P : p[1] = k
<1>2. q \in P /\ q[1] = k
  BY <1>1
<1>3. Table(P)[k] = q[2]
  BY DEF Table
<1>4. QED
  BY <1>2, <1>3

(* What a row of NumberOption may be. *)
OptionRow(o) ==
  \/ o.field \in Numbers \ {"maxHops", "queries", "concurrency", "duration"} /\ o.unit \in Int
  \/ o = Numeric("maxHops", <<1, 255>>, 1)
  \/ o = Numeric("queries", <<1, 10>>, 1)
  \/ o = Numeric("concurrency", <<1, 256>>, 1)
  \/ o = Numeric("duration", <<1, 3600>>, 1000)

LEMMA NumberFits ==
  ASSUME NEW opt \in DOMAIN NumberOption, NEW text, NumberIn(text, NumberOption[opt].range)
  PROVE  Fits(NumberOption[opt].field, Number[text] * NumberOption[opt].unit)
<1> DEFINE v == Number[text]
           o == NumberOption[opt]
<1>1. v \in Int /\ o.range[1] <= v /\ v <= o.range[2]
  BY SettingsAssumption DEF NumberIn
<1>2. \/ o.field \in Numbers \ {"maxHops", "queries", "concurrency", "duration"} /\ o.unit \in Int
      \/ o = Numeric("maxHops", <<1, 255>>, 1)
      \/ o = Numeric("queries", <<1, 10>>, 1)
      \/ o = Numeric("concurrency", <<1, 256>>, 1)
      \/ o = Numeric("duration", <<1, 3600>>, 1000)
  <2>1. PICK P : NumberOption = Table(P) /\ \A p \in P : OptionRow(p[2])
    <3> DEFINE P == {
           <<"--timeout",     Numeric("timeout", <<1, 3600000>>, 1)>>,
           <<"--count",       Numeric("count", <<-1, 2147483647>>, 1)>>,
           <<"--deadline",    Numeric("deadline", <<1, 86400000>>, 1)>>,
           <<"--rate",        Numeric("rate", <<0, 3600000>>, 1)>>,
           <<"--tos",         Numeric("tos", <<0, 255>>, 1)>>,
           <<"--dscp",        Numeric("tos", <<0, 63>>, 4)>>,
           <<"--http-status", Numeric("httpStatus", <<100, 599>>, 1)>>,
           <<"--max-hops",    Numeric("maxHops", <<1, 255>>, 1)>>,
           <<"--queries",     Numeric("queries", <<1, 10>>, 1)>>,
           <<"--concurrency", Numeric("concurrency", <<1, 256>>, 1)>>,
           <<"--duration",    Numeric("duration", <<1, 3600>>, 1000)>>}
    <3>1. NumberOption = Table(P)
      BY SMT DEF NumberOption
    <3>2. \A p \in P : OptionRow(p[2])
      BY SMT DEF OptionRow, Numbers, Numeric
    <3>3. QED
      BY <3>1, <3>2, SMT
  <2>2. OptionRow(o)
    BY <2>1, TableIs, SMT
  <2> HIDE DEF o
  <2>3. QED
    BY <2>2, SMT DEF OptionRow, Numeric
<1> HIDE DEF v, o
<1>3. /\ o.field \in Numbers /\ v * o.unit \in Int
      /\ o.field = "maxHops" => 1 <= v * o.unit /\ v * o.unit <= 255
      /\ o.field = "queries" => 1 <= v * o.unit /\ v * o.unit <= 10
      /\ o.field = "concurrency" => 1 <= v * o.unit /\ v * o.unit <= 256
      /\ o.field = "duration" => 1000 <= v * o.unit /\ v * o.unit <= 3600000
  BY <1>1, <1>2, SMT DEF Numeric, Numbers
<1> DEFINE w == v * o.unit
<1>4. w \in Int /\ o.field \in Numbers
  BY <1>3
<1>5. o.field \notin Flags /\ o.field \notin Texts /\ o.field \notin Lists
  BY <1>4, SMT DEF Flags, Texts, Lists, Numbers
<1>6. Fits(o.field, w)
  <2>1. /\ o.field = "maxHops" => 1 <= w /\ w <= 255
        /\ o.field = "queries" => 1 <= w /\ w <= 10
        /\ o.field = "concurrency" => 1 <= w /\ w <= 256
        /\ o.field = "duration" => 1000 <= w /\ w <= 3600000
    BY <1>3, SMT
  <2> HIDE DEF w
  <2>2. QED
    BY <2>1, <1>4, <1>5, SMT DEF Fits
<1>7. QED
  BY <1>6, SMT DEF o, v

LEMMA KeyFits ==
  ASSUME NEW key, NEW value \in Text, KeyAccepts(key, value)
  PROVE  \A f \in DOMAIN KeyEffect(key, value) : Fits(f, KeyEffect(key, value)[f])
<1>1. CASE key \in DOMAIN TextKey
  <2>1. KeyEffect(key, value) = Setting(TextKey[key], value)
    <3>1. key \notin DOMAIN NumberKey /\ key \notin {"color", "json"}
      BY <1>1, SMT DEF TextKey, NumberKey
    <3>2. QED
      BY <1>1, <3>1, SMT DEF KeyEffect
  <2>2. TextKey[key] \in {"portSpec", "protoSpec", "interface"}
    BY <1>1, SMT DEF TextKey
  <2>3. Fits(TextKey[key], value)
    BY <2>2, SMT DEF Fits, Flags, Texts, Lists, Numbers
  <2>4. QED
    BY <2>1, <2>3, SMT DEF Setting
<1>2. CASE key \notin DOMAIN TextKey /\ key \in DOMAIN NumberKey
  <2>1. key \in {"timeout", "count", "rate", "deadline", "tos"}
    BY <1>2, SMT DEF NumberKey
  <2>2. value \in DOMAIN Number
    BY <1>2, <2>1, SMT DEF KeyAccepts, NumberIn, BoolKey
  <2>3. Number[value] \in Int
    BY <2>2, SettingsAssumption
  <2>4. KeyEffect(key, value) = Setting(key, Number[value])
    <3>1. key \notin {"color", "json"}
      BY <2>1, SMT
    <3>2. QED
      BY <1>2, <3>1, SMT DEF KeyEffect
  <2>5. Fits(key, Number[value])
    BY <2>1, <2>3, SMT DEF Fits, Flags, Texts, Lists, Numbers
  <2>6. QED
    BY <2>4, <2>5, SMT DEF Setting
<1>3. CASE key \notin DOMAIN TextKey /\ key \notin DOMAIN NumberKey
  <2>1. key \in BoolKey \cup {"color"} /\ value \in DOMAIN Truth
    BY <1>3, SMT DEF KeyAccepts
  <2>2. Truth[value] \in BOOLEAN
    BY <2>1, SettingsAssumption
  <2>3. ASSUME NEW f \in Flags, NEW v \in BOOLEAN PROVE Fits(f, v)
    BY SMT DEF Fits, Flags, Texts, Lists, Numbers
  <2>4. CASE key = "color"
    <3>1. KeyEffect(key, value) = [useColor |-> Truth[value], forceColor |-> Truth[value]]
      BY <1>3, <2>4, SMT DEF KeyEffect
    <3>2. QED
      BY <2>2, <2>3, <3>1, SMT DEF Flags
  <2>5. CASE key = "json" /\ Truth[value]
    <3>1. KeyEffect(key, value) = [json |-> TRUE, useColor |-> FALSE]
      BY <1>3, <2>5, SMT DEF KeyEffect
    <3>2. TRUE \in BOOLEAN /\ FALSE \in BOOLEAN
      OBVIOUS
    <3>3. \A f \in {"json", "useColor"} : f \in Flags
      BY SMT DEF Flags
    <3>4. Fits("json", TRUE) /\ Fits("useColor", FALSE)
      BY <2>3, <3>2, <3>3
    <3> DEFINE e == [json |-> TRUE, useColor |-> FALSE]
    <3>5. DOMAIN e = {"json", "useColor"} /\ e["json"] = TRUE /\ e["useColor"] = FALSE
      OBVIOUS
    <3>6. KeyEffect(key, value) = e
      BY <3>1
    <3> HIDE DEF e
    <3>7. QED
      BY <3>4, <3>5, <3>6
  <2>6. CASE key # "color" /\ ~(key = "json" /\ Truth[value])
    <3>1. KeyEffect(key, value) = Setting(key, Truth[value])
      BY <1>3, <2>6, SMT DEF KeyEffect
    <3>2. key \in Flags
      BY <2>1, <2>6, SMT DEF BoolKey, Flags
    <3>3. QED
      BY <2>2, <2>3, <3>1, <3>2, SMT DEF Setting
  <2>7. QED BY <2>4, <2>5, <2>6
<1>4. QED BY <1>1, <1>2, <1>3

LEMMA LineFits ==
  ASSUME NEW s, SettingsType(s), NEW line \in Seq(Text), LineOk(line)
  PROVE  SettingsType(ReadLine(s, line))
<1>1. CASE line = <<>>
  BY <1>1 DEF ReadLine
<1>2. CASE line # <<>>
  <2>1. KeyAccepts(line[1], line[2]) /\ line[2] \in Text
    <3>1. Len(line) = 2 /\ KeyAccepts(line[1], line[2])
      BY <1>2 DEF LineOk
    <3>2. QED BY <3>1
  <2> DEFINE change == KeyEffect(line[1], line[2])
  <2>2. \A f \in DOMAIN change : Fits(f, change[f])
    BY <2>1, KeyFits
  <2> HIDE DEF change
  <2>3. SettingsType(Over(change, s))
    BY <2>2, OverFits
  <2>4. QED
    BY <1>2, <2>3 DEF ReadLine, change
<1>3. QED BY <1>1, <1>2

LEMMA ConfigFits ==
  ASSUME NEW lines \in Seq(Seq(Text)), \A l \in ToSet(lines) : LineOk(l)
  PROVE  SettingsType(Config_Load(lines))
<1> DEFINE n == Len(lines)
<1>1. n \in Nat /\ DOMAIN lines = 1 .. n
  OBVIOUS
<1> HIDE DEF n
<1>0. PICK g : LineRun(g, lines, n)
  BY <1>1, ReadsLines
<1>2. /\ g[0] = InitDefaults /\ Config_Load(lines) = g[n]
      /\ \A k \in 1 .. n : g[k] = ReadLine(g[k - 1], lines[k])
  BY <1>0 DEF LineRun
<1> DEFINE F == {k \in 0 .. n : SettingsType(g[k])}
<1>3. 0 \in F
  BY <1>1, <1>2, DefaultsFit
<1>4. ASSUME NEW k \in 1 .. n, k - 1 \in F PROVE k \in F
  <2>1. lines[k] \in Seq(Text) /\ LineOk(lines[k])
    <3>1. k \in DOMAIN lines
      BY <1>1
    <3>2. lines[k] \in ToSet(lines)
      BY <3>1 DEF ToSet
    <3>3. QED
      BY <3>1, <3>2
  <2>2. SettingsType(ReadLine(g[k - 1], lines[k]))
    BY <1>4, <2>1, LineFits
  <2>3. QED
    BY <1>1, <1>2, <2>2
<1>5. n \in F
  <2> HIDE DEF F
  <2>1. \A k \in 0 .. n : k \in F
    BY <1>1, <1>3, <1>4, UpTo
  <2>2. QED BY <1>1, <2>1
<1>6. QED BY <1>2, <1>5

-----------------------------------------------------------------------------
(* The command line: which texts are options, and what they leave.         *)

(* Before and IsRead of Startup, for any command line. *)
Run(a, i) == {j \in 1 .. i - 1 : \A k \in j .. i - 1 : a[k] \in TakesValue}
IsOption(a, i) == Cardinality(Run(a, i)) % 2 = 0
HelpUpTo(a, n) == \E i \in 1 .. n : IsOption(a, i) /\ a[i] \in {"--help", "--version"}

LEMMA RunNext ==
  ASSUME NEW a, NEW i \in Nat \ {0}
  PROVE  /\ Cardinality(Run(a, 1)) = 0 /\ Cardinality(Run(a, i)) \in Nat
         /\ Cardinality(Run(a, i + 1)) =
              IF a[i] \in TakesValue THEN Cardinality(Run(a, i)) + 1 ELSE 0
<1>1. Run(a, 1) = {}
  BY DEF Run
<1>2. IsFiniteSet(Run(a, i))
  <2>1. IsFiniteSet(1 .. i - 1)
    BY FS_Interval
  <2>2. Run(a, i) \subseteq 1 .. i - 1
    BY DEF Run
  <2>3. QED BY <2>1, <2>2, FS_Subset
<1>3. CASE a[i] \in TakesValue
  <2>1. Run(a, i + 1) = Run(a, i) \cup {i}
    BY <1>3 DEF Run
  <2>2. i \notin Run(a, i)
    BY DEF Run
  <2>3. Cardinality(Run(a, i + 1)) = Cardinality(Run(a, i)) + 1
    BY <1>2, <2>1, <2>2, FS_AddElement
  <2>4. QED
    BY <1>1, <1>2, <1>3, <2>3, FS_EmptySet, FS_CardinalityType
<1>4. CASE a[i] \notin TakesValue
  <2>1. Run(a, i + 1) = {}
    BY <1>4 DEF Run
  <2>2. QED
    BY <1>1, <1>2, <1>4, <2>1, FS_EmptySet, FS_CardinalityType
<1>5. QED BY <1>3, <1>4

(* An option with a value is followed by a text that is none; every other
   text is followed by one that is. *)
LEMMA OptionNext ==
  ASSUME NEW a, NEW i \in Nat \ {0}
  PROVE  /\ IsOption(a, 1)
         /\ IsOption(a, i + 1) <=> ~(IsOption(a, i) /\ a[i] \in TakesValue)
<1> DEFINE c == Cardinality(Run(a, i))
           d == Cardinality(Run(a, i + 1))
<1>1. Cardinality(Run(a, 1)) = 0 /\ c \in Nat
  BY RunNext
<1>2. d = IF a[i] \in TakesValue THEN c + 1 ELSE 0
  BY RunNext
<1>3. /\ IsOption(a, 1) <=> Cardinality(Run(a, 1)) % 2 = 0
      /\ IsOption(a, i) <=> c % 2 = 0
      /\ IsOption(a, i + 1) <=> d % 2 = 0
  BY DEF IsOption
<1> HIDE DEF c, d
<1>4. QED
  BY <1>1, <1>2, <1>3

LEMMA TextFits ==
  ASSUME NEW opt \in DOMAIN TextOption, NEW text \in Text
  PROVE  Fits(TextOption[opt], text)
<1>1. TextOption[opt] \in {"portSpec", "protoSpec", "targetsFile", "interface", "httpUrl",
                           "httpMethod"}
  <2> DEFINE P == {
    <<"--port", "portSpec">>, <<"--protocol", "protoSpec">>, <<"--targets", "targetsFile">>,
    <<"--interface", "interface">>, <<"--http", "httpUrl">>, <<"--http-method", "httpMethod">>}
  <2>1. TextOption = Table(P)
    BY SMT DEF TextOption
  <2>2. \A p \in P : p[2] \in {"portSpec", "protoSpec", "targetsFile", "interface", "httpUrl",
                               "httpMethod"}
    BY SMT
  <2> HIDE DEF P
  <2>3. QED
    BY <2>1, <2>2, TableIs, SMT
<1>2. QED
  BY <1>1, SMT DEF Fits, Flags, Texts, Lists, Numbers

LEMMA SwitchFits ==
  ASSUME NEW opt \in DOMAIN Switch
  PROVE  Switch[opt] \subseteq Flags /\ \A f \in DOMAIN Switched(opt) : Fits(f, Switched(opt)[f])
<1> DEFINE P == {
  <<"--concurrent", {"concurrent"}>>, <<"--resolve", {"resolve"}>>, <<"--quiet", {"quiet"}>>,
  <<"--audible", {"audible"}>>,       <<"--csv", {"csv"}>>,         <<"--json-file", {"jsonFile"}>>,
  <<"--json", {"json", "useColor"}>>, <<"--prometheus", {"prometheus", "useColor"}>>,
  <<"--color", {"forceColor"}>>,      <<"--no-color", {"useColor"}>>,
  <<"--monitor", {"monitor"}>>,       <<"--load-test", {"loadTest"}>>,
  <<"--resilience", {"resilience"}>>, <<"--traceroute", {"traceroute"}>>,
  <<"--no-config", {}>>}
<1>1. Switch = Table(P)
  BY SMT DEF Switch
<1>2. \A p \in P : p[2] \subseteq Flags
  BY SMT DEF Flags
<1> HIDE DEF P
<1>3. Switch[opt] \subseteq Flags
  BY <1>1, <1>2, TableIs
<1>4. \A f \in Flags, v \in BOOLEAN : Fits(f, v)
  BY SMT DEF Fits, Flags, Texts, Lists, Numbers
<1>5. ASSUME NEW f \in DOMAIN Switched(opt) PROVE Fits(f, Switched(opt)[f])
  <2>1. f \in Switch[opt] /\ Switched(opt)[f] = (f # "useColor")
    BY DEF Switched
  <2>2. (f # "useColor") \in BOOLEAN
    OBVIOUS
  <2>3. QED
    BY <1>3, <1>4, <2>1, <2>2
<1>6. QED
  BY <1>3, <1>5

LEMMA OptionNames ==
  /\ DOMAIN TextOption = {"--port", "--protocol", "--targets", "--interface", "--http",
                          "--http-method"}
  /\ DOMAIN NumberOption = {"--timeout", "--count", "--deadline", "--rate", "--tos", "--dscp",
                            "--http-status", "--max-hops", "--queries", "--concurrency",
                            "--duration"}
<1>1. DOMAIN TextOption = {"--port", "--protocol", "--targets", "--interface", "--http",
                           "--http-method"}
  BY SMT DEF TextOption, Table
<1>2. DOMAIN NumberOption = {"--timeout", "--count", "--deadline", "--rate", "--tos", "--dscp",
                             "--http-status", "--max-hops", "--queries", "--concurrency",
                             "--duration"}
  BY SMT DEF NumberOption, Table
<1>3. QED BY <1>1, <1>2

Wanted(a, k) == IF k # 0 /\ IsOption(a, k) /\ a[k] \in TakesValue THEN a[k] ELSE Null
ReadInv(r, a, k) ==
  /\ DOMAIN r = {"settings", "wants", "status"}
  /\ SettingsType(r.settings)
  /\ r.status \in {"reading", "help", "error"}
  /\ r.status = "reading" => r.wants = Wanted(a, k)
  /\ r.status = "help" => HelpUpTo(a, k)

LEMMA FirstRead ==
  ASSUME NEW a, NEW s, SettingsType(s)
  PROVE  ReadInv(Reading(s), a, 0)
BY DEF ReadInv, Reading, Wanted

(* The value of an option. *)
LEMMA ValueRead ==
  ASSUME NEW a, NEW k \in Nat \ {0}, NEW r, ReadInv(r, a, k - 1), a[k] \in Text,
         r.status = "reading", r.wants # Null
  PROVE  ReadInv(ReadValue(r, a[k]), a, k)
<1> DEFINE text == a[k]
           opt == r.wants
           set(change) == [r EXCEPT !.wants = Null, !.settings = Over(change, r.settings)]
           fail == [r EXCEPT !.status = "error"]
<1>0. /\ "--config" \notin DOMAIN TextOption \cup DOMAIN NumberOption
      /\ "--target" \notin DOMAIN TextOption \cup DOMAIN NumberOption
      /\ \A o \in DOMAIN TextOption : o \notin DOMAIN NumberOption
  BY OptionNames, SMT
<1>1. k - 1 # 0 /\ IsOption(a, k - 1) /\ a[k - 1] \in TakesValue /\ opt = a[k - 1]
  BY DEF ReadInv, Wanted
<1>2. ~IsOption(a, k)
  <2>1. k - 1 \in Nat \ {0} /\ (k - 1) + 1 = k
    BY <1>1
  <2>2. QED
    BY <1>1, <2>1, OptionNext
<1>3. Wanted(a, k) = Null
  BY <1>2 DEF Wanted
<1>4. ASSUME NEW change, \A f \in DOMAIN change : Fits(f, change[f])
      PROVE  ReadInv(set(change), a, k)
  <2>1. SettingsType(Over(change, r.settings))
    BY <1>4, OverFits DEF ReadInv
  <2> DEFINE o == Over(change, r.settings)
             q == [r EXCEPT !.wants = Null, !.settings = o]
  <2> HIDE DEF o
  <2>2. /\ DOMAIN q = {"settings", "wants", "status"} /\ q.wants = Null
        /\ q.settings = o /\ q.status = "reading"
    BY DEF ReadInv
  <2> HIDE DEF q
  <2>3. ReadInv(q, a, k)
    BY <2>1, <2>2, <1>3 DEF ReadInv, o
  <2>4. QED BY <2>3 DEF q, o
<1>5. ReadInv(fail, a, k)
  <2>1. /\ DOMAIN fail = {"settings", "wants", "status"} /\ fail.status = "error"
        /\ fail.settings = r.settings
    BY DEF ReadInv
  <2> HIDE DEF fail
  <2>2. QED
    BY <2>1 DEF ReadInv
<1>6. CASE opt = "--config"
  <2>1. ReadValue(r, text) = set(<<>>)
    BY <1>0, <1>6, SMT DEF ReadValue
  <2>2. DOMAIN <<>> = {}
    BY SMT
  <2>3. QED
    BY <2>1, <2>2, <1>4
<1>7. CASE opt = "--target"
  <2> DEFINE change == [specs |-> Append(r.settings.specs, text)]
  <2>1. ReadValue(r, text) = IF Len(r.settings.specs) >= MaxSpecs THEN fail ELSE set(change)
    BY <1>0, <1>7, SMT DEF ReadValue
  <2>2. r.settings.specs \in Seq(Text)
    <3>1. "specs" \in DOMAIN r.settings /\ "specs" \in Lists
      BY DEF ReadInv, SettingsType, Lists
    <3>2. Fits("specs", r.settings.specs)
      BY <3>1 DEF ReadInv, SettingsType
    <3>3. QED
      BY <3>1, <3>2, SMT DEF Fits
  <2>3. Append(r.settings.specs, text) \in Seq(Text)
    BY <2>2
  <2>4. DOMAIN change = {"specs"} /\ change["specs"] \in Seq(Text)
    BY <2>3
  <2>5. \A f \in DOMAIN change : Fits(f, change[f])
    <3> HIDE DEF change
    <3>1. Fits("specs", change["specs"])
      BY <2>4, SMT DEF Fits, Flags, Texts, Lists, Numbers
    <3>2. QED
      BY <2>4, <3>1
  <2> HIDE DEF change, fail
  <2>6. QED
    BY <2>1, <2>5, <1>4, <1>5
<1>8. CASE opt \notin {"--config", "--target"} /\ opt \in DOMAIN TextOption
  <2> DEFINE change == Setting(TextOption[opt], text)
  <2>1. ReadValue(r, text) = set(change)
    BY <1>0, <1>8, SMT DEF ReadValue
  <2>2. \A f \in DOMAIN change : Fits(f, change[f])
    BY <1>8, TextFits DEF Setting
  <2> HIDE DEF change
  <2>3. QED
    BY <2>1, <2>2, <1>4
<1>9. CASE opt \notin {"--config", "--target"} /\ opt \notin DOMAIN TextOption
  <2> DEFINE o == NumberOption[opt]
             change == Setting(o.field, Number[text] * o.unit)
  <2>1. opt \in DOMAIN NumberOption
    BY <1>1, <1>9 DEF TakesValue
  <2>2. ReadValue(r, text) = IF NumberIn(text, o.range) THEN set(change) ELSE fail
    BY <1>0, <1>9, <2>1, SMT DEF ReadValue
  <2>3. ASSUME NumberIn(text, o.range) PROVE \A f \in DOMAIN change : Fits(f, change[f])
    <3>1. Fits(o.field, Number[text] * o.unit)
      BY <2>1, <2>3, NumberFits
    <3>2. QED
      BY <3>1 DEF Setting
  <2> HIDE DEF change, fail
  <2>4. QED
    BY <2>2, <2>3, <1>4, <1>5
<1>10. QED
  BY <1>6, <1>7, <1>8, <1>9

(* An option, or a host. *)
LEMMA ArgRead ==
  ASSUME NEW a, NEW k \in Nat \ {0}, NEW r, ReadInv(r, a, k - 1), a[k] \in Text,
         r.status = "reading", r.wants = Null, a[k - 1] \in Text \/ k = 1
  PROVE  ReadInv(ReadArg(r, a[k]), a, k)
<1> DEFINE text == a[k]
           fail == [r EXCEPT !.status = "error"]
           set(change) == [r EXCEPT !.settings = Over(change, r.settings)]
<1>1. IsOption(a, k)
  <2>1. Wanted(a, k - 1) = Null
    BY DEF ReadInv
  <2>2. CASE k = 1
    BY <2>2, OptionNext
  <2>3. CASE k # 1
    <3>1. k - 1 \in Nat \ {0} /\ (k - 1) + 1 = k
      BY <2>3
    <3>2. ~(IsOption(a, k - 1) /\ a[k - 1] \in TakesValue)
      BY <2>1, <2>3, <3>1 DEF Wanted, Text
    <3>3. QED
      BY <3>1, <3>2, OptionNext
  <2>4. QED BY <2>2, <2>3
<1>2. DOMAIN r = {"settings", "wants", "status"} /\ SettingsType(r.settings)
  BY DEF ReadInv
<1>3. CASE text \in {"--help", "--version"}
  <2> DEFINE q == [r EXCEPT !.status = "help"]
  <2>1. /\ DOMAIN q = {"settings", "wants", "status"} /\ q.status = "help"
        /\ q.settings = r.settings
    BY <1>2
  <2>2. HelpUpTo(a, k)
    BY <1>1, <1>3 DEF HelpUpTo
  <2>3. ReadArg(r, text) = q
    BY <1>3 DEF ReadArg
  <2> HIDE DEF q
  <2>4. QED
    BY <1>2, <2>1, <2>2, <2>3 DEF ReadInv
<1>4. CASE text \notin {"--help", "--version"} /\ text \in TakesValue
  <2> DEFINE q == [r EXCEPT !.wants = text]
  <2>1. /\ DOMAIN q = {"settings", "wants", "status"} /\ q.status = "reading"
        /\ q.settings = r.settings /\ q.wants = text
    BY <1>2
  <2>2. Wanted(a, k) = text
    BY <1>1, <1>4 DEF Wanted
  <2>3. ReadArg(r, text) = q
    BY <1>4 DEF ReadArg
  <2> HIDE DEF q
  <2>4. QED
    BY <1>2, <2>1, <2>2, <2>3 DEF ReadInv
<1>5. CASE text \notin {"--help", "--version"} /\ text \notin TakesValue
  <2>1. Wanted(a, k) = Null
    BY <1>5 DEF Wanted
  <2>2. ASSUME NEW change, \A f \in DOMAIN change : Fits(f, change[f])
        PROVE  ReadInv(set(change), a, k)
    <3>1. SettingsType(Over(change, r.settings))
      BY <1>2, <2>2, OverFits
    <3> DEFINE o == Over(change, r.settings)
               q == [r EXCEPT !.settings = o]
    <3> HIDE DEF o
    <3>2. /\ DOMAIN q = {"settings", "wants", "status"} /\ q.wants = Null
          /\ q.settings = o /\ q.status = "reading"
      BY <1>2
    <3> HIDE DEF q
    <3>3. ReadInv(q, a, k)
      BY <2>1, <3>1, <3>2 DEF ReadInv, o
    <3>4. QED BY <3>3 DEF q, o
  <2>3. ReadInv(fail, a, k)
    <3>1. /\ DOMAIN fail = {"settings", "wants", "status"} /\ fail.status = "error"
          /\ fail.settings = r.settings
      BY <1>2
    <3> HIDE DEF fail
    <3>2. QED
      BY <1>2, <3>1 DEF ReadInv
  <2>4. CASE text \in DOMAIN Switch
    <3> DEFINE change == Switched(text)
    <3>1. ReadArg(r, text) = set(change)
      BY <1>5, <2>4 DEF ReadArg
    <3>2. \A f \in DOMAIN change : Fits(f, change[f])
      BY <2>4, SwitchFits
    <3> HIDE DEF change
    <3>3. QED
      BY <2>2, <3>1, <3>2
  <2>5. CASE text \notin DOMAIN Switch
    <3> DEFINE change == [hosts |-> Append(r.settings.hosts, text)]
    <3>1. ReadArg(r, text) = IF text \in Dashed \/ Len(r.settings.hosts) >= MaxHosts
                             THEN fail ELSE set(change)
      BY <1>5, <2>5 DEF ReadArg
    <3>2. r.settings.hosts \in Seq(Text)
      <4>1. "hosts" \in DOMAIN r.settings /\ "hosts" \in Lists
        BY <1>2 DEF SettingsType, Lists
      <4>2. Fits("hosts", r.settings.hosts)
        BY <1>2, <4>1 DEF SettingsType
      <4>3. QED
        BY <4>1, <4>2, SMT DEF Fits
    <3>3. Append(r.settings.hosts, text) \in Seq(Text)
      BY <3>2
    <3>4. DOMAIN change = {"hosts"} /\ change["hosts"] \in Seq(Text)
      BY <3>3
    <3>5. \A f \in DOMAIN change : Fits(f, change[f])
      <4> HIDE DEF change
      <4>1. Fits("hosts", change["hosts"])
        BY <3>4, SMT DEF Fits, Flags, Texts, Lists, Numbers
      <4>2. QED
        BY <3>4, <4>1
    <3> HIDE DEF change, fail
    <3>6. QED
      BY <2>2, <2>3, <3>1, <3>5
  <2>6. QED BY <2>4, <2>5
<1>6. QED
  BY <1>3, <1>4, <1>5

LEMMA TextRead ==
  ASSUME NEW a, NEW n \in Nat, DOMAIN a = 1 .. n, \A i \in 1 .. n : a[i] \in Text,
         NEW k \in 1 .. n, NEW r, ReadInv(r, a, k - 1)
  PROVE  ReadInv(ReadText(r, a[k]), a, k)
<1>1. k \in Nat \ {0} /\ a[k] \in Text /\ (a[k - 1] \in Text \/ k = 1)
  <2>1. k = 1 \/ k - 1 \in 1 .. n
    OBVIOUS
  <2>2. QED BY <2>1
<1>2. CASE r.status # "reading"
  <2>1. HelpUpTo(a, k - 1) => HelpUpTo(a, k)
    BY DEF HelpUpTo
  <2>2. ReadText(r, a[k]) = r
    BY <1>2 DEF ReadText
  <2>3. QED
    BY <1>2, <2>1, <2>2 DEF ReadInv
<1>3. CASE r.status = "reading" /\ r.wants # Null
  <2>1. ReadText(r, a[k]) = ReadValue(r, a[k])
    BY <1>3 DEF ReadText
  <2>2. QED
    BY <1>1, <1>3, <2>1, ValueRead
<1>4. CASE r.status = "reading" /\ r.wants = Null
  <2>1. ReadText(r, a[k]) = ReadArg(r, a[k])
    BY <1>4 DEF ReadText
  <2>2. QED
    BY <1>1, <1>4, <2>1, ArgRead
<1>5. QED BY <1>2, <1>3, <1>4

LEMMA AllRead ==
  ASSUME NEW a \in Seq(Text), NEW s, SettingsType(s)
  PROVE  ReadInv(FoldLeft(ReadText, Reading(s), a), a, Len(a))
<1> DEFINE n == Len(a)
           b == Reading(s)
<1>1. n \in Nat /\ DOMAIN a = 1 .. n /\ \A i \in 1 .. n : a[i] \in Text
  OBVIOUS
<1>2. ReadInv(b, a, 0)
  BY FirstRead
<1> HIDE DEF n, b
<1>0. PICK g : TextRun(g, b, a, n)
  BY <1>1, ReadsText
<1>3. /\ g[0] = b /\ FoldLeft(ReadText, b, a) = g[n]
      /\ \A k \in 1 .. n : g[k] = ReadText(g[k - 1], a[k])
  BY <1>0 DEF TextRun
<1> DEFINE F == {k \in 0 .. n : ReadInv(g[k], a, k)}
<1>4. 0 \in F
  BY <1>1, <1>2, <1>3
<1>5. ASSUME NEW k \in 1 .. n, k - 1 \in F PROVE k \in F
  <2>1. ReadInv(ReadText(g[k - 1], a[k]), a, k)
    BY <1>1, <1>5, TextRead
  <2>2. QED
    BY <1>1, <1>3, <2>1
<1>6. n \in F
  <2> HIDE DEF F
  <2>1. \A k \in 0 .. n : k \in F
    BY <1>1, <1>4, <1>5, UpTo
  <2>2. QED BY <1>1, <2>1
<1>7. QED
  BY <1>3, <1>6 DEF n, b

-----------------------------------------------------------------------------
(* Sequences of sequences, joined.                                         *)

Joined(g, ss, n) == [i \in 1 .. n |-> IF i = 1 THEN ss[i] ELSE g[i - 1] \o ss[i]]

LEMMA JoinExists ==
  ASSUME NEW n \in Nat, NEW ss
  PROVE  \E g : g = Joined(g, ss, n)
<1> DEFINE F == {k \in 0 .. n : \E g : g = Joined(g, ss, k)}
<1>1. 0 \in F
  <2> DEFINE g == [i \in 1 .. 0 |-> 0]
  <2>1. \A h : Joined(h, ss, 0) = g
    BY DEF Joined
  <2>2. g = Joined(g, ss, 0)
    BY <2>1
  <2>3. QED BY <2>2
<1>2. ASSUME NEW k \in 1 .. n, k - 1 \in F PROVE k \in F
  <2>1. PICK g : g = Joined(g, ss, k - 1)
    BY <1>2
  <2> DEFINE h == [i \in 1 .. k |-> IF i < k THEN g[i]
                                    ELSE IF i = 1 THEN ss[i] ELSE g[i - 1] \o ss[i]]
  <2>2. ASSUME NEW i \in 1 .. k PROVE h[i] = IF i = 1 THEN ss[i] ELSE h[i - 1] \o ss[i]
    <3>1. CASE i < k
      <4>1. i \in 1 .. k - 1
        BY <3>1
      <4>2. g[i] = IF i = 1 THEN ss[i] ELSE g[i - 1] \o ss[i]
        BY <2>1, <4>1 DEF Joined
      <4>3. i # 1 => i - 1 \in 1 .. k /\ i - 1 < k
        BY <3>1
      <4>4. QED
        BY <3>1, <4>2, <4>3
    <3>2. CASE i = k
      <4>1. i # 1 => i - 1 \in 1 .. k /\ i - 1 < k
        BY <3>2
      <4>2. QED
        BY <3>2, <4>1
    <3>3. QED BY <3>1, <3>2
  <2>3. h = [i \in 1 .. k |-> h[i]]
    OBVIOUS
  <2> HIDE DEF h
  <2>4. h = Joined(h, ss, k)
    BY <2>2, <2>3 DEF Joined
  <2>5. k \in 0 .. n
    OBVIOUS
  <2>6. QED BY <2>4, <2>5
<1>3. \A k \in 0 .. n : k \in F
  <2> HIDE DEF F
  <2> QED BY <1>1, <1>2, UpTo
<1>4. n \in F
  <2> HIDE DEF F
  <2> QED BY <1>3
<1>5. QED BY <1>4

(* FlattenSeq goes from one sequence to the next. *)
JoinRun(g, ss, n) ==
  /\ FlattenSeq(ss) = g[n]
  /\ \A i \in 1 .. n : g[i] = IF i = 1 THEN ss[i] ELSE g[i - 1] \o ss[i]

LEMMA Joins ==
  ASSUME NEW n \in Nat \ {0}, NEW ss, Len(ss) = n
  PROVE  \E g : JoinRun(g, ss, n)
<1> DEFINE g == CHOOSE f : f = Joined(f, ss, n)
<1>1. FlattenSeq(ss) = g[n]
  BY DEF FlattenSeq, Joined
<1>2. g = Joined(g, ss, n)
  BY JoinExists
<1> HIDE DEF g
<1>3. JoinRun(g, ss, n)
  BY <1>1, <1>2 DEF JoinRun, Joined
<1>4. QED BY <1>3

LEMMA JoinType ==
  ASSUME NEW S, NEW ss \in Seq(Seq(S))
  PROVE  FlattenSeq(ss) \in Seq(S)
<1>1. CASE Len(ss) = 0
  <2>1. FlattenSeq(ss) = ss /\ ss = <<>>
    BY <1>1 DEF FlattenSeq
  <2>2. <<>> \in Seq(S)
    OBVIOUS
  <2>3. QED BY <2>1, <2>2
<1>2. CASE Len(ss) # 0
  <2> DEFINE n == Len(ss)
  <2>1. n \in Nat \ {0} /\ \A i \in 1 .. n : ss[i] \in Seq(S)
    BY <1>2
  <2>2. PICK g : JoinRun(g, ss, n)
    BY <2>1, Joins
  <2> HIDE DEF n
  <2> DEFINE F == {k \in 0 .. n : k # 0 => g[k] \in Seq(S)}
  <2>3. 0 \in F
    BY <2>1
  <2>4. ASSUME NEW k \in 1 .. n, k - 1 \in F PROVE k \in F
    <3>1. g[k] = IF k = 1 THEN ss[k] ELSE g[k - 1] \o ss[k]
      BY <2>2 DEF JoinRun
    <3>2. k # 1 => g[k - 1] \in Seq(S)
      BY <2>1, <2>4
    <3>3. ss[k] \in Seq(S)
      BY <2>1
    <3>4. g[k] \in Seq(S)
      BY <3>1, <3>2, <3>3
    <3>5. QED
      BY <2>1, <3>4
  <2>5. \A k \in 0 .. n : k \in F
    <3> HIDE DEF F
    <3> QED BY <2>1, <2>3, <2>4, UpTo
  <2>6. g[n] \in Seq(S)
    BY <2>1, <2>5
  <2>7. QED
    BY <2>2, <2>6 DEF JoinRun
<1>3. QED BY <1>1, <1>2

-----------------------------------------------------------------------------
(* The arguments of Targets_Build, and the targets that it makes of them.  *)

LEMMA FieldsFit ==
  ASSUME NEW s, SettingsType(s)
  PROVE  s.hosts \in Seq(Text) /\ s.specs \in Seq(Text)
<1>1. {"hosts", "specs"} \subseteq DOMAIN s
  BY SMT DEF SettingsType, Lists
<1>2. Fits("hosts", s.hosts) /\ Fits("specs", s.specs)
  BY <1>1, SMT DEF SettingsType
<1>3. QED
  BY <1>2, SMT DEF Fits, Lists

LEMMA BoundsFit ==
  ASSUME NEW s, SettingsType(s)
  PROVE  /\ s.duration = 0 \/ Within(s.duration, 1000, 3600000)
         /\ Within(s.maxHops, 1, 255) /\ Within(s.queries, 1, 10)
         /\ Within(s.concurrency, 1, 256)
<1>1. {"duration", "maxHops", "queries", "concurrency"} \subseteq DOMAIN s
  BY SMT DEF SettingsType, Numbers
<1>2. /\ Fits("duration", s.duration) /\ Fits("maxHops", s.maxHops)
      /\ Fits("queries", s.queries) /\ Fits("concurrency", s.concurrency)
  BY <1>1, SMT DEF SettingsType
<1>3. QED
  BY <1>2, SMT DEF Fits, Within

LEMMA Empty == ASSUME NEW S PROVE <<>> \in Seq(S)
OBVIOUS

LEMMA One == ASSUME NEW S, NEW x \in S PROVE <<x>> \in Seq(S)
OBVIOUS

LEMMA MakeSeq ==
  ASSUME NEW S, NEW n \in Nat, NEW g, g = [i \in 1 .. n |-> g[i]], \A i \in 1 .. n : g[i] \in S
  PROVE  g \in Seq(S)
OBVIOUS

LEMMA SeqParts ==
  ASSUME NEW S, NEW s \in Seq(S)
  PROVE  Len(s) \in Nat /\ DOMAIN s = 1 .. Len(s) /\ \A i \in 1 .. Len(s) : s[i] \in S
OBVIOUS

ArgsType(a) ==
  /\ a.hosts \in Seq(Text) /\ a.ports \in Seq(Int \X Int)
  /\ a.protos \in Seq(Tokens) /\ a.file \in Seq(FileLine)
  /\ a.specs \in Seq(Line \cup {NoSpec})

LEMMA ArgsFit ==
  ASSUME NEW s, SettingsType(s)
  PROVE  ArgsType(TargetArgs(s))
<1>1. s.hosts \in Seq(Text) /\ s.specs \in Seq(Text)
  BY FieldsFit
<1>3. PortsIn(s.portSpec) \in Seq(Int \X Int)
  <2>1. <<>> \in Seq(Int \X Int) /\ <<<<0, 0>>>> \in Seq(Int \X Int)
    OBVIOUS
  <2>2. QED
    BY <2>1, StartupAssumption DEF PortsIn
<1>4. ProtosIn(s.protoSpec) \in Seq(Tokens)
  <2>1. "bad" \in Tokens /\ Protocols \cup {"bad"} \subseteq Tokens
    BY DEF Tokens
  <2>2. <<>> \in Seq(Tokens) /\ <<"bad">> \in Seq(Tokens)
    BY <2>1, Empty, One
  <2>3. \A t \in DOMAIN ProtoList : ProtoList[t] \in Seq(Tokens)
    <3>1. Seq(Protocols \cup {"bad"}) \subseteq Seq(Tokens)
      BY <2>1
    <3>2. QED
      BY <3>1, StartupAssumption
  <2>4. QED
    BY <2>2, <2>3 DEF ProtosIn
<1>5. [i \in DOMAIN s.specs |-> SpecIn(s.specs[i])] \in Seq(Line \cup {NoSpec})
  <2>1. \A t : SpecIn(t) \in Line \cup {NoSpec}
    BY StartupAssumption DEF SpecIn
  <2>2. Len(s.specs) \in Nat /\ DOMAIN s.specs = 1 .. Len(s.specs)
    BY <1>1
  <2> DEFINE n == Len(s.specs)
             g == [i \in 1 .. n |-> SpecIn(s.specs[i])]
  <2> HIDE DEF n
  <2>3. g = [i \in 1 .. n |-> g[i]] /\ \A i \in 1 .. n : g[i] \in Line \cup {NoSpec}
    BY <2>1
  <2>4. g \in Seq(Line \cup {NoSpec})
    <3> HIDE DEF g
    <3>1. n \in Nat
      BY <2>2 DEF n
    <3>2. QED BY <2>3, <3>1, MakeSeq
  <2>5. QED
    BY <2>2, <2>4 DEF n
<1>6. \A f \in DOMAIN LinesOf : LinesOf[f] \in Seq(FileLine)
  <2> DEFINE L == {l \in FileLine : l.proto # "bad"}
  <2>1. \A f \in DOMAIN LinesOf : LinesOf[f] \in Seq(L)
    BY StartupAssumption
  <2>2. L \subseteq FileLine
    OBVIOUS
  <2> HIDE DEF L
  <2>3. Seq(L) \subseteq Seq(FileLine)
    BY <2>2
  <2>4. QED
    BY <2>1, <2>3
<1>7. (IF s.targetsFile \in DOMAIN LinesOf THEN LinesOf[s.targetsFile] ELSE <<>>) \in Seq(FileLine)
  BY <1>6, Empty
<1>8. QED
  BY <1>1, <1>3, <1>4, <1>5, <1>7 DEF ArgsType, TargetArgs

LEMMA TargetFresh ==
  ASSUME NEW host \in STRING, NEW port \in Int, NEW type \in Tokens
  PROVE  Target(host, port, type) \in Fresh
<1>1. port % PortMod \in Int /\ 0 \in Int /\ "none" \in Tokens
  BY TargetsAssumption DEF Tokens
<1>2. <<>> \in Seq(DOMAIN Origin) /\ FALSE \in BOOLEAN
  BY Empty
<1>3. Target(host, port, type) \in Entry
  BY <1>1, <1>2, Zenon DEF Target, Entry
<1>4. ~Target(host, port, type).ok /\ Target(host, port, type).addrs = <<>>
  BY Zenon DEF Target
<1>5. QED
  BY <1>3, <1>4, Zenon DEF Fresh

LEMMA PortsType ==
  ASSUME NEW ranges \in Seq(Int \X Int)
  PROVE  Ports(ranges) \in Seq(Int)
<1>1. ASSUME NEW r \in Int \X Int PROVE PortRange(r) \in Seq(Int)
  <2> DEFINE m == r[2] - r[1] + 1
             n == IF m \in Nat THEN m ELSE 0
             g == [k \in 1 .. m |-> r[1] + k - 1]
  <2>1. m \in Int /\ r[1] \in Int
    OBVIOUS
  <2>2. 1 .. m = 1 .. n /\ n \in Nat
    <3> HIDE DEF m
    <3> QED BY <2>1
  <2>3. g = [i \in 1 .. m |-> g[i]] /\ \A i \in 1 .. m : g[i] \in Int
    <3> HIDE DEF m
    <3> QED BY <2>1
  <2> HIDE DEF n, m
  <2>4. g \in Seq(Int)
    <3> HIDE DEF g
    <3> QED BY <2>2, <2>3, MakeSeq
  <2>5. QED
    BY <2>4 DEF m, PortRange
<1> DEFINE ss == [i \in DOMAIN ranges |-> PortRange(ranges[i])]
<1>2. ss \in Seq(Seq(Int))
  <2>1. /\ Len(ranges) \in Nat /\ DOMAIN ranges = 1 .. Len(ranges)
        /\ \A i \in 1 .. Len(ranges) : ranges[i] \in Int \X Int
    BY SeqParts
  <2>2. \A i \in 1 .. Len(ranges) : ss[i] \in Seq(Int)
    BY <1>1, <2>1
  <2>3. ss = [i \in 1 .. Len(ranges) |-> ss[i]]
    BY <2>1
  <2> HIDE DEF ss
  <2>4. QED
    BY <2>1, <2>2, <2>3, MakeSeq
<1> HIDE DEF ss
<1>3. FlattenSeq(ss) \in Seq(Int)
  BY <1>2, JoinType
<1>4. QED
  BY <1>3 DEF Ports, ss

Rows(h, protos, ports) == FlattenSeq([i \in DOMAIN protos |-> Row(h, protos[i], ports)])

(* The targets of the list are fresh, and of the hosts that are named. *)
OfHosts(H) == {t \in Fresh : t.host \in H}

LEMMA RowFresh ==
  ASSUME NEW H, NEW h \in Text, h \in H, NEW t \in Tokens, NEW ports \in Seq(Int)
  PROVE  Row(h, t, ports) \in Seq(OfHosts(H))
<1>1. ASSUME NEW p \in Int PROVE Target(h, p, t) \in OfHosts(H)
  <2>1. h \in STRING
    BY DEF Text
  <2>2. Target(h, p, t) \in Fresh
    BY <2>1, TargetFresh
  <2>3. Target(h, p, t).host = h
    BY Zenon DEF Target
  <2>4. QED
    BY <2>2, <2>3, Zenon DEF OfHosts
<1>2. <<Target(h, 0, t)>> \in Seq(OfHosts(H))
  <2>1. 0 \in Int
    OBVIOUS
  <2>2. Target(h, 0, t) \in OfHosts(H)
    BY <1>1, <2>1, Zenon
  <2>3. QED
    BY <2>2, One
<1> DEFINE g == [i \in DOMAIN ports |-> Target(h, ports[i], t)]
           n == Len(ports)
<1>3. n \in Nat /\ DOMAIN ports = 1 .. n /\ \A i \in 1 .. n : ports[i] \in Int
  BY SeqParts
<1>4. \A i \in 1 .. n : g[i] \in OfHosts(H)
  BY <1>1, <1>3
<1>5. g = [i \in 1 .. n |-> g[i]]
  BY <1>3
<1> HIDE DEF g, n
<1>6. g \in Seq(OfHosts(H))
  BY <1>3, <1>4, <1>5, MakeSeq
<1>7. QED
  BY <1>2, <1>6 DEF Row, g

LEMMA RowsFresh ==
  ASSUME NEW H, NEW h \in Text, h \in H, NEW protos \in Seq(Tokens), NEW ports \in Seq(Int)
  PROVE  /\ \A i \in DOMAIN protos : Row(h, protos[i], ports) \in Seq(OfHosts(H))
         /\ Rows(h, protos, ports) \in Seq(OfHosts(H))
<1> DEFINE g == [i \in DOMAIN protos |-> Row(h, protos[i], ports)]
           n == Len(protos)
<1>1. n \in Nat /\ DOMAIN protos = 1 .. n /\ \A i \in 1 .. n : protos[i] \in Tokens
  BY SeqParts
<1>2. \A i \in 1 .. n : g[i] \in Seq(OfHosts(H))
  BY <1>1, RowFresh
<1>3. g = [i \in 1 .. n |-> g[i]]
  BY <1>1
<1>4. \A i \in DOMAIN protos : Row(h, protos[i], ports) \in Seq(OfHosts(H))
  BY <1>1, <1>2
<1> HIDE DEF g, n
<1>5. g \in Seq(Seq(OfHosts(H)))
  BY <1>1, <1>2, <1>3, MakeSeq
<1>6. FlattenSeq(g) \in Seq(OfHosts(H))
  BY <1>5, JoinType
<1>7. QED
  BY <1>4, <1>6 DEF Rows, g

MatrixOf(hosts, protos, ports) ==
  FlattenSeq([h \in DOMAIN hosts |-> Rows(hosts[h], protos, ports)])

LEMMA MatrixFresh ==
  ASSUME NEW hosts \in Seq(Text), NEW protos \in Seq(Tokens), NEW ports \in Seq(Int)
  PROVE  /\ \A h \in DOMAIN hosts : Rows(hosts[h], protos, ports) \in Seq(OfHosts(ToSet(hosts)))
         /\ MatrixOf(hosts, protos, ports) \in Seq(OfHosts(ToSet(hosts)))
         /\ MatrixOf(hosts, protos, ports) \in Seq(Fresh)
<1> DEFINE g == [h \in DOMAIN hosts |-> Rows(hosts[h], protos, ports)]
           n == Len(hosts)
           H == ToSet(hosts)
<1>1. n \in Nat /\ DOMAIN hosts = 1 .. n /\ \A i \in 1 .. n : hosts[i] \in Text
  BY SeqParts
<1>2. \A i \in 1 .. n : hosts[i] \in H
  BY <1>1 DEF ToSet
<1> HIDE DEF H
<1>3. \A i \in 1 .. n : g[i] \in Seq(OfHosts(H))
  BY <1>1, <1>2, RowsFresh
<1>4. g = [i \in 1 .. n |-> g[i]]
  BY <1>1
<1>5. \A h \in DOMAIN hosts : Rows(hosts[h], protos, ports) \in Seq(OfHosts(H))
  BY <1>1, <1>3
<1> HIDE DEF g, n
<1>6. g \in Seq(Seq(OfHosts(H)))
  BY <1>1, <1>3, <1>4, MakeSeq
<1>7. FlattenSeq(g) \in Seq(OfHosts(H))
  BY <1>6, JoinType
<1>8. Seq(OfHosts(H)) \subseteq Seq(Fresh)
  <2>1. OfHosts(H) \subseteq Fresh
    BY DEF OfHosts
  <2>2. QED
    BY <2>1
<1>9. QED
  BY <1>5, <1>7, <1>8 DEF MatrixOf, g, H

LEMMA CompletedFits ==
  ASSUME NEW s, SettingsType(s)
  PROVE  SettingsType(Completed(s))
<1> DEFINE q == [s EXCEPT !.protoSpec = "ICMP"]
<1>1. DOMAIN q = DOMAIN s /\ \A f \in DOMAIN s : f # "protoSpec" => q[f] = s[f]
  OBVIOUS
<1>2. \A v : Fits("protoSpec", v)
  BY SMT DEF Fits, Flags, Lists, Numbers
<1> HIDE DEF q
<1>3. SettingsType(q)
  BY <1>1, <1>2 DEF SettingsType
<1>4. QED
  BY <1>3 DEF Completed, q

LEMMA Processed ==
  ASSUME NEW i \in Inputs,
         NEW r, r = ProcessArguments(i.argv, i.files, i.home)
  PROVE  /\ r.status = "ok" => SettingsType(r.settings) /\ Acceptable(r.settings)
         /\ r.status = "help" => HelpUpTo(i.argv, Len(i.argv))
<1> DEFINE config == SelectConfigPath(i.argv, i.home)
           found == config.path \in DOMAIN i.files
           lines == IF found THEN i.files[config.path] ELSE <<>>
           failed == [status |-> "error", settings |-> InitDefaults]
           q == FoldLeft(ReadText, Reading(Config_Load(lines)), i.argv)
           s == Completed(q.settings)
<1>1. r = IF config.required /\ ~found THEN failed
          ELSE IF \E l \in ToSet(lines) : ~LineOk(l) THEN failed
          ELSE IF q.status = "help" THEN [status |-> "help", settings |-> InitDefaults]
          ELSE IF q.status = "error" \/ q.wants # Null \/ ~Acceptable(s) THEN failed
          ELSE [status |-> "ok", settings |-> s]
  BY DEF ProcessArguments
<1>2. i.argv \in Seq(Text) /\ lines \in Seq(Seq(Text))
  <2>1. i.argv \in Seq(Text) /\ \A path \in DOMAIN i.files : i.files[path] \in Seq(Seq(Text))
    BY StartupAssumption
  <2>2. <<>> \in Seq(Seq(Text))
    BY Empty
  <2> HIDE DEF config
  <2>3. QED BY <2>1, <2>2
<1>3. failed.status = "error"
  OBVIOUS
<1> HIDE DEF config, lines, failed
<1>4. ASSUME r.status # "error"
      PROVE  /\ \A l \in ToSet(lines) : LineOk(l)
             /\ r = IF q.status = "help" THEN [status |-> "help", settings |-> InitDefaults]
                    ELSE [status |-> "ok", settings |-> s]
             /\ q.status # "help" => Acceptable(s)
  <2> HIDE DEF q, s
  <2> QED BY <1>1, <1>3, <1>4
<1>5. ASSUME r.status # "error" PROVE ReadInv(q, i.argv, Len(i.argv))
  <2>1. SettingsType(Config_Load(lines))
    BY <1>2, <1>4, <1>5, ConfigFits
  <2>2. QED
    BY <1>2, <2>1, AllRead
<1>6. ASSUME r.status = "ok" PROVE SettingsType(r.settings) /\ Acceptable(r.settings)
  <2>1. r.settings = s /\ Acceptable(s)
    <3> HIDE DEF q, s
    <3>1. q.status # "help"
      BY <1>4, <1>6
    <3>2. QED
      BY <1>4, <1>6, <3>1
  <2>2. SettingsType(q.settings)
    BY <1>5, <1>6 DEF ReadInv
  <2> HIDE DEF q
  <2>3. SettingsType(s)
    BY <2>2, CompletedFits
  <2>4. QED
    BY <2>1, <2>3
<1>7. ASSUME r.status = "help" PROVE HelpUpTo(i.argv, Len(i.argv))
  <2>1. q.status = "help"
    <3> HIDE DEF q, s
    <3>1. QED BY <1>4, <1>7
  <2>2. ReadInv(q, i.argv, Len(i.argv))
    BY <1>5, <1>7
  <2> HIDE DEF q
  <2>3. QED
    BY <2>1, <2>2 DEF ReadInv
<1>8. QED
  BY <1>6, <1>7

Helped == Given({"--help", "--version"})

LEMMA GivenHelp ==
  ASSUME input \in Inputs, HelpUpTo(input.argv, Len(input.argv))
  PROVE  Helped # {}
<1>1. DOMAIN argv = 1 .. Len(argv)
  BY StartupAssumption DEF argv
<1>2. PICK i \in 1 .. Len(argv) : IsOption(argv, i) /\ argv[i] \in {"--help", "--version"}
  BY DEF HelpUpTo, argv
<1>3. Run(argv, i) = {j \in 1 .. i - 1 : \A k \in j .. i - 1 : argv[k] \in TakesValue}
  BY DEF Run
<1>4. Before(i) % 2 = 0
  BY <1>2, <1>3 DEF IsOption, Before
<1>5. i \in IsRead
  BY <1>1, <1>4 DEF IsRead
<1>6. QED
  BY <1>2, <1>5 DEF Given, Helped

-----------------------------------------------------------------------------
(* The source addresses: what a list of addresses leaves.                  *)

Mine(name, addrs, k) == {addrs[j] : j \in {x \in 1 .. k : addrs[x].name = name}}

SourceUpTo(s, mine) ==
  /\ DOMAIN s = {"v4", "v6"}
  /\ s.v4 # Null => \E a \in mine : a.family = "v4" /\ a.addr = s.v4
  /\ s.v6 # Null => \E a \in mine : a.family = "v6" /\ a.addr = s.v6
  /\ s.v6 = Null => \A a \in mine : a.family # "v6"
  /\ \A a, b \in mine : a.addr = s.v6 /\ a.linkLocal /\ b.family = "v6" => b.linkLocal

LEMMA ChosenKeeps ==
  ASSUME NEW mine, NEW a \in InterfaceAddr, mine \subseteq InterfaceAddr,
         \A b, c \in mine \cup {a} : b.addr = c.addr => b.family = c.family /\ b.linkLocal = c.linkLocal,
         NEW s, SourceUpTo(s, mine)
  PROVE  SourceUpTo(Chosen(s, a), mine \cup {a})
<1>0. a.addr # Null /\ a.family \in {"v4", "v6"}
  BY DEF InterfaceAddr, Text
<1>1. CASE a.family = "v4"
  <2> DEFINE q == [s EXCEPT !["v4"] = a.addr]
  <2>1. DOMAIN q = {"v4", "v6"} /\ q.v4 = a.addr /\ q.v6 = s.v6
    BY DEF SourceUpTo
  <2>2. Chosen(s, a) = q
    BY <1>1 DEF Chosen
  <2> HIDE DEF q
  <2>3. \A b \in mine : b.addr = s.v6 /\ s.v6 # Null => b.family = "v6"
    BY DEF SourceUpTo
  <2>4. a.addr = s.v6 => FALSE
    BY <1>0, <1>1 DEF SourceUpTo
  <2>5. SourceUpTo(q, mine \cup {a})
    BY <1>0, <1>1, <2>1, <2>4 DEF SourceUpTo
  <2>6. QED BY <2>2, <2>5
<1>2. CASE a.family = "v6" /\ a.linkLocal /\ s.v6 # Null
  <2>1. Chosen(s, a) = s
    BY <1>2 DEF Chosen
  <2>2. \A b, c \in mine \cup {a} : b.addr = s.v6 /\ b.linkLocal /\ c.family = "v6" => c.linkLocal
    BY <1>2 DEF SourceUpTo
  <2>3. QED
    BY <1>2, <2>1, <2>2 DEF SourceUpTo
<1>3. CASE a.family = "v6" /\ ~(a.linkLocal /\ s.v6 # Null)
  <2> DEFINE q == [s EXCEPT !["v6"] = a.addr]
  <2>1. DOMAIN q = {"v4", "v6"} /\ q.v6 = a.addr /\ q.v4 = s.v4
    BY DEF SourceUpTo
  <2>2. Chosen(s, a) = q
    BY <1>3 DEF Chosen
  <2> HIDE DEF q
  <2>3. \A b, c \in mine \cup {a} : b.addr = a.addr /\ b.linkLocal /\ c.family = "v6" => c.linkLocal
    BY <1>3 DEF SourceUpTo
  <2>4. SourceUpTo(q, mine \cup {a})
    BY <1>0, <1>3, <2>1, <2>3 DEF SourceUpTo
  <2>5. QED BY <2>2, <2>4
<1>4. QED BY <1>0, <1>1, <1>2, <1>3

LEMMA SourceFits ==
  ASSUME NEW i \in Inputs, NEW name
  PROVE  LET mine == {a \in ToSet(i.addrs) : a.name = name}
         IN SourceUpTo(SourceOf(name, i.addrs), mine)
<1> DEFINE addrs == i.addrs
           n == Len(addrs)
<1>1. /\ n \in Nat /\ DOMAIN addrs = 1 .. n /\ \A k \in 1 .. n : addrs[k] \in InterfaceAddr
      /\ \A a, b \in ToSet(addrs) : a.addr = b.addr => a.family = b.family /\ a.linkLocal = b.linkLocal
  <2>1. addrs \in Seq(InterfaceAddr)
    BY StartupAssumption
  <2>2. QED
    BY <2>1, SeqParts, StartupAssumption
<1> HIDE DEF addrs, n
<1>2. PICK g : AddressRun(g, name, addrs, n)
  BY <1>1, ReadsAddresses
<1> DEFINE F == {k \in 0 .. n : SourceUpTo(g[k], Mine(name, addrs, k))}
<1>3. 0 \in F
  <2>1. g[0] = NoSource /\ Mine(name, addrs, 0) = {}
    BY <1>2 DEF AddressRun, Mine
  <2>2. SourceUpTo(NoSource, {})
    BY DEF SourceUpTo, NoSource
  <2>3. SourceUpTo(g[0], Mine(name, addrs, 0))
    BY <2>1, <2>2, Zenon
  <2>4. QED
    BY <1>1, <2>3
<1>4. ASSUME NEW k \in 1 .. n, k - 1 \in F PROVE k \in F
  <2>1. g[k] = IF addrs[k].name = name THEN Chosen(g[k - 1], addrs[k]) ELSE g[k - 1]
    BY <1>2 DEF AddressRun
  <2>2. Mine(name, addrs, k) = Mine(name, addrs, k - 1)
                               \cup (IF addrs[k].name = name THEN {addrs[k]} ELSE {})
    BY <1>1 DEF Mine
  <2>3. SourceUpTo(g[k - 1], Mine(name, addrs, k - 1))
    BY <1>4
  <2>4. CASE addrs[k].name # name
    <3>1. Mine(name, addrs, k) = Mine(name, addrs, k - 1) /\ g[k] = g[k - 1]
      BY <2>1, <2>2, <2>4
    <3>2. SourceUpTo(g[k], Mine(name, addrs, k))
      BY <2>3, <3>1, Zenon
    <3>3. QED
      BY <1>1, <3>2
  <2>5. CASE addrs[k].name = name
    <3> DEFINE mine == Mine(name, addrs, k - 1)
               a == addrs[k]
    <3>1. mine \cup {a} \subseteq ToSet(addrs) /\ mine \cup {a} \subseteq InterfaceAddr
      BY <1>1 DEF Mine, ToSet
    <3>2. \A b, c \in mine \cup {a} : b.addr = c.addr => b.family = c.family /\ b.linkLocal = c.linkLocal
      BY <1>1, <3>1
    <3> HIDE DEF mine, a
    <3>3. SourceUpTo(Chosen(g[k - 1], a), mine \cup {a})
      BY <2>3, <3>1, <3>2, ChosenKeeps DEF mine
    <3>4. SourceUpTo(g[k], Mine(name, addrs, k))
      BY <2>1, <2>2, <2>5, <3>3 DEF mine, a
    <3>5. QED
      BY <1>1, <3>4
  <2>6. QED BY <2>4, <2>5
<1>5. n \in F
  <2> HIDE DEF F
  <2>1. \A k \in 0 .. n : k \in F
    BY <1>1, <1>3, <1>4, UpTo
  <2>2. QED BY <1>1, <2>1
<1>6. Mine(name, addrs, n) = {a \in ToSet(addrs) : a.name = name}
  BY <1>1 DEF Mine, ToSet
<1>7. SourceOf(name, addrs) = g[n]
  BY <1>2 DEF AddressRun
<1>8. SourceUpTo(SourceOf(name, addrs), {a \in ToSet(addrs) : a.name = name})
  BY <1>5, <1>6, <1>7
<1>9. QED
  BY <1>8 DEF addrs

-----------------------------------------------------------------------------
(* The list.                                                               *)

ListOk(its) ==
  /\ \A i, j \in DOMAIN its :
       its[i].host = its[j].host /\ its[i].ok /\ its[j].ok => its[i].addrs = its[j].addrs
  /\ \A t \in ToSet(its) :
       /\ t.ok <=> t.addrs # <<>>
       /\ t.ok => t.toPort = t.port /\ t.toType = t.type
OkOf(its) == {j \in DOMAIN its : its[j].ok}

LEMMA FreshList ==
  ASSUME NEW its, ToSet(its) \subseteq Fresh
  PROVE  ListOk(its) /\ Cardinality(OkOf(its)) = 0
<1>1. \A j \in DOMAIN its : its[j] \in Fresh
  BY DEF ToSet
<1>2. \A j \in DOMAIN its : ~its[j].ok /\ its[j].addrs = <<>>
  BY <1>1 DEF Fresh
<1>3. OkOf(its) = {}
  BY <1>2 DEF OkOf
<1>4. ListOk(its)
  BY <1>2 DEF ListOk, ToSet
<1>5. QED
  BY <1>3, <1>4, FS_EmptySet

(* The list stays as it is. *)
LEMMA ListSame ==
  ASSUME ListInv, UNCHANGED <<items, resolved>>, stage' # "resolve",
         stage' \in Early => stage \in Early,
         stage' \in Early \cup Building => stage \in Early \cup Building,
         stage' \in Later => stage \in Later
  PROVE  ListInv'
<1>1. Built' => Built
  BY DEF Built, Later, Looping
<1>2. HostsAgree'
  BY <1>1 DEF ListInv, HostsAgree
<1>3. QED
  BY <1>2 DEF ListInv

(* The list is freed. *)
LEMMA ListFreed ==
  ASSUME items' = <<>>, stage' = "exit"
  PROVE  ListInv'
<1>1. DOMAIN items' = {} /\ ToSet(items') = {}
  BY DEF ToSet
<1>2. ~Built'
  BY DEF Built
<1>3. HostsAgree'
  BY <1>1, <1>2 DEF HostsAgree
<1>4. QED
  BY <1>3 DEF ListInv, Early, Building, Later, Looping

(* The list is made. *)
LEMMA ListMade ==
  ASSUME TypeInv, ListInv, stage \in Building, stage' \in Building \cup {"resolve"},
         ToSet(items') \subseteq Fresh, resolved' = resolved,
         stage' = "resolve" => items' # <<>>
  PROVE  ListInv'
<1>1. resolved' = 0
  BY DEF ListInv
<1>2. ListOk(items') /\ Cardinality(OkOf(items')) = 0
  BY FreshList
<1>3. HostsAgree'
  BY <1>1, <1>2 DEF HostsAgree, ListOk, OkOf
<1>4. \A j \in DOMAIN items' : items'[j] \in Fresh
  BY DEF ToSet
<1>5. stage' \notin Early /\ stage' \notin Later
  BY DEF Building, Early, Later, Looping
<1>6. QED
  BY <1>1, <1>3, <1>4, <1>5 DEF ListInv, Building

LEMMA Added ==
  ASSUME TypeInv, ListInv, stage \in Building, NEW new \in Seq(Fresh), NEW next, Add(new, next)
  PROVE  /\ items' \in Seq(Entry) /\ ToSet(items') \subseteq Fresh
         /\ stage' \in {next, "failed"}
<1>1. ToSet(items) \subseteq Fresh /\ items \in Seq(Entry)
  BY DEF ListInv, TypeInv
<1>2. items \in Seq(Fresh)
  <2>1. /\ Len(items) \in Nat /\ DOMAIN items = 1 .. Len(items)
        /\ items = [i \in 1 .. Len(items) |-> items[i]]
    BY <1>1
  <2>2. \A i \in 1 .. Len(items) : items[i] \in Fresh
    BY <1>1, <2>1 DEF ToSet
  <2>3. QED
    BY <2>1, <2>2, MakeSeq
<1>3. \A s \in Seq(Fresh) : s \in Seq(Entry) /\ ToSet(s) \subseteq Fresh
  <2>1. Fresh \subseteq Entry
    BY DEF Fresh
  <2>2. Seq(Fresh) \subseteq Seq(Entry)
    BY <2>1
  <2>3. \A s \in Seq(Fresh) : DOMAIN s = 1 .. Len(s) /\ \A i \in 1 .. Len(s) : s[i] \in Fresh
    BY SeqParts
  <2>4. QED
    BY <2>2, <2>3 DEF ToSet
<1>4. items' \in Seq(Fresh)
  <2>1. CASE items' = items \o new
    <3>1. items \o new \in Seq(Fresh)
      BY <1>2
    <3>2. QED BY <2>1, <3>1
  <2>2. CASE items' = items
    BY <1>2, <2>2
  <2>3. QED
    BY <2>1, <2>2 DEF Add
<1>5. QED
  BY <1>3, <1>4 DEF Add

(* What Targets_Build does to the list. *)
LEMMA BuildKeeps ==
  ASSUME MainInv, Build
  PROVE  /\ items' \in Seq(Entry) /\ ToSet(items') \subseteq Fresh
         /\ stage \in Building /\ stage' \in Building \cup {"resolve"}
         /\ stage' = "resolve" => items' # <<>>
         /\ stage' \in {"specs", "file", "resolve"} => at' \in Nat \ {0}
         /\ resolved' = resolved /\ args' = args
<1> USE DEF MainInv
<1>1. items \in Seq(Entry) /\ (stage \in Building => ToSet(items) \subseteq Fresh)
  BY DEF TypeInv, ListInv
<1>2. CASE BuildMatrix
  <2>1. stage \in Building /\ at' = 1 /\ resolved' = resolved /\ args' = args
    BY <1>2 DEF BuildMatrix, Building
  <2>2. CASE args.hosts = <<>>
    BY <1>1, <1>2, <2>1, <2>2 DEF BuildMatrix, Building
  <2>3. CASE args.hosts # <<>> /\ Fail
    BY <1>1, <2>1, <2>3 DEF Fail, Building
  <2>4. CASE args.hosts # <<>> /\ ~Fail
    <3> DEFINE protos == Protos(args.protos)
               ports == Ports(args.ports)
               new == MatrixOf(args.hosts, protos, ports)
    <3>1. Add(new, "specs")
      BY <1>2, <2>4 DEF BuildMatrix, MatrixOf, Rows
    <3>2. protos \in Seq(Tokens)
      <4>1. "tcp" \in Tokens
        BY DEF Tokens, Protocols
      <4>2. <<"tcp">> \in Seq(Tokens)
        BY <4>1, One
      <4>3. QED
        BY <4>2 DEF Protos, TypeInv
    <3>3. ports \in Seq(Int)
      BY PortsType DEF TypeInv
    <3> HIDE DEF protos, ports
    <3>4. new \in Seq(Fresh)
      BY <3>2, <3>3, MatrixFresh DEF TypeInv
    <3> HIDE DEF new
    <3>5. items' \in Seq(Entry) /\ ToSet(items') \subseteq Fresh /\ stage' \in {"specs", "failed"}
      BY <2>1, <3>1, <3>4, Added
    <3>6. QED
      BY <2>1, <3>5 DEF Building
  <2>5. QED BY <2>2, <2>3, <2>4
<1>3. CASE AddSpec
  <2>1. stage = "specs" /\ stage \in Building /\ at \in Nat \ {0} /\ resolved' = resolved /\ args' = args
    BY <1>3 DEF AddSpec, Building, TypeInv
  <2>2. CASE at > Len(args.specs)
    <3>1. stage' = "file" /\ at' = 1 /\ items' = items
      BY <1>3, <2>2 DEF AddSpec
    <3>2. QED
      BY <1>1, <2>1, <3>1 DEF Building
  <2>3. CASE ~(at > Len(args.specs)) /\ Fail
    BY <1>1, <2>1, <2>3 DEF Fail, Building
  <2>4. CASE ~(at > Len(args.specs)) /\ ~Fail
    <3> DEFINE s == args.specs[at]
               new == <<Target(s.host, s.port, s.proto)>>
    <3>1. at' = at + 1 /\ s.host # "" /\ s.proto # "bad" /\ Add(new, "specs")
      BY <1>3, <2>4 DEF AddSpec
    <3>2. s \in Line \cup {NoSpec}
      <4>1. /\ Len(args.specs) \in Nat
            /\ \A i \in 1 .. Len(args.specs) : args.specs[i] \in Line \cup {NoSpec}
        BY SeqParts DEF TypeInv
      <4>2. at \in 1 .. Len(args.specs)
        BY <2>1, <2>4, <4>1
      <4>3. QED
        BY <4>1, <4>2
    <3>3. s \in Line
      <4>1. NoSpec.host = ""
        BY DEF NoSpec
      <4> HIDE DEF s
      <4>2. s # NoSpec
        BY <3>1, <4>1
      <4>3. QED
        BY <3>2, <4>2
    <3>4. s.host \in STRING /\ s.port \in Int /\ s.proto \in Tokens
      BY <3>3 DEF Line, Tokens
    <3>5. Target(s.host, s.port, s.proto) \in Fresh
      BY <3>4, TargetFresh
    <3>6. new \in Seq(Fresh)
      BY <3>5, One
    <3> HIDE DEF s, new
    <3>7. items' \in Seq(Entry) /\ ToSet(items') \subseteq Fresh /\ stage' \in {"specs", "failed"}
      BY <2>1, <3>1, <3>6, Added
    <3>8. at' \in Nat \ {0}
      <4>1. at' = at + 1
        BY <3>1
      <4>2. QED
        BY <2>1, <4>1, SMT
    <3>9. QED
      BY <2>1, <3>7, <3>8 DEF Building
  <2>5. QED BY <2>2, <2>3, <2>4
<1>4. CASE AddFileLine
  <2>1. stage = "file" /\ stage \in Building /\ at \in Nat \ {0} /\ resolved' = resolved /\ args' = args
    BY <1>4 DEF AddFileLine, Building, TypeInv
  <2>2. CASE Fail
    <3>1. stage' = "failed" /\ items' = items
      BY <2>2 DEF Fail
    <3>2. QED
      BY <1>1, <2>1, <3>1 DEF Building
  <2>3. CASE ~Fail /\ at > Len(args.file)
    <3>1. at' = 1 /\ items' = items /\ stage' = IF items = <<>> THEN "failed" ELSE "resolve"
      BY <1>4, <2>3 DEF AddFileLine
    <3>2. QED
      BY <1>1, <2>1, <3>1 DEF Building
  <2>4. CASE ~Fail /\ ~(at > Len(args.file)) /\ args.file[at].host = ""
    <3>1. at' = at + 1 /\ items' = items /\ stage' = "file"
      BY <1>4, <2>1, <2>4 DEF AddFileLine
    <3>2. at' \in Nat \ {0}
      BY <2>1, <3>1
    <3>3. QED
      BY <1>1, <2>1, <3>1, <3>2 DEF Building
  <2>5. CASE ~Fail /\ ~(at > Len(args.file)) /\ args.file[at].host # ""
    <3> DEFINE l == args.file[at]
               new == <<Target(l.host, l.port, l.proto)>>
    <3>1. at' = at + 1 /\ Add(new, "file")
      BY <1>4, <2>5 DEF AddFileLine
    <3>2. l \in FileLine
      <4>1. Len(args.file) \in Nat /\ \A i \in 1 .. Len(args.file) : args.file[i] \in FileLine
        BY SeqParts DEF TypeInv
      <4>2. at \in Nat \ {0} /\ ~(at > Len(args.file))
        BY <2>1, <2>5
      <4>3. at \in 1 .. Len(args.file)
        BY <4>1, <4>2
      <4>4. QED
        BY <4>1, <4>3
    <3>3. l.host \in STRING /\ l.port \in Int /\ l.proto \in Tokens
      BY <3>2 DEF FileLine, Tokens
    <3>4. Target(l.host, l.port, l.proto) \in Fresh
      BY <3>3, TargetFresh
    <3>5. new \in Seq(Fresh)
      BY <3>4, One
    <3> HIDE DEF l, new
    <3>6. items' \in Seq(Entry) /\ ToSet(items') \subseteq Fresh /\ stage' \in {"file", "failed"}
      BY <2>1, <3>1, <3>5, Added
    <3>7. at' \in Nat \ {0}
      BY <2>1, <3>1
    <3>8. QED
      BY <2>1, <3>6, <3>7 DEF Building
  <2>6. QED BY <2>2, <2>3, <2>4, <2>5
<1>5. QED
  BY <1>2, <1>3, <1>4 DEF Build

(* What Resolve keeps of an answer. *)
LEMMA KeptFits ==
  ASSUME NEW answer \in Answers \cup {<<>>}, NEW type
  PROVE  /\ Kept(answer, type) \in Seq(DOMAIN Origin)
         /\ Kept(answer, type) = <<>> <=> answer = <<>>
<1> DEFINE A == DOMAIN Origin
           n == Len(answer)
           many == [k \in 1 .. 3 * n |-> answer[(k + 2) \div 3]]
           found == IF type = "icmp" THEN many ELSE answer
           m == IF Len(found) < MaxAddrs THEN Len(found) ELSE MaxAddrs
<1>1. answer \in Seq(A)
  BY StartupAssumption, Empty
<1>2. n \in Nat /\ DOMAIN answer = 1 .. n /\ (\A i \in 1 .. n : answer[i] \in A)
      /\ (n = 0 <=> answer = <<>>)
  BY <1>1, SeqParts
<1> HIDE DEF n
<1>3. many \in Seq(A) /\ Len(many) = 3 * n
  <2> DEFINE l == 3 * n
  <2>1. \A k \in 1 .. l : (k + 2) \div 3 \in 1 .. n
    BY <1>2
  <2>2. l \in Nat /\ \A k \in 1 .. l : many[k] \in A
    BY <1>2, <2>1
  <2>3. many = [k \in 1 .. l |-> many[k]]
    OBVIOUS
  <2> HIDE DEF many
  <2>4. many \in Seq(A) /\ DOMAIN many = 1 .. l
    <3> HIDE DEF l
    <3> QED BY <2>2, <2>3, MakeSeq
  <2>5. QED
    BY <2>2, <2>4
<1> HIDE DEF many
<1>4. found \in Seq(A) /\ Len(found) \in Nat /\ (Len(found) = 0 <=> answer = <<>>)
  BY <1>1, <1>2, <1>3 DEF n
<1> HIDE DEF found
<1>5. m \in Nat /\ m <= Len(found) /\ (m = 0 <=> answer = <<>>)
  BY <1>4, TargetsAssumption
<1>6. Kept(answer, type) = SubSeq(found, 1, m)
  BY Zenon DEF Kept, found, many, n, m
<1> HIDE DEF m
<1>7. SubSeq(found, 1, m) \in Seq(A) /\ Len(SubSeq(found, 1, m)) = m
  BY <1>4, <1>5
<1>8. SubSeq(found, 1, m) = <<>> <=> m = 0
  BY <1>5, <1>7
<1>9. QED
  BY <1>5, <1>6, <1>7, <1>8

(* What one turn of Targets_Resolve does to the found. *)
LEMMA ResolveKeeps ==
  ASSUME TypeInv, ListInv, ResolveOne
  PROVE  /\ items' \in Seq(Entry) /\ resolved' \in Nat /\ at' \in Nat \ {0}
         /\ ListInv'
<1> DEFINE t == items[at]
           x == items'[at]
<1>1. /\ stage = "resolve" /\ at \in DOMAIN items /\ at \in Nat \ {0} /\ at' = at + 1
      /\ stage' = stage /\ args' = args
      /\ resolved' = IF x.ok THEN resolved + 1 ELSE resolved
  <2>1. at \in Nat \ {0} /\ items \in Seq(Entry) /\ at <= Len(items)
    BY DEF ResolveOne, TypeInv
  <2>2. at \in DOMAIN items
    BY <2>1
  <2>3. QED
    BY <2>1, <2>2 DEF ResolveOne
<1>2. items \in Seq(Entry) /\ \A j \in DOMAIN items : at <= j => items[j] \in Fresh
  BY <1>1 DEF TypeInv, ListInv
<1>3. t \in Entry /\ ~t.ok /\ t.addrs = <<>>
  BY <1>1, <1>2 DEF Fresh
<1>4. ListOk(items) /\ resolved = Cardinality(OkOf(items)) /\ items # <<>>
  <2>1. Built
    BY <1>1 DEF Built, ListInv
  <2>2. QED
    BY <1>1, <2>1 DEF ListInv, HostsAgree, ListOk, OkOf
<1>5. ASSUME NEW y, items' = [items EXCEPT ![at] = y] PROVE x = y
  BY <1>1, <1>5
<1>6. /\ x \in Entry /\ items' = [items EXCEPT ![at] = x]
      /\ x.host = t.host
      /\ x.ok <=> x.addrs # <<>>
      /\ x.ok => x.toPort = x.port /\ x.toType = x.type
      /\ \A j \in Known(t) : x.ok /\ x.addrs = items[j].addrs
  <2>1. CASE Known(t) # {}
    <3> DEFINE first == CHOOSE j \in Known(t) : \A k \in Known(t) : j <= k
               y == Copied(t, items[first])
    <3>1. items' = [items EXCEPT ![at] = y]
      BY <2>1 DEF ResolveOne
    <3>2. x = y
      <4> HIDE DEF y
      <4> QED BY <1>5, <3>1
    <3>3. first \in Known(t)
      <4>1. Known(t) \subseteq 1 .. at - 1 /\ IsFiniteSet(1 .. at - 1)
        <5>1. Known(t) \subseteq 1 .. at - 1
          BY DEF Known
        <5>2. at - 1 \in Int /\ 1 \in Int
          BY <1>1
        <5>3. QED
          BY <5>1, <5>2, FS_Interval, Zenon
      <4> DEFINE K == Known(t)
      <4>4. K \in SUBSET Nat /\ IsFiniteSet(K) /\ K # {}
        BY <1>1, <2>1, <4>1, FS_Subset
      <4> HIDE DEF K
      <4>5. \E j \in K : \A k \in K : j <= k
        BY <4>4, Extremes
      <4>2. \E j \in Known(t) : \A k \in Known(t) : j <= k
        BY <4>5 DEF K
      <4>3. QED
        BY <4>2
    <3>4. Known(t) \subseteq DOMAIN items /\ \A j \in Known(t) : items[j].ok /\ items[j].host = t.host
      BY <1>1, <1>2 DEF Known
    <3> HIDE DEF first
    <3>5. items[first] \in Entry /\ items[first].addrs # <<>>
      BY <1>2, <1>4, <3>3, <3>4 DEF ListOk, ToSet
    <3>6. \A j \in Known(t) : items[j].addrs = items[first].addrs
      BY <1>4, <3>3, <3>4 DEF ListOk
    <3>7. /\ DOMAIN y = DOMAIN t /\ y.ok /\ y.addrs = items[first].addrs
          /\ y.toPort = t.port /\ y.toType = t.type /\ y.host = t.host /\ y.port = t.port /\ y.type = t.type
      BY <1>3 DEF Copied, Entry
    <3>8. y \in Entry
      BY <1>3, <3>5 DEF Copied, Entry
    <3> HIDE DEF y
    <3>9. QED
      BY <3>1, <3>2, <3>5, <3>6, <3>7, <3>8
  <2>2. CASE Known(t) = {}
    <3>1. PICK answer \in Answers \cup {<<>>} : items' = [items EXCEPT ![at] = Asked(t, answer)]
      BY <2>2 DEF ResolveOne
    <3> DEFINE y == Asked(t, answer)
    <3>2. x = y
      <4> HIDE DEF y
      <4> QED BY <1>5, <3>1 DEF y
    <3>3. /\ Kept(answer, t.type) \in Seq(DOMAIN Origin)
          /\ Kept(answer, t.type) = <<>> <=> answer = <<>>
      BY KeptFits
    <3>4. /\ y.ok = (answer # <<>>) /\ y.addrs = Kept(answer, t.type)
          /\ y.toPort = t.port /\ y.toType = t.type /\ y.host = t.host /\ y.port = t.port /\ y.type = t.type
      BY <1>3 DEF Asked, Entry
    <3>5. y \in Entry
      BY <1>3, <3>3 DEF Asked, Entry
    <3> HIDE DEF y
    <3>6. QED
      BY <2>2, <3>1, <3>2, <3>3, <3>4, <3>5 DEF y
  <2>3. QED BY <2>1, <2>2
<1> HIDE DEF x, t
<1>7. /\ items' \in Seq(Entry) /\ DOMAIN items' = DOMAIN items
      /\ \A j \in DOMAIN items : items'[j] = IF j = at THEN x ELSE items[j]
  BY <1>1, <1>2, <1>6 DEF x
<1>8. \A j \in DOMAIN items : j \in Nat \ {0}
  BY <1>2
<1>9. \A j \in DOMAIN items : j # at /\ items[j].ok /\ items[j].host = t.host => j \in Known(t)
  <2>1. SUFFICES ASSUME NEW j \in DOMAIN items, j # at, items[j].ok, items[j].host = t.host
                 PROVE  j \in Known(t)
    OBVIOUS
  <2>2. ~(at <= j)
    BY <1>2, <2>1 DEF Fresh
  <2>3. j \in 1 .. at - 1
    BY <1>1, <1>8, <2>2
  <2>4. QED
    BY <2>1, <2>3 DEF Known
<1>10. ListOk(items')
  <2>1. ASSUME NEW i \in DOMAIN items, NEW j \in DOMAIN items,
               items'[i].host = items'[j].host, items'[i].ok, items'[j].ok
        PROVE  items'[i].addrs = items'[j].addrs
    <3>1. CASE i # at /\ j # at
      BY <1>4, <1>7, <2>1, <3>1 DEF ListOk
    <3>2. CASE i = at /\ j # at
      BY <1>6, <1>7, <1>9, <2>1, <3>2
    <3>3. CASE i # at /\ j = at
      BY <1>6, <1>7, <1>9, <2>1, <3>3
    <3>4. CASE i = at /\ j = at
      BY <3>4
    <3>5. QED BY <3>1, <3>2, <3>3, <3>4
  <2>2. ASSUME NEW u \in ToSet(items')
        PROVE  /\ u.ok <=> u.addrs # <<>>
               /\ u.ok => u.toPort = u.port /\ u.toType = u.type
    <3>1. PICK j \in DOMAIN items : u = items'[j]
      BY <1>7 DEF ToSet
    <3>2. CASE j = at
      BY <1>6, <1>7, <3>1, <3>2
    <3>3. CASE j # at
      BY <1>4, <1>7, <3>1, <3>3 DEF ListOk, ToSet
    <3>4. QED BY <3>2, <3>3
  <2>3. QED
    BY <1>7, <2>1, <2>2 DEF ListOk
<1>11. resolved' = Cardinality(OkOf(items')) /\ resolved' \in Nat
  <2>1. IsFiniteSet(OkOf(items))
    <3>1. OkOf(items) \subseteq 1 .. Len(items) /\ Len(items) \in Nat
      BY <1>2 DEF OkOf
    <3>2. IsFiniteSet(1 .. Len(items))
      BY <3>1, FS_Interval
    <3>3. QED
      BY <3>1, <3>2, FS_Subset
  <2>2. at \notin OkOf(items)
    BY <1>3 DEF OkOf, t
  <2>3. OkOf(items') = IF x.ok THEN OkOf(items) \cup {at} ELSE OkOf(items)
    BY <1>1, <1>7, <2>2 DEF OkOf
  <2>4. Cardinality(OkOf(items) \cup {at}) = Cardinality(OkOf(items)) + 1
    BY <2>1, <2>2, FS_AddElement
  <2>5. resolved \in Nat
    BY DEF TypeInv
  <2>6. QED
    BY <1>1, <1>4, <2>3, <2>4, <2>5 DEF x
<1>12. HostsAgree'
  BY <1>10, <1>11 DEF HostsAgree, ListOk, OkOf
<1>13. \A j \in DOMAIN items' : at' <= j => items'[j] \in Fresh
  BY <1>1, <1>2, <1>7, <1>8
<1>14. items' # <<>>
  BY <1>1, <1>7
<1>15. stage' \notin Early \cup Building /\ stage' = "resolve" /\ stage' \notin Later
  BY <1>1 DEF Early, Building, Later, Looping
<1>16. ListInv'
  BY <1>12, <1>13, <1>14, <1>15 DEF ListInv
<1>17. at' \in Nat \ {0}
  BY <1>1
<1>18. QED
  BY <1>7, <1>11, <1>16, <1>17

-----------------------------------------------------------------------------
(* The annotations.                                                        *)

FieldsIn(replies) ==
  UNION {{rr.fields : rr \in {r \in ToSet(reply) : r.kind = "txt"}} : reply \in replies}
NoteOk(n, t) ==
  IF ~t.ok THEN n = NoNote
  ELSE /\ n.name \in Names[t.addrs[1]]
       /\ n.asn.asked /\ n.asn.text # Null =>
            \E f \in FieldsIn(Origin[t.addrs[1]]) : f[1] # <<>> /\ f[1][1] = n.asn.text
       /\ n.org.text # <<>> => n.asn.text # Null
       /\ n.org.asked /\ n.org.text # <<>> =>
            \E f \in FieldsIn(Holder[n.asn.text]) : n.org.text \in ToSet(f)

LEMMA NotesAre ==
  AnnotationsMatch <=> (stage \in Later => \A i \in DOMAIN notes : NoteOk(notes[i], items[i]))
BY DEF AnnotationsMatch, NoteOk, FieldsIn, Later, Looping

(* A field that is found is one of a TXT record of the reply. *)
LEMMA TxtFound ==
  ASSUME NEW reply \in Seq(Record), NEW idx \in Nat, CymruField(TxtOf(reply), idx) # <<>>
  PROVE  \E r \in ToSet(reply) :
           /\ r \in Record /\ r.kind = "txt" /\ idx + 1 \in DOMAIN r.fields
           /\ CymruField(TxtOf(reply), idx) = r.fields[idx + 1]
<1> DEFINE stops == {i \in DOMAIN reply : reply[i].kind # "other"}
           f == TxtOf(reply)
<1>1. /\ Len(reply) \in Nat /\ DOMAIN reply = 1 .. Len(reply)
      /\ \A i \in 1 .. Len(reply) : reply[i] \in Record
  BY SeqParts
<1>2. idx + 1 \in DOMAIN f /\ CymruField(f, idx) = f[idx + 1]
  BY DEF CymruField
<1>3. f # <<>>
  <2> HIDE DEF f
  <2> QED BY <1>2
<1>4. stops # {} /\ reply[Min(stops)].kind # "bad" /\ f = reply[Min(stops)].fields
  BY <1>3 DEF TxtOf
<1>5. Min(stops) \in stops
  <2>1. stops \subseteq 1 .. Len(reply) /\ IsFiniteSet(1 .. Len(reply))
    BY <1>1, FS_Interval
  <2>2. stops \in SUBSET Nat /\ IsFiniteSet(stops)
    BY <2>1, FS_Subset
  <2> HIDE DEF stops
  <2>3. \E m \in stops : \A x \in stops : m <= x
    BY <1>4, <2>2, Extremes
  <2>4. QED
    BY <2>3 DEF Min
<1> DEFINE r == reply[Min(stops)]
<1>6. r \in ToSet(reply) /\ r \in Record /\ r.kind # "other"
  BY <1>1, <1>5 DEF ToSet
<1>7. r.kind \in {"other", "txt", "bad"}
  <2> HIDE DEF r
  <2> QED BY <1>6 DEF Record
<1>8. r.kind = "txt" /\ r.fields = f
  BY <1>4, <1>6, <1>7
<1> HIDE DEF r, f
<1>9. QED
  BY <1>2, <1>6, <1>8 DEF f

(* A datagram that may be received holds records, and the answers go to their
   question. *)
LEMMA DatagramFits ==
  ASSUME NEW answers, answers \subseteq Seq(Record), NEW d \in Datagrams(answers)
  PROVE  d.reply \in Seq(Record) /\ d.reply \in answers \cup Strays /\ (d.asked => d.reply \in answers)
<1>1. Strays \subseteq Seq(Record)
  BY StartupAssumption
<1>2. CASE d \in [reply : answers, asked : {TRUE}]
  BY <1>2
<1>3. CASE d \in [reply : Strays, asked : {FALSE}]
  BY <1>1, <1>3
<1>4. QED
  BY <1>2, <1>3 DEF Datagrams

LEMMA FoundHas == ASSUME NEW a, NEW b PROVE Found(a, b).text = a /\ Found(a, b).asked = b
BY Zenon DEF Found

LEMMA AnnotatedFits ==
  ASSUME NEW t \in Entry, t.ok, t.addrs # <<>>, NEW n \in Annotated(t)
  PROVE  NoteOk(n, t)
<1> DEFINE first == t.addrs[1]
           wordsOf(d) == CymruField(TxtOf(d.reply), 0)
           firstAs(d) == Found(IF wordsOf(d) = <<>> THEN Null ELSE wordsOf(d)[1], d.asked)
           orgs(asn) == IF asn = Null THEN {Found(<<>>, TRUE)}
                        ELSE {Found(CymruField(TxtOf(d.reply), 4), d.asked) : d \in Datagrams(Holder[asn])}
<1>1. first \in DOMAIN Origin
  <2>1. t.addrs \in Seq(DOMAIN Origin)
    BY DEF Entry
  <2>2. 1 \in 1 .. Len(t.addrs)
    BY <2>1
  <2>3. QED
    BY <2>1, <2>2, SeqParts
<1>2. PICK d \in Datagrams(Origin[first]) :
        n \in [name : Names[first], asn : {firstAs(d)}, org : orgs(firstAs(d).text)]
  <2> DEFINE S == Datagrams(Origin[first])
             N(asn) == [name : Names[first], asn : {asn}, org : orgs(asn.text)]
             Firsts == {firstAs(e) : e \in S}
  <2>1. n \in UNION {N(asn) : asn \in Firsts}
    BY Zenon DEF Annotated
  <2> HIDE DEF N, S, firstAs
  <2>2. PICK asn \in Firsts : n \in N(asn)
    BY <2>1
  <2>3. PICK e \in S : asn = firstAs(e)
    BY <2>2
  <2>4. n \in N(firstAs(e))
    BY <2>2, <2>3
  <2>5. QED
    BY <2>4 DEF N, S
<1>3. Origin[first] \subseteq Seq(Record)
  BY <1>1, StartupAssumption
<1>4. n.name \in Names[first] /\ n.asn = firstAs(d) /\ n.org \in orgs(firstAs(d).text)
  <2> DEFINE A == firstAs(d)
             O == orgs(A.text)
  <2>1. n \in [name : Names[first], asn : {A}, org : O]
    BY <1>2
  <2> HIDE DEF A, O
  <2>2. n.name \in Names[first] /\ n.asn = A /\ n.org \in O
    BY <2>1
  <2>3. QED
    BY <2>2 DEF A, O
<1>5. ASSUME n.asn.text # Null
      PROVE  /\ n.asn.asked => \E f \in FieldsIn(Origin[first]) : f[1] # <<>> /\ f[1][1] = n.asn.text
             /\ n.asn.text \in DOMAIN Holder
  <2> DEFINE words == wordsOf(d)
  <2>1. words # <<>> /\ n.asn.text = words[1] /\ n.asn.asked = d.asked
    BY <1>4, <1>5, FoundHas
  <2>2. /\ d.reply \in Seq(Record) /\ d.reply \in Origin[first] \cup Strays
        /\ d.asked => d.reply \in Origin[first]
    BY <1>3, DatagramFits
  <2>3. PICK r \in ToSet(d.reply) : /\ r \in Record /\ r.kind = "txt" /\ 1 \in DOMAIN r.fields
                                    /\ words = r.fields[1]
    <3>1. 0 \in Nat /\ 0 + 1 = 1
      OBVIOUS
    <3>2. QED
      BY <2>1, <2>2, <3>1, TxtFound
  <2>4. d.asked => r.fields \in FieldsIn(Origin[first])
    BY <2>2, <2>3 DEF FieldsIn
  <2>5. r.fields # <<>>
    BY <2>3
  <2> HIDE DEF words
  <2>6. n.asn.text \in DOMAIN Holder
    BY <1>1, <2>1, <2>2, <2>3, <2>5, StartupAssumption
  <2>7. QED
    BY <2>1, <2>3, <2>4, <2>6
<1>6. ASSUME n.org.text # <<>>
      PROVE  /\ n.asn.text # Null
             /\ n.org.asked => \E f \in FieldsIn(Holder[n.asn.text]) : n.org.text \in ToSet(f)
  <2> DEFINE asn == n.asn.text
  <2>1. n.org \in orgs(asn)
    BY <1>4
  <2> DEFINE O == {Found(CymruField(TxtOf(e.reply), 4), e.asked) : e \in Datagrams(Holder[asn])}
  <2>2. asn # Null /\ n.org \in O
    <3>1. n.org # Found(<<>>, TRUE)
      <4>1. Found(<<>>, TRUE).text = <<>>
        BY DEF Found
      <4>2. QED
        BY <1>6, <4>1
    <3>2. n.org \in IF asn = Null THEN {Found(<<>>, TRUE)} ELSE O
      BY <2>1, Zenon
    <3> HIDE DEF O
    <3>3. QED
      BY <3>1, <3>2
  <2>3. PICK e \in Datagrams(Holder[asn]) : n.org = Found(CymruField(TxtOf(e.reply), 4), e.asked)
    BY <2>2
  <2>4. n.org.text = CymruField(TxtOf(e.reply), 4) /\ n.org.asked = e.asked
    BY <2>3, FoundHas
  <2>5. Holder[asn] \subseteq Seq(Record)
    BY <1>5, <2>2, StartupAssumption
  <2>6. e.reply \in Seq(Record) /\ (e.asked => e.reply \in Holder[asn])
    BY <2>5, DatagramFits
  <2>7. PICK r \in ToSet(e.reply) : r.kind = "txt" /\ 5 \in DOMAIN r.fields /\ n.org.text = r.fields[5]
    <3>1. 4 \in Nat /\ 4 + 1 = 5
      OBVIOUS
    <3>2. CymruField(TxtOf(e.reply), 4) # <<>>
      BY <1>6, <2>4
    <3>3. QED
      BY <2>4, <2>6, <3>1, <3>2, TxtFound
  <2>8. n.org.text \in ToSet(r.fields) /\ (e.asked => r.fields \in FieldsIn(Holder[asn]))
    BY <2>6, <2>7 DEF FieldsIn, ToSet
  <2>9. QED
    BY <2>2, <2>4, <2>8
<1>7. QED
  BY <1>4, <1>5, <1>6 DEF NoteOk

LEMMA SeqIs ==
  ASSUME NEW S, NEW s \in Seq(S)
  PROVE  DOMAIN s = 1 .. Len(s) /\ s = [i \in 1 .. Len(s) |-> s[i]]
OBVIOUS

Longer(q, s, x, k) ==
  /\ Len(q) = k /\ DOMAIN q = 1 .. k /\ q = [i \in 1 .. k |-> q[i]]
  /\ q[k] = x /\ \A i \in 1 .. k - 1 : q[i] = s[i]
  /\ DOMAIN s = 1 .. k - 1

LEMMA Appended ==
  ASSUME NEW S, NEW s \in Seq(S), NEW x \in S, NEW k \in Nat \ {0}, Len(s) = k - 1,
         NEW q, q = Append(s, x)
  PROVE  Longer(q, s, x, k)
<1>1. Len(s) = k - 1 /\ DOMAIN s = 1 .. k - 1
  OBVIOUS
<1>2. q \in Seq(S) /\ Len(q) = k
  OBVIOUS
<1>3. DOMAIN q = 1 .. k /\ q = [i \in 1 .. k |-> q[i]]
  BY <1>2, SeqIs, Zenon
<1>4. q[k] = x /\ \A i \in 1 .. k - 1 : q[i] = s[i]
  BY <1>1
<1>5. QED
  BY <1>1, <1>2, <1>3, <1>4 DEF Longer

LEMMA AnnotateKeeps ==
  ASSUME TypeInv, ListInv, NotesInv, Annotate
  PROVE  NotesInv' /\ (stage' = "annotate" => at' \in Nat \ {0})
<1>1. /\ stage = "annotate" /\ at \in Nat \ {0} /\ items \in Seq(Entry) /\ items' = items
      /\ \A i \in DOMAIN notes : NoteOk(notes[i], items[i])
      /\ notes \in Seq(ToSet(notes)) /\ Len(notes) = at - 1
  <2>1. stage = "annotate" /\ items' = items
    BY DEF Annotate
  <2>2. stage \in Later
    BY <2>1 DEF Later
  <2>3. QED
    BY <2>1, <2>2, NotesAre DEF TypeInv, NotesInv
<1>2. CASE ~settings.resolve \/ at > Len(items)
  <2>1. stage' = "mode" /\ notes' = notes
    BY <1>2 DEF Annotate
  <2>2. AnnotationsMatch'
    BY <1>1, <2>1 DEF AnnotationsMatch, NoteOk, FieldsIn
  <2>3. QED
    BY <1>1, <2>1, <2>2 DEF NotesInv, Later
<1>3. CASE ~(~settings.resolve \/ at > Len(items))
  <2>1. at' = at + 1 /\ stage' = stage
    BY <1>3 DEF Annotate
  <2>2. PICK n \in IF items[at].ok THEN Annotated(items[at]) ELSE {NoNote} : notes' = Append(notes, n)
    BY <1>3 DEF Annotate
  <2>3. items[at] \in Entry /\ (items[at].ok => items[at].addrs # <<>>)
    <3>1. at \in 1 .. Len(items)
      BY <1>1, <1>3
    <3>2. items[at] \in Entry /\ items[at] \in ToSet(items)
      BY <1>1, <3>1 DEF ToSet
    <3>3. QED
      BY <3>2 DEF ListInv, HostsAgree
  <2>4. NoteOk(n, items[at])
    <3>1. CASE items[at].ok
      BY <2>2, <2>3, <3>1, AnnotatedFits
    <3>2. CASE ~items[at].ok
      BY <2>2, <3>2 DEF NoteOk
    <3>3. QED BY <3>1, <3>2
  <2>5. /\ Len(notes') = at /\ DOMAIN notes' = 1 .. at /\ notes' = [i \in 1 .. at |-> notes'[i]]
        /\ notes'[at] = n /\ \A i \in 1 .. at - 1 : notes'[i] = notes[i]
        /\ DOMAIN notes = 1 .. at - 1
    <3> DEFINE S == ToSet(notes) \cup {n}
    <3>1. notes \in Seq(S) /\ n \in S
      <4>1. ToSet(notes) \subseteq S /\ n \in S
        OBVIOUS
      <4> HIDE DEF S
      <4>2. QED
        BY <1>1, <4>1
    <3> HIDE DEF S
    <3>2. Len(notes) = at - 1 /\ at \in Nat \ {0} /\ notes' = Append(notes, n)
      BY <1>1, <2>2
    <3> DEFINE q == notes'
    <3>3. q = Append(notes, n)
      BY <3>2
    <3> HIDE DEF q
    <3>4. Longer(q, notes, n, at)
      BY <3>1, <3>2, <3>3, Appended
    <3>5. QED
      BY <3>4, Zenon DEF q, Longer
  <2>6. notes' \in Seq(ToSet(notes'))
    <3> DEFINE S == ToSet(notes')
    <3>1. \A i \in 1 .. at : notes'[i] \in S
      BY <2>5 DEF ToSet
    <3> HIDE DEF S
    <3>2. notes' \in Seq(S)
      BY <1>1, <2>5, <3>1, MakeSeq
    <3>3. QED
      BY <3>2 DEF S
  <2>7. \A i \in DOMAIN notes' : NoteOk(notes'[i], items'[i])
    <3>1. SUFFICES ASSUME NEW i \in 1 .. at PROVE NoteOk(notes'[i], items[i])
      BY <1>1, <2>5
    <3>2. CASE i = at
      BY <2>4, <2>5, <3>2
    <3>3. CASE i # at
      <4>1. i \in 1 .. at - 1
        BY <1>1, <3>3
      <4>2. QED
        BY <1>1, <2>5, <4>1
    <3>4. QED BY <3>2, <3>3
  <2>8. AnnotationsMatch'
    BY <2>7 DEF AnnotationsMatch, NoteOk, FieldsIn
  <2>9. stage' = "annotate" /\ stage' \in Later /\ Len(notes') = at' - 1 /\ at' \in Nat \ {0}
    BY <1>1, <2>1, <2>5 DEF Later
  <2>10. QED
    BY <2>6, <2>8, <2>9 DEF NotesInv
<1>4. QED BY <1>2, <1>3

-----------------------------------------------------------------------------
(* The inductive invariant.                                                *)

LEMMA MainInit_ == MainInit => MainInv
<1> SUFFICES ASSUME MainInit PROVE MainInv
  OBVIOUS
<1>1. /\ input \in Inputs /\ settings = InitDefaults /\ src = NoSource /\ items = <<>> /\ at = 1
      /\ resolved = 0 /\ notes = <<>> /\ ran = "none" /\ logs = {} /\ exitStatus = 0
      /\ stage = "arguments" /\ args = TargetArgs(InitDefaults)
  BY DEF MainInit
<1>2. TypeInv
  <2>1. ArgsType(args)
    BY <1>1, DefaultsFit, ArgsFit
  <2>2. items \in Seq(Entry)
    BY <1>1, Empty
  <2>3. stage \in Early
    BY <1>1 DEF Early
  <2>4. QED
    BY <1>1, <2>1, <2>2, <2>3 DEF TypeInv, ArgsType
<1>3. DOMAIN items = {} /\ ToSet(items) = {}
  BY <1>1 DEF ToSet
<1>4. stage \notin Later /\ stage \notin {"trace", "load"} \cup Looping
  BY <1>1 DEF Later, Looping
<1>5. ListInv
  <2>1. HostsAgree
    BY <1>1, <1>3 DEF HostsAgree, Built
  <2>2. QED
    BY <1>1, <1>3, <1>4, <2>1 DEF ListInv
<1>6. ModeInv
  BY <1>1, <1>4, DefaultsFit DEF ModeInv, Started, Looping
<1>7. SourceInv
  BY <1>1 DEF SourceInv, Started
<1>8. NotesInv
  <2>1. notes \in Seq(ToSet(notes))
    BY <1>1, Empty
  <2>2. QED
    BY <1>1, <1>4, <2>1, NotesAre DEF NotesInv
<1>9. ExitInv
  BY <1>1, <1>4 DEF ExitInv, CleanExit, Looping
<1>10. QED
  BY <1>2, <1>5, <1>6, <1>7, <1>8, <1>9 DEF MainInv

(* Steps that leave the arguments, the sources and the annotations alone. *)
LEMMA Moves ==
  ASSUME MainInv, UNCHANGED <<input, settings, src, notes, resolved, args>>,
         stage \notin Early \/ stage' = "exit",
         items' = items \/ (stage' = "exit" /\ items' = <<>>),
         stage' \in Later \cup {"exit"},
         stage' \in Later => stage \in Later,
         stage' = "annotate" => stage = "annotate" /\ at' = at
  PROVE  TypeInv' /\ ListInv' /\ SourceInv' /\ NotesInv'
<1> USE DEF MainInv
<1>1. TypeInv'
  <2>1. items' \in Seq(Entry)
    BY Empty DEF TypeInv
  <2>2. stage' \notin {"specs", "file", "resolve"}
    BY DEF Later, Looping
  <2>3. QED
    BY <2>1, <2>2 DEF TypeInv
<1>2. ListInv'
  <2>1. CASE stage' = "exit" /\ items' = <<>>
    BY <2>1, ListFreed
  <2>2. CASE items' = items
    <3>1. stage' \notin Early /\ stage' \notin Early \cup Building /\ stage' # "resolve"
      BY DEF Early, Building, Later, Looping
    <3>2. QED
      BY <2>2, <3>1, ListSame
  <2>3. QED BY <2>1, <2>2
<1>3. SourceInv'
  <2>1. stage \in Early \/ (Started /\ stage # "interface") \/ stage' = "exit"
    BY DEF Started, Early, Later, Looping
  <2>2. ~Started' \/ (Started /\ stage # "interface")
    BY <2>1 DEF Started
  <2>3. QED
    BY <2>2 DEF SourceInv
<1>4. NotesInv'
  <2>1. AnnotationsMatch'
    <3>1. CASE stage' \in Later
      <4>1. items' = items /\ \A i \in DOMAIN notes : NoteOk(notes[i], items[i])
        <5>1. stage \in Later /\ stage' # "exit"
          BY <3>1 DEF Later, Looping
        <5>2. QED
          BY <5>1, NotesAre DEF NotesInv
      <4>2. QED
        BY <4>1 DEF AnnotationsMatch, NoteOk, FieldsIn
    <3>2. CASE stage' \notin Later
      BY <3>2 DEF AnnotationsMatch, Later, Looping
    <3>3. QED BY <3>1, <3>2
  <2>2. QED
    BY <2>1 DEF NotesInv
<1>5. QED
  BY <1>1, <1>2, <1>3, <1>4

LEMMA BuildFailedKeeps == MainInv /\ BuildFailed => MainInv'
<1> SUFFICES ASSUME MainInv, BuildFailed PROVE MainInv'
  OBVIOUS
<1> USE DEF MainInv
<1>1. /\ stage = "failed" /\ stage' = "exit" /\ exitStatus' = 1
      /\ UNCHANGED <<list, input, settings, color, src, notes, ran, logs>>
  BY DEF BuildFailed, Exit
<1>2. stage \notin Early /\ stage \in Building
  BY <1>1 DEF Early, Building
<1>3. TypeInv' /\ ListInv' /\ SourceInv' /\ NotesInv'
  <2>1. stage' \notin Later
    BY <1>1 DEF Later, Looping
  <2>2. QED
    BY <1>1, <1>2, <2>1, Moves DEF list
<1>4. ModeInv'
  BY <1>1 DEF ModeInv, Started, Looping
<1>5. ExitInv'
  BY <1>1, <1>2 DEF ExitInv, CleanExit, ListInv, list, Looping
<1>6. QED
  BY <1>3, <1>4, <1>5

LEMMA ChooseModeKeeps == MainInv /\ ChooseMode => MainInv'
<1> SUFFICES ASSUME MainInv, ChooseMode PROVE MainInv'
  OBVIOUS
<1> USE DEF MainInv
<1> DEFINE single == settings.traceroute \/ settings.loadTest \/ settings.resilience
           chosen == IF settings.traceroute THEN "trace" ELSE "load"
<1>1. /\ stage = "mode"
      /\ UNCHANGED <<args, at, resolved, input, settings, color, src, notes, logs>>
      /\ \/ ~single /\ stage' = "csv" /\ UNCHANGED <<ran, items, exitStatus>>
         \/ single /\ stage' = "exit" /\ items' = <<>> /\ exitStatus' = 1 /\ ran' = ran
         \/ /\ single /\ Len(items) = 1 /\ stage' = chosen /\ ran' = chosen
            /\ UNCHANGED <<items, exitStatus>>
  BY DEF ChooseMode, FreeExit, Exit
<1>2. stage \notin Early /\ stage \in Later /\ logs = {}
  BY <1>1 DEF Early, Later, Looping, ExitInv
<1>3. TypeInv' /\ ListInv' /\ SourceInv' /\ NotesInv'
  <2>1. stage' \in Later \cup {"exit"} /\ stage' # "annotate"
    BY <1>1 DEF Later, Looping
  <2>2. items' = items \/ (stage' = "exit" /\ items' = <<>>)
    BY <1>1
  <2>3. QED
    BY <1>1, <1>2, <2>1, <2>2, Moves
<1>4. ModeInv'
  BY <1>1 DEF ModeInv, Started, Looping
<1>5. ExitInv'
  BY <1>1, <1>2 DEF ExitInv, CleanExit, Looping
<1>6. QED
  BY <1>3, <1>4, <1>5

LEMMA ModeReturnsKeeps == MainInv /\ ModeReturns => MainInv'
<1> SUFFICES ASSUME MainInv, ModeReturns PROVE MainInv'
  OBVIOUS
<1> USE DEF MainInv
<1>1. /\ stage \in {"http", "trace", "load"} /\ stage' = "exit" /\ items' = <<>>
      /\ exitStatus' \in {0, 1}
      /\ UNCHANGED <<args, at, resolved, input, settings, color, src, notes, ran, logs>>
  BY DEF ModeReturns, FreeExit, Exit
<1>2. logs = {} /\ ran # "none"
  BY <1>1 DEF ExitInv
<1>3. TypeInv' /\ ListInv' /\ SourceInv' /\ NotesInv'
  <2>1. stage' \notin Later
    BY <1>1 DEF Later, Looping
  <2>2. QED
    BY <1>1, <2>1, Moves
<1>4. ModeInv'
  BY <1>1 DEF ModeInv, Started, Looping
<1>5. ExitInv'
  BY <1>1, <1>2 DEF ExitInv, CleanExit, Looping
<1>6. QED
  BY <1>3, <1>4, <1>5

LEMMA OpenCsvKeeps == MainInv /\ OpenCsv => MainInv'
<1> SUFFICES ASSUME MainInv, OpenCsv PROVE MainInv'
  OBVIOUS
<1> USE DEF MainInv
<1>1. /\ stage = "csv"
      /\ UNCHANGED <<args, at, resolved, input, settings, color, src, notes, ran>>
      /\ \/ stage' = "json" /\ UNCHANGED <<items, exitStatus, logs>>
         \/ /\ settings.csv /\ stage' = "json" /\ logs' = logs \cup {"csv"}
            /\ UNCHANGED <<items, exitStatus>>
         \/ stage' = "exit" /\ items' = <<>> /\ exitStatus' = 1 /\ logs' = logs
  BY DEF OpenCsv, FreeExit, Exit
<1>2. stage \notin Early /\ stage \in Looping /\ stage \in Later /\ logs = {}
  BY <1>1 DEF Early, Later, Looping, ExitInv
<1>3. TypeInv' /\ ListInv' /\ SourceInv' /\ NotesInv'
  <2>1. stage' \in Later \cup {"exit"} /\ stage' # "annotate"
    BY <1>1 DEF Later, Looping
  <2>2. items' = items \/ (stage' = "exit" /\ items' = <<>>)
    BY <1>1
  <2>3. QED
    BY <1>1, <1>2, <2>1, <2>2, Moves
<1>4. ModeInv'
  BY <1>1, <1>2 DEF ModeInv, Started, Looping
<1>5. ExitInv'
  <2>1. CASE stage' = "exit" /\ exitStatus' = 1 /\ items' = <<>> /\ logs' = logs
    BY <1>2, <2>1 DEF ExitInv, CleanExit
  <2>2. CASE stage' = "json" /\ exitStatus' = exitStatus
    <3>1. logs' \subseteq (IF settings.csv THEN {"csv"} ELSE {}) /\ logs' \subseteq {"csv"}
      BY <1>1, <1>2
    <3>2. settings' = settings /\ exitStatus' \in {0, 1}
      BY <1>1, <2>2 DEF ExitInv
    <3>3. QED
      BY <2>2, <3>1, <3>2 DEF ExitInv, CleanExit
  <2>3. QED BY <1>1, <2>1, <2>2
<1>6. QED
  BY <1>3, <1>4, <1>5

LEMMA OpenJsonKeeps == MainInv /\ OpenJson => MainInv'
<1> SUFFICES ASSUME MainInv, OpenJson PROVE MainInv'
  OBVIOUS
<1> USE DEF MainInv
<1>1. /\ stage = "json"
      /\ UNCHANGED <<args, at, resolved, input, settings, color, src, notes>>
      /\ \/ /\ stage' = "loop" /\ ran' = "loop" /\ UNCHANGED <<items, exitStatus>>
            /\ logs' = IF settings.jsonFile THEN logs \cup {"json"} ELSE logs
         \/ stage' = "exit" /\ items' = <<>> /\ exitStatus' = 1 /\ logs' = logs \ {"csv"} /\ ran' = ran
  BY DEF OpenJson, FreeExit, Exit
<1>2. /\ stage \notin Early /\ stage \in Looping /\ stage \in Later /\ logs \subseteq {"csv"}
      /\ logs \subseteq (IF settings.csv THEN {"csv"} ELSE {})
                         \cup (IF settings.jsonFile THEN {"json"} ELSE {})
  BY <1>1 DEF Early, Later, Looping, ExitInv
<1>3. TypeInv' /\ ListInv' /\ SourceInv' /\ NotesInv'
  <2>1. stage' \in Later \cup {"exit"} /\ stage' # "annotate"
    BY <1>1 DEF Later, Looping
  <2>2. items' = items \/ (stage' = "exit" /\ items' = <<>>)
    BY <1>1
  <2>3. QED
    BY <1>1, <1>2, <2>1, <2>2, Moves
<1>4. ModeInv'
  BY <1>1, <1>2 DEF ModeInv, Started, Looping
<1>5. ExitInv'
  <2>1. CASE stage' = "exit" /\ exitStatus' = 1 /\ items' = <<>> /\ logs' = logs \ {"csv"}
    <3>1. logs' = {}
      BY <1>2, <2>1
    <3>2. QED
      BY <2>1, <3>1 DEF ExitInv, CleanExit
  <2>2. CASE /\ stage' = "loop" /\ ran' = "loop" /\ exitStatus' = exitStatus
             /\ logs' = IF settings.jsonFile THEN logs \cup {"json"} ELSE logs
    <3>1. logs' \subseteq (IF settings.csv THEN {"csv"} ELSE {})
                           \cup (IF settings.jsonFile THEN {"json"} ELSE {})
      BY <1>2, <2>2
    <3>2. settings' = settings /\ exitStatus' \in {0, 1}
      BY <1>1, <2>2 DEF ExitInv
    <3>3. QED
      BY <2>2, <3>1, <3>2 DEF ExitInv, CleanExit
  <2>3. QED BY <1>1, <2>1, <2>2
<1>6. QED
  BY <1>3, <1>4, <1>5

LEMMA LoopReturnsKeeps == MainInv /\ LoopReturns => MainInv'
<1> SUFFICES ASSUME MainInv, LoopReturns PROVE MainInv'
  OBVIOUS
<1> USE DEF MainInv
<1>1. /\ stage = "loop" /\ stage' = "close" /\ exitStatus' \in {0, 1}
      /\ UNCHANGED <<list, input, settings, color, src, notes, ran, logs>>
  BY DEF LoopReturns
<1>2. stage \notin Early /\ stage \in Looping /\ stage \in Later /\ ran # "none"
  BY <1>1 DEF Early, Later, Looping, ExitInv
<1>3. TypeInv' /\ ListInv' /\ SourceInv' /\ NotesInv'
  <2>1. stage' \in Later \cup {"exit"} /\ stage' # "annotate"
    BY <1>1 DEF Later, Looping
  <2>2. QED
    BY <1>1, <1>2, <2>1, Moves DEF list
<1>4. ModeInv'
  BY <1>1, <1>2 DEF ModeInv, Started, Looping
<1>5. ExitInv'
  BY <1>1, <1>2 DEF ExitInv, CleanExit, Looping
<1>6. QED
  BY <1>3, <1>4, <1>5

LEMMA CloseLogsKeeps == MainInv /\ CloseLogs => MainInv'
<1> SUFFICES ASSUME MainInv, CloseLogs PROVE MainInv'
  OBVIOUS
<1> USE DEF MainInv
<1>1. /\ stage = "close" /\ stage' = "exit" /\ items' = <<>> /\ exitStatus' = exitStatus
      /\ UNCHANGED <<args, at, resolved, input, settings, color, src, notes, ran>>
      /\ logs' = logs \ ((IF settings.csv THEN {"csv"} ELSE {})
                          \cup (IF settings.jsonFile THEN {"json"} ELSE {}))
  BY DEF CloseLogs, FreeExit, Exit
<1>2. stage \notin Early /\ ran # "none" /\ logs' = {} /\ exitStatus \in {0, 1}
  BY <1>1 DEF Early, ExitInv
<1>3. TypeInv' /\ ListInv' /\ SourceInv' /\ NotesInv'
  <2>1. stage' \notin Later
    BY <1>1 DEF Later, Looping
  <2>2. QED
    BY <1>1, <1>2, <2>1, Moves
<1>4. ModeInv'
  BY <1>1 DEF ModeInv, Started, Looping
<1>5. ExitInv'
  BY <1>1, <1>2 DEF ExitInv, CleanExit, Looping
<1>6. QED
  BY <1>3, <1>4, <1>5

LEMMA ArgumentsKeeps == MainInv /\ Arguments => MainInv'
<1> SUFFICES ASSUME MainInv, Arguments PROVE MainInv'
  OBVIOUS
<1> USE DEF MainInv
<1> DEFINE r == ProcessArguments(input.argv, input.files, input.home)
<1>1. /\ stage = "arguments" /\ UNCHANGED <<list, input, src, notes, ran, logs>>
      /\ \/ r.status = "ok" /\ settings' = r.settings /\ stage' = "interface" /\ exitStatus' = exitStatus
         \/ /\ r.status # "ok" /\ settings' = settings /\ stage' = "exit"
            /\ exitStatus' = IF r.status = "help" THEN 0 ELSE 1
  BY DEF Arguments, Exit
<1>2. /\ stage \in Early /\ logs = {} /\ stage' \in {"interface", "exit"} /\ input \in Inputs
      /\ stage' \notin Later /\ input' = input
  BY <1>1 DEF Early, ExitInv, Later, Looping, TypeInv
<1>3. /\ r.status = "ok" => SettingsType(r.settings) /\ Acceptable(r.settings)
      /\ r.status = "help" => HelpUpTo(input.argv, Len(input.argv))
  BY <1>2, Processed
<1> HIDE DEF r
<1>4. TypeInv'
  BY <1>1, <1>2 DEF TypeInv, list, Early
<1>5. ListInv'
  BY <1>1, <1>2, ListSame DEF list, Early, Building
<1>6. ModeInv'
  <2>1. SettingsType(settings')
    BY <1>1, <1>3 DEF ModeInv
  <2>2. Started' => Acceptable(settings')
    BY <1>1, <1>3 DEF Started
  <2>3. QED
    BY <1>2, <2>1, <2>2 DEF ModeInv, Looping
<1>7. SourceInv'
  BY <1>2 DEF SourceInv, Started
<1>8. NotesInv'
  <2>1. notes' = <<>>
    BY <1>1, <1>2 DEF NotesInv, Early, Later, Looping
  <2>2. notes' \in Seq(ToSet(notes'))
    BY <2>1, Empty
  <2>3. AnnotationsMatch'
    BY <1>2 DEF AnnotationsMatch, Later, Looping
  <2>4. QED
    BY <1>2, <2>1, <2>2, <2>3 DEF NotesInv, Later
<1>9. ExitInv'
  <2>1. exitStatus' \in {0, 1} /\ logs' = {} /\ resolved' = 0
    BY <1>1, <1>2 DEF ExitInv, ListInv, list, Early
  <2>2. stage' = "exit" /\ exitStatus' = 0 => Helped' # {}
    <3>1. SUFFICES ASSUME stage' = "exit", exitStatus' = 0 PROVE Helped' # {}
      OBVIOUS
    <3>2. Helped # {}
      BY <1>1, <1>2, <1>3, <3>1, GivenHelp
    <3>3. Helped' = Helped
      BY <1>2 DEF Helped, Given, IsRead, Before, argv
    <3>4. QED
      BY <3>2, <3>3
  <2>3. CleanExit'
    BY <2>1, <2>2 DEF CleanExit, Helped
  <2>4. QED
    BY <1>2, <2>1, <2>3 DEF ExitInv, Looping
<1>10. QED
  BY <1>4, <1>5, <1>6, <1>7, <1>8, <1>9

LEMMA UseInterfaceKeeps == MainInv /\ UseInterface => MainInv'
<1> SUFFICES ASSUME MainInv, UseInterface PROVE MainInv'
  OBVIOUS
<1> USE DEF MainInv
<1>1. /\ stage = "interface"
      /\ UNCHANGED <<input, settings, color, items, at, resolved, notes, logs>>
      /\ \/ stage' = "http" /\ ran' = "http" /\ args' = args /\ settings.httpUrl # Null
            /\ exitStatus' = exitStatus
         \/ stage' = "matrix" /\ args' = TargetArgs(settings) /\ exitStatus' = exitStatus
         \/ stage' = "exit" /\ exitStatus' = 1 /\ args' = args
  BY DEF UseInterface, Proceed, Exit
<1>2. /\ settings.interface \notin DOMAIN Literal \cup {Null} =>
            src' = SourceOf(settings.interface, input.addrs) /\ (src' = NoSource => stage' = "exit")
  BY DEF UseInterface, Exit
<1>3. /\ stage \in Early /\ logs = {} /\ stage' \in {"http", "matrix", "exit"} /\ input \in Inputs
      /\ stage' \notin Later /\ input' = input
  BY <1>1 DEF Early, ExitInv, Later, Looping, TypeInv
<1>4. TypeInv'
  <2>1. ArgsType(args')
    <3>1. ArgsType(args)
      BY DEF TypeInv, ArgsType
    <3>2. ArgsType(TargetArgs(settings))
      BY ArgsFit DEF ModeInv
    <3>3. QED
      BY <1>1, <3>1, <3>2
  <2>2. stage' \in Early \cup Building \cup {"exit"} /\ stage' \notin {"specs", "file", "resolve", "annotate"}
    BY <1>3 DEF Early, Building
  <2>3. QED
    BY <1>1, <2>1, <2>2 DEF TypeInv, ArgsType
<1>5. ListInv'
  BY <1>1, <1>3, ListSame DEF Early, Building
<1>6. ModeInv'
  <2>1. Started
    BY <1>1 DEF Started
  <2>2. QED
    BY <1>1, <1>3, <2>1 DEF ModeInv, Looping
<1>7. SourceInv'
  <2>1. CASE settings.interface \in DOMAIN Literal \cup {Null} \/ stage' = "exit"
    BY <1>1, <2>1 DEF SourceInv, Started
  <2>2. CASE settings.interface \notin DOMAIN Literal \cup {Null} /\ stage' # "exit"
    <3> DEFINE mine == {a \in ToSet(input.addrs) : a.name = settings.interface}
    <3>1. src' # NoSource /\ SourceUpTo(src', mine)
      BY <1>2, <1>3, <2>2, SourceFits
    <3>2. SourceIs(src', mine)
      <4> HIDE DEF mine
      <4>1. {src'.v4, src'.v6} \ {Null} \subseteq {a.addr : a \in mine}
        BY <3>1 DEF SourceUpTo
      <4>2. \A a, b \in mine : a.addr = src'.v6 /\ a.linkLocal /\ b.family = "v6" => b.linkLocal
        BY <3>1 DEF SourceUpTo
      <4>3. QED
        BY <3>1, <4>1, <4>2 DEF SourceIs
    <3>3. mine' = mine
      BY <1>1
    <3>4. QED
      BY <3>2, <3>3 DEF SourceInv, SourceIs
  <2>3. QED BY <2>1, <2>2
<1>8. NotesInv'
  <2>1. notes' = <<>>
    BY <1>1, <1>3 DEF NotesInv, Early, Later, Looping
  <2>2. notes' \in Seq(ToSet(notes'))
    BY <2>1, Empty
  <2>3. AnnotationsMatch'
    BY <1>3 DEF AnnotationsMatch, Later, Looping
  <2>4. QED
    BY <1>3, <2>1, <2>2, <2>3 DEF NotesInv, Later
<1>9. ExitInv'
  <2>1. /\ exitStatus' \in {0, 1} /\ logs' = {} /\ resolved' = 0
        /\ (stage' = "exit" => exitStatus' = 1) /\ (stage' = "http" => ran' # "none")
    BY <1>1, <1>3 DEF ExitInv, ListInv, Early
  <2>2. CleanExit'
    BY <2>1 DEF CleanExit
  <2>3. QED
    BY <1>3, <2>1, <2>2 DEF ExitInv, Looping
<1>10. QED
  BY <1>4, <1>5, <1>6, <1>7, <1>8, <1>9

LEMMA TargetsStepKeeps == MainInv /\ TargetsStep => MainInv'
<1> SUFFICES ASSUME MainInv, TargetsStep PROVE MainInv'
  OBVIOUS
<1> USE DEF MainInv
<1> DEFINE P == Building \cup {"resolve"}
<1>1. UNCHANGED <<input, settings, color, src, notes, ran, logs, exitStatus>> /\ (Build \/ ResolveOne)
  BY DEF TargetsStep, own
<1>2. /\ stage \in P /\ stage' \in P /\ args' = args /\ items' \in Seq(Entry) /\ resolved' \in Nat
      /\ stage' \in {"specs", "file", "resolve"} => at' \in Nat \ {0}
      /\ ListInv'
  <2>1. CASE Build
    <3>1. /\ items' \in Seq(Entry) /\ ToSet(items') \subseteq Fresh
          /\ stage \in Building /\ stage' \in Building \cup {"resolve"}
          /\ stage' = "resolve" => items' # <<>>
          /\ stage' \in {"specs", "file", "resolve"} => at' \in Nat \ {0}
          /\ resolved' = resolved /\ args' = args
      BY <2>1, BuildKeeps
    <3>2. ListInv'
      BY <3>1, ListMade
    <3>3. QED
      BY <3>1, <3>2 DEF TypeInv
  <2>2. CASE ResolveOne
    <3>1. stage = "resolve" /\ stage' = stage /\ args' = args
      BY <2>2 DEF ResolveOne
    <3>2. QED
      BY <2>2, <3>1, ResolveKeeps
  <2>3. QED BY <1>1, <2>1, <2>2
<1>3. /\ stage \notin Later \cup {"exit"} /\ stage' \notin Later \cup {"exit"}
      /\ stage \notin Early /\ stage' \notin Early /\ stage' # "annotate"
      /\ Started /\ stage # "interface"
  BY <1>2 DEF Building, Early, Later, Looping, Started
<1>4. TypeInv'
  BY <1>1, <1>2, <1>3 DEF TypeInv
<1>5. ModeInv'
  BY <1>1, <1>3 DEF ModeInv, Later, Early
<1>6. SourceInv'
  BY <1>1, <1>3 DEF SourceInv
<1>7. NotesInv'
  <2>1. AnnotationsMatch'
    BY <1>3 DEF AnnotationsMatch, Later, Looping
  <2>2. QED
    BY <1>1, <1>3, <2>1 DEF NotesInv, Later
<1>8. ExitInv'
  BY <1>1, <1>3 DEF ExitInv, CleanExit, Later, Looping, Early
<1>9. QED
  BY <1>2, <1>4, <1>5, <1>6, <1>7, <1>8

LEMMA ResolvedKeeps == MainInv /\ Resolved => MainInv'
<1> SUFFICES ASSUME MainInv, Resolved PROVE MainInv'
  OBVIOUS
<1> USE DEF MainInv
<1>1. /\ stage = "resolve" /\ UNCHANGED <<args, resolved, input, settings, color, src, notes, ran, logs>>
      /\ \/ resolved = 0 /\ stage' = "exit" /\ exitStatus' = 1 /\ items' = <<>>
         \/ resolved # 0 /\ stage' = "annotate" /\ at' = 1 /\ items' = items /\ exitStatus' = exitStatus
  BY DEF Resolved, FreeExit, Exit
<1>2. /\ stage \notin Early /\ stage \notin Later \cup {"exit"} /\ stage' # "resolve"
      /\ logs = {} /\ notes = <<>> /\ items # <<>> /\ Started
  BY <1>1 DEF Early, Later, Looping, ExitInv, NotesInv, ListInv, Started
<1>3. CASE stage' = "exit"
  <2>1. stage' \notin Later
    BY <1>3 DEF Later, Looping
  <2>2. TypeInv' /\ ListInv' /\ SourceInv' /\ NotesInv'
    BY <1>1, <1>2, <1>3, <2>1, Moves
  <2>3. ModeInv'
    BY <1>1, <1>3 DEF ModeInv, Started, Looping
  <2>4. ExitInv'
    BY <1>1, <1>2, <1>3 DEF ExitInv, CleanExit, Looping
  <2>5. QED
    BY <2>2, <2>3, <2>4
<1>4. CASE stage' = "annotate"
  <2>1. /\ stage' \in Later /\ stage' \notin Early \cup Building /\ at' = 1 /\ items' = items
        /\ resolved # 0 /\ exitStatus' = exitStatus
    BY <1>1, <1>4 DEF Later, Early, Building
  <2>2. TypeInv'
    BY <1>1, <2>1 DEF TypeInv, Later
  <2>3. ListInv'
    <3>1. HostsAgree /\ Built
      BY <1>1, <1>2 DEF ListInv, Built
    <3>2. resolved = Cardinality({j \in DOMAIN items : items[j].ok})
      BY <3>1 DEF HostsAgree
    <3>3. {j \in DOMAIN items : items[j].ok} # {}
      BY <2>1, <3>2, FS_EmptySet
    <3>4. \E t \in ToSet(items) : t.ok
      BY <3>3 DEF ToSet
    <3>5. HostsAgree'
      BY <1>1, <2>1, <3>1 DEF HostsAgree, Built
    <3>6. QED
      BY <1>4, <2>1, <3>4, <3>5 DEF ListInv, Early, Building
  <2>4. ModeInv'
    BY <1>1, <1>2, <1>4 DEF ModeInv, Started, Looping
  <2>5. SourceInv'
    BY <1>1, <1>2 DEF SourceInv
  <2>6. NotesInv'
    <3>1. DOMAIN notes' = {} /\ Len(notes') = 0
      BY <1>1, <1>2
    <3>2. AnnotationsMatch'
      BY <3>1 DEF AnnotationsMatch
    <3>3. QED
      BY <1>1, <2>1, <3>1, <3>2 DEF NotesInv
  <2>7. ExitInv'
    BY <1>1, <1>2, <1>4, <2>1 DEF ExitInv, CleanExit, Looping
  <2>8. QED
    BY <2>2, <2>3, <2>4, <2>5, <2>6, <2>7
<1>5. QED
  BY <1>1, <1>3, <1>4

LEMMA AnnotateStepKeeps == MainInv /\ Annotate => MainInv'
<1> SUFFICES ASSUME MainInv, Annotate PROVE MainInv'
  OBVIOUS
<1> USE DEF MainInv
<1>1. /\ stage = "annotate" /\ stage' \in {"annotate", "mode"}
      /\ UNCHANGED <<args, items, resolved, input, settings, color, src, ran, logs, exitStatus>>
  BY DEF Annotate
<1>2. /\ stage \in Later /\ stage' \in Later /\ stage' \notin Early \cup Building
      /\ stage' # "resolve" /\ logs = {} /\ Started
  BY <1>1 DEF Later, Looping, Early, Building, ExitInv, Started
<1>3. NotesInv' /\ (stage' = "annotate" => at' \in Nat \ {0})
  BY AnnotateKeeps
<1>4. TypeInv'
  BY <1>1, <1>2, <1>3 DEF TypeInv
<1>5. ListInv'
  BY <1>1, <1>2, ListSame
<1>6. ModeInv'
  BY <1>1, <1>2 DEF ModeInv, Looping
<1>7. SourceInv'
  BY <1>1, <1>2 DEF SourceInv
<1>8. ExitInv'
  BY <1>1, <1>2 DEF ExitInv, CleanExit, Looping
<1>9. QED
  BY <1>3, <1>4, <1>5, <1>6, <1>7, <1>8

LEMMA MainStutters == MainInv /\ UNCHANGED mainVars => MainInv'
<1> SUFFICES ASSUME MainInv, UNCHANGED mainVars PROVE MainInv'
  OBVIOUS
<1> USE DEF MainInv, mainVars, list, own
<1>1. TypeInv'
  BY DEF TypeInv
<1>2. ListInv'
  BY DEF ListInv, HostsAgree, Built
<1>3. ModeInv'
  BY DEF ModeInv, Started
<1>4. SourceInv'
  BY DEF SourceInv, Started
<1>5. NotesInv'
  BY DEF NotesInv, AnnotationsMatch
<1>6. ExitInv'
  BY DEF ExitInv, CleanExit, Given, IsRead, Before, argv
<1>7. QED
  BY <1>1, <1>2, <1>3, <1>4, <1>5, <1>6

(* MainInv is an inductive invariant of a run. *)
THEOREM MainIsInductive == MainSpec => []MainInv
<1>1. MainInit => MainInv
  BY MainInit_
<1>2. MainInv /\ [MainNext]_mainVars => MainInv'
  BY ArgumentsKeeps, UseInterfaceKeeps, TargetsStepKeeps, BuildFailedKeeps, ResolvedKeeps,
     AnnotateStepKeeps, ChooseModeKeeps, ModeReturnsKeeps, OpenCsvKeeps, OpenJsonKeeps,
     LoopReturnsKeeps, CloseLogsKeeps, MainStutters DEF MainNext
<1>3. QED
  BY <1>1, <1>2, PTL DEF MainSpec

(* Targets of one host have the same addresses, however often the name server
   is asked and whatever it answers. *)
THEOREM HostsDoAgree == MainSpec => []HostsAgree
<1>1. MainInv => HostsAgree
  BY DEF MainInv, ListInv
<1>2. QED
  BY <1>1, MainIsInductive, PTL

(* An annotation is about the first address of its target. *)
THEOREM NotesMatch == MainSpec => []AnnotationsMatch
<1>1. MainInv => AnnotationsMatch
  BY DEF MainInv, NotesInv
<1>2. QED
  BY <1>1, MainIsInductive, PTL

(* However a run ends, its files are closed, its list is freed and its exit
   status is that of a mode. *)
THEOREM ExitIsClean == MainSpec => []CleanExit
<1>1. MainInv => CleanExit
  BY DEF MainInv, ExitInv
<1>2. QED
  BY <1>1, MainIsInductive, PTL

(* What a mode relies on holds when it is started. *)
THEOREM ModesAreSound == MainSpec => []ModeSound
<1>1. MainInv => ModeSound
  <2> SUFFICES ASSUME MainInv PROVE ModeSound
    OBVIOUS
  <2> USE DEF MainInv
  <2>1. /\ settings.duration = 0 \/ Within(settings.duration, 1000, 3600000)
        /\ Within(settings.maxHops, 1, 255) /\ Within(settings.queries, 1, 10)
        /\ Within(settings.concurrency, 1, 256)
    BY BoundsFit DEF ModeInv
  <2>2. Started => /\ Cardinality(Modes(settings)) <= 1
                   /\ settings.loadTest \/ settings.resilience => settings.duration # 0
    BY DEF ModeInv, Acceptable
  <2>3. stage \in {"trace", "load", "loop"} => Cardinality(Modes(settings)) <= 1
    BY <2>2 DEF Started
  <2>4. stage = "http" => items = <<>> /\ settings.httpUrl # Null
    BY DEF ListInv, ModeInv, Early
  <2>5. stage \in Later => \E t \in ToSet(items) : t.ok
    BY DEF ListInv
  <2>6. stage \in {"trace", "load"} => Len(items) = 1 /\ items[1].ok
    <3>1. SUFFICES ASSUME stage \in {"trace", "load"} PROVE Len(items) = 1 /\ items[1].ok
      OBVIOUS
    <3>2. Len(items) = 1 /\ stage \in Later
      BY <3>1 DEF ModeInv, Later
    <3>3. DOMAIN items = {1}
      BY <3>2 DEF TypeInv
    <3>4. QED
      BY <2>5, <3>2, <3>3 DEF ToSet
  <2>7. stage = "load" => Within(settings.duration, 1000, 3600000)
    <3>1. SUFFICES ASSUME stage = "load" PROVE settings.duration # 0
      BY <2>1, SMT
    <3>2. Started /\ (settings.loadTest \/ settings.resilience)
      BY <3>1 DEF ModeInv, Started
    <3>3. QED
      BY <2>2, <3>2
  <2>8. stage = "loop" => /\ \E t \in ToSet(items) : t.ok
                          /\ ~settings.traceroute /\ ~settings.loadTest /\ ~settings.resilience
    BY <2>5 DEF ModeInv, Later, Looping
  <2>9. QED
    BY <2>1, <2>3, <2>4, <2>6, <2>7, <2>8, SMT DEF ModeSound
<1>2. QED
  BY <1>1, MainIsInductive, PTL

-----------------------------------------------------------------------------
(* What each text of the command line does to the settings: the last one    *)
(* that assigns a field decides, and the hosts are kept in their order.     *)

(* The texts that assign a field, and what they assign. *)
ByValue(a, k, f) ==
  /\ k > 1 /\ IsOption(a, k - 1)
  /\ \/ a[k - 1] \in DOMAIN NumberOption /\ NumberOption[a[k - 1]].field = f
     \/ a[k - 1] \in DOMAIN TextOption /\ TextOption[a[k - 1]] = f
BySwitch(a, k, f) == IsOption(a, k) /\ a[k] \in DOMAIN Switch /\ f \in Switch[a[k]]
Assigns(a, k, f) == ByValue(a, k, f) \/ BySwitch(a, k, f)
Assigned(a, k, f) ==
  IF BySwitch(a, k, f) THEN f # "useColor"
  ELSE IF a[k - 1] \in DOMAIN TextOption THEN a[k]
  ELSE Number[a[k]] * NumberOption[a[k - 1]].unit
IsHost(a, k) == IsOption(a, k) /\ a[k] \notin TakesValue \cup DOMAIN Switch

DoesStep(q, r, a, k) ==
  /\ DOMAIN q = DOMAIN r
  /\ \A f \in DOMAIN r \ Lists :
       q[f] = IF Assigns(a, k, f) THEN Assigned(a, k, f) ELSE r[f]
  /\ q.hosts = IF IsHost(a, k) THEN Append(r.hosts, a[k]) ELSE r.hosts

LEMMA SwitchNames ==
  DOMAIN Switch = {"--concurrent", "--resolve", "--quiet", "--audible", "--csv", "--json-file",
                   "--json", "--prometheus", "--color", "--no-color", "--monitor", "--load-test",
                   "--resilience", "--traceroute", "--no-config"}
BY SMT DEF Switch, Table

(* The options with a value are no switches. *)
LEMMA NamesDiffer ==
  /\ \A o \in DOMAIN TextOption : o \notin DOMAIN NumberOption \cup DOMAIN Switch
  /\ \A o \in TakesValue : o \notin DOMAIN Switch
  /\ {"--config", "--target"} \cap (DOMAIN TextOption \cup DOMAIN NumberOption) = {}
  /\ {"--help", "--version"} \cap (TakesValue \cup DOMAIN Switch) = {}
<1>1. \A o \in DOMAIN TextOption : o \notin DOMAIN NumberOption
  BY OptionNames, SMT
<1>2. \A o \in DOMAIN TextOption : o \notin DOMAIN Switch
  BY OptionNames, SwitchNames, SMT
<1>3. \A o \in DOMAIN NumberOption : o \notin DOMAIN Switch
  BY OptionNames, SwitchNames, SMT
<1>4. "--config" \notin DOMAIN Switch /\ "--target" \notin DOMAIN Switch
  BY SwitchNames, SMT
<1>5. {"--config", "--target"} \cap (DOMAIN TextOption \cup DOMAIN NumberOption) = {}
  BY OptionNames, SMT
<1>6. {"--help", "--version"} \cap DOMAIN Switch = {}
  BY SwitchNames, SMT
<1>7. {"--help", "--version"} \cap TakesValue = {}
  BY OptionNames, SMT DEF TakesValue
<1>8. QED
  BY <1>1, <1>2, <1>3, <1>4, <1>5, <1>6, <1>7 DEF TakesValue

(* What the options with a value assign, and what a switch does. *)
TextRow(f) == f \in {"portSpec", "protoSpec", "targetsFile", "interface", "httpUrl", "httpMethod"}

LEMMA TextFields == \A opt \in DOMAIN TextOption : TextRow(TextOption[opt])
<1> DEFINE P == {
    <<"--port", "portSpec">>, <<"--protocol", "protoSpec">>, <<"--targets", "targetsFile">>,
    <<"--interface", "interface">>, <<"--http", "httpUrl">>, <<"--http-method", "httpMethod">>}
<1>1. TextOption = Table(P)
  BY SMT DEF TextOption
<1>2. \A p \in P : TextRow(p[2])
  BY SMT DEF TextRow
<1> HIDE DEF P
<1>3. QED
  BY <1>1, <1>2, TableIs, SMT

LEMMA NumberFields == \A opt \in DOMAIN NumberOption : NumberOption[opt].field \in Numbers
<1> SUFFICES ASSUME NEW opt \in DOMAIN NumberOption PROVE NumberOption[opt].field \in Numbers
  OBVIOUS
<1>1. PICK P : NumberOption = Table(P) /\ \A p \in P : p[2].field \in Numbers
  <2> DEFINE P == {
         <<"--timeout",     Numeric("timeout", <<1, 3600000>>, 1)>>,
         <<"--count",       Numeric("count", <<-1, 2147483647>>, 1)>>,
         <<"--deadline",    Numeric("deadline", <<1, 86400000>>, 1)>>,
         <<"--rate",        Numeric("rate", <<0, 3600000>>, 1)>>,
         <<"--tos",         Numeric("tos", <<0, 255>>, 1)>>,
         <<"--dscp",        Numeric("tos", <<0, 63>>, 4)>>,
         <<"--http-status", Numeric("httpStatus", <<100, 599>>, 1)>>,
         <<"--max-hops",    Numeric("maxHops", <<1, 255>>, 1)>>,
         <<"--queries",     Numeric("queries", <<1, 10>>, 1)>>,
         <<"--concurrency", Numeric("concurrency", <<1, 256>>, 1)>>,
         <<"--duration",    Numeric("duration", <<1, 3600>>, 1000)>>}
  <2>1. NumberOption = Table(P)
    BY SMT DEF NumberOption
  <2>2. \A p \in P : p[2].field \in Numbers
    BY SMT DEF Numbers, Numeric
  <2>3. QED
    BY <2>1, <2>2, SMT
<1>2. QED
  BY <1>1, TableIs, SMT

LEMMA OverSays ==
  ASSUME NEW s, NEW change
  PROVE  /\ DOMAIN Over(change, s) = DOMAIN s
         /\ \A f \in DOMAIN s : Over(change, s)[f] = IF f \in DOMAIN change THEN change[f] ELSE s[f]
BY DEF Over

(* The value of an option assigns the field of this option. *)
LEMMA ValueDoes ==
  ASSUME NEW a, NEW k \in Nat \ {0}, NEW r, ReadInv(r, a, k - 1),
         r.status = "reading", r.wants # Null,
         NEW q, q = ReadValue(r, a[k]), q.status = "reading"
  PROVE  DoesStep(q.settings, r.settings, a, k)
<1> DEFINE text == a[k]
           opt == r.wants
           s == r.settings
           set(change) == [r EXCEPT !.wants = Null, !.settings = Over(change, s)]
           fail == [r EXCEPT !.status = "error"]
<1>1. k - 1 # 0 /\ IsOption(a, k - 1) /\ a[k - 1] \in TakesValue /\ opt = a[k - 1]
  BY DEF ReadInv, Wanted
<1>2. ~IsOption(a, k) /\ k > 1
  <2>1. k - 1 \in Nat \ {0} /\ (k - 1) + 1 = k
    BY <1>1
  <2>2. QED
    BY <1>1, <2>1, OptionNext
<1>3. /\ DOMAIN r = {"settings", "wants", "status"} /\ SettingsType(s)
      /\ \A f : ~BySwitch(a, k, f)
      /\ ~IsHost(a, k)
  BY <1>2 DEF ReadInv, BySwitch, IsHost
<1>4. "hosts" \in DOMAIN s /\ "hosts" \in Lists
  BY <1>3 DEF SettingsType, Lists
<1>5. fail.status = "error"
  BY <1>3
<1>6. ASSUME NEW change, q = set(change), "hosts" \notin DOMAIN change,
             \A f \in DOMAIN s \ Lists : f \in DOMAIN change <=> Assigns(a, k, f),
             \A f \in DOMAIN s \ Lists : f \in DOMAIN change => change[f] = Assigned(a, k, f)
      PROVE  DoesStep(q.settings, s, a, k)
  <2> DEFINE o == Over(change, s)
  <2>1. q.settings = o
    <3> HIDE DEF o
    <3> QED BY <1>3, <1>6 DEF o
  <2>2. DOMAIN o = DOMAIN s /\ \A f \in DOMAIN s : o[f] = IF f \in DOMAIN change THEN change[f] ELSE s[f]
    BY OverSays
  <2> HIDE DEF o
  <2>3. QED
    BY <1>3, <1>4, <1>6, <2>1, <2>2 DEF DoesStep
<1>0. \A o \in {"--config", "--target"} : o \notin DOMAIN TextOption \cup DOMAIN NumberOption
  BY NamesDiffer
<1>7. CASE opt = "--config"
  <2>1. ReadValue(r, text) = set(<<>>)
    BY <1>0, <1>7, SMT DEF ReadValue
  <2>2. DOMAIN <<>> = {}
    BY SMT
  <2>3. \A f : ~Assigns(a, k, f)
    BY <1>1, <1>3, <1>7, NamesDiffer DEF Assigns, ByValue
  <2>4. QED
    BY <2>1, <2>2, <2>3, <1>6
<1>8. CASE opt = "--target"
  <2> DEFINE change == [specs |-> Append(s.specs, text)]
  <2>1. ReadValue(r, text) = IF Len(s.specs) >= MaxSpecs THEN fail ELSE set(change)
    BY <1>0, <1>8, SMT DEF ReadValue
  <2>2. DOMAIN change = {"specs"} /\ "specs" \in Lists
    BY DEF Lists
  <2>3. \A f : ~Assigns(a, k, f)
    BY <1>1, <1>3, <1>8, NamesDiffer DEF Assigns, ByValue
  <2> HIDE DEF change, fail
  <2>4. q = set(change)
    BY <2>1, <1>5
  <2>5. QED
    BY <2>2, <2>3, <2>4, <1>6
<1>9. CASE opt \in DOMAIN TextOption
  <2> DEFINE change == Setting(TextOption[opt], text)
  <2>1. opt \notin {"--config", "--target"} /\ opt \notin DOMAIN NumberOption
    BY <1>9, NamesDiffer
  <2>2. ReadValue(r, text) = set(change)
    BY <1>9, <2>1, SMT DEF ReadValue
  <2>3. DOMAIN change = {TextOption[opt]} /\ change[TextOption[opt]] = text
    BY DEF Setting
  <2>4. \A f : Assigns(a, k, f) <=> f = TextOption[opt]
    BY <1>1, <1>2, <1>3, <1>9, <2>1 DEF Assigns, ByValue
  <2>5. \A f : Assigned(a, k, f) = text
    BY <1>1, <1>3, <1>9 DEF Assigned
  <2>6. TextOption[opt] # "hosts"
    BY <1>9, TextFields, SMT DEF TextRow
  <2> HIDE DEF change
  <2>7. QED
    BY <2>2, <2>3, <2>4, <2>5, <2>6, <1>6
<1>10. CASE opt \in DOMAIN NumberOption
  <2> DEFINE o == NumberOption[opt]
             v == Number[text] * o.unit
             change == Setting(o.field, v)
  <2>1. opt \notin {"--config", "--target"} /\ opt \notin DOMAIN TextOption
    BY <1>10, NamesDiffer
  <2>2. ReadValue(r, text) = IF NumberIn(text, o.range) THEN set(change) ELSE fail
    BY <1>10, <2>1, SMT DEF ReadValue
  <2>3. DOMAIN change = {o.field} /\ change[o.field] = v
    BY DEF Setting
  <2>4. \A f : Assigns(a, k, f) <=> f = o.field
    BY <1>1, <1>2, <1>3, <1>10, <2>1 DEF Assigns, ByValue
  <2>5. \A f : Assigned(a, k, f) = v
    BY <1>1, <1>3, <2>1 DEF Assigned
  <2>6. o.field # "hosts"
    BY <1>10, NumberFields, SMT DEF Numbers
  <2> HIDE DEF change, fail, o, v
  <2>7. q = set(change)
    BY <2>2, <1>5
  <2> HIDE DEF set
  <2>8. "hosts" \notin DOMAIN change
    BY <2>3, <2>6
  <2>9. /\ \A f \in DOMAIN s \ Lists : f \in DOMAIN change <=> Assigns(a, k, f)
        /\ \A f \in DOMAIN s \ Lists : f \in DOMAIN change => change[f] = Assigned(a, k, f)
    BY <2>3, <2>4, <2>5
  <2>10. QED
    BY <2>7, <2>8, <2>9, <1>6
<1>11. QED
  BY <1>1, <1>7, <1>8, <1>9, <1>10 DEF TakesValue

(* So does an option without a value, and a host is appended. *)
LEMMA ArgDoes ==
  ASSUME NEW a, NEW k \in Nat \ {0}, NEW r, ReadInv(r, a, k - 1), a[k] \in Text,
         r.status = "reading", r.wants = Null, a[k - 1] \in Text \/ k = 1,
         NEW q, q = ReadArg(r, a[k]), q.status = "reading"
  PROVE  DoesStep(q.settings, r.settings, a, k)
<1> DEFINE text == a[k]
           s == r.settings
           fail == [r EXCEPT !.status = "error"]
           set(change) == [r EXCEPT !.settings = Over(change, s)]
<1>1. IsOption(a, k)
  <2>1. Wanted(a, k - 1) = Null
    BY DEF ReadInv
  <2>2. CASE k = 1
    BY <2>2, OptionNext
  <2>3. CASE k # 1
    <3>1. k - 1 \in Nat \ {0} /\ (k - 1) + 1 = k
      BY <2>3
    <3>2. ~(IsOption(a, k - 1) /\ a[k - 1] \in TakesValue)
      BY <2>1, <2>3, <3>1 DEF Wanted, Text
    <3>3. QED
      BY <3>1, <3>2, OptionNext
  <2>4. QED BY <2>2, <2>3
<1>2. \A f : ~ByValue(a, k, f)
  <2>1. ASSUME NEW f, ByValue(a, k, f) PROVE FALSE
    <3>1. k - 1 \in Nat \ {0} /\ (k - 1) + 1 = k /\ IsOption(a, k - 1) /\ a[k - 1] \in TakesValue
      BY <2>1 DEF ByValue, TakesValue
    <3>2. QED
      BY <1>1, <3>1, OptionNext
  <2>2. QED BY <2>1
<1>3. DOMAIN r = {"settings", "wants", "status"} /\ SettingsType(s)
  BY DEF ReadInv
<1>4. "hosts" \in DOMAIN s /\ "hosts" \in Lists
  BY <1>3 DEF SettingsType, Lists
<1>5. fail.status = "error"
  BY <1>3
<1>6. text \notin {"--help", "--version"}
  <2> DEFINE w == [r EXCEPT !.status = "help"]
  <2>1. w.status = "help"
    BY <1>3
  <2>2. text \in {"--help", "--version"} => ReadArg(r, text) = w
    BY DEF ReadArg
  <2> HIDE DEF w
  <2>3. QED BY <2>1, <2>2
<1>7. CASE text \in TakesValue
  <2> DEFINE w == [r EXCEPT !.wants = text]
  <2>1. ReadArg(r, text) = w
    BY <1>6, <1>7 DEF ReadArg
  <2>2. w.settings = s
    BY <1>3
  <2> HIDE DEF w
  <2>3. \A f : ~Assigns(a, k, f)
    BY <1>2, <1>7, NamesDiffer DEF Assigns, BySwitch
  <2>4. ~IsHost(a, k)
    BY <1>7 DEF IsHost
  <2>5. QED
    BY <2>1, <2>2, <2>3, <2>4 DEF DoesStep
<1>8. ASSUME NEW change, q = set(change)
      PROVE  /\ DOMAIN q.settings = DOMAIN s
             /\ \A f \in DOMAIN s : q.settings[f] = IF f \in DOMAIN change THEN change[f] ELSE s[f]
  <2> DEFINE o == Over(change, s)
  <2>1. q.settings = o
    <3> HIDE DEF o
    <3> QED BY <1>3, <1>8 DEF o
  <2>2. DOMAIN o = DOMAIN s /\ \A f \in DOMAIN s : o[f] = IF f \in DOMAIN change THEN change[f] ELSE s[f]
    BY OverSays
  <2> HIDE DEF o
  <2>3. QED BY <2>1, <2>2
<1>9. CASE text \notin TakesValue /\ text \in DOMAIN Switch
  <2> DEFINE change == Switched(text)
  <2>1. ReadArg(r, text) = set(change)
    BY <1>6, <1>9 DEF ReadArg
  <2>2. DOMAIN change = Switch[text] /\ \A f \in Switch[text] : change[f] = (f # "useColor")
    BY DEF Switched
  <2>3. \A f : Assigns(a, k, f) <=> f \in Switch[text]
    BY <1>1, <1>2, <1>9 DEF Assigns, BySwitch
  <2>4. \A f : f \in Switch[text] => Assigned(a, k, f) = (f # "useColor")
    BY <1>1, <1>9 DEF Assigned, BySwitch
  <2>5. "hosts" \notin Switch[text]
    <3>1. Switch[text] \subseteq Flags
      BY <1>9, SwitchFits
    <3>2. QED
      BY <3>1, SMT DEF Flags
  <2>6. ~IsHost(a, k)
    BY <1>9 DEF IsHost
  <2> HIDE DEF change, text
  <2>7. \A f \in DOMAIN s : q.settings[f] = IF f \in DOMAIN change THEN change[f] ELSE s[f]
    BY <2>1, <1>8 DEF text
  <2>8. \A f \in DOMAIN s : q.settings[f] = IF Assigns(a, k, f) THEN Assigned(a, k, f) ELSE s[f]
    BY <2>2, <2>3, <2>4, <2>7
  <2>9. q.settings["hosts"] = s["hosts"]
    BY <1>4, <2>2, <2>5, <2>7
  <2>10. DOMAIN q.settings = DOMAIN s
    BY <2>1, <1>8 DEF text
  <2>11. QED
    BY <2>6, <2>8, <2>9, <2>10 DEF DoesStep
<1>10. CASE text \notin TakesValue /\ text \notin DOMAIN Switch
  <2> DEFINE change == [hosts |-> Append(s.hosts, text)]
  <2>1. ReadArg(r, text) = IF text \in Dashed \/ Len(s.hosts) >= MaxHosts
                           THEN fail ELSE set(change)
    BY <1>6, <1>10 DEF ReadArg
  <2>2. DOMAIN change = {"hosts"} /\ change["hosts"] = Append(s.hosts, text)
    OBVIOUS
  <2> HIDE DEF change, fail
  <2>3. q = set(change)
    BY <2>1, <1>5
  <2>4. \A f : ~Assigns(a, k, f)
    BY <1>2, <1>10 DEF Assigns, BySwitch
  <2>5. IsHost(a, k)
    BY <1>1, <1>10 DEF IsHost
  <2>6. /\ DOMAIN q.settings = DOMAIN s
        /\ \A f \in DOMAIN s : q.settings[f] = IF f \in DOMAIN change THEN change[f] ELSE s[f]
    BY <2>3, <1>8
  <2>7. q.settings["hosts"] = Append(s.hosts, text)
    BY <1>4, <2>2, <2>6
  <2>8. \A f \in DOMAIN s \ Lists : q.settings[f] = s[f]
    BY <1>4, <2>2, <2>6
  <2>9. QED
    BY <2>4, <2>5, <2>6, <2>7, <2>8 DEF DoesStep
<1>11. QED
  BY <1>7, <1>9, <1>10

LEMMA TextDoes ==
  ASSUME NEW a, NEW n \in Nat, DOMAIN a = 1 .. n, \A i \in 1 .. n : a[i] \in Text,
         NEW k \in 1 .. n, NEW r, ReadInv(r, a, k - 1),
         NEW q, q = ReadText(r, a[k]), q.status = "reading"
  PROVE  r.status = "reading" /\ DoesStep(q.settings, r.settings, a, k)
<1>1. k \in Nat \ {0} /\ a[k] \in Text /\ (a[k - 1] \in Text \/ k = 1)
  <2>1. k = 1 \/ k - 1 \in 1 .. n
    OBVIOUS
  <2>2. QED BY <2>1
<1>2. r.status = "reading"
  BY DEF ReadText
<1>3. CASE r.wants # Null
  <2>1. q = ReadValue(r, a[k])
    BY <1>2, <1>3 DEF ReadText
  <2>2. QED
    BY <1>1, <1>2, <1>3, <2>1, ValueDoes
<1>4. CASE r.wants = Null
  <2>1. q = ReadArg(r, a[k])
    BY <1>2, <1>4 DEF ReadText
  <2>2. QED
    BY <1>1, <1>2, <1>4, <2>1, ArgDoes
<1>5. QED BY <1>3, <1>4

-----------------------------------------------------------------------------
(* What all texts up to k leave: in a field, what the last that assigns it   *)
(* assigned, or what was there; in the hosts, these in their order.         *)
LastSays(v, b, a, k, f) ==
  \/ v = b /\ \A i \in 1 .. k : ~Assigns(a, i, f)
  \/ \E i \in 1 .. k : /\ Assigns(a, i, f) /\ v = Assigned(a, i, f)
                       /\ \A j \in i + 1 .. k : ~Assigns(a, j, f)
HostsUpTo(a, k) == {i \in 1 .. k : IsHost(a, i)}
Rank(a, k) == Cardinality(HostsUpTo(a, k))
HostsAre(h, a, k) ==
  /\ h \in Seq(Text) /\ Len(h) = Rank(a, k)
  /\ \A i \in HostsUpTo(a, k) : h[Rank(a, i)] = a[i]
Left(s, b, a, k) ==
  /\ DOMAIN s = DOMAIN b
  /\ \A f \in DOMAIN b \ Lists : LastSays(s[f], b[f], a, k, f)
  /\ HostsAre(s.hosts, a, k)

Reads(r, b, a, k) == ReadInv(r, a, k) /\ (r.status = "reading" => Left(r.settings, b, a, k))

LEMMA LastNext ==
  ASSUME NEW a, NEW k \in Nat \ {0}, NEW f, NEW b, NEW v, LastSays(v, b, a, k - 1, f),
         NEW w, w = IF Assigns(a, k, f) THEN Assigned(a, k, f) ELSE v
  PROVE  LastSays(w, b, a, k, f)
<1>1. 1 .. k = (1 .. k - 1) \cup {k} /\ k + 1 .. k = {}
  OBVIOUS
<1>2. CASE Assigns(a, k, f)
  BY <1>1, <1>2 DEF LastSays
<1>3. CASE ~Assigns(a, k, f)
  <2>1. \A i \in 1 .. k - 1 : i + 1 .. k = (i + 1 .. k - 1) \cup {k}
    OBVIOUS
  <2>2. QED
    BY <1>1, <1>3, <2>1 DEF LastSays
<1>4. QED BY <1>2, <1>3

LEMMA RankNext ==
  ASSUME NEW a, NEW k \in Nat
  PROVE  /\ Rank(a, k) \in Nat /\ Rank(a, 0) = 0
         /\ k # 0 => Rank(a, k) = IF IsHost(a, k) THEN Rank(a, k - 1) + 1 ELSE Rank(a, k - 1)
         /\ \A i \in HostsUpTo(a, k) : Rank(a, i) \in 1 .. Rank(a, k)
<1>1. \A j \in Nat : IsFiniteSet(HostsUpTo(a, j))
  <2>1. ASSUME NEW j \in Nat PROVE IsFiniteSet(HostsUpTo(a, j))
    <3>1. IsFiniteSet(1 .. j) /\ HostsUpTo(a, j) \subseteq 1 .. j
      BY FS_Interval DEF HostsUpTo
    <3>2. QED
      BY <3>1, FS_Subset
  <2>2. QED BY <2>1
<1>2. \A j \in Nat : Rank(a, j) \in Nat
  BY <1>1, FS_CardinalityType DEF Rank
<1>3. Rank(a, 0) = 0
  <2>1. HostsUpTo(a, 0) = {}
    BY DEF HostsUpTo
  <2>2. QED
    BY <2>1, FS_EmptySet DEF Rank
<1>4. ASSUME k # 0
      PROVE  Rank(a, k) = IF IsHost(a, k) THEN Rank(a, k - 1) + 1 ELSE Rank(a, k - 1)
  <2>1. k - 1 \in Nat /\ k \notin 1 .. k - 1 /\ 1 .. k = (1 .. k - 1) \cup {k}
    BY <1>4
  <2>2. HostsUpTo(a, k) = IF IsHost(a, k) THEN HostsUpTo(a, k - 1) \cup {k} ELSE HostsUpTo(a, k - 1)
    BY <2>1 DEF HostsUpTo
  <2>3. k \notin HostsUpTo(a, k - 1)
    BY <2>1 DEF HostsUpTo
  <2>4. QED
    BY <1>1, <2>1, <2>2, <2>3, FS_AddElement DEF Rank
<1>5. ASSUME NEW i \in HostsUpTo(a, k) PROVE Rank(a, i) \in 1 .. Rank(a, k)
  <2>1. i \in Nat /\ i \in HostsUpTo(a, i) /\ HostsUpTo(a, i) \subseteq HostsUpTo(a, k)
    BY DEF HostsUpTo
  <2>2. Rank(a, i) <= Rank(a, k)
    BY <1>1, <2>1, FS_Subset DEF Rank
  <2>3. Rank(a, i) # 0
    BY <1>1, <2>1, FS_EmptySet DEF Rank
  <2>4. QED
    BY <1>2, <2>1, <2>2, <2>3
<1>6. QED
  BY <1>2, <1>3, <1>4, <1>5

LEMMA HostsNext ==
  ASSUME NEW a, NEW k \in Nat \ {0}, NEW h, HostsAre(h, a, k - 1), a[k] \in Text,
         NEW g, g = IF IsHost(a, k) THEN Append(h, a[k]) ELSE h
  PROVE  HostsAre(g, a, k)
<1>1. k - 1 \in Nat /\ k \in Nat /\ 1 .. k = (1 .. k - 1) \cup {k}
  OBVIOUS
<1>2. /\ Rank(a, k - 1) \in Nat
      /\ Rank(a, k) = IF IsHost(a, k) THEN Rank(a, k - 1) + 1 ELSE Rank(a, k - 1)
      /\ \A i \in HostsUpTo(a, k - 1) : Rank(a, i) \in 1 .. Rank(a, k - 1)
  BY <1>1, RankNext
<1>3. /\ h \in Seq(Text) /\ Len(h) = Rank(a, k - 1)
      /\ \A i \in HostsUpTo(a, k - 1) : h[Rank(a, i)] = a[i]
  BY DEF HostsAre
<1>4. CASE ~IsHost(a, k)
  <2>1. HostsUpTo(a, k) = HostsUpTo(a, k - 1)
    BY <1>1, <1>4 DEF HostsUpTo
  <2>2. QED
    BY <1>2, <1>3, <1>4, <2>1 DEF HostsAre
<1>5. CASE IsHost(a, k)
  <2>1. HostsUpTo(a, k) = HostsUpTo(a, k - 1) \cup {k}
    BY <1>1, <1>5 DEF HostsUpTo
  <2>2. /\ g \in Seq(Text) /\ Len(g) = Len(h) + 1 /\ g[Len(h) + 1] = a[k]
        /\ \A m \in 1 .. Len(h) : g[m] = h[m]
    BY <1>3, <1>5
  <2>3. ASSUME NEW i \in HostsUpTo(a, k) PROVE g[Rank(a, i)] = a[i]
    <3>1. CASE i = k
      BY <1>2, <1>3, <1>5, <2>2, <3>1
    <3>2. CASE i \in HostsUpTo(a, k - 1)
      BY <1>2, <1>3, <2>2, <3>2
    <3>3. QED
      BY <2>1, <3>1, <3>2
  <2>4. QED
    BY <1>2, <1>3, <1>5, <2>2, <2>3 DEF HostsAre
<1>6. QED BY <1>4, <1>5

LEMMA AllLeft ==
  ASSUME NEW a \in Seq(Text), NEW b, SettingsType(b), b.hosts = <<>>,
         NEW r, r = FoldLeft(ReadText, Reading(b), a), r.status = "reading"
  PROVE  Left(r.settings, b, a, Len(a))
<1> DEFINE n == Len(a)
           c == Reading(b)
<1>1. n \in Nat /\ DOMAIN a = 1 .. n /\ \A i \in 1 .. n : a[i] \in Text
  OBVIOUS
<1>2. ReadInv(c, a, 0)
  BY FirstRead
<1>3. c.settings = b
  BY DEF Reading
<1> HIDE DEF n, c
<1>4. PICK g : TextRun(g, c, a, n)
  BY <1>1, ReadsText
<1>5. /\ g[0] = c /\ r = g[n]
      /\ \A k \in 1 .. n : g[k] = ReadText(g[k - 1], a[k])
  BY <1>4 DEF TextRun, c
<1> DEFINE F == {k \in 0 .. n : Reads(g[k], b, a, k)}
<1>6. 0 \in F
  <2>1. HostsAre(<<>>, a, 0)
    <3>1. Rank(a, 0) = 0 /\ <<>> \in Seq(Text) /\ Len(<<>>) = 0 /\ HostsUpTo(a, 0) = {}
      BY RankNext, Empty DEF HostsUpTo
    <3>2. QED
      BY <3>1 DEF HostsAre
  <2>2. \A f : LastSays(b[f], b[f], a, 0, f)
    BY DEF LastSays
  <2>3. Left(b, b, a, 0)
    BY <2>1, <2>2 DEF Left
  <2>4. QED
    BY <1>1, <1>2, <1>3, <1>5, <2>3 DEF Reads
<1>7. ASSUME NEW k \in 1 .. n, k - 1 \in F PROVE k \in F
  <2>0. Reads(g[k - 1], b, a, k - 1)
    BY <1>7
  <2>1. ReadInv(g[k - 1], a, k - 1) /\ g[k] = ReadText(g[k - 1], a[k]) /\ k \in Nat \ {0}
    BY <1>1, <1>5, <2>0 DEF Reads
  <2>2. ReadInv(g[k], a, k)
    BY <1>1, <2>1, TextRead
  <2>3. ASSUME g[k].status = "reading" PROVE Left(g[k].settings, b, a, k)
    <3> DEFINE s == g[k - 1].settings
               t == g[k].settings
    <3>1. g[k - 1].status = "reading" /\ DoesStep(t, s, a, k)
      BY <1>1, <2>1, <2>3, TextDoes
    <3>2. Left(s, b, a, k - 1)
      BY <2>0, <3>1 DEF Reads
    <3> HIDE DEF s, t
    <3>3. ASSUME NEW f \in DOMAIN b \ Lists PROVE LastSays(t[f], b[f], a, k, f)
      <4>1. /\ LastSays(s[f], b[f], a, k - 1, f)
            /\ t[f] = IF Assigns(a, k, f) THEN Assigned(a, k, f) ELSE s[f]
        BY <3>1, <3>2 DEF Left, DoesStep
      <4>2. QED
        BY <2>1, <4>1, LastNext
    <3>4. HostsAre(t.hosts, a, k)
      <4>1. /\ HostsAre(s.hosts, a, k - 1) /\ a[k] \in Text
            /\ t.hosts = IF IsHost(a, k) THEN Append(s.hosts, a[k]) ELSE s.hosts
        BY <1>1, <3>1, <3>2 DEF Left, DoesStep
      <4>2. QED
        BY <2>1, <4>1, HostsNext
    <3>5. DOMAIN t = DOMAIN b
      BY <3>1, <3>2 DEF Left, DoesStep
    <3>6. QED
      BY <3>3, <3>4, <3>5 DEF Left, t
  <2>4. QED
    BY <1>1, <2>2, <2>3 DEF Reads
<1>8. n \in F
  <2> HIDE DEF F
  <2>1. \A k \in 0 .. n : k \in F
    BY <1>1, <1>6, <1>7, UpTo
  <2>2. QED BY <1>1, <2>1
<1>9. Reads(g[n], b, a, n)
  BY <1>8
<1>10. QED
  BY <1>5, <1>9 DEF n, Reads

-----------------------------------------------------------------------------
(* What the lines of the file leave, by the same argument.                 *)

LineSets(l, f) == l # <<>> /\ f \in DOMAIN KeyEffect(l[1], l[2])
FileSays(v, lines, k, f) ==
  \/ v = InitDefaults[f] /\ \A i \in 1 .. k : ~LineSets(lines[i], f)
  \/ \E i \in 1 .. k : /\ LineSets(lines[i], f) /\ v = KeyEffect(lines[i][1], lines[i][2])[f]
                       /\ \A j \in i + 1 .. k : ~LineSets(lines[j], f)
FileLeft(s, lines, k) ==
  /\ DOMAIN s = DOMAIN InitDefaults
  /\ \A f \in DOMAIN InitDefaults : FileSays(s[f], lines, k, f)

LEMMA FileNext ==
  ASSUME NEW lines, NEW k \in Nat \ {0}, NEW s, FileLeft(s, lines, k - 1)
  PROVE  FileLeft(ReadLine(s, lines[k]), lines, k)
<1> DEFINE l == lines[k]
           t == ReadLine(s, l)
           change == KeyEffect(l[1], l[2])
<1>1. /\ DOMAIN t = DOMAIN s
      /\ \A f \in DOMAIN s : t[f] = IF LineSets(l, f) THEN change[f] ELSE s[f]
  <2>1. CASE l = <<>>
    BY <2>1 DEF ReadLine, LineSets
  <2>2. CASE l # <<>>
    <3>1. t = Over(change, s)
      BY <2>2 DEF ReadLine
    <3> HIDE DEF t, change
    <3>2. /\ DOMAIN t = DOMAIN s
          /\ \A f \in DOMAIN s : t[f] = IF f \in DOMAIN change THEN change[f] ELSE s[f]
      BY <3>1, OverSays
    <3>3. QED
      BY <2>2, <3>2 DEF LineSets, change
  <2>3. QED BY <2>1, <2>2
<1>2. 1 .. k = (1 .. k - 1) \cup {k} /\ k + 1 .. k = {}
  OBVIOUS
<1> HIDE DEF t
<1>3. ASSUME NEW f \in DOMAIN InitDefaults PROVE FileSays(t[f], lines, k, f)
  <2>1. FileSays(s[f], lines, k - 1, f) /\ t[f] = IF LineSets(l, f) THEN change[f] ELSE s[f]
    BY <1>1 DEF FileLeft
  <2>2. CASE LineSets(l, f)
    BY <1>2, <2>1, <2>2 DEF FileSays
  <2>3. CASE ~LineSets(l, f)
    <3>1. \A i \in 1 .. k - 1 : i + 1 .. k = (i + 1 .. k - 1) \cup {k}
      OBVIOUS
    <3>2. t[f] = s[f]
      BY <2>1, <2>3
    <3>3. CASE s[f] = InitDefaults[f] /\ \A i \in 1 .. k - 1 : ~LineSets(lines[i], f)
      BY <1>2, <2>3, <3>2, <3>3 DEF FileSays
    <3>4. CASE \E i \in 1 .. k - 1 :
                 /\ LineSets(lines[i], f) /\ s[f] = KeyEffect(lines[i][1], lines[i][2])[f]
                 /\ \A j \in i + 1 .. k - 1 : ~LineSets(lines[j], f)
      <4>1. PICK i \in 1 .. k - 1 :
                 /\ LineSets(lines[i], f) /\ s[f] = KeyEffect(lines[i][1], lines[i][2])[f]
                 /\ \A j \in i + 1 .. k - 1 : ~LineSets(lines[j], f)
        BY <3>4
      <4>2. \A j \in i + 1 .. k : ~LineSets(lines[j], f)
        BY <2>3, <3>1, <4>1
      <4>3. QED
        BY <1>2, <3>2, <4>1, <4>2 DEF FileSays
    <3>5. QED
      BY <2>1, <3>3, <3>4 DEF FileSays
  <2>4. QED BY <2>2, <2>3
<1>4. QED
  BY <1>1, <1>3 DEF FileLeft, t

LEMMA FileIsLeft ==
  ASSUME NEW S, NEW lines \in Seq(S)
  PROVE  FileLeft(Config_Load(lines), lines, Len(lines))
<1> DEFINE n == Len(lines)
<1>1. n \in Nat /\ DOMAIN lines = 1 .. n
  OBVIOUS
<1> HIDE DEF n
<1>2. PICK g : LineRun(g, lines, n)
  BY <1>1, ReadsLines
<1>3. /\ g[0] = InitDefaults /\ Config_Load(lines) = g[n]
      /\ \A k \in 1 .. n : g[k] = ReadLine(g[k - 1], lines[k])
  BY <1>2 DEF LineRun
<1> DEFINE F == {k \in 0 .. n : FileLeft(g[k], lines, k)}
<1>4. FileLeft(g[0], lines, 0)
  <2> DEFINE b == InitDefaults
  <2>1. b = InitDefaults
    OBVIOUS
  <2> HIDE DEF b
  <2>2. \A f : FileSays(b[f], lines, 0, f)
    BY <2>1 DEF FileSays
  <2>3. QED
    BY <1>3, <2>1, <2>2 DEF FileLeft
<1>5. ASSUME NEW k \in 1 .. n, k - 1 \in F PROVE k \in F
  <2>1. FileLeft(g[k - 1], lines, k - 1) /\ g[k] = ReadLine(g[k - 1], lines[k]) /\ k \in Nat \ {0}
    BY <1>1, <1>3, <1>5
  <2>2. FileLeft(g[k], lines, k)
    BY <2>1, FileNext
  <2>3. QED BY <1>1, <2>2
<1>6. n \in F
  <2>0. 0 \in F
    BY <1>1, <1>4
  <2> HIDE DEF F
  <2>1. \A k \in 0 .. n : k \in F
    BY <1>1, <2>0, <1>5, UpTo
  <2>2. QED BY <1>1, <2>1
<1>7. QED
  BY <1>3, <1>6 DEF n

(* The effect of a key, one line for each kind of key. *)
SetsOnly(c, f, v) == DOMAIN c = {f} /\ c[f] = v
KeyForm(c, key, value) ==
  \/ key \in {"port", "protocol", "interface"} /\ SetsOnly(c, TextKey[key], value)
  \/ key \in {"timeout", "count", "rate", "deadline", "tos"} /\ SetsOnly(c, key, Number[value])
  \/ key = "color" /\ DOMAIN c = {"useColor", "forceColor"} /\ c["forceColor"] = Truth[value]
  \/ key = "json" /\ DOMAIN c = {"json", "useColor"} /\ c["json"] = Truth[value]
  \/ key \in BoolKey /\ SetsOnly(c, key, Truth[value])

LEMMA KeyForms ==
  ASSUME NEW key, NEW value, KeyAccepts(key, value)
  PROVE  KeyForm(KeyEffect(key, value), key, value)
<1> DEFINE c == KeyEffect(key, value)
<1>0. /\ DOMAIN TextKey = {"port", "protocol", "interface"}
      /\ DOMAIN NumberKey = {"timeout", "count", "rate", "deadline", "tos"}
  BY SMT DEF TextKey, NumberKey
<1>1. \A f, v : c = Setting(f, v) => SetsOnly(c, f, v)
  BY DEF Setting, SetsOnly
<1>2. CASE key \in DOMAIN TextKey
  <2>1. key \notin DOMAIN NumberKey /\ key \notin {"color", "json"}
    BY <1>0, <1>2, SMT
  <2>2. c = Setting(TextKey[key], value)
    BY <1>2, <2>1, SMT DEF KeyEffect
  <2> HIDE DEF c
  <2>3. SetsOnly(c, TextKey[key], value)
    BY <1>1, <2>2
  <2>4. QED
    BY <1>0, <1>2, <2>3, Zenon DEF KeyForm, c
<1>3. CASE key \in DOMAIN NumberKey
  <2>1. key \notin DOMAIN TextKey /\ key \notin {"color", "json"}
    BY <1>0, <1>3, SMT
  <2>2. c = Setting(key, Number[value])
    BY <1>3, <2>1, SMT DEF KeyEffect
  <2> HIDE DEF c
  <2>3. SetsOnly(c, key, Number[value])
    BY <1>1, <2>2
  <2>4. QED
    BY <1>0, <1>3, <2>3, Zenon DEF KeyForm, c
<1>4. CASE key \notin DOMAIN TextKey /\ key \notin DOMAIN NumberKey
  <2>1. key \in BoolKey \cup {"color"} /\ value \in DOMAIN Truth
    BY <1>4 DEF KeyAccepts
  <2>2. Truth[value] \in BOOLEAN
    BY <2>1, SettingsAssumption
  <2>3. CASE key = "color"
    <3> DEFINE e == [useColor |-> Truth[value], forceColor |-> Truth[value]]
    <3>1. c = e
      BY <1>4, <2>3, SMT DEF KeyEffect
    <3>2. DOMAIN e = {"useColor", "forceColor"} /\ e["forceColor"] = Truth[value]
      OBVIOUS
    <3> HIDE DEF e, c
    <3>3. QED
      BY <2>3, <3>1, <3>2, Zenon DEF KeyForm, c
  <2>4. CASE key = "json" /\ Truth[value]
    <3> DEFINE e == [json |-> TRUE, useColor |-> FALSE]
    <3>1. c = e
      BY <1>4, <2>4, SMT DEF KeyEffect
    <3>2. DOMAIN e = {"json", "useColor"} /\ e["json"] = TRUE
      OBVIOUS
    <3>3. Truth[value] = TRUE
      BY <2>2, <2>4
    <3> HIDE DEF e, c
    <3>4. QED
      BY <2>4, <3>1, <3>2, <3>3, Zenon DEF KeyForm, c
  <2>5. CASE key # "color" /\ ~(key = "json" /\ Truth[value])
    <3>1. c = Setting(key, Truth[value])
      BY <1>4, <2>5, SMT DEF KeyEffect
    <3> HIDE DEF c
    <3>2. SetsOnly(c, key, Truth[value]) /\ key \in BoolKey
      BY <1>1, <2>1, <2>5, <3>1
    <3>3. QED
      BY <3>2, Zenon DEF KeyForm, c
  <2>6. QED BY <2>3, <2>4, <2>5
<1>5. QED
  BY <1>2, <1>3, <1>4

(* So a field is the business of one key, the colour excepted. *)
OneKey(c, key, name, f, v) ==
  /\ f \in DOMAIN c <=> key = name
  /\ key = name => c[f] = v

LEMMA KeySays ==
  ASSUME NEW key, NEW value, KeyAccepts(key, value),
         NEW c, c = KeyEffect(key, value)
  PROVE  /\ \A f \in Numbers : OneKey(c, key, f, f, Number[value])
         /\ \A name \in DOMAIN TextKey : OneKey(c, key, name, TextKey[name], value)
         /\ \A name \in BoolKey : OneKey(c, key, name, name, Truth[value])
         /\ OneKey(c, key, "color", "forceColor", Truth[value])
         /\ "hosts" \notin DOMAIN c /\ "traceroute" \notin DOMAIN c
<1>1. KeyForm(c, key, value)
  BY KeyForms
<1>2. /\ DOMAIN TextKey = {"port", "protocol", "interface"}
      /\ TextKey["port"] = "portSpec" /\ TextKey["protocol"] = "protoSpec"
      /\ TextKey["interface"] = "interface"
  BY SMT DEF TextKey
<1>3. CASE key \in {"port", "protocol", "interface"} /\ SetsOnly(c, TextKey[key], value)
  BY <1>2, <1>3, SMT DEF SetsOnly, OneKey, Numbers, BoolKey
<1>4. CASE key \in {"timeout", "count", "rate", "deadline", "tos"} /\ SetsOnly(c, key, Number[value])
  BY <1>2, <1>4, SMT DEF SetsOnly, OneKey, Numbers, BoolKey
<1>5. CASE key = "color" /\ DOMAIN c = {"useColor", "forceColor"} /\ c["forceColor"] = Truth[value]
  BY <1>2, <1>5, SMT DEF OneKey, Numbers, BoolKey
<1>6. CASE key = "json" /\ DOMAIN c = {"json", "useColor"} /\ c["json"] = Truth[value]
  BY <1>2, <1>6, SMT DEF OneKey, Numbers, BoolKey
<1>7. CASE key \in BoolKey /\ SetsOnly(c, key, Truth[value])
  BY <1>2, <1>7, SMT DEF SetsOnly, OneKey, Numbers, BoolKey
<1>8. QED
  BY <1>1, <1>3, <1>4, <1>5, <1>6, <1>7 DEF KeyForm

-----------------------------------------------------------------------------
(* The last of the positions that count, in the words of the properties.   *)

(* The lines with a key, and the options among the texts. *)
LinesWith(lines, name) == {i \in DOMAIN lines : lines[i] # <<>> /\ lines[i][1] = name}
OptionsIn(a, opts) == {i \in DOMAIN a : IsOption(a, i) /\ a[i] \in opts}

(* What a line's value is for a field: a number, a truth value or a text. *)
ValueOf(kind, value) ==
  IF kind = "number" THEN Number[value] ELSE IF kind = "truth" THEN Truth[value] ELSE value
OnlyKey(kind, name, f) ==
  \A l \in Seq(Text) : l # <<>> /\ LineOk(l) =>
    OneKey(KeyEffect(l[1], l[2]), l[1], name, f, ValueOf(kind, l[2]))

LEMMA MaxUnique ==
  ASSUME NEW n \in Nat, NEW t, t \subseteq 1 .. n, NEW m \in t, \A x \in t : x <= m
  PROVE  Max(t) = m
<1>1. (1 .. n) \in SUBSET Nat /\ IsFiniteSet(1 .. n)
  BY Positions
<1>2. Max(t) \in t /\ \A x \in t : x <= Max(t)
  BY <1>1, MaxIn
<1>3. \A x \in t : x \in Nat
  OBVIOUS
<1> DEFINE top == Max(t)
<1>4. top \in t /\ m <= top
  BY <1>2
<1> HIDE DEF top
<1>5. top \in Nat /\ m \in Nat /\ m <= top /\ top <= m
  BY <1>3, <1>4
<1>6. top = m
  BY <1>5
<1>7. QED BY <1>6 DEF top

LEMMA FromFile ==
  ASSUME NEW lines \in Seq(Seq(Text)), \A l \in ToSet(lines) : LineOk(l),
         NEW kind, NEW name, NEW f, OnlyKey(kind, name, f),
         NEW v, FileSays(v, lines, Len(lines), f)
  PROVE  LET set == LinesWith(lines, name)
         IN v = IF set = {} THEN InitDefaults[f] ELSE ValueOf(kind, lines[Max(set)][2])
<1> DEFINE n == Len(lines)
           set == LinesWith(lines, name)
           b == InitDefaults[f]
<1>1. n \in Nat /\ DOMAIN lines = 1 .. n /\ \A i \in 1 .. n : lines[i] \in Seq(Text)
  OBVIOUS
<1>2. ASSUME NEW i \in 1 .. n
      PROVE  /\ LineSets(lines[i], f) <=> i \in set
             /\ i \in set => KeyEffect(lines[i][1], lines[i][2])[f] = ValueOf(kind, lines[i][2])
  <2> DEFINE l == lines[i]
  <2>1. LineOk(l) /\ l \in Seq(Text)
    BY <1>1 DEF ToSet
  <2>2. i \in set <=> l # <<>> /\ l[1] = name
    BY <1>1 DEF LinesWith
  <2>3. l # <<>> => OneKey(KeyEffect(l[1], l[2]), l[1], name, f, ValueOf(kind, l[2]))
    BY <2>1 DEF OnlyKey
  <2> HIDE DEF set, l
  <2>4. QED
    BY <2>2, <2>3 DEF OneKey, LineSets, l
<1>3. set \subseteq 1 .. n
  BY <1>1 DEF LinesWith
<1>4. FileSays(v, lines, n, f)
  OBVIOUS
<1> HIDE DEF n, set
<1>5. CASE v = InitDefaults[f] /\ \A i \in 1 .. n : ~LineSets(lines[i], f)
  <2>1. set = {}
    BY <1>2, <1>3, <1>5
  <2>2. QED
    BY <1>5, <2>1 DEF set
<1>6. CASE \E i \in 1 .. n : /\ LineSets(lines[i], f) /\ v = KeyEffect(lines[i][1], lines[i][2])[f]
                             /\ \A j \in i + 1 .. n : ~LineSets(lines[j], f)
  <2>1. PICK i \in 1 .. n : /\ LineSets(lines[i], f) /\ v = KeyEffect(lines[i][1], lines[i][2])[f]
                            /\ \A j \in i + 1 .. n : ~LineSets(lines[j], f)
    BY <1>6
  <2>2. i \in set /\ v = ValueOf(kind, lines[i][2])
    BY <1>2, <2>1
  <2>3. ASSUME NEW j \in set PROVE j <= i
    <3>1. j \in 1 .. n /\ LineSets(lines[j], f)
      BY <1>2, <1>3
    <3>2. j \notin i + 1 .. n
      BY <2>1, <3>1
    <3>3. QED
      BY <1>1, <3>1, <3>2
  <2>4. Max(set) = i
    BY <1>1, <1>3, <2>2, <2>3, MaxUnique
  <2>5. QED
    BY <2>2, <2>4 DEF set
<1>7. QED
  BY <1>4, <1>5, <1>6 DEF FileSays

(* A field that options with a value assign ... *)
LEMMA FromValue ==
  ASSUME NEW a \in Seq(Text), Wanted(a, Len(a)) = Null,
         NEW opts \in SUBSET TakesValue, NEW f,
         \A k \in 1 .. Len(a) : Assigns(a, k, f) <=>
           k > 1 /\ IsOption(a, k - 1) /\ a[k - 1] \in opts,
         NEW v, NEW b, LastSays(v, b, a, Len(a), f)
  PROVE  LET flags == OptionsIn(a, opts)
         IN IF flags = {} THEN v = b ELSE /\ Max(flags) + 1 \in 2 .. Len(a) /\ Max(flags) \in flags
                                          /\ v = Assigned(a, Max(flags) + 1, f)
<1> DEFINE n == Len(a)
           flags == OptionsIn(a, opts)
<1>1. n \in Nat /\ DOMAIN a = 1 .. n /\ \A i \in 1 .. n : a[i] \in Text
  OBVIOUS
<1>2. \A i \in flags : i \in 1 .. n /\ IsOption(a, i) /\ a[i] \in opts
  BY <1>1 DEF OptionsIn
<1>3. n \notin flags
  <2>1. SUFFICES ASSUME n \in flags PROVE FALSE
    OBVIOUS
  <2>2. n # 0 /\ n \in 1 .. n /\ IsOption(a, n) /\ a[n] \in TakesValue /\ a[n] # Null
    BY <1>1, <1>2, <2>1 DEF Text
  <2>3. Wanted(a, n) = a[n]
    BY <2>2 DEF Wanted
  <2>4. QED
    BY <2>2, <2>3
<1>4. \A k \in 1 .. n : Assigns(a, k, f) <=> k - 1 \in flags
  BY <1>1 DEF OptionsIn
<1>5. \A i \in flags : i + 1 \in 2 .. n /\ (i + 1) - 1 = i
  <2>1. SUFFICES ASSUME NEW i \in flags PROVE i + 1 \in 2 .. n /\ (i + 1) - 1 = i
    OBVIOUS
  <2>2. i \in 1 .. n /\ i # n /\ n \in Nat
    BY <1>1, <1>2, <1>3
  <2> HIDE DEF n, flags
  <2>3. QED
    BY <2>2
<1>6. LastSays(v, b, a, n, f) /\ flags \subseteq 1 .. n
  BY <1>2
<1> HIDE DEF n, flags
<1>7. CASE v = b /\ \A i \in 1 .. n : ~Assigns(a, i, f)
  <2>1. \A i \in flags : FALSE
    <3>1. SUFFICES ASSUME NEW i \in flags PROVE FALSE
      OBVIOUS
    <3>2. i + 1 \in 1 .. n /\ (i + 1) - 1 = i
      BY <1>1, <1>5
    <3>3. QED
      BY <1>4, <1>7, <3>2
  <2>2. QED
    BY <1>7, <2>1 DEF flags
<1>8. CASE \E i \in 1 .. n : /\ Assigns(a, i, f) /\ v = Assigned(a, i, f)
                             /\ \A j \in i + 1 .. n : ~Assigns(a, j, f)
  <2>1. PICK i \in 1 .. n : /\ Assigns(a, i, f) /\ v = Assigned(a, i, f)
                            /\ \A j \in i + 1 .. n : ~Assigns(a, j, f)
    BY <1>8
  <2>2. i - 1 \in flags
    BY <1>4, <2>1
  <2>3. ASSUME NEW j \in flags PROVE j <= i - 1
    <3>1. j + 1 \in 1 .. n /\ (j + 1) - 1 = j /\ j \in Nat
      BY <1>1, <1>5, <1>6
    <3>2. Assigns(a, j + 1, f)
      BY <1>4, <3>1
    <3>3. j + 1 \notin i + 1 .. n
      BY <2>1, <3>2
    <3>4. QED
      BY <1>1, <3>1, <3>3
  <2>4. Max(flags) = i - 1
    BY <1>1, <1>6, <2>2, <2>3, MaxUnique
  <2>5. (i - 1) + 1 = i /\ i \in 2 .. n
    BY <1>1, <1>5, <2>2
  <2>6. QED
    BY <2>1, <2>2, <2>4, <2>5 DEF flags, n
<1>9. QED
  BY <1>6, <1>7, <1>8 DEF LastSays

(* ... and one that switches assign, which always assign the same. *)
LEMMA FromSwitch ==
  ASSUME NEW a \in Seq(Text), NEW f,
         \A k \in 1 .. Len(a) : ~ByValue(a, k, f),
         NEW v, NEW b, LastSays(v, b, a, Len(a), f)
  PROVE  v = IF OptionsIn(a, {o \in DOMAIN Switch : f \in Switch[o]}) = {} THEN b
             ELSE f # "useColor"
<1> DEFINE n == Len(a)
           flags == OptionsIn(a, {o \in DOMAIN Switch : f \in Switch[o]})
<1>1. n \in Nat /\ DOMAIN a = 1 .. n
  OBVIOUS
<1>2. \A k \in 1 .. n : /\ BySwitch(a, k, f) <=> k \in flags
                        /\ Assigns(a, k, f) <=> k \in flags
  BY <1>1 DEF OptionsIn, BySwitch, Assigns
<1>3. \A k \in 1 .. n : k \in flags => Assigned(a, k, f) = (f # "useColor")
  BY <1>2 DEF Assigned
<1>4. flags \subseteq 1 .. n /\ LastSays(v, b, a, n, f)
  BY <1>1 DEF OptionsIn
<1> HIDE DEF n, flags
<1>5. CASE v = b /\ \A i \in 1 .. n : ~Assigns(a, i, f)
  <2>1. flags = {}
    BY <1>2, <1>4, <1>5
  <2>2. QED
    BY <1>5, <2>1 DEF flags
<1>6. CASE \E i \in 1 .. n : Assigns(a, i, f) /\ v = Assigned(a, i, f)
  <2>1. flags # {} /\ v = (f # "useColor")
    BY <1>2, <1>3, <1>6
  <2>2. QED
    BY <2>1 DEF flags
<1>7. QED
  BY <1>4, <1>5, <1>6 DEF LastSays

-----------------------------------------------------------------------------
(* What main is given: the settings of an input, in the words of            *)
(* SettingsSound and ColourSound.                                          *)

FileOf(i) ==
  LET path == SelectConfigPath(i.argv, i.home).path
  IN IF path \in DOMAIN i.files THEN i.files[path] ELSE <<>>

NumbersOf(s, i) ==
  \A field \in {NumberOption[o].field : o \in DOMAIN NumberOption} :
    LET flags == OptionsIn(i.argv, {o \in DOMAIN NumberOption : NumberOption[o].field = field})
        last == Max(flags)
        set == LinesWith(FileOf(i), field)
    IN s[field] = IF flags # {} THEN Number[i.argv[last + 1]] * NumberOption[i.argv[last]].unit
                  ELSE IF set # {} THEN Number[FileOf(i)[Max(set)][2]]
                  ELSE InitDefaults[field]
TextsOf(s, i) ==
  \A key \in DOMAIN TextKey :
    LET flags == OptionsIn(i.argv, {o \in DOMAIN TextOption : TextOption[o] = TextKey[key]})
        set == LinesWith(FileOf(i), key)
    IN s[TextKey[key]] =
         IF flags # {} THEN i.argv[Max(flags) + 1]
         ELSE IF set # {} THEN FileOf(i)[Max(set)][2]
         ELSE IF key = "protocol" /\ OptionsIn(i.argv, {"--traceroute"}) # {} THEN "ICMP" ELSE Null
SwitchesOf(s, i) ==
  \A key \in BoolKey :
    LET set == LinesWith(FileOf(i), key)
    IN s[key] <=> \/ OptionsIn(i.argv, {o \in DOMAIN Switch : key \in Switch[o]}) # {}
                  \/ set # {} /\ Truth[FileOf(i)[Max(set)][2]]
HostsOf(s, i) ==
  LET set == OptionsIn(i.argv, ToSet(i.argv) \ (TakesValue \cup DOMAIN Switch))
  IN /\ Len(s.hosts) = Cardinality(set)
     /\ \A x \in set : s.hosts[Cardinality({j \in set : j <= x})] = i.argv[x]
ColourOf(c, i) ==
  c => /\ OptionsIn(i.argv, {"--json", "--prometheus", "--no-color"}) = {}
       /\ i.noColor \/ ~i.tty =>
            LET set == LinesWith(FileOf(i), "color")
            IN \/ OptionsIn(i.argv, {"--color"}) # {}
               \/ set # {} /\ Truth[FileOf(i)[Max(set)][2]]
SettingsOf(s, i) == NumbersOf(s, i) /\ TextsOf(s, i) /\ SwitchesOf(s, i) /\ HostsOf(s, i)

(* The settings as the loop over argv leaves them. *)
Ended(q, i) ==
  /\ Left(q, Config_Load(FileOf(i)), i.argv, Len(i.argv)) /\ SettingsType(q)
  /\ Wanted(i.argv, Len(i.argv)) = Null
  /\ i.argv \in Seq(Text) /\ FileOf(i) \in Seq(Seq(Text))
  /\ \A l \in ToSet(FileOf(i)) : LineOk(l)

LEMMA NoHostsInFile ==
  ASSUME NEW lines \in Seq(Seq(Text)), \A l \in ToSet(lines) : LineOk(l)
  PROVE  Config_Load(lines).hosts = <<>> /\ Config_Load(lines).traceroute = FALSE
<1> DEFINE s == Config_Load(lines)
           n == Len(lines)
<1>1. FileLeft(s, lines, n)
  BY FileIsLeft
<1>2. /\ "hosts" \in DOMAIN InitDefaults /\ InitDefaults["hosts"] = <<>>
      /\ "traceroute" \in DOMAIN InitDefaults /\ InitDefaults["traceroute"] = FALSE
  BY SMT DEF InitDefaults
<1>3. ASSUME NEW i \in 1 .. n PROVE ~LineSets(lines[i], "hosts") /\ ~LineSets(lines[i], "traceroute")
  <2> DEFINE l == lines[i]
  <2>1. LineOk(l)
    BY DEF ToSet
  <2> HIDE DEF l
  <2>2. l # <<>> => KeyAccepts(l[1], l[2])
    BY <2>1 DEF LineOk
  <2>3. ~LineSets(l, "hosts") /\ ~LineSets(l, "traceroute")
    BY <2>2, KeySays DEF LineSets
  <2>4. QED BY <2>3 DEF l
<1> HIDE DEF s, n
<1>4. FileSays(s["hosts"], lines, n, "hosts") /\ FileSays(s["traceroute"], lines, n, "traceroute")
  BY <1>1, <1>2 DEF FileLeft
<1>5. s["hosts"] = <<>> /\ s["traceroute"] = FALSE
  BY <1>2, <1>3, <1>4 DEF FileSays
<1>6. QED
  BY <1>5 DEF s

LEMMA Outcome ==
  ASSUME NEW i \in Inputs,
         NEW r, r = ProcessArguments(i.argv, i.files, i.home), r.status = "ok"
  PROVE  \E q : Ended(q, i) /\ r.settings = Completed(q)
<1> DEFINE config == SelectConfigPath(i.argv, i.home)
           found == config.path \in DOMAIN i.files
           lines == IF found THEN i.files[config.path] ELSE <<>>
           failed == [status |-> "error", settings |-> InitDefaults]
           b == Config_Load(lines)
           q == FoldLeft(ReadText, Reading(b), i.argv)
           s == Completed(q.settings)
<1>1. r = IF config.required /\ ~found THEN failed
          ELSE IF \E l \in ToSet(lines) : ~LineOk(l) THEN failed
          ELSE IF q.status = "help" THEN [status |-> "help", settings |-> InitDefaults]
          ELSE IF q.status = "error" \/ q.wants # Null \/ ~Acceptable(s) THEN failed
          ELSE [status |-> "ok", settings |-> s]
  BY DEF ProcessArguments
<1>2. i.argv \in Seq(Text) /\ lines \in Seq(Seq(Text))
  <2>1. i.argv \in Seq(Text) /\ \A path \in DOMAIN i.files : i.files[path] \in Seq(Seq(Text))
    BY StartupAssumption
  <2>2. <<>> \in Seq(Seq(Text))
    BY Empty
  <2> HIDE DEF config
  <2>3. QED BY <2>1, <2>2
<1>3. failed.status = "error"
  OBVIOUS
<1>4. lines = FileOf(i)
  BY DEF FileOf
<1> DEFINE helped == [status |-> "help", settings |-> InitDefaults]
<1>5. helped.status = "help"
  OBVIOUS
<1> HIDE DEF config, lines, failed, helped
<1>6. /\ \A l \in ToSet(lines) : LineOk(l)
      /\ q.status # "help" /\ q.status # "error" /\ q.wants = Null
      /\ r = [status |-> "ok", settings |-> s]
  <2> HIDE DEF q, s
  <2> QED BY <1>1, <1>3, <1>5 DEF helped
<1>7. SettingsType(b) /\ b.hosts = <<>>
  BY <1>2, <1>6, ConfigFits, NoHostsInFile
<1> HIDE DEF b
<1>8. ReadInv(q, i.argv, Len(i.argv))
  BY <1>2, <1>7, AllRead
<1>9. q.status = "reading" /\ Wanted(i.argv, Len(i.argv)) = Null /\ SettingsType(q.settings)
  <2> HIDE DEF q
  <2> QED BY <1>6, <1>8 DEF ReadInv
<1>10. Left(q.settings, b, i.argv, Len(i.argv))
  BY <1>2, <1>7, <1>9, AllLeft
<1> HIDE DEF q
<1>11. Ended(q.settings, i)
  BY <1>2, <1>4, <1>6, <1>9, <1>10 DEF Ended, b
<1>12. r.settings = Completed(q.settings)
  BY <1>6
<1>13. QED
  BY <1>11, <1>12

(* What precedes the command line in a field that one key assigns. *)
LEMMA FileDecides ==
  ASSUME NEW i, NEW q, Ended(q, i), NEW kind, NEW name, NEW f \in DOMAIN InitDefaults \ Lists,
         OnlyKey(kind, name, f)
  PROVE  \E b : /\ LastSays(q[f], b, i.argv, Len(i.argv), f)
                /\ b = LET set == LinesWith(FileOf(i), name)
                       IN IF set = {} THEN InitDefaults[f]
                          ELSE ValueOf(kind, FileOf(i)[Max(set)][2])
<1> DEFINE lines == FileOf(i)
           b == Config_Load(lines)
<1>1. lines \in Seq(Seq(Text)) /\ \A l \in ToSet(lines) : LineOk(l)
  BY DEF Ended
<1>2. FileLeft(b, lines, Len(lines))
  BY <1>1, FileIsLeft
<1>3. Left(q, b, i.argv, Len(i.argv))
  BY DEF Ended
<1> HIDE DEF lines, b
<1>4. FileSays(b[f], lines, Len(lines), f) /\ DOMAIN b = DOMAIN InitDefaults
  BY <1>2 DEF FileLeft
<1>5. b[f] = LET set == LinesWith(lines, name)
             IN IF set = {} THEN InitDefaults[f] ELSE ValueOf(kind, lines[Max(set)][2])
  BY <1>1, <1>4, FromFile
<1>6. LastSays(q[f], b[f], i.argv, Len(i.argv), f)
  BY <1>3, <1>4 DEF Left
<1>7. QED
  BY <1>5, <1>6 DEF lines

LEMMA KeysAreSingle ==
  /\ \A f \in Numbers : OnlyKey("number", f, f)
  /\ \A name \in DOMAIN TextKey : OnlyKey("text", name, TextKey[name])
  /\ \A name \in BoolKey : OnlyKey("truth", name, name)
  /\ OnlyKey("truth", "color", "forceColor")
<1>1. ASSUME NEW l \in Seq(Text), l # <<>>, LineOk(l)
      PROVE  /\ \A f \in Numbers : OneKey(KeyEffect(l[1], l[2]), l[1], f, f, Number[l[2]])
             /\ \A name \in DOMAIN TextKey :
                  OneKey(KeyEffect(l[1], l[2]), l[1], name, TextKey[name], l[2])
             /\ \A name \in BoolKey : OneKey(KeyEffect(l[1], l[2]), l[1], name, name, Truth[l[2]])
             /\ OneKey(KeyEffect(l[1], l[2]), l[1], "color", "forceColor", Truth[l[2]])
  <2>1. KeyAccepts(l[1], l[2])
    BY <1>1 DEF LineOk
  <2>2. QED
    BY <2>1, KeySays
<1>2. \A v : ValueOf("number", v) = Number[v] /\ ValueOf("text", v) = v /\ ValueOf("truth", v) = Truth[v]
  BY DEF ValueOf
<1>3. QED
  BY <1>1, <1>2 DEF OnlyKey

(* The kinds of fields are apart. *)
LEMMA KindsDiffer ==
  /\ \A o \in DOMAIN TextOption : TextOption[o] \notin Numbers \cup Flags \cup Lists
  /\ \A o \in DOMAIN NumberOption : /\ NumberOption[o].field \in Numbers
                                    /\ NumberOption[o].field \notin Flags \cup Lists
  /\ \A o \in DOMAIN Switch : \A f \in Switch[o] : f \in Flags /\ f \notin Numbers \cup Lists
  /\ "protoSpec" \notin Numbers \cup Flags \cup Lists
  /\ BoolKey \cup {"forceColor", "useColor", "traceroute"} \subseteq Flags
  /\ Flags \cup Numbers \cup {TextKey[key] : key \in DOMAIN TextKey} \subseteq DOMAIN InitDefaults
  /\ \A key \in DOMAIN TextKey : TextKey[key] \notin Flags \cup Numbers \cup Lists
<1>1. \A f : TextRow(f) => f \notin Numbers \cup Flags \cup Lists
  BY SMT DEF TextRow, Numbers, Flags, Lists
<1>2. \A f \in Numbers : f \notin Flags \cup Lists
  BY SMT DEF Numbers, Flags, Lists
<1>3. \A f \in Flags : f \notin Numbers \cup Lists
  BY SMT DEF Numbers, Flags, Lists
<1>4. "protoSpec" \notin Numbers \cup Flags \cup Lists
  BY SMT DEF Numbers, Flags, Lists
<1>5. BoolKey \cup {"forceColor", "useColor", "traceroute"} \subseteq Flags
  BY SMT DEF BoolKey, Flags
<1>6. Flags \cup Numbers \subseteq DOMAIN InitDefaults
  BY SMT DEF InitDefaults, Flags, Numbers
<1>7. /\ DOMAIN TextKey = {"port", "protocol", "interface"}
      /\ TextKey["port"] = "portSpec" /\ TextKey["protocol"] = "protoSpec"
      /\ TextKey["interface"] = "interface"
  BY SMT DEF TextKey
<1>8. {"portSpec", "protoSpec", "interface"} \subseteq DOMAIN InitDefaults
  BY SMT DEF InitDefaults
<1>9. \A o \in DOMAIN TextOption : TextOption[o] \notin Numbers \cup Flags \cup Lists
  BY <1>1, TextFields
<1>10. \A o \in DOMAIN NumberOption : /\ NumberOption[o].field \in Numbers
                                      /\ NumberOption[o].field \notin Flags \cup Lists
  BY <1>2, NumberFields
<1>11. \A o \in DOMAIN Switch : \A f \in Switch[o] : f \in Flags /\ f \notin Numbers \cup Lists
  BY <1>3, SwitchFits
<1>12. {TextKey[key] : key \in DOMAIN TextKey} \subseteq DOMAIN InitDefaults
  BY <1>7, <1>8
<1>13. \A key \in DOMAIN TextKey : TextKey[key] \notin Flags \cup Numbers \cup Lists
  BY <1>7, SMT DEF Flags, Numbers, Lists
<1>14. QED
  BY <1>4, <1>5, <1>6, <1>9, <1>10, <1>11, <1>12, <1>13

LEMMA NumberFollows ==
  ASSUME NEW i, NEW q, Ended(q, i), NEW field \in Numbers
  PROVE  LET flags == OptionsIn(i.argv, {o \in DOMAIN NumberOption : NumberOption[o].field = field})
             last == Max(flags)
             set == LinesWith(FileOf(i), field)
         IN q[field] = IF flags # {} THEN Number[i.argv[last + 1]] * NumberOption[i.argv[last]].unit
                       ELSE IF set # {} THEN Number[FileOf(i)[Max(set)][2]]
                       ELSE InitDefaults[field]
<1> DEFINE a == i.argv
           opts == {o \in DOMAIN NumberOption : NumberOption[o].field = field}
           flags == OptionsIn(a, opts)
           last == Max(flags)
           set == LinesWith(FileOf(i), field)
           n == Len(a)
<1>2. field \in Numbers /\ field \notin Flags \cup Lists /\ field \in DOMAIN InitDefaults
  <2>1. field \notin Flags \cup Lists
    BY SMT DEF Numbers, Flags, Lists
  <2>2. QED
    BY <2>1, KindsDiffer
<1>3. PICK b : /\ LastSays(q[field], b, a, n, field)
               /\ b = IF set = {} THEN InitDefaults[field]
                      ELSE ValueOf("number", FileOf(i)[Max(set)][2])
  BY <1>2, KeysAreSingle, FileDecides
<1>4. opts \in SUBSET TakesValue /\ \A o \in opts : o \in DOMAIN NumberOption /\ o \notin DOMAIN TextOption
  BY NamesDiffer DEF TakesValue
<1>5. \A k : Assigns(a, k, field) <=> k > 1 /\ IsOption(a, k - 1) /\ a[k - 1] \in opts
  BY <1>2, KindsDiffer DEF Assigns, ByValue, BySwitch
<1>6. \A k : ~BySwitch(a, k, field)
  BY <1>2, KindsDiffer DEF BySwitch
<1>7. a \in Seq(Text) /\ Wanted(a, n) = Null
  BY DEF Ended
<1> HIDE DEF a, opts
<1>8. IF flags = {} THEN q[field] = b
      ELSE /\ last + 1 \in 2 .. n /\ last \in flags
           /\ q[field] = Assigned(a, last + 1, field)
  BY <1>3, <1>4, <1>5, <1>7, FromValue
<1>9. CASE flags = {}
  BY <1>3, <1>8, <1>9 DEF ValueOf, opts, a
<1>10. CASE flags # {}
  <2>1. last \in flags /\ q[field] = Assigned(a, last + 1, field) /\ last \in DOMAIN a /\ a[last] \in opts
    BY <1>8, <1>10 DEF OptionsIn
  <2>2. last \in Nat
    BY <1>7, <2>1
  <2> HIDE DEF last
  <2>3. (last + 1) - 1 = last
    BY <2>2
  <2>4. Assigned(a, last + 1, field) = Number[a[last + 1]] * NumberOption[a[last]].unit
    BY <1>4, <1>6, <2>1, <2>3 DEF Assigned
  <2>5. QED
    BY <1>10, <2>1, <2>4 DEF last, opts, a
<1>11. QED
  BY <1>9, <1>10

LEMMA TextsFollow ==
  ASSUME NEW i, NEW q, Ended(q, i), NEW key \in DOMAIN TextKey
  PROVE  LET flags == OptionsIn(i.argv, {o \in DOMAIN TextOption : TextOption[o] = TextKey[key]})
             set == LinesWith(FileOf(i), key)
         IN q[TextKey[key]] = IF flags # {} THEN i.argv[Max(flags) + 1]
                              ELSE IF set # {} THEN FileOf(i)[Max(set)][2] ELSE Null
<1> DEFINE a == i.argv
           field == TextKey[key]
           opts == {o \in DOMAIN TextOption : TextOption[o] = field}
           flags == OptionsIn(a, opts)
           last == Max(flags)
           set == LinesWith(FileOf(i), key)
           n == Len(a)
<1>1. field \notin Numbers \cup Flags \cup Lists /\ field \in DOMAIN InitDefaults
  BY KindsDiffer
<1>2. InitDefaults[field] = Null
  BY SMT DEF TextKey, InitDefaults
<1>3. PICK b : /\ LastSays(q[field], b, a, n, field)
               /\ b = IF set = {} THEN InitDefaults[field]
                      ELSE ValueOf("text", FileOf(i)[Max(set)][2])
  BY <1>1, KeysAreSingle, FileDecides
<1>4. opts \in SUBSET TakesValue /\ \A o \in opts : o \in DOMAIN TextOption
  BY DEF TakesValue
<1>5. \A k : Assigns(a, k, field) <=> k > 1 /\ IsOption(a, k - 1) /\ a[k - 1] \in opts
  BY <1>1, KindsDiffer DEF Assigns, ByValue, BySwitch
<1>6. \A k : ~BySwitch(a, k, field)
  BY <1>1, KindsDiffer DEF BySwitch
<1>7. a \in Seq(Text) /\ Wanted(a, n) = Null
  BY DEF Ended
<1> HIDE DEF a, opts, field
<1>8. IF flags = {} THEN q[field] = b
      ELSE /\ last + 1 \in 2 .. n /\ last \in flags
           /\ q[field] = Assigned(a, last + 1, field)
  BY <1>3, <1>4, <1>5, <1>7, FromValue
<1>9. CASE flags = {}
  BY <1>2, <1>3, <1>8, <1>9 DEF ValueOf, opts, a, field
<1>10. CASE flags # {}
  <2>1. last \in flags /\ q[field] = Assigned(a, last + 1, field) /\ last \in DOMAIN a /\ a[last] \in opts
    BY <1>8, <1>10 DEF OptionsIn
  <2>2. last \in Nat
    BY <1>7, <2>1
  <2> HIDE DEF last
  <2>3. (last + 1) - 1 = last
    BY <2>2
  <2>4. Assigned(a, last + 1, field) = a[last + 1]
    BY <1>4, <1>6, <2>1, <2>3 DEF Assigned
  <2>5. QED
    BY <1>10, <2>1, <2>4 DEF last, opts, a, field
<1>11. QED
  BY <1>9, <1>10

LEMMA SwitchFollows ==
  ASSUME NEW i, NEW q, Ended(q, i), NEW f \in Flags, NEW b,
         LastSays(q[f], b, i.argv, Len(i.argv), f)
  PROVE  q[f] = IF OptionsIn(i.argv, {o \in DOMAIN Switch : f \in Switch[o]}) = {} THEN b
                ELSE f # "useColor"
<1> DEFINE a == i.argv
<1>1. \A k : ~ByValue(a, k, f)
  BY KindsDiffer DEF ByValue
<1>2. a \in Seq(Text)
  BY DEF Ended
<1> HIDE DEF a
<1>3. LastSays(q[f], b, a, Len(a), f)
  BY DEF a
<1>4. QED
  BY <1>1, <1>2, <1>3, FromSwitch DEF a

LEMMA SwitchesFollow ==
  ASSUME NEW i, NEW q, Ended(q, i), NEW key \in BoolKey
  PROVE  LET set == LinesWith(FileOf(i), key)
         IN q[key] <=> \/ OptionsIn(i.argv, {o \in DOMAIN Switch : key \in Switch[o]}) # {}
                       \/ set # {} /\ Truth[FileOf(i)[Max(set)][2]]
<1> DEFINE set == LinesWith(FileOf(i), key)
           flags == OptionsIn(i.argv, {o \in DOMAIN Switch : key \in Switch[o]})
<1>1. key \in Flags /\ key \in DOMAIN InitDefaults \ Lists /\ key # "useColor"
  <2>1. key \in Flags /\ key # "useColor" /\ key \notin Lists
    BY SMT DEF BoolKey, Flags, Lists
  <2>2. QED
    BY <2>1, KindsDiffer
<1>2. InitDefaults[key] = FALSE
  BY SMT DEF BoolKey, InitDefaults
<1>3. PICK b : /\ LastSays(q[key], b, i.argv, Len(i.argv), key)
               /\ b = IF set = {} THEN InitDefaults[key]
                      ELSE ValueOf("truth", FileOf(i)[Max(set)][2])
  BY <1>1, KeysAreSingle, FileDecides
<1>4. q[key] = IF flags = {} THEN b ELSE TRUE
  <2>1. q[key] = IF flags = {} THEN b ELSE key # "useColor"
    BY <1>1, <1>3, SwitchFollows
  <2> HIDE DEF flags
  <2>2. (key # "useColor") = TRUE
    BY <1>1
  <2>3. QED
    BY <2>1, <2>2, Zenon
<1>5. b = IF set = {} THEN FALSE ELSE Truth[FileOf(i)[Max(set)][2]]
  BY <1>2, <1>3 DEF ValueOf
<1> HIDE DEF set, flags
<1>6. q[key] <=> \/ flags # {}
                 \/ set # {} /\ Truth[FileOf(i)[Max(set)][2]]
  BY <1>4, <1>5, Zenon
<1>7. QED
  BY <1>6 DEF set, flags

LEMMA HostsFollow ==
  ASSUME NEW i, NEW q, Ended(q, i)
  PROVE  HostsOf(q, i)
<1> DEFINE a == i.argv
           n == Len(a)
           set == OptionsIn(a, ToSet(a) \ (TakesValue \cup DOMAIN Switch))
<1>1. HostsAre(q.hosts, a, n) /\ a \in Seq(Text)
  BY DEF Ended, Left
<1>2. n \in Nat /\ DOMAIN a = 1 .. n
  BY <1>1
<1>3. \A x \in 1 .. n : a[x] \in ToSet(a)
  BY <1>2 DEF ToSet
<1>4. set = HostsUpTo(a, n)
  BY <1>2, <1>3 DEF OptionsIn, HostsUpTo, IsHost
<1>5. ASSUME NEW x \in set PROVE {j \in set : j <= x} = HostsUpTo(a, x)
  <2>1. x \in 1 .. n
    BY <1>4 DEF HostsUpTo
  <2>2. HostsUpTo(a, x) = {j \in HostsUpTo(a, n) : j <= x}
    BY <1>2, <2>1 DEF HostsUpTo
  <2>3. QED BY <1>4, <2>2
<1> HIDE DEF set, n, a
<1>6. Len(q.hosts) = Cardinality(set)
  BY <1>1, <1>4 DEF HostsAre, Rank
<1>7. \A x \in set : q.hosts[Cardinality({j \in set : j <= x})] = a[x]
  BY <1>1, <1>4, <1>5 DEF HostsAre, Rank
<1>8. QED
  BY <1>6, <1>7 DEF HostsOf, set, a

(* The switches of a traceroute and of the colour. *)
LEMMA SwitchRows ==
  /\ {o \in DOMAIN Switch : "traceroute" \in Switch[o]} = {"--traceroute"}
  /\ {o \in DOMAIN Switch : "forceColor" \in Switch[o]} = {"--color"}
  /\ {o \in DOMAIN Switch : "useColor" \in Switch[o]} = {"--json", "--prometheus", "--no-color"}
<1> DEFINE P == {
  <<"--concurrent", {"concurrent"}>>, <<"--resolve", {"resolve"}>>, <<"--quiet", {"quiet"}>>,
  <<"--audible", {"audible"}>>,       <<"--csv", {"csv"}>>,         <<"--json-file", {"jsonFile"}>>,
  <<"--json", {"json", "useColor"}>>, <<"--prometheus", {"prometheus", "useColor"}>>,
  <<"--color", {"forceColor"}>>,      <<"--no-color", {"useColor"}>>,
  <<"--monitor", {"monitor"}>>,       <<"--load-test", {"loadTest"}>>,
  <<"--resilience", {"resilience"}>>, <<"--traceroute", {"traceroute"}>>,
  <<"--no-config", {}>>}
<1>1. Switch = Table(P)
  BY SMT DEF Switch
<1>2. \A p \in P : /\ "traceroute" \in p[2] <=> p[1] = "--traceroute"
                   /\ "forceColor" \in p[2] <=> p[1] = "--color"
                   /\ "useColor" \in p[2] <=> p[1] \in {"--json", "--prometheus", "--no-color"}
  BY SMT
<1> HIDE DEF P
<1>3. \A o \in DOMAIN Switch : /\ "traceroute" \in Switch[o] <=> o = "--traceroute"
                               /\ "forceColor" \in Switch[o] <=> o = "--color"
                               /\ "useColor" \in Switch[o] <=> o \in {"--json", "--prometheus", "--no-color"}
  BY <1>1, <1>2, TableIs
<1>4. {"--traceroute", "--color", "--json", "--prometheus", "--no-color"} \subseteq DOMAIN Switch
  BY SwitchNames
<1>5. QED
  BY <1>3, <1>4

(* Without a value for --protocol a traceroute is given one, after the loop. *)
LEMMA TraceFollows ==
  ASSUME NEW i, NEW q, Ended(q, i)
  PROVE  q.traceroute = (OptionsIn(i.argv, {"--traceroute"}) # {})
<1> DEFINE f == "traceroute"
           opts == {o \in DOMAIN Switch : f \in Switch[o]}
<1>1. f \in Flags /\ f # "useColor" /\ f \in DOMAIN InitDefaults \ Lists
  <2>1. f \in Flags /\ f # "useColor" /\ f \notin Lists
    BY SMT DEF Flags, Lists
  <2>2. QED
    BY <2>1, KindsDiffer
<1>2. LastSays(q[f], Config_Load(FileOf(i))[f], i.argv, Len(i.argv), f)
  <2> DEFINE b == Config_Load(FileOf(i))
  <2>1. Left(q, b, i.argv, Len(i.argv)) /\ FileLeft(b, FileOf(i), Len(FileOf(i)))
    BY FileIsLeft DEF Ended
  <2> HIDE DEF b
  <2>2. f \in DOMAIN b \ Lists
    BY <1>1, <2>1 DEF FileLeft
  <2> HIDE DEF f
  <2>3. LastSays(q[f], b[f], i.argv, Len(i.argv), f)
    BY <2>1, <2>2 DEF Left
  <2>4. QED BY <2>3 DEF b
<1>3. Config_Load(FileOf(i))[f] = FALSE
  BY NoHostsInFile DEF Ended
<1>4. opts = {"--traceroute"}
  BY SwitchRows
<1> HIDE DEF f, opts
<1>5. q[f] = IF OptionsIn(i.argv, opts) = {} THEN FALSE ELSE TRUE
  BY <1>1, <1>2, <1>3, SwitchFollows DEF opts
<1>6. q[f] = (OptionsIn(i.argv, {"--traceroute"}) # {})
  BY <1>4, <1>5, Zenon
<1>7. QED
  BY <1>6 DEF f

(* The last option is followed by its value, and the last line is one. *)
LEMMA LastHasValue ==
  ASSUME NEW a \in Seq(Text), Wanted(a, Len(a)) = Null, NEW opts \in SUBSET TakesValue,
         OptionsIn(a, opts) # {}
  PROVE  Max(OptionsIn(a, opts)) + 1 \in DOMAIN a
<1> DEFINE n == Len(a)
           t == OptionsIn(a, opts)
           top == Max(t)
<1>1. n \in Nat /\ DOMAIN a = 1 .. n /\ \A x \in 1 .. n : a[x] \in Text
  OBVIOUS
<1>2. t \subseteq 1 .. n
  BY <1>1 DEF OptionsIn
<1>3. top \in t
  <2>1. (1 .. n) \in SUBSET Nat /\ IsFiniteSet(1 .. n)
    BY <1>1, Positions
  <2> HIDE DEF t, n
  <2>2. QED
    BY <1>2, <2>1, MaxIn DEF t
<1>4. IsOption(a, top) /\ a[top] \in TakesValue /\ top \in 1 .. n
  BY <1>2, <1>3 DEF OptionsIn
<1>5. n \in 1 .. n /\ IsOption(a, n) /\ a[n] \in TakesValue => FALSE
  <2>1. SUFFICES ASSUME n \in 1 .. n, IsOption(a, n), a[n] \in TakesValue PROVE FALSE
    OBVIOUS
  <2>2. a[n] # Null /\ n # 0
    BY <1>1, <2>1 DEF Text
  <2>3. Wanted(a, n) = a[n]
    BY <2>1, <2>2 DEF Wanted
  <2>4. QED
    BY <2>2, <2>3
<1> HIDE DEF top, n
<1>6. top # n
  BY <1>4, <1>5
<1>7. top + 1 \in 1 .. n
  BY <1>1, <1>4, <1>6
<1>8. QED
  BY <1>1, <1>7 DEF top

LEMMA LastLine ==
  ASSUME NEW S, NEW lines \in Seq(S), NEW name, LinesWith(lines, name) # {}
  PROVE  Max(LinesWith(lines, name)) \in LinesWith(lines, name)
<1> DEFINE n == Len(lines)
           t == LinesWith(lines, name)
<1>1. n \in Nat /\ t \subseteq 1 .. n
  BY DEF LinesWith
<1>2. (1 .. n) \in SUBSET Nat /\ IsFiniteSet(1 .. n)
  BY <1>1, Positions
<1> HIDE DEF n, t
<1>3. t # {}
  BY DEF t
<1>4. Max(t) \in t
  BY <1>1, <1>2, <1>3, MaxIn
<1>5. QED
  BY <1>4 DEF t

LEMMA CompletedSays ==
  ASSUME NEW q, "protoSpec" \in DOMAIN q, NEW s, s = Completed(q)
  PROVE  /\ DOMAIN s = DOMAIN q /\ \A f \in DOMAIN q : f # "protoSpec" => s[f] = q[f]
         /\ s.protoSpec = IF q.traceroute /\ q.protoSpec = Null THEN "ICMP" ELSE q.protoSpec
<1> DEFINE w == [q EXCEPT !.protoSpec = "ICMP"]
<1>1. DOMAIN w = DOMAIN q /\ w.protoSpec = "ICMP" /\ \A f \in DOMAIN q : f # "protoSpec" => w[f] = q[f]
  OBVIOUS
<1>2. s = IF q.traceroute /\ q.protoSpec = Null THEN w ELSE q
  BY DEF Completed
<1> HIDE DEF w
<1>3. QED
  BY <1>1, <1>2

LEMMA SettingsFollow ==
  ASSUME NEW i, NEW q, Ended(q, i), NEW s, s = Completed(q)
  PROVE  SettingsOf(s, i)
<1>1. DOMAIN q = DOMAIN InitDefaults
  <2> DEFINE b == Config_Load(FileOf(i))
  <2>1. Left(q, b, i.argv, Len(i.argv)) /\ FileLeft(b, FileOf(i), Len(FileOf(i)))
    BY FileIsLeft DEF Ended
  <2> HIDE DEF b
  <2>2. QED
    BY <2>1 DEF Left, FileLeft
<1>2. /\ "protoSpec" \in DOMAIN InitDefaults /\ "hosts" \in DOMAIN InitDefaults
      /\ Numbers \cup BoolKey \cup {TextKey[key] : key \in DOMAIN TextKey} \subseteq DOMAIN InitDefaults
      /\ "protoSpec" \notin Numbers \cup BoolKey
  <2>1. "protoSpec" \in DOMAIN InitDefaults /\ "hosts" \in DOMAIN InitDefaults
    BY SMT DEF InitDefaults
  <2>2. Numbers \cup BoolKey \subseteq DOMAIN InitDefaults
    BY KindsDiffer
  <2>3. {TextKey[key] : key \in DOMAIN TextKey} \subseteq DOMAIN InitDefaults
    BY KindsDiffer
  <2>4. "protoSpec" \notin Numbers \cup BoolKey
    BY SMT DEF Numbers, BoolKey
  <2>5. QED BY <2>1, <2>2, <2>3, <2>4
<1>3. /\ \A f \in DOMAIN InitDefaults : f # "protoSpec" => s[f] = q[f]
      /\ s.protoSpec = IF q.traceroute /\ q.protoSpec = Null THEN "ICMP" ELSE q.protoSpec
  BY <1>1, <1>2, CompletedSays
<1>4. NumbersOf(s, i)
  <2>1. \A field \in {NumberOption[o].field : o \in DOMAIN NumberOption} :
          field \in Numbers /\ s[field] = q[field]
    BY <1>2, <1>3, NumberFields
  <2>2. QED
    BY <2>1, NumberFollows DEF NumbersOf
<1>5. SwitchesOf(s, i)
  <2>1. \A key \in BoolKey : s[key] = q[key]
    BY <1>2, <1>3
  <2>2. QED
    BY <2>1, SwitchesFollow DEF SwitchesOf
<1>6. HostsOf(s, i)
  <2>1. s["hosts"] = q["hosts"]
    BY <1>2, <1>3
  <2>2. HostsOf(q, i)
    BY HostsFollow
  <2>3. QED
    BY <2>1, <2>2 DEF HostsOf
<1>7. TextsOf(s, i)
  <2>1. SUFFICES ASSUME NEW key \in DOMAIN TextKey
        PROVE LET flags == OptionsIn(i.argv, {o \in DOMAIN TextOption : TextOption[o] = TextKey[key]})
                  set == LinesWith(FileOf(i), key)
              IN s[TextKey[key]] =
                   IF flags # {} THEN i.argv[Max(flags) + 1]
                   ELSE IF set # {} THEN FileOf(i)[Max(set)][2]
                   ELSE IF key = "protocol" /\ OptionsIn(i.argv, {"--traceroute"}) # {}
                        THEN "ICMP" ELSE Null
    BY DEF TextsOf
  <2> DEFINE flags == OptionsIn(i.argv, {o \in DOMAIN TextOption : TextOption[o] = TextKey[key]})
             set == LinesWith(FileOf(i), key)
             given == IF flags # {} THEN i.argv[Max(flags) + 1] ELSE FileOf(i)[Max(set)][2]
  <2>2. q[TextKey[key]] = IF flags # {} \/ set # {} THEN given ELSE Null
    <3> DEFINE v == q[TextKey[key]]
    <3>1. v = IF flags # {} THEN i.argv[Max(flags) + 1]
              ELSE IF set # {} THEN FileOf(i)[Max(set)][2] ELSE Null
      BY TextsFollow
    <3> HIDE DEF v, flags, set
    <3>2. v = IF flags # {} \/ set # {} THEN given ELSE Null
      BY <3>1
    <3>3. QED
      BY <3>2 DEF v
  <2>3. flags # {} \/ set # {} => given # Null
    <3>1. CASE flags # {}
      <4> DEFINE a == i.argv
                 opts == {o \in DOMAIN TextOption : TextOption[o] = TextKey[key]}
      <4>0. /\ opts \in SUBSET TakesValue /\ a \in Seq(Text) /\ Wanted(a, Len(a)) = Null
            /\ OptionsIn(a, opts) # {}
        BY <3>1 DEF Ended, TakesValue
      <4> HIDE DEF a, opts
      <4>1. Max(OptionsIn(a, opts)) + 1 \in DOMAIN a /\ a \in Seq(Text)
        BY <4>0, LastHasValue
      <4>2. i.argv[Max(flags) + 1] \in Text
        <5> DEFINE m == Max(OptionsIn(a, opts)) + 1
        <5>1. m \in DOMAIN a
          BY <4>1
        <5> HIDE DEF m
        <5>2. a[m] \in Text
          BY <4>1, <5>1
        <5>3. QED
          BY <5>2 DEF m, a, opts
      <4>3. QED
        BY <3>1, <4>2 DEF Text
    <3>2. CASE flags = {} /\ set # {}
      <4> DEFINE l == FileOf(i)[Max(set)]
      <4>1. Max(set) \in set
        BY <3>2, LastLine DEF Ended
      <4>2. l \in Seq(Text) /\ LineOk(l) /\ l # <<>>
        BY <4>1 DEF Ended, LinesWith, ToSet
      <4> HIDE DEF l
      <4>3. Len(l) = 2
        BY <4>2 DEF LineOk
      <4>4. l[2] \in Text
        BY <4>2, <4>3
      <4>5. QED
        BY <3>2, <4>4 DEF Text, l
    <3>3. QED BY <3>1, <3>2
  <2>4. CASE key # "protocol"
    <3>1. TextKey[key] # "protoSpec"
      BY <2>4, SMT DEF TextKey
    <3>2. s[TextKey[key]] = q[TextKey[key]]
      BY <1>2, <1>3, <3>1
    <3> HIDE DEF flags, set
    <3>3. QED
      BY <2>2, <2>4, <3>2 DEF flags, set
  <2>5. CASE key = "protocol"
    <3>1. TextKey[key] = "protoSpec"
      BY <2>5, SMT DEF TextKey
    <3> DEFINE trace == OptionsIn(i.argv, {"--traceroute"}) # {}
    <3>2. q.traceroute <=> trace
      BY TraceFollows
    <3> HIDE DEF flags, set, given, trace
    <3>3. s[TextKey[key]] = IF trace /\ q[TextKey[key]] = Null THEN "ICMP" ELSE q[TextKey[key]]
      BY <1>3, <3>1, <3>2
    <3>4. s[TextKey[key]] = IF flags # {} \/ set # {} THEN given ELSE IF trace THEN "ICMP" ELSE Null
      BY <2>2, <2>3, <3>3
    <3>5. QED
      BY <2>5, <3>4 DEF flags, set, given, trace
  <2>6. QED BY <2>4, <2>5
<1>8. QED
  BY <1>4, <1>5, <1>6, <1>7 DEF SettingsOf

LEMMA ColourFollows ==
  ASSUME NEW i, NEW q, Ended(q, i), NEW s, s = Completed(q),
         NEW noColor, NEW tty, noColor = i.noColor, tty = i.tty
  PROVE  ColourOf(Colored(s, noColor, tty), i)
<1> DEFINE set == LinesWith(FileOf(i), "color")
           off == OptionsIn(i.argv, {"--json", "--prometheus", "--no-color"})
           on == OptionsIn(i.argv, {"--color"})
<1>1. /\ "useColor" \in Flags /\ "useColor" \in DOMAIN InitDefaults \ Lists
      /\ "forceColor" \in Flags /\ "forceColor" \in DOMAIN InitDefaults \ Lists
      /\ "protoSpec" \in DOMAIN InitDefaults
      /\ InitDefaults["forceColor"] = FALSE
  <2>1. /\ "useColor" \in Flags /\ "useColor" \notin Lists
        /\ "forceColor" \in Flags /\ "forceColor" \notin Lists
    BY SMT DEF Flags, Lists
  <2>2. "protoSpec" \in DOMAIN InitDefaults /\ InitDefaults["forceColor"] = FALSE
    BY SMT DEF InitDefaults
  <2>3. QED
    BY <2>1, <2>2, KindsDiffer
<1>2. DOMAIN q = DOMAIN InitDefaults /\ \E b : LastSays(q["useColor"], b, i.argv, Len(i.argv), "useColor")
  <2> DEFINE b == Config_Load(FileOf(i))
  <2>1. Left(q, b, i.argv, Len(i.argv)) /\ FileLeft(b, FileOf(i), Len(FileOf(i)))
    BY FileIsLeft DEF Ended
  <2> HIDE DEF b
  <2>2. QED
    BY <1>1, <2>1 DEF Left, FileLeft
<1>3. s["useColor"] = q["useColor"] /\ s["forceColor"] = q["forceColor"]
  BY <1>1, <1>2, CompletedSays
<1>4. q["useColor"] => off = {}
  <2>1. PICK b : LastSays(q["useColor"], b, i.argv, Len(i.argv), "useColor")
    BY <1>2
  <2>2. q["useColor"] = IF OptionsIn(i.argv, {o \in DOMAIN Switch : "useColor" \in Switch[o]}) = {}
                        THEN b ELSE "useColor" # "useColor"
    BY <1>1, <2>1, SwitchFollows
  <2>3. q["useColor"] = IF off = {} THEN b ELSE FALSE
    BY <2>2, SwitchRows, Zenon
  <2>4. QED
    BY <2>3, Zenon
<1>5. q["forceColor"] => on # {} \/ (set # {} /\ Truth[FileOf(i)[Max(set)][2]])
  <2>1. PICK b : /\ LastSays(q["forceColor"], b, i.argv, Len(i.argv), "forceColor")
                 /\ b = IF set = {} THEN InitDefaults["forceColor"]
                        ELSE ValueOf("truth", FileOf(i)[Max(set)][2])
    BY <1>1, KeysAreSingle, FileDecides
  <2> DEFINE said == LastSays(q["forceColor"], b, i.argv, Len(i.argv), "forceColor")
  <2>0. said
    BY <2>1
  <2>2. q["forceColor"] = IF OptionsIn(i.argv, {o \in DOMAIN Switch : "forceColor" \in Switch[o]}) = {}
                          THEN b ELSE "forceColor" # "useColor"
    <3>1. ASSUME NEW f, f = "forceColor"
          PROVE  q[f] = IF OptionsIn(i.argv, {o \in DOMAIN Switch : f \in Switch[o]}) = {}
                        THEN b ELSE f # "useColor"
      <4>1. LastSays(q[f], b, i.argv, Len(i.argv), f) /\ f \in Flags
        BY <1>1, <2>0, <3>1
      <4>2. QED
        BY <4>1, SwitchFollows
    <3>2. QED
      BY <3>1
  <2>3. {o \in DOMAIN Switch : "forceColor" \in Switch[o]} = {"--color"}
    BY SwitchRows
  <2>4. on = {} => q["forceColor"] = b
    BY <2>2, <2>3, Zenon
  <2>5. b = IF set = {} THEN FALSE ELSE Truth[FileOf(i)[Max(set)][2]]
    BY <1>1, <2>1 DEF ValueOf
  <2> HIDE DEF on, set
  <2>6. QED
    BY <2>4, <2>5, Zenon
<1> DEFINE fits == on # {} \/ (set # {} /\ Truth[FileOf(i)[Max(set)][2]])
<1> HIDE DEF off, fits
<1>6. Colored(s, noColor, tty) => off = {} /\ (noColor \/ ~tty => fits)
  BY <1>3, <1>4, <1>5, Zenon DEF Colored, fits
<1>7. QED
  BY <1>6 DEF ColourOf, off, fits

(* The settings and the colour are made once, from the input. *)
InputInv ==
  /\ Started => SettingsOf(settings, input)
  /\ ColourOf(color, input)

LEMMA ArgumentsSay == MainInv /\ InputInv /\ Arguments => InputInv'
<1> SUFFICES ASSUME MainInv, InputInv, Arguments PROVE InputInv'
  OBVIOUS
<1> DEFINE r == ProcessArguments(input.argv, input.files, input.home)
<1>1. /\ stage = "arguments" /\ input' = input
      /\ \/ /\ r.status = "ok" /\ settings' = r.settings
            /\ color' = Colored(r.settings, input.noColor, input.tty)
         \/ r.status # "ok" /\ settings' = settings /\ color' = color /\ stage' = "exit"
  BY DEF Arguments, Exit
<1>2. input \in Inputs
  BY DEF MainInv, TypeInv
<1>3. r.status = "ok" => \E q : Ended(q, input) /\ r.settings = Completed(q)
  BY <1>2, Outcome
<1> HIDE DEF r
<1>4. CASE r.status = "ok"
  <2>1. PICK q : Ended(q, input) /\ r.settings = Completed(q)
    BY <1>3, <1>4
  <2>2. SettingsOf(r.settings, input)
    BY <2>1, SettingsFollow
  <2>3. ColourOf(Colored(r.settings, input.noColor, input.tty), input)
    BY <2>1, ColourFollows
  <2>4. QED
    BY <1>1, <1>4, <2>2, <2>3 DEF InputInv
<1>5. CASE r.status # "ok"
  BY <1>1, <1>5 DEF InputInv, Started
<1>6. QED
  BY <1>4, <1>5

LEMMA InputStays ==
  InputInv /\ [MainNext]_mainVars /\ ~Arguments => InputInv'
<1> SUFFICES ASSUME InputInv, [MainNext]_mainVars, ~Arguments PROVE InputInv'
  OBVIOUS
<1>1. UNCHANGED <<input, settings, color>> /\ (Started' => Started)
  <2>1. CASE UseInterface
    BY <2>1 DEF UseInterface, Started
  <2>2. CASE TargetsStep
    BY <2>2 DEF TargetsStep, own, Build, BuildMatrix, AddSpec, AddFileLine, ResolveOne, Started
  <2>3. CASE BuildFailed \/ Resolved \/ Annotate
    BY <2>3 DEF BuildFailed, Resolved, Annotate, Started
  <2>4. CASE ChooseMode \/ ModeReturns \/ OpenCsv \/ OpenJson \/ LoopReturns \/ CloseLogs
    BY <2>4 DEF ChooseMode, ModeReturns, OpenCsv, OpenJson, LoopReturns, CloseLogs, Started
  <2>5. CASE UNCHANGED mainVars
    BY <2>5 DEF mainVars, own, Started
  <2>6. QED
    BY <2>1, <2>2, <2>3, <2>4, <2>5 DEF MainNext
<1>2. QED
  BY <1>1 DEF InputInv

LEMMA InputIsRead == MainSpec => []InputInv
<1>1. MainInit => InputInv
  BY DEF MainInit, InputInv, Started, ColourOf
<1>2. MainInv /\ InputInv /\ [MainNext]_mainVars => InputInv'
  BY ArgumentsSay, InputStays
<1>3. QED
  BY <1>1, <1>2, MainIsInductive, PTL DEF MainSpec

(* SelectConfigPath takes the file that the first option of the two picks. *)
LEMMA FileIsChosen == ASSUME input \in Inputs PROVE Lines = FileOf(input)
<1> DEFINE n == Len(argv)
           hits == {i \in DOMAIN argv : \/ argv[i] = "--no-config"
                                        \/ argv[i] = "--config" /\ i < Len(argv)}
           first == Min(hits)
<1>1. n \in Nat /\ DOMAIN argv = 1 .. n /\ hits \subseteq 1 .. n
  <2>1. argv \in Seq(Text)
    BY StartupAssumption DEF argv
  <2>2. QED
    BY <2>1
<1>2. \A i : i \in hits <=> i \in DOMAIN argv /\ Picks(i)
  BY DEF Picks
<1>3. FileOf(input) = IF hits = {} THEN (IF input.home THEN FileAt("~/.pingdd") ELSE FileAt(Null))
                      ELSE IF argv[first] = "--no-config" THEN FileAt(Null)
                      ELSE FileAt(argv[first + 1])
  BY DEF FileOf, SelectConfigPath, FileAt, argv
<1>4. FileAt(Null) = <<>>
  BY StartupAssumption DEF FileAt
<1> HIDE DEF hits, first
<1>5. CASE hits = {}
  <2>1. Picked = {}
    BY <1>2, <1>5 DEF Picked
  <2>2. QED
    BY <1>3, <1>4, <1>5, <2>1 DEF Lines
<1>6. CASE hits # {}
  <2>1. first \in hits /\ \A i \in hits : first <= i
    <3>1. hits \subseteq 1 .. n /\ IsFiniteSet(1 .. n)
      BY <1>1, FS_Interval
    <3>2. hits \in SUBSET Nat /\ IsFiniteSet(hits)
      <4>1. IsFiniteSet(hits)
        BY <3>1, FS_Subset
      <4>2. QED
        BY <3>1, <4>1
    <3>3. \E m \in hits : \A x \in hits : m <= x
      BY <1>6, <3>2, Extremes
    <3>4. QED
      BY <3>3 DEF Min, first
  <2>2. Picked = {first}
    <3>1. first \in 1 .. n /\ Picks(first)
      BY <1>1, <1>2, <2>1
    <3>2. \A i \in 1 .. n : Picks(i) => first <= i
      BY <1>1, <1>2, <2>1
    <3>3. first \in Picked
      BY <1>1, <3>1, <3>2 DEF Picked
    <3>4. ASSUME NEW i \in Picked PROVE i = first
      <4>1. i \in 1 .. n /\ first <= i /\ \A j \in 1 .. i - 1 : ~Picks(j)
        BY <1>1, <3>2 DEF Picked
      <4>2. QED
        BY <1>1, <3>1, <4>1
    <3>5. QED
      BY <3>3, <3>4
  <2>3. Max(Picked) = first
    BY <1>1, <1>2, <2>1, <2>2 DEF Max
  <2>4. argv[first] = "--no-config" \/ argv[first] = "--config"
    BY <1>2, <2>1 DEF Picks
  <2>5. QED
    BY <1>3, <1>4, <1>6, <2>2, <2>3, <2>4 DEF Lines
<1>7. QED
  BY <1>5, <1>6

(* The words of the properties are those of this section. *)
LEMMA SameWords ==
  ASSUME input \in Inputs
  PROVE  /\ \A opts : Given(opts) = OptionsIn(input.argv, opts)
         /\ Lines = FileOf(input)
         /\ \A name : LinesFor(Lines, name) = LinesWith(FileOf(input), name)
<1>1. \A k : Before(k) = Cardinality(Run(input.argv, k))
  BY DEF Before, Run, argv
<1>2. \A opts : Given(opts) = OptionsIn(input.argv, opts)
  BY <1>1 DEF Given, IsRead, OptionsIn, IsOption, argv
<1>3. Lines = FileOf(input)
  BY FileIsChosen
<1>4. QED
  BY <1>2, <1>3 DEF LinesFor, LinesWith

(* A setting is that of the last flag, else of the last line of the file, else
   the default; a switch stays on; the hosts are kept in their order. *)
THEOREM SettingsAreSound == MainSpec => []SettingsSound
<1>1. MainInv /\ InputInv => SettingsSound
  <2> SUFFICES ASSUME MainInv, InputInv, Started PROVE SettingsFrom(Lines)
    BY DEF SettingsSound
  <2>1. SettingsOf(settings, input) /\ input \in Inputs
    BY DEF InputInv, MainInv, TypeInv
  <2>2. /\ \A opts : Given(opts) = OptionsIn(input.argv, opts)
        /\ Lines = FileOf(input)
        /\ \A name : LinesFor(Lines, name) = LinesWith(FileOf(input), name)
    BY <2>1, SameWords
  <2>3. QED
    BY <2>1, <2>2 DEF SettingsFrom, SettingsOf, NumbersOf, TextsOf, SwitchesOf, HostsOf, argv
<1>2. QED
  BY <1>1, InputIsRead, MainIsInductive, PTL

(* There is colour only where it was asked for or fits. *)
THEOREM ColourIsSound == MainSpec => []ColourSound
<1>1. MainInv /\ InputInv => ColourSound
  BY SameWords DEF MainInv, TypeInv, InputInv, ColourSound, ColourOf
<1>2. QED
  BY <1>1, InputIsRead, MainIsInductive, PTL

-----------------------------------------------------------------------------
(* The matrix of targets: how often a destination is in the list.  What is  *)
(* counted in a sequence of sequences is counted in each of them.           *)

Occ(s, T) == Cardinality({j \in DOMAIN s : s[j] \in T})

LEMMA OccNat ==
  ASSUME NEW S, NEW s \in Seq(S), NEW T
  PROVE  IsFiniteSet({j \in DOMAIN s : s[j] \in T}) /\ Occ(s, T) \in Nat
<1>1. DOMAIN s = 1 .. Len(s) /\ Len(s) \in Nat
  BY SeqParts
<1>2. IsFiniteSet(DOMAIN s)
  BY <1>1, FS_Interval
<1>3. {j \in DOMAIN s : s[j] \in T} \subseteq DOMAIN s
  OBVIOUS
<1> DEFINE A == {j \in DOMAIN s : s[j] \in T}
<1> HIDE DEF A
<1>4. A \subseteq DOMAIN s
  BY <1>3 DEF A
<1>5. IsFiniteSet(A) /\ Cardinality(A) \in Nat
  BY <1>2, <1>4, FS_Subset, FS_CardinalityType
<1>6. QED
  BY <1>5 DEF A, Occ

LEMMA OccJoin ==
  ASSUME NEW S, NEW s \in Seq(S), NEW t \in Seq(S), NEW T
  PROVE  Occ(s \o t, T) = Occ(s, T) + Occ(t, T)
<1> DEFINE A == {j \in DOMAIN s : s[j] \in T}
           B == {j \in DOMAIN t : t[j] \in T}
           C == {j \in DOMAIN (s \o t) : (s \o t)[j] \in T}
           m == Len(s)
           D == {m + j : j \in B}
           f == [j \in B |-> m + j]
<1>1. /\ m \in Nat /\ Len(t) \in Nat /\ DOMAIN s = 1 .. m /\ DOMAIN t = 1 .. Len(t)
      /\ DOMAIN (s \o t) = 1 .. m + Len(t)
      /\ \A j \in 1 .. m + Len(t) : (s \o t)[j] = IF j <= m THEN s[j] ELSE t[j - m]
  OBVIOUS
<1>2. C = A \cup D
  <2>1. ASSUME NEW j \in C PROVE j \in A \cup D
    <3>1. j \in 1 .. m + Len(t) /\ (IF j <= m THEN s[j] ELSE t[j - m]) \in T
      BY <1>1
    <3>2. CASE j <= m
      BY <1>1, <3>1, <3>2
    <3>3. CASE j > m
      <4>1. j - m \in 1 .. Len(t) /\ t[j - m] \in T /\ j = m + (j - m)
        BY <1>1, <3>1, <3>3
      <4>2. j - m \in B
        BY <1>1, <4>1
      <4> HIDE DEF B, m
      <4>3. QED
        BY <4>1, <4>2
    <3>4. j \in Int /\ m \in Int
      BY <1>1, <3>1
    <3> HIDE DEF m, A, D, C
    <3>5. QED
      BY <3>2, <3>3, <3>4
  <2>2. ASSUME NEW j \in A PROVE j \in C
    BY <1>1
  <2>3. ASSUME NEW j \in D PROVE j \in C
    <3>1. PICK i \in B : j = m + i
      OBVIOUS
    <3>2. i \in 1 .. Len(t) /\ t[i] \in T
      BY <1>1
    <3>3. j \in 1 .. m + Len(t) /\ ~(j <= m) /\ j - m = i
      BY <1>1, <3>1, <3>2
    <3>4. (s \o t)[j] = t[i]
      BY <1>1, <3>3
    <3>5. QED
      BY <1>1, <3>2, <3>3, <3>4
  <2>4. QED
    BY <2>1, <2>2, <2>3
<1>3. A \cap D = {}
  BY <1>1
<1>4. IsFiniteSet(A) /\ IsFiniteSet(B)
  BY OccNat
<1>5. f \in Bijection(B, D)
  <2>1. \A i, j \in B : m + i = m + j => i = j
    BY <1>1
  <2> HIDE DEF B, m
  <2>2. QED
    BY <2>1 DEF Bijection, Injection, Surjection, IsInjective
<1>6. Occ(s, T) = Cardinality(A) /\ Occ(t, T) = Cardinality(B) /\ Occ(s \o t, T) = Cardinality(C)
  BY DEF Occ
<1> HIDE DEF A, B, C, D, f
<1>7. IsFiniteSet(D) /\ Cardinality(D) = Cardinality(B)
  <2>1. ExistsBijection(B, D)
    BY <1>5 DEF ExistsBijection
  <2>2. QED
    BY <1>4, <2>1, FS_Bijection
<1>8. Cardinality(A \cup D) = Cardinality(A) + Cardinality(D)
  <2>1. Cardinality(A \cup D) = Cardinality(A) + Cardinality(D) - Cardinality(A \cap D)
    BY <1>4, <1>7, FS_Union
  <2>2. Cardinality(A) \in Nat /\ Cardinality(D) \in Nat
    BY <1>4, <1>7, FS_CardinalityType
  <2>3. Cardinality(A \cap D) = 0
    BY <1>3, FS_EmptySet, Zenon
  <2> DEFINE u == Cardinality(A \cup D)
             a == Cardinality(A)
             b == Cardinality(D)
  <2>4. u = a + b - 0
    BY <2>1, <2>3, Zenon
  <2> HIDE DEF u, a, b
  <2>5. u = a + b
    BY <2>2, <2>4 DEF a, b
  <2>6. QED
    BY <2>5 DEF u, a, b
<1>9. QED
  BY <1>2, <1>6, <1>7, <1>8

LEMMA OneMore ==
  ASSUME NEW a \in Nat, NEW c \in Nat
  PROVE  (a + 1) * c = a * c + c /\ a * c \in Nat /\ 0 * c = 0
OBVIOUS

(* In those of P there are c each, in the others none. *)
EachHas(ss, T, P, c) ==
  /\ P \subseteq DOMAIN ss
  /\ \A i \in DOMAIN ss : Occ(ss[i], T) = IF i \in P THEN c ELSE 0

LEMMA OccFlatten ==
  ASSUME NEW S, NEW ss \in Seq(Seq(S)), NEW T, NEW c \in Nat, NEW P, EachHas(ss, T, P, c)
  PROVE  Occ(FlattenSeq(ss), T) = Cardinality(P) * c
<1> DEFINE n == Len(ss)
<1>1. n \in Nat /\ DOMAIN ss = 1 .. n /\ \A i \in 1 .. n : ss[i] \in Seq(S)
  BY SeqParts
<1>2. CASE n = 0
  <2>1. FlattenSeq(ss) = ss /\ P = {} /\ DOMAIN ss = {}
    BY <1>1, <1>2 DEF FlattenSeq, EachHas
  <2>2. Occ(ss, T) = Cardinality({})
    BY <2>1 DEF Occ
  <2>3. QED
    BY <2>1, <2>2, FS_EmptySet, OneMore
<1>3. CASE n # 0
  <2>1. PICK g : JoinRun(g, ss, n)
    BY <1>1, <1>3, Joins
  <2> HIDE DEF n
  <2> DEFINE Q(k) == P \cap (1 .. k)
             F == {k \in 0 .. n : /\ IsFiniteSet(Q(k)) /\ Cardinality(Q(k)) \in Nat
                                  /\ k = 0 => Cardinality(Q(k)) = 0
                                  /\ k # 0 => /\ g[k] \in Seq(S)
                                              /\ Occ(g[k], T) = Cardinality(Q(k)) * c}
  <2>2. 0 \in F
    <3>1. Q(0) = {}
      OBVIOUS
    <3>2. IsFiniteSet({}) /\ Cardinality({}) = 0
      BY FS_EmptySet
    <3>3. IsFiniteSet(Q(0)) /\ Cardinality(Q(0)) = 0
      BY <3>1, <3>2
    <3> HIDE DEF Q
    <3>4. QED
      BY <1>1, <3>3
  <2>3. ASSUME NEW k \in 1 .. n, k - 1 \in F PROVE k \in F
    <3>1. /\ g[k] = IF k = 1 THEN ss[k] ELSE g[k - 1] \o ss[k]
          /\ ss[k] \in Seq(S) /\ Occ(ss[k], T) = IF k \in P THEN c ELSE 0
      BY <1>1, <2>1 DEF JoinRun, EachHas
    <3> DEFINE q == Q(k - 1)
    <3>2. /\ IsFiniteSet(q) /\ Cardinality(q) \in Nat /\ (k = 1 => Cardinality(q) = 0)
          /\ k # 1 => g[k - 1] \in Seq(S) /\ Occ(g[k - 1], T) = Cardinality(q) * c
      BY <1>1, <2>3
    <3>3. /\ k \in P => Q(k) = q \cup {k} /\ k \notin q
          /\ k \notin P => Q(k) = q
      BY <1>1
    <3> HIDE DEF Q, q
    <3>4. /\ IsFiniteSet(Q(k)) /\ Cardinality(Q(k)) \in Nat
          /\ Cardinality(Q(k)) = IF k \in P THEN Cardinality(q) + 1 ELSE Cardinality(q)
      BY <3>2, <3>3, FS_AddElement, FS_CardinalityType
    <3>5. g[k] \in Seq(S) /\ Occ(g[k], T) = Cardinality(q) * c + Occ(ss[k], T)
      <4>1. CASE k = 1
        <5>1. Occ(ss[k], T) \in Nat
          BY <3>1, OccNat
        <5>2. Cardinality(q) * c = 0
          BY <3>2, <4>1, OneMore
        <5>3. QED
          BY <3>1, <4>1, <5>1, <5>2
      <4>2. CASE k # 1
        <5>1. g[k] = g[k - 1] \o ss[k] /\ g[k - 1] \in Seq(S)
          BY <3>1, <3>2, <4>2
        <5>2. Occ(g[k - 1] \o ss[k], T) = Occ(g[k - 1], T) + Occ(ss[k], T)
          BY <3>1, <5>1, OccJoin
        <5>3. g[k] \in Seq(S)
          BY <3>1, <5>1
        <5>4. QED
          BY <3>2, <4>2, <5>1, <5>2, <5>3
      <4>3. QED BY <4>1, <4>2
    <3>6. Occ(g[k], T) = Cardinality(Q(k)) * c
      <4>1. Cardinality(q) * c \in Nat /\ (Cardinality(q) + 1) * c = Cardinality(q) * c + c
        BY <3>2, OneMore
      <4>2. CASE k \in P
        BY <3>1, <3>4, <3>5, <4>1, <4>2
      <4>3. CASE k \notin P
        BY <3>1, <3>4, <3>5, <4>1, <4>3
      <4>4. QED BY <4>2, <4>3
    <3>7. k \in 0 .. n /\ k # 0
      BY <1>1
    <3>8. QED
      BY <3>4, <3>5, <3>6, <3>7
  <2>4. \A k \in 0 .. n : k \in F
    <3> HIDE DEF F
    <3> QED BY <1>1, <2>2, <2>3, UpTo
  <2>5. n \in 0 .. n /\ Q(n) = P
    BY <1>1 DEF EachHas
  <2>6. Occ(g[n], T) = Cardinality(P) * c
    <3>1. Occ(g[n], T) = Cardinality(Q(n)) * c
      <4> HIDE DEF Q
      <4> QED BY <1>3, <2>4, <2>5
    <3> HIDE DEF Q
    <3>2. QED
      BY <2>5, <3>1
  <2>7. QED
    BY <2>1, <2>6 DEF JoinRun
<1>4. QED BY <1>2, <1>3

(* The ports of the ranges: one for each range that it is in. *)
LEMMA RangeOcc ==
  ASSUME NEW r \in Int \X Int, 1 <= r[1], r[1] <= r[2], r[2] < PortMod, NEW p \in Int
  PROVE  /\ PortRange(r) \in Seq(1 .. PortMod - 1)
         /\ Occ(PortRange(r), {p}) = IF r[1] <= p /\ p <= r[2] THEN 1 ELSE 0
<1> DEFINE m == r[2] - r[1] + 1
           A == {j \in DOMAIN PortRange(r) : PortRange(r)[j] \in {p}}
<1>1. m \in Nat /\ r[1] \in Int /\ r[2] \in Int /\ PortMod \in Int
  BY TargetsAssumption
<1>2. PortRange(r) = [k \in 1 .. m |-> r[1] + k - 1]
  BY DEF PortRange
<1>3. \A k \in 1 .. m : r[1] + k - 1 \in 1 .. PortMod - 1
  BY <1>1
<1>4. PortRange(r) \in Seq(1 .. PortMod - 1)
  <2>1. \A k \in 1 .. m : PortRange(r)[k] \in 1 .. PortMod - 1
    BY <1>2, <1>3
  <2>2. PortRange(r) = [k \in 1 .. m |-> PortRange(r)[k]]
    BY <1>2
  <2> HIDE DEF m
  <2>3. QED
    BY <1>1, <2>1, <2>2, MakeSeq
<1>5. A = {j \in 1 .. m : r[1] + j - 1 = p}
  BY <1>2
<1>6. CASE r[1] <= p /\ p <= r[2]
  <2>1. A = {p - r[1] + 1}
    BY <1>1, <1>5, <1>6
  <2>2. Cardinality(A) = 1
    <3> HIDE DEF A
    <3> QED BY <2>1, FS_Singleton
  <2>3. QED
    BY <1>4, <1>6, <2>2 DEF Occ
<1>7. CASE ~(r[1] <= p /\ p <= r[2])
  <2>1. A = {}
    BY <1>1, <1>5, <1>7
  <2>2. Cardinality(A) = 0
    <3> HIDE DEF A
    <3> QED BY <2>1, FS_EmptySet
  <2>3. QED
    BY <1>4, <1>7, <2>2 DEF Occ
<1>8. QED BY <1>6, <1>7

RangesOf(ranges, p) == {i \in DOMAIN ranges : ranges[i][1] <= p /\ p <= ranges[i][2]}

LEMMA PortsOcc ==
  ASSUME NEW ranges \in Seq(Int \X Int), PortsOk(ranges), NEW p \in Int
  PROVE  /\ Ports(ranges) \in Seq(1 .. PortMod - 1)
         /\ Occ(Ports(ranges), {p}) = Cardinality(RangesOf(ranges, p))
<1> DEFINE ss == [i \in DOMAIN ranges |-> PortRange(ranges[i])]
           n == Len(ranges)
           P == RangesOf(ranges, p)
<1>1. n \in Nat /\ DOMAIN ranges = 1 .. n /\ \A i \in 1 .. n : ranges[i] \in Int \X Int
  BY SeqParts
<1>2. \A i \in 1 .. n : 1 <= ranges[i][1] /\ ranges[i][1] <= ranges[i][2] /\ ranges[i][2] < PortMod
  BY <1>1 DEF PortsOk, ToSet
<1>3. ASSUME NEW i \in 1 .. n
      PROVE  /\ ss[i] \in Seq(1 .. PortMod - 1)
             /\ Occ(ss[i], {p}) = IF i \in P THEN 1 ELSE 0
  <2>1. ranges[i] \in Int \X Int /\ ss[i] = PortRange(ranges[i])
    BY <1>1
  <2>2. /\ PortRange(ranges[i]) \in Seq(1 .. PortMod - 1)
        /\ Occ(PortRange(ranges[i]), {p}) = IF ranges[i][1] <= p /\ p <= ranges[i][2] THEN 1 ELSE 0
    BY <1>2, <2>1, RangeOcc
  <2>3. i \in P <=> ranges[i][1] <= p /\ p <= ranges[i][2]
    BY <1>1 DEF RangesOf
  <2> HIDE DEF ss, P
  <2>4. QED
    BY <2>1, <2>2, <2>3
<1>4. ss = [i \in 1 .. n |-> ss[i]] /\ DOMAIN ss = 1 .. n /\ P \in SUBSET DOMAIN ss
  BY <1>1 DEF RangesOf
<1>5. Ports(ranges) = FlattenSeq(ss)
  BY DEF Ports
<1> HIDE DEF ss, P, n
<1>6. ss \in Seq(Seq(1 .. PortMod - 1))
  BY <1>1, <1>3, <1>4, MakeSeq
<1>7. FlattenSeq(ss) \in Seq(1 .. PortMod - 1)
  BY <1>6, JoinType
<1>8. Occ(FlattenSeq(ss), {p}) = Cardinality(P) * 1
  <2> DEFINE c == 1
             T == {p}
             S == 1 .. PortMod - 1
  <2>1. c \in Nat /\ ss \in Seq(Seq(S))
    BY <1>6
  <2>2. EachHas(ss, T, P, c)
    BY <1>3, <1>4 DEF EachHas
  <2> HIDE DEF c, T, S
  <2>3. Occ(FlattenSeq(ss), T) = Cardinality(P) * c
    BY <2>1, <2>2, OccFlatten
  <2>4. QED
    BY <2>3 DEF c, T
<1>9. Cardinality(P) \in Nat
  <2>1. IsFiniteSet(1 .. n)
    BY <1>1, FS_Interval
  <2>2. QED
    BY <1>4, <2>1, FS_Subset, FS_CardinalityType
<1>10. QED
  BY <1>5, <1>7, <1>8, <1>9 DEF P

(* The targets of one host and one protocol. *)
Reaching(host, type, port) == {t \in Fresh : Destination(t) = <<host, type, port>>}
Ways(type, port, ports) ==
  IF type = "icmp" THEN IF port = 0 THEN 1 ELSE 0 ELSE Occ(ports, {port})

LEMMA TargetReaches ==
  ASSUME NEW h \in Text, NEW t \in Tokens, NEW q \in 0 .. PortMod - 1,
         NEW host, NEW type, NEW port
  PROVE  Target(h, q, t) \in Reaching(host, type, port) <=> h = host /\ t = type /\ q = port
<1>1. q % PortMod = q /\ q \in Int
  BY TargetsAssumption
<1>2. Target(h, q, t) \in Fresh
  <2>1. h \in STRING
    BY DEF Text
  <2>2. QED
    BY <1>1, <2>1, TargetFresh
<1>3. /\ Target(h, q, t).host = h /\ Target(h, q, t).type = t
      /\ Target(h, q, t).port = q
  BY <1>1 DEF Target
<1>4. Destination(Target(h, q, t)) = <<h, t, q>>
  BY <1>3 DEF Destination
<1>5. <<h, t, q>> = <<host, type, port>> <=> h = host /\ t = type /\ q = port
  OBVIOUS
<1> DEFINE x == Target(h, q, t)
<1> HIDE DEF x
<1>6. x \in Fresh /\ Destination(x) = <<h, t, q>>
  BY <1>2, <1>4 DEF x
<1>7. x \in Reaching(host, type, port) <=> <<h, t, q>> = <<host, type, port>>
  BY <1>6 DEF Reaching
<1>8. QED
  BY <1>5, <1>7 DEF x

LEMMA RowOcc ==
  ASSUME NEW h \in Text, NEW t \in Tokens, NEW ports \in Seq(1 .. PortMod - 1),
         NEW host, NEW type, NEW port
  PROVE  Occ(Row(h, t, ports), Reaching(host, type, port))
           = IF t = type THEN (IF h = host THEN Ways(type, port, ports) ELSE 0) ELSE 0
<1> DEFINE row == Row(h, t, ports)
           T == Reaching(host, type, port)
           A == {j \in DOMAIN row : row[j] \in T}
           n == Len(ports)
<1>1. /\ n \in Nat /\ DOMAIN ports = 1 .. n
      /\ \A i \in 1 .. n : ports[i] \in 1 .. PortMod - 1
  BY SeqParts
<1>2. PortMod \in Nat /\ 0 \in 0 .. PortMod - 1 /\ \A i \in 1 .. n : ports[i] \in 0 .. PortMod - 1
  BY <1>1, TargetsAssumption
<1>3. Occ(row, T) = Cardinality(A)
  BY DEF Occ
<1>4. CASE t = "icmp"
  <2>1. row = <<Target(h, 0, t)>>
    BY <1>4 DEF Row
  <2>2. Target(h, 0, t) \in T <=> h = host /\ t = type /\ 0 = port
    BY <1>2, TargetReaches
  <2> HIDE DEF T
  <2>3. A = IF Target(h, 0, t) \in T THEN {1} ELSE {}
    <3> DEFINE x == Target(h, 0, t)
    <3>1. row = <<x>>
      BY <2>1
    <3> HIDE DEF x, row
    <3>2. A = IF x \in T THEN {1} ELSE {}
      BY <3>1
    <3>3. QED
      BY <3>2 DEF x, row
  <2> HIDE DEF A, row
  <2>4. Cardinality(A) = IF Target(h, 0, t) \in T THEN 1 ELSE 0
    BY <2>3, FS_Singleton, FS_EmptySet, Zenon
  <2>5. QED
    BY <1>3, <1>4, <2>2, <2>4 DEF Ways, row, T
<1>5. CASE t # "icmp"
  <2>1. row = [i \in DOMAIN ports |-> Target(h, ports[i], t)]
    BY <1>5 DEF Row
  <2>2. \A i \in 1 .. n : row[i] \in T <=> h = host /\ t = type /\ ports[i] = port
    <3> TAKE i \in 1 .. n
    <3>1. row[i] = Target(h, ports[i], t)
      BY <1>1, <2>1
    <3>2. Target(h, ports[i], t) \in T <=> h = host /\ t = type /\ ports[i] = port
      <4>1. ports[i] \in 0 .. PortMod - 1
        BY <1>2
      <4>2. QED
        BY <4>1, TargetReaches
    <3> HIDE DEF row, T
    <3>3. QED
      BY <3>1, <3>2
  <2>3. DOMAIN row = 1 .. n
    BY <1>1, <2>1
  <2> HIDE DEF row, T, n
  <2>4. CASE h = host /\ t = type
    <3>1. A = {j \in DOMAIN ports : ports[j] \in {port}}
      BY <1>1, <2>2, <2>3, <2>4
    <3>2. QED
      BY <1>3, <1>5, <2>4, <3>1 DEF Ways, Occ, row, T
  <2>5. CASE ~(h = host /\ t = type)
    <3>1. A = {}
      BY <2>2, <2>3, <2>5
    <3> HIDE DEF A
    <3>2. Cardinality(A) = 0
      BY <3>1, FS_EmptySet
    <3>3. QED
      BY <1>3, <2>5, <3>2 DEF row, T
  <2>6. QED BY <2>4, <2>5
<1>6. QED BY <1>4, <1>5

(* The targets of one host, and those of all hosts. *)
Places(s, x) == {i \in DOMAIN s : s[i] = x}

LEMMA PlacesCount ==
  ASSUME NEW S, NEW s \in Seq(S), NEW x
  PROVE  Cardinality(Places(s, x)) \in Nat
<1>1. Places(s, x) = {i \in DOMAIN s : s[i] \in {x}}
  BY DEF Places
<1>2. Occ(s, {x}) \in Nat
  BY OccNat
<1>3. QED
  BY <1>1, <1>2 DEF Occ

LEMMA WaysCount ==
  ASSUME NEW ports \in Seq(1 .. PortMod - 1), NEW type, NEW port
  PROVE  Ways(type, port, ports) \in Nat /\ ports \in Seq(Int)
<1>1. Occ(ports, {port}) \in Nat
  BY OccNat
<1>2. 1 .. PortMod - 1 \subseteq Int
  BY TargetsAssumption
<1>3. ports \in Seq(Int)
  <2> DEFINE R == 1 .. PortMod - 1
  <2> HIDE DEF R
  <2>1. R \subseteq Int /\ ports \in Seq(R)
    BY <1>2 DEF R
  <2>2. /\ Len(ports) \in Nat /\ ports = [i \in 1 .. Len(ports) |-> ports[i]]
        /\ \A i \in 1 .. Len(ports) : ports[i] \in R
    BY <2>1
  <2>3. \A i \in 1 .. Len(ports) : ports[i] \in Int
    BY <2>1, <2>2
  <2>4. QED
    BY <2>2, <2>3, MakeSeq
<1>4. QED
  BY <1>1, <1>3 DEF Ways

LEMMA RowsOcc ==
  ASSUME NEW h \in Text, NEW protos \in Seq(Tokens), NEW ports \in Seq(1 .. PortMod - 1),
         NEW host, NEW type, NEW port
  PROVE  Occ(Rows(h, protos, ports), Reaching(host, type, port))
           = IF h = host THEN Cardinality(Places(protos, type)) * Ways(type, port, ports) ELSE 0
<1> DEFINE ss == [i \in DOMAIN protos |-> Row(h, protos[i], ports)]
           n == Len(protos)
           T == Reaching(host, type, port)
           P == Places(protos, type)
           w == Ways(type, port, ports)
           c == IF h = host THEN w ELSE 0
           S == OfHosts({h})
<1>1. n \in Nat /\ DOMAIN protos = 1 .. n /\ \A i \in 1 .. n : protos[i] \in Tokens
  BY SeqParts
<1>2. w \in Nat /\ ports \in Seq(Int)
  BY WaysCount
<1>3. \A i \in DOMAIN ss : ss[i] \in Seq(S)
  BY <1>2, RowsFresh
<1>4. ss = [i \in 1 .. n |-> ss[i]] /\ DOMAIN ss = 1 .. n
  BY <1>1
<1>5. EachHas(ss, T, P, c)
  <2>1. P \subseteq DOMAIN ss
    BY DEF Places
  <2>2. ASSUME NEW i \in DOMAIN ss PROVE Occ(ss[i], T) = IF i \in P THEN c ELSE 0
    <3>1. protos[i] \in Tokens /\ ss[i] = Row(h, protos[i], ports) /\ i \in DOMAIN protos
      BY <1>1
    <3>2. Occ(Row(h, protos[i], ports), T) = IF protos[i] = type THEN c ELSE 0
      BY <3>1, RowOcc
    <3>3. i \in P <=> protos[i] = type
      BY <3>1 DEF Places
    <3> HIDE DEF ss, P, T, c
    <3>4. QED
      BY <3>1, <3>2, <3>3
  <2> HIDE DEF ss, P, T, c
  <2>3. QED
    BY <2>1, <2>2 DEF EachHas
<1>6. Rows(h, protos, ports) = FlattenSeq(ss)
  BY DEF Rows
<1>7. c \in Nat
  BY <1>2
<1>8. Cardinality(P) \in Nat
  BY PlacesCount
<1> HIDE DEF ss, n, T, P, w, c, S
<1>9. ss \in Seq(Seq(S))
  BY <1>1, <1>3, <1>4, MakeSeq
<1>10. Occ(FlattenSeq(ss), T) = Cardinality(P) * c
  BY <1>5, <1>7, <1>9, OccFlatten
<1>11. Cardinality(P) * 0 = 0
  BY <1>8
<1>12. Cardinality(P) * c = IF h = host THEN Cardinality(P) * w ELSE 0
  BY <1>11 DEF c
<1>13. QED
  BY <1>6, <1>10, <1>12 DEF T, P, w

LEMMA MatrixOcc ==
  ASSUME NEW hosts \in Seq(Text), NEW protos \in Seq(Tokens),
         NEW ports \in Seq(1 .. PortMod - 1), NEW host, NEW type, NEW port
  PROVE  Occ(MatrixOf(hosts, protos, ports), Reaching(host, type, port))
           = Cardinality(Places(hosts, host)) * Cardinality(Places(protos, type))
             * Ways(type, port, ports)
<1> DEFINE ss == [h \in DOMAIN hosts |-> Rows(hosts[h], protos, ports)]
           n == Len(hosts)
           T == Reaching(host, type, port)
           P == Places(hosts, host)
           q == Cardinality(Places(protos, type))
           w == Ways(type, port, ports)
           c == q * w
           S == OfHosts(ToSet(hosts))
<1>1. n \in Nat /\ DOMAIN hosts = 1 .. n /\ \A i \in 1 .. n : hosts[i] \in Text
  BY SeqParts
<1>2. w \in Nat /\ ports \in Seq(Int)
  BY WaysCount
<1>3. \A i \in DOMAIN ss : ss[i] \in Seq(S)
  BY <1>2, MatrixFresh
<1>4. ss = [i \in 1 .. n |-> ss[i]] /\ DOMAIN ss = 1 .. n
  BY <1>1
<1>5. EachHas(ss, T, P, c)
  <2>1. P \subseteq DOMAIN ss
    BY DEF Places
  <2>2. ASSUME NEW i \in DOMAIN ss PROVE Occ(ss[i], T) = IF i \in P THEN c ELSE 0
    <3>1. hosts[i] \in Text /\ ss[i] = Rows(hosts[i], protos, ports) /\ i \in DOMAIN hosts
      BY <1>1
    <3>2. Occ(Rows(hosts[i], protos, ports), T) = IF hosts[i] = host THEN c ELSE 0
      BY <3>1, RowsOcc
    <3>3. i \in P <=> hosts[i] = host
      BY <3>1 DEF Places
    <3> HIDE DEF ss, P, T, c
    <3>4. QED
      BY <3>1, <3>2, <3>3
  <2> HIDE DEF ss, P, T, c
  <2>3. QED
    BY <2>1, <2>2 DEF EachHas
<1>6. MatrixOf(hosts, protos, ports) = FlattenSeq(ss)
  BY DEF MatrixOf
<1>7. q \in Nat /\ Cardinality(P) \in Nat
  BY PlacesCount
<1> HIDE DEF ss, n, T, P, q, w, S
<1>8. c \in Nat
  BY <1>2, <1>7
<1>9. ss \in Seq(Seq(S))
  BY <1>1, <1>3, <1>4, MakeSeq
<1>10. Occ(FlattenSeq(ss), T) = Cardinality(P) * c
  <2> HIDE DEF c
  <2> QED BY <1>5, <1>8, <1>9, OccFlatten
<1>11. Cardinality(P) * c = Cardinality(P) * q * w
  <2> DEFINE p == Cardinality(P)
  <2> HIDE DEF p
  <2>1. p \in Nat
    BY <1>7 DEF p
  <2>2. p * (q * w) = (p * q) * w
    BY <1>2, <1>7, <2>1
  <2>3. QED
    BY <2>2 DEF p
<1>12. QED
  BY <1>6, <1>10, <1>11 DEF T, P, q, w

-----------------------------------------------------------------------------
(* The matrix in the list, from where it is made to the exit: later steps   *)
(* give targets their addresses, but no other destination.                  *)
Due(a, h, t, p) ==
  Cardinality(Places(a.hosts, h)) * Cardinality(Places(Protos(a.protos), t))
    * (IF t = "icmp" THEN (IF p = 0 THEN 1 ELSE 0) ELSE Cardinality(RangesOf(a.ports, p)))
At(its, d) == {j \in DOMAIN its : Destination(its[j]) = d}
Complete(its, a) ==
  /\ \A t \in ToSet(its) : t.host \in ToSet(a.hosts)
  /\ \A h \in ToSet(a.hosts), t \in Protocols, p \in 0 .. PortMod - 1 :
       Cardinality(At(its, <<h, t, p>>)) = Due(a, h, t, p)
MatrixInv ==
  /\ stage = "matrix" => items = <<>>
  /\ stage \in {"specs", "file"} \/ Built =>
       (args.specs = <<>> /\ args.file = <<>> => Complete(items, args))

LEMMA MatrixIsComplete ==
  ASSUME NEW a, a.hosts \in Seq(Text), a.ports \in Seq(Int \X Int), PortsOk(a.ports),
         Protos(a.protos) \in Seq(Tokens)
  PROVE  Complete(MatrixOf(a.hosts, Protos(a.protos), Ports(a.ports)), a)
<1> DEFINE hosts == a.hosts
           protos == Protos(a.protos)
           ports == Ports(a.ports)
           its == MatrixOf(hosts, protos, ports)
<1>1. ports \in Seq(1 .. PortMod - 1)
  <2>1. 0 \in Int
    OBVIOUS
  <2>2. QED
    BY <2>1, PortsOcc
<1>2. ports \in Seq(Int)
  BY <1>1, WaysCount
<1> HIDE DEF hosts, protos, ports
<1>3. its \in Seq(OfHosts(ToSet(hosts))) /\ its \in Seq(Fresh)
  BY <1>2, MatrixFresh DEF hosts, protos
<1>4. \A h, t, p : Occ(its, Reaching(h, t, p))
        = Cardinality(Places(hosts, h)) * Cardinality(Places(protos, t)) * Ways(t, p, ports)
  BY <1>1, MatrixOcc DEF hosts, protos
<1> HIDE DEF its
<1>5. \A t \in ToSet(its) : t.host \in ToSet(hosts)
  <2>1. \A i \in 1 .. Len(its) : its[i] \in OfHosts(ToSet(hosts))
    BY <1>3, SeqParts
  <2>2. DOMAIN its = 1 .. Len(its)
    BY <1>3, SeqParts
  <2>3. QED
    BY <2>1, <2>2 DEF ToSet, OfHosts
<1>6. ASSUME NEW h \in ToSet(hosts), NEW t \in Protocols, NEW p \in 0 .. PortMod - 1
      PROVE  Cardinality(At(its, <<h, t, p>>)) = Due(a, h, t, p)
  <2>1. \A j \in DOMAIN its : its[j] \in Fresh
    <3>1. DOMAIN its = 1 .. Len(its) /\ \A i \in 1 .. Len(its) : its[i] \in Fresh
      BY <1>3, SeqParts
    <3>2. QED BY <3>1
  <2>2. \A j \in DOMAIN its : Destination(its[j]) = <<h, t, p>> <=> its[j] \in Reaching(h, t, p)
    BY <2>1 DEF Reaching
  <2>3. At(its, <<h, t, p>>) = {j \in DOMAIN its : its[j] \in Reaching(h, t, p)}
    BY <2>2, Zenon DEF At
  <2>4. Occ(ports, {p}) = Cardinality(RangesOf(a.ports, p))
    <3>1. p \in Int
      OBVIOUS
    <3>2. QED
      BY <3>1, PortsOcc DEF ports
  <2>5. Ways(t, p, ports) = IF t = "icmp" THEN (IF p = 0 THEN 1 ELSE 0)
                            ELSE Cardinality(RangesOf(a.ports, p))
    BY <2>4 DEF Ways
  <2>6. Occ(its, Reaching(h, t, p))
          = Cardinality(Places(hosts, h)) * Cardinality(Places(protos, t)) * Ways(t, p, ports)
    BY <1>4
  <2>7. QED
    BY <2>3, <2>5, <2>6, Zenon DEF Occ, Due, hosts, protos
<1>7. QED
  BY <1>5, <1>6 DEF Complete, hosts, protos, ports, its

(* The same destinations in the same places. *)
LEMMA CompleteStays ==
  ASSUME NEW a, NEW its, NEW new, Complete(its, a), DOMAIN new = DOMAIN its,
         \A j \in DOMAIN its : new[j].host = its[j].host /\ Destination(new[j]) = Destination(its[j])
  PROVE  Complete(new, a)
<1>1. \A d : At(new, d) = At(its, d)
  BY DEF At
<1>2. \A t \in ToSet(new) : t.host \in ToSet(a.hosts)
  <2>1. \A t \in ToSet(its) : t.host \in ToSet(a.hosts)
    BY DEF Complete
  <2>2. \A j \in DOMAIN its : its[j].host \in ToSet(a.hosts)
    BY <2>1 DEF ToSet
  <2>3. \A j \in DOMAIN new : new[j].host \in ToSet(a.hosts)
    BY <2>2
  <2>4. \A t \in ToSet(new) : \E j \in DOMAIN new : t = new[j]
    BY DEF ToSet
  <2>5. QED
    BY <2>3, <2>4
<1>3. QED
  BY <1>1, <1>2 DEF Complete

LEMMA BuildMatrixKeeps == MainInv /\ MatrixInv /\ BuildMatrix => MatrixInv'
<1> SUFFICES ASSUME MainInv, MatrixInv, BuildMatrix PROVE MatrixInv'
  OBVIOUS
<1>1. stage = "matrix" /\ items = <<>> /\ args' = args
  BY DEF BuildMatrix, MatrixInv
<1>2. args.hosts \in Seq(Text) /\ args.ports \in Seq(Int \X Int)
  BY DEF MainInv, TypeInv
<1>3. CASE args.hosts = <<>>
  <2>1. stage' = "specs" /\ items' = <<>>
    BY <1>1, <1>3 DEF BuildMatrix
  <2>2. ToSet(<<>>) = {}
    BY DEF ToSet
  <2>3. Complete(<<>>, args)
    BY <1>3, <2>2 DEF Complete
  <2>4. Complete(items', args')
    BY <1>1, <2>1, <2>3
  <2>5. QED
    BY <2>1, <2>4 DEF MatrixInv
<1>4. CASE stage' = "failed"
  BY <1>4 DEF MatrixInv, Built
<1>5. CASE args.hosts # <<>> /\ stage' # "failed"
  <2> DEFINE protos == Protos(args.protos)
             ports == Ports(args.ports)
             new == MatrixOf(args.hosts, protos, ports)
  <2>1. PortsOk(args.ports) /\ Add(new, "specs")
    BY <1>5 DEF BuildMatrix, Fail, MatrixOf, Rows
  <2>2. protos \in Seq(Tokens)
    <3>1. "tcp" \in Tokens
      BY DEF Tokens, Protocols
    <3>2. <<"tcp">> \in Seq(Tokens)
      BY <3>1, One
    <3>3. QED
      BY <3>2 DEF Protos, MainInv, TypeInv
  <2>3. Complete(new, args)
    BY <1>2, <2>1, <2>2, MatrixIsComplete
  <2>4. new \in Seq(Fresh)
    <3>1. ports \in Seq(Int)
      BY <1>2, PortsType
    <3> HIDE DEF protos, ports
    <3>2. QED
      BY <1>2, <2>2, <3>1, MatrixFresh
  <2> HIDE DEF new
  <2>5. items' = new /\ stage' = "specs"
    <3>1. items' = items \o new /\ stage' = "specs"
      BY <1>5, <2>1 DEF Add
    <3>2. <<>> \o new = new
      BY <2>4
    <3>3. QED
      BY <1>1, <3>1, <3>2
  <2>6. Complete(items', args')
    BY <1>1, <2>3, <2>5
  <2>7. QED
    BY <2>5, <2>6 DEF MatrixInv
<1>6. QED BY <1>3, <1>4, <1>5

LEMMA AddKeeps == MainInv /\ MatrixInv /\ (AddSpec \/ AddFileLine) => MatrixInv'
<1> SUFFICES ASSUME MainInv, MatrixInv, AddSpec \/ AddFileLine, stage' # "failed",
                    args.specs = <<>>, args.file = <<>>
             PROVE  MatrixInv'
  BY DEF MatrixInv, Built, AddSpec, AddFileLine, Add, Fail
<1>1. stage \in {"specs", "file"} /\ args' = args /\ stage' # "matrix"
  BY DEF AddSpec, AddFileLine, Add, Fail
<1>2. at \in Nat \ {0} /\ Len(args.specs) = 0 /\ Len(args.file) = 0
  BY <1>1 DEF MainInv, TypeInv
<1>3. items' = items
  <2>1. at > Len(args.specs) /\ at > Len(args.file)
    BY <1>2
  <2>2. CASE AddSpec
    BY <2>1, <2>2 DEF AddSpec
  <2>3. CASE AddFileLine
    BY <2>1, <2>3 DEF AddFileLine, Fail
  <2>4. QED BY <2>2, <2>3
<1>4. Complete(items, args)
  BY <1>1 DEF MatrixInv
<1>5. QED
  BY <1>1, <1>3, <1>4 DEF MatrixInv

LEMMA ResolveOneKeeps == MainInv /\ MatrixInv /\ ResolveOne => MatrixInv'
<1> SUFFICES ASSUME MainInv, MatrixInv, ResolveOne, args.specs = <<>>, args.file = <<>>
             PROVE  MatrixInv'
  BY DEF MatrixInv, ResolveOne
<1>1. stage = "resolve" /\ stage' = stage /\ args' = args /\ at <= Len(items)
  BY DEF ResolveOne
<1>2. items \in Seq(Entry) /\ at \in Nat \ {0} /\ items # <<>>
  BY <1>1 DEF MainInv, TypeInv, ListInv
<1>3. Len(items) \in Nat /\ DOMAIN items = 1 .. Len(items) /\ \A i \in 1 .. Len(items) : items[i] \in Entry
  BY <1>2, SeqParts
<1>4. at \in DOMAIN items
  BY <1>1, <1>2, <1>3
<1>5. PICK u : /\ items' = [items EXCEPT ![at] = u]
               /\ u.host = items[at].host /\ Destination(u) = Destination(items[at])
  <2> DEFINE t == items[at]
  <2>1. t \in Entry
    BY <1>3, <1>4
  <2>2. \A p : Copied(t, p).host = t.host /\ Destination(Copied(t, p)) = Destination(t)
    BY <2>1 DEF Copied, Destination, Entry
  <2>3. \A answer : Asked(t, answer).host = t.host /\ Destination(Asked(t, answer)) = Destination(t)
    BY <2>1 DEF Asked, Destination, Entry
  <2>4. \/ \E p : items' = [items EXCEPT ![at] = Copied(t, p)]
        \/ \E answer : items' = [items EXCEPT ![at] = Asked(t, answer)]
    BY Zenon DEF ResolveOne
  <2>5. QED
    BY <2>2, <2>3, <2>4
<1>6. DOMAIN items' = DOMAIN items
  BY <1>5
<1>7. \A j \in DOMAIN items : /\ items'[j].host = items[j].host
                              /\ Destination(items'[j]) = Destination(items[j])
  BY <1>4, <1>5
<1>8. Complete(items, args)
  BY <1>1, <1>2 DEF MatrixInv, Built
<1>9. Complete(items', args)
  BY <1>6, <1>7, <1>8, CompleteStays
<1>10. QED
  BY <1>1, <1>9 DEF MatrixInv

LEMMA OthersKeepMatrix ==
  MainInv /\ MatrixInv /\ [MainNext]_mainVars /\ ~TargetsStep => MatrixInv'
<1> SUFFICES ASSUME MainInv, MatrixInv, [MainNext]_mainVars, ~TargetsStep PROVE MatrixInv'
  OBVIOUS
<1>0. stage \in Later \cup {"resolve"} => Built
  <2>2. stage \in Later \cup {"resolve"} => items # <<>>
    <3>1. ToSet(<<>>) = {}
      BY DEF ToSet
    <3>2. QED
      BY <3>1 DEF MainInv, ListInv
  <2>3. QED
    BY <2>2 DEF Built, Later, Looping
<1>1. CASE UseInterface
  <2>1. stage = "interface" /\ items' = items /\ stage' \in {"http", "matrix", "exit"}
    BY <1>1 DEF UseInterface, Proceed, Exit
  <2>2. items = <<>>
    BY <2>1 DEF MainInv, ListInv, Early
  <2>3. QED
    BY <2>1, <2>2 DEF MatrixInv, Built
<1>2. CASE ~UseInterface
  <2> DEFINE Still == /\ args' = args /\ items' = items
                      /\ stage' = stage \/ (Built /\ stage' # "matrix")
  <2>1. stage' \in {"exit", "interface"} \/ Still
    <3>1. CASE Arguments
      BY <3>1 DEF Arguments, Exit
    <3>2. CASE BuildFailed
      BY <3>2 DEF BuildFailed, Exit
    <3>3. CASE Resolved
      <4>1. stage = "resolve"
        BY <3>3 DEF Resolved
      <4>2. QED
        BY <1>0, <3>3, <4>1 DEF Resolved, FreeExit, Exit
    <3>4. CASE Annotate
      <4>1. stage \in Later
        BY <3>4 DEF Annotate, Later
      <4>2. QED
        BY <1>0, <3>4, <4>1 DEF Annotate
    <3>5. CASE ModeReturns \/ CloseLogs
      BY <3>5 DEF ModeReturns, CloseLogs, FreeExit, Exit
    <3>6. CASE ChooseMode \/ OpenCsv \/ OpenJson \/ LoopReturns
      <4>1. stage \in Later
        BY <3>6 DEF ChooseMode, OpenCsv, OpenJson, LoopReturns, Later, Looping
      <4>2. CASE ChooseMode
        BY <1>0, <4>1, <4>2 DEF ChooseMode, FreeExit, Exit
      <4>3. CASE OpenCsv \/ OpenJson
        BY <1>0, <4>1, <4>3 DEF OpenCsv, OpenJson, FreeExit, Exit
      <4>4. CASE LoopReturns
        BY <1>0, <4>1, <4>4 DEF LoopReturns, list
      <4>5. QED BY <3>6, <4>2, <4>3, <4>4
    <3>7. CASE UNCHANGED mainVars
      BY <3>7 DEF mainVars, list
    <3>8. QED
      BY <1>2, <3>1, <3>2, <3>3, <3>4, <3>5, <3>6, <3>7 DEF MainNext
  <2>2. QED
    BY <2>1 DEF MatrixInv, Built
<1>3. QED BY <1>1, <1>2

LEMMA MatrixStays == MainSpec => []MatrixInv
<1>1. MainInit => MatrixInv
  BY DEF MainInit, MatrixInv, Built
<1>2. MainInv /\ MatrixInv /\ [MainNext]_mainVars => MatrixInv'
  BY BuildMatrixKeeps, AddKeeps, ResolveOneKeeps, OthersKeepMatrix DEF TargetsStep, Build
<1>3. QED
  BY <1>1, <1>2, MainIsInductive, PTL DEF MainSpec

(* Each destination is in the list for each way the arguments name it, however
   many hosts, protocols and ranges of ports there are. *)
THEOREM MatrixIsWhole == MainSpec => []MatrixComplete
<1>1. ASSUME MatrixInv PROVE MatrixComplete
  <2> SUFFICES ASSUME Built, args.specs = <<>>, args.file = <<>>
               PROVE  /\ \A t \in ToSet(items) : t.host \in ToSet(args.hosts)
                      /\ \A host \in ToSet(args.hosts), type \in Protocols, port \in 0 .. PortMod - 1 :
                           Cardinality({j \in DOMAIN items : Destination(items[j]) = <<host, type, port>>})
                             = AskedFor(host, type, port)
    BY DEF MatrixComplete
  <2>1. Complete(items, args)
    BY <1>1 DEF MatrixInv
  <2>2. \A t \in ToSet(items) : t.host \in ToSet(args.hosts)
    BY <2>1 DEF Complete
  <2>3. ASSUME NEW host \in ToSet(args.hosts), NEW type \in Protocols, NEW port \in 0 .. PortMod - 1
        PROVE  Cardinality({j \in DOMAIN items : Destination(items[j]) = <<host, type, port>>})
                 = AskedFor(host, type, port)
    <3>1. Cardinality(At(items, <<host, type, port>>)) = Due(args, host, type, port)
      BY <2>1 DEF Complete
    <3>2. Due(args, host, type, port) = AskedFor(host, type, port)
      BY Zenon DEF Due, AskedFor, Places, RangesOf, RangesWith
    <3>3. QED
      BY <3>1, <3>2 DEF At
  <2>4. QED
    BY <2>2, <2>3
<1>2. QED
  BY <1>1, MatrixStays, PTL
=============================================================================
