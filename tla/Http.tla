-------------------------------- MODULE Http --------------------------------
(***************************************************************************)
(* The HTTP(S) mode: RunHttpMode of main.c and Http_Probe of http.c, in    *)
(* one thread, over the addresses getaddrinfo returned.                    *)
(*                                                                         *)
(* Time is discrete and passes only in calls that block: poll() while a    *)
(* connection is made, and recv() with SO_RCVTIMEO after that.  The        *)
(* request and the handshake's own messages fit the socket's buffer, so    *)
(* that send() does not block.  The peer may answer, fail, trickle or stay *)
(* silent.  SIGINT makes the call under way fail with EINTR, which nothing *)
(* here repeats.                                                           *)
(***************************************************************************)
EXTENDS Integers

CONSTANTS
  AddrCount,      \* addresses of the host
  Timeout,        \* cfg->TimeoutMs, in ticks
  Https,          \* possible values of u.Https
  Counts,         \* possible values of --count (-1: unlimited)
  MaxCycles,      \* bound on the probes of an unlimited run
  MaxReads,       \* recv calls that bring bytes until resp[], or the handshake, is complete
  MaxTicks        \* the clocks stop here, above every bound they are held to

ASSUME HttpAssumption ==
  /\ AddrCount \in Nat \ {0} /\ Timeout \in Nat \ {0}
  /\ Https \subseteq BOOLEAN
  /\ Counts \subseteq Nat \cup {-1} /\ MaxCycles \in Nat /\ MaxReads \in Nat \ {0}
  /\ MaxTicks \in Nat /\ MaxTicks > (AddrCount + 2) * Timeout

VARIABLES
  pc,             \* where the thread is
  https, count,   \* the URL's scheme, args->Count
  cycle,          \* probes done
  stats,          \* Attempts, Connects and Failures
  addr,           \* the address tried
  sockets,        \* sockets open
  contexts,       \* sets of mbedTLS contexts initialised and not freed
  cTls,           \* c.Tls
  reads,          \* recv calls that brought bytes in this phase
  resp,           \* what resp[] holds: no status yet, or one that is (not) accepted
  blocked,        \* ticks since the blocking call began
  deadline,       \* ticks since the timer "deadline" was started
  spent,          \* ticks since Http_Probe was called
  eintr,          \* the call under way is about to fail with EINTR
  interrupted,    \* g_interrupted
  exitCode,       \* what RunHttpMode returns
  accepted        \* history: responses read to their end that meet the criterion

mode == <<https, count>>
totals == <<cycle, stats, exitCode>>
conn == <<addr, sockets, contexts, cTls, reads, resp, accepted>>
clocks == <<blocked, deadline, spent>>
signal == <<eintr, interrupted>>
vars == <<pc, mode, totals, conn, clocks, signal>>

Init ==
  /\ pc = "test" /\ https \in Https /\ count \in Counts
  /\ cycle = 0 /\ stats = [attempts |-> 0, connects |-> 0, failures |-> 0]
  /\ exitCode = "none"
  /\ addr = 1 /\ sockets = 0 /\ contexts = 0 /\ cTls = FALSE
  /\ reads = 0 /\ resp = "nothing" /\ accepted = 0
  /\ blocked = 0 /\ deadline = 0 /\ spent = 0
  /\ eintr = FALSE /\ interrupted \in BOOLEAN

-----------------------------------------------------------------------------
(* RunHttpMode.                                                            *)

(* Mutant of Test: the result of the probe before is not cleared. *)
TestStale ==
  /\ pc = "test"
  /\ IF interrupted \/ (count # -1 /\ cycle >= count)
     THEN /\ pc' = "exit"
          /\ exitCode' = IF stats.connects > 0 THEN "success" ELSE "failure"
          /\ UNCHANGED <<conn, clocks>>
     ELSE /\ cycle < MaxCycles
          /\ pc' = "resolve"
          /\ addr' = 1 /\ cTls' = FALSE
          /\ spent' = 0 /\ blocked' = 0 /\ deadline' = 0
          /\ UNCHANGED <<exitCode, sockets, contexts, reads, resp, accepted>>
  /\ UNCHANGED <<mode, cycle, stats, signal>>

(* The loop condition; a new probe clears the result and the connection. *)
Test ==
  /\ pc = "test"
  /\ IF interrupted \/ (count # -1 /\ cycle >= count)
     THEN /\ pc' = "exit"
          /\ exitCode' = IF stats.connects > 0 THEN "success" ELSE "failure"
          /\ UNCHANGED <<conn, clocks>>
     ELSE /\ cycle < MaxCycles
          /\ pc' = "resolve"
          /\ addr' = 1 /\ cTls' = FALSE /\ resp' = "nothing"
          /\ spent' = 0 /\ blocked' = 0 /\ deadline' = 0
          /\ UNCHANGED <<exitCode, sockets, contexts, reads, accepted>>
  /\ UNCHANGED <<mode, cycle, stats, signal>>

(* The probe is counted, and there is a pause if another one is to follow. *)
Judge ==
  /\ pc = "judge"
  /\ LET good == resp = "accepted"
     IN stats' = [stats EXCEPT !.attempts = @ + 1,
                               !.connects = IF good THEN @ + 1 ELSE @,
                               !.failures = IF good THEN @ ELSE @ + 1]
  /\ cycle' = cycle + 1
  /\ pc' = IF count = -1 \/ cycle' < count THEN "pause" ELSE "test"
  /\ UNCHANGED <<mode, exitCode, conn, clocks, signal>>

Pause ==
  /\ pc = "pause"
  /\ pc' = "test"
  /\ UNCHANGED <<mode, totals, conn, clocks, signal>>

-----------------------------------------------------------------------------
(* TcpConnect.                                                             *)

(* getaddrinfo. *)
ResolveName ==
  /\ pc = "resolve"
  /\ pc' \in {"dial", "judge"}
  /\ UNCHANGED <<mode, totals, conn, clocks, signal>>

(* This address is given up; after the last one, so is the probe. *)
NextAddr ==
  IF addr = AddrCount THEN pc' = "judge" /\ UNCHANGED addr
                      ELSE pc' = "dial" /\ addr' = addr + 1

(* connect() and what it may return at once, the lack of a socket included. *)
Dial ==
  /\ pc = "dial"
  /\ \/ NextAddr /\ UNCHANGED sockets
     \/ /\ pc' \in {"poll", "connected"}
        /\ sockets' = sockets + 1
        /\ UNCHANGED addr
  /\ blocked' = 0
  /\ UNCHANGED <<mode, totals, contexts, cTls, reads, resp, accepted, deadline, spent, signal>>

(* Mutant of PollFails: the socket of the address given up stays open. *)
PollFailsLeaks ==
  /\ pc = "poll"
  /\ NextAddr
  /\ eintr' = FALSE
  /\ UNCHANGED <<mode, totals, sockets, contexts, cTls, reads, resp, accepted, clocks, interrupted>>

(* The connection fails, or poll() does: EINTR is a failure like another. *)
PollFails ==
  /\ pc = "poll"
  /\ NextAddr
  /\ sockets' = sockets - 1
  /\ eintr' = FALSE
  /\ UNCHANGED <<mode, totals, contexts, cTls, reads, resp, accepted, clocks, interrupted>>

(* Mutant of PollTimeout: the same address is tried again. *)
PollTimeoutRetries ==
  /\ (blocked = Timeout \/ eintr) /\ pc = "poll"
  /\ pc' = "dial" /\ sockets' = sockets - 1 /\ eintr' = FALSE
  /\ UNCHANGED <<mode, totals, addr, contexts, cTls, reads, resp, accepted, clocks, interrupted>>

(* What makes poll() fail for certain. *)
PollTimeout == (blocked = Timeout \/ eintr) /\ PollFails

PollOk ==
  /\ pc = "poll" /\ ~eintr
  /\ pc' = "connected"
  /\ UNCHANGED <<mode, totals, conn, clocks, signal>>

-----------------------------------------------------------------------------
(* Http_Probe.                                                             *)

(* ConnClose: the socket, and the TLS contexts if c.Tls says so. *)
ConnClose ==
  /\ sockets' = sockets - 1
  /\ contexts' = IF cTls THEN contexts - 1 ELSE contexts

(* After the connection: TlsHandshake initialises its contexts, and may fail
   before any message is sent. *)
Connected ==
  /\ pc = "connected"
  /\ blocked' = 0 /\ reads' = 0
  /\ IF https
     THEN \/ pc' = "handshake" /\ contexts' = contexts + 1 /\ UNCHANGED sockets
          \/ pc' = "judge" /\ sockets' = sockets - 1 /\ contexts' = contexts + 1
     ELSE pc' = "send" /\ UNCHANGED <<sockets, contexts>>
  /\ UNCHANGED <<mode, totals, addr, cTls, resp, accepted, deadline, spent, signal>>

(* mbedtls_ssl_handshake succeeds ... *)
HandshakeOk ==
  /\ pc = "handshake" /\ ~eintr
  /\ pc' = "send" /\ cTls' = TRUE
  /\ UNCHANGED <<mode, totals, addr, sockets, contexts, reads, resp, accepted, clocks, signal>>

(* ... or fails, after an EINTR too (BioRecv) ... *)
HandshakeFails ==
  /\ pc = "handshake"
  /\ pc' = "judge" /\ ConnClose /\ eintr' = FALSE
  /\ UNCHANGED <<mode, totals, addr, cTls, reads, resp, accepted, clocks, interrupted>>

HandshakeEintr == eintr /\ HandshakeFails

(* ... or wants to read on, because bytes came that do not complete it ... *)
HandshakeBytes ==
  /\ pc = "handshake" /\ ~eintr /\ reads < MaxReads
  /\ reads' = reads + 1 /\ blocked' = 0
  /\ UNCHANGED <<pc, mode, totals, addr, sockets, contexts, cTls, resp, accepted,
                 deadline, spent, signal>>

(* ... or because recv timed out, which is WANT_READ like any EAGAIN. *)
HandshakeTimeout ==
  /\ pc = "handshake" /\ ~eintr /\ blocked = Timeout
  /\ blocked' = 0
  /\ UNCHANGED <<pc, mode, totals, conn, deadline, spent, signal>>

(* ConnSendAll, then the timer of the response starts. *)
Send ==
  /\ pc = "send"
  /\ \/ pc' = "judge" /\ ConnClose
     \/ pc' = "read" /\ UNCHANGED <<sockets, contexts>>
  /\ deadline' = 0 /\ reads' = 0
  /\ UNCHANGED <<mode, totals, addr, cTls, resp, accepted, blocked, spent, signal>>

(* Mutant of ReadTest: the timer is not re-armed (http.c:439), reads 0 from
   then on, and the deadline never comes. *)
ReadTestDisarmed ==
  /\ pc = "read"
  /\ pc' = "recv"
  /\ blocked' = 0
  /\ UNCHANGED <<mode, totals, conn, deadline, spent, signal>>

(* The top of the reading loop. *)
ReadTest ==
  /\ pc = "read"
  /\ pc' = IF deadline > Timeout THEN "close" ELSE "recv"
  /\ blocked' = 0
  /\ UNCHANGED <<mode, totals, conn, deadline, spent, signal>>

(* recv returns bytes, which may hold a status and may complete the line or
   fill resp[]. *)
RecvData ==
  /\ pc = "recv" /\ ~eintr /\ reads < MaxReads
  /\ reads' = reads + 1
  /\ resp' \in {"nothing", "accepted", "refused"}
  /\ pc' \in {"read", "close"}
  /\ pc' = "read" => reads' < MaxReads
  /\ UNCHANGED <<mode, totals, addr, sockets, contexts, cTls, accepted, clocks, signal>>

(* The bytes are a part of a TLS record only, and mbedtls_ssl_read calls
   BioRecv again before it returns. *)
RecvPartial ==
  /\ pc = "recv" /\ cTls /\ ~eintr /\ reads < MaxReads - 1
  /\ reads' = reads + 1 /\ blocked' = 0
  /\ UNCHANGED <<pc, mode, totals, addr, sockets, contexts, cTls, resp, accepted,
                 deadline, spent, signal>>

(* recv returns 0 or an error. *)
RecvEnds ==
  /\ pc = "recv"
  /\ pc' = "close" /\ eintr' = FALSE
  /\ UNCHANGED <<mode, totals, conn, clocks, interrupted>>

RecvEintr == eintr /\ RecvEnds

(* recv times out: an error for plain HTTP, a reason to read on for TLS. *)
RecvTimeout ==
  /\ pc = "recv" /\ ~eintr /\ blocked = Timeout
  /\ pc' = IF cTls THEN "read" ELSE "close"
  /\ UNCHANGED <<mode, totals, conn, clocks, signal>>

(* ConnClose after the loop; the status is taken from resp[] afterwards. *)
Close ==
  /\ pc = "close"
  /\ pc' = "judge"
  /\ ConnClose
  /\ accepted' = IF resp = "accepted" THEN accepted + 1 ELSE accepted
  /\ UNCHANGED <<mode, totals, addr, cTls, reads, resp, clocks, signal>>

-----------------------------------------------------------------------------
(* The environment.                                                        *)

Blocking == {"poll", "handshake", "recv"}

Advance(clock) == IF clock < MaxTicks THEN clock + 1 ELSE clock

Tick ==
  /\ pc \in Blocking /\ ~eintr /\ blocked < Timeout
  /\ blocked' = blocked + 1
  /\ deadline' = IF pc = "recv" THEN Advance(deadline) ELSE deadline
  /\ spent' = Advance(spent)
  /\ UNCHANGED <<pc, mode, totals, conn, signal>>

(* The signal comes to the only thread there is. *)
Interrupt ==
  /\ ~interrupted /\ pc # "exit"
  /\ interrupted' = TRUE
  /\ eintr' = (pc \in Blocking)
  /\ UNCHANGED <<pc, mode, totals, conn, clocks>>

Exited == pc = "exit" /\ UNCHANGED vars

Program ==
  \/ Test \/ Judge \/ Pause
  \/ ResolveName \/ Dial \/ PollTimeout
  \/ Connected \/ HandshakeEintr \/ HandshakeTimeout \/ Send
  \/ ReadTest \/ RecvEintr \/ RecvTimeout \/ Close

Peer ==
  \/ PollOk \/ PollFails
  \/ HandshakeOk \/ HandshakeFails \/ HandshakeBytes
  \/ RecvData \/ RecvPartial \/ RecvEnds

Next == Program \/ Peer \/ Tick \/ Interrupt \/ Exited

(* The program runs and time passes; the peer need not do anything. *)
Spec == Init /\ [][Next]_vars /\ WF_vars(Program) /\ WF_vars(Tick)

-----------------------------------------------------------------------------
(* Properties.                                                             *)

(* At most one socket is open, and none between two probes, whichever way a
   probe ended (http.c:204-240, 409-455). *)
SocketsClosed ==
  IF pc \in {"test", "resolve", "dial", "judge", "pause", "exit"}
  THEN sockets = 0 ELSE sockets = 1

(* Connecting takes a timeout per address at most, and the response two: the
   deadline is tested before a recv that may itself take a timeout, and is
   re-armed although reading the timer disarms it (http.c:436-439).  So a
   plain HTTP probe has a bound, whatever the peer does. *)
TimeSpent ==
  /\ pc \in {"dial", "poll", "connected"} => spent <= addr * Timeout
  /\ ~https => deadline <= 2 * Timeout /\ spent <= (AddrCount + 2) * Timeout

(* main.c:517 "EXIT_SUCCESS if at least one probe met the success criterion",
   and only then: a probe is counted as a success only for a status that was
   received for this very probe. *)
SuccessesReceived ==
  /\ stats.attempts = stats.connects + stats.failures
  /\ pc \in {"test", "resolve", "exit"} =>
       stats.attempts = cycle /\ stats.connects = accepted
  /\ pc = "exit" => (exitCode = "success" <=> accepted > 0)

(* A plain HTTP run with a count, or with an interrupt, ends. *)
PlainEnds == (~https /\ (count # -1 \/ interrupted)) ~> (pc = "exit")

(* http.h:24 "Overall timeout in milliseconds": a plain HTTP probe is over
   after that time.  The code breaks it: each address and each phase has the
   whole timeout for itself. *)
OverallTimeout == ~https => spent <= Timeout

(* http.h:24 again: an HTTPS probe ends at all.  The code breaks it: the
   handshake takes a recv that timed out for a reason to go on
   (http.c:314-322), for ever if the peer stays silent. *)
ProbesEnd == (pc = "resolve") ~> (pc = "judge")

(* http.c:361 "Release all connection resources": between probes no TLS
   context is left.  The code breaks it: c.Tls is set only after a handshake
   that succeeded, so ConnClose frees nothing after one that failed. *)
ContextsReleased == pc \in {"test", "pause", "exit"} => contexts = 0

-----------------------------------------------------------------------------
(* The inductive invariant behind SocketsClosed, TimeSpent and              *)
(* SuccessesReceived (see HttpProofs).                                      *)

HttpTypeOK ==
  /\ pc \in {"test", "judge", "pause", "exit", "resolve", "dial", "poll", "connected",
             "handshake", "send", "read", "recv", "close"}
  /\ https \in BOOLEAN /\ cTls \in BOOLEAN /\ eintr \in BOOLEAN
  /\ cycle \in Nat /\ accepted \in Nat
  /\ stats \in [attempts : Nat, connects : Nat, failures : Nat]
  /\ addr \in 1 .. AddrCount
  /\ resp \in {"nothing", "accepted", "refused"}
  /\ blocked \in 0 .. Timeout /\ deadline \in Nat /\ spent \in Nat

(* A success is received once and counted once. *)
SuccessInv ==
  /\ stats.attempts = cycle /\ stats.attempts = stats.connects + stats.failures
  /\ accepted = stats.connects + (IF pc = "judge" /\ resp = "accepted" THEN 1 ELSE 0)
  /\ pc \in {"resolve", "dial", "poll", "connected", "handshake", "send"} => resp = "nothing"
  /\ pc = "exit" => (exitCode = "success" <=> accepted > 0)

(* Each address has a timeout to be connected to, and the rest of a plain
   probe two. *)
ClockInv ==
  /\ pc = "resolve" => spent = 0 /\ addr = 1
  /\ pc = "dial" => spent + Timeout <= addr * Timeout
  /\ pc = "poll" => spent + Timeout <= addr * Timeout + blocked
  /\ pc = "connected" => spent <= addr * Timeout
  /\ ~https =>
       /\ ~cTls /\ pc # "handshake"
       /\ deadline <= 2 * Timeout
       /\ pc \in {"resolve", "dial", "poll", "connected", "send"} => deadline = 0
       /\ pc = "send" => spent <= AddrCount * Timeout
       /\ pc = "recv" => deadline <= Timeout + blocked
       /\ pc \in {"read", "recv", "close"} => spent <= AddrCount * Timeout + deadline
       /\ spent <= (AddrCount + 2) * Timeout

HttpInv == HttpTypeOK /\ SocketsClosed /\ SuccessInv /\ ClockInv
=============================================================================
