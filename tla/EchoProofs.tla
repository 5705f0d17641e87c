----------------------------- MODULE EchoProofs -----------------------------
(***************************************************************************)
(* Who gets which ICMP message: the probes of the pool, for every set of   *)
(* targets, every width of icmp_seq and every number of probes, and the    *)
(* lines and the time of a traceroute, for every distance, every number of *)
(* hops and queries, every timeout, and whatever arrives.                  *)
(***************************************************************************)
EXTENDS IcmpPool, Traceroute, TLAPS

-----------------------------------------------------------------------------
(* The probes of the pool.                                                 *)

(* Before they come round, the numbers of two probes differ. *)
LEMMA NumInjective ==
  ASSUME NEW m \in 1 .. SeqMod, NEW n \in 1 .. SeqMod, Num(m) = Num(n)
  PROVE  m = n
BY IcmpAssumption DEF Num

(* The increment gives the next probe the next number. *)
LEMMA NumSuccessor ==
  ASSUME NEW n \in Nat, n + 1 <= SeqMod
  PROVE  Successor(Num(n)) = Num(n + 1)
BY IcmpAssumption DEF Num, Successor

-----------------------------------------------------------------------------
LEMMA InitInv == IcmpInit => IcmpInv
<1> SUFFICES ASSUME IcmpInit PROVE IcmpInv
  OBVIOUS
<1> USE IcmpAssumption DEF IcmpInit, Init
<1>1. IcmpTypeOK
  BY DEF IcmpTypeOK, TypeOK
<1>2. ScheduleInv
  BY DEF ScheduleInv
<1>3. OrderInv
  BY DEF OrderInv
<1>4. NumberInv
  BY DEF NumberInv, Taking, Num
<1>5. RepliesOwn
  BY DEF RepliesOwn
<1>6. QED
  BY <1>1, <1>2, <1>3, <1>4, <1>5 DEF IcmpInv

-----------------------------------------------------------------------------
(* The owner's steps leave the probes alone. *)
LEMMA OwnerInv ==
  ASSUME IcmpInv, StartRound \/ EndRound
  PROVE  IcmpInv'
<1> USE DEF IcmpInv
<1>1. /\ UNCHANGED <<raw, pc, numbers, network, history>>
      /\ StartCycle \/ EndCycle \/ Close
  BY DEF StartRound, EndRound
<1>2. IcmpTypeOK'
  BY <1>1 DEF IcmpTypeOK, TypeOK, numbers, network, history, StartCycle, EndCycle, Close
<1>3. ScheduleInv'
  BY <1>1 DEF ScheduleInv, numbers, network, history, StartCycle, EndCycle, Close
<1>4. OrderInv'
  BY <1>1 DEF OrderInv, numbers, network, history
<1>5. NumberInv'
  BY <1>1 DEF NumberInv, Clean, Taking, numbers, network, history
<1>6. RepliesOwn'
  BY <1>1 DEF RepliesOwn, numbers, network, history
<1>7. QED
  BY <1>2, <1>3, <1>4, <1>5, <1>6

-----------------------------------------------------------------------------
(* A worker's steps. *)

LEMMA BeginInv ==
  ASSUME IcmpInv, NEW t \in Target, Begin(t)
  PROVE  IcmpInv'
<1> USE DEF IcmpInv, Begin, BeginProbe, Go, numbers, network
<1>1. IcmpTypeOK'
  BY DEF IcmpTypeOK, TypeOK
<1>2. pc[t] = "idle" /\ phase = "running"
  BY DEF ScheduleInv, IcmpTypeOK, TypeOK
<1>3. ScheduleInv'
  BY <1>2 DEF ScheduleInv, IcmpTypeOK, TypeOK
<1>4. OrderInv'
  BY <1>2 DEF OrderInv, IcmpTypeOK
<1>5. NumberInv'
  BY <1>2 DEF NumberInv, Clean, Taking, IcmpTypeOK
<1>6. RepliesOwn'
  BY DEF RepliesOwn, IcmpTypeOK
<1>7. QED
  BY <1>1, <1>3, <1>4, <1>5, <1>6

LEMMA LoadInv ==
  ASSUME IcmpInv, NEW t \in Target, Load(t)
  PROVE  IcmpInv'
<1> USE IcmpAssumption DEF IcmpInv, Load, Go, network, cycleVars
<1>1. IcmpTypeOK'
  BY DEF IcmpTypeOK, TypeOK, Successor
<1>2. ScheduleInv'
  BY DEF ScheduleInv, IcmpTypeOK
<1>3. OrderInv'
  BY DEF OrderInv, IcmpTypeOK, ScheduleInv
<1>4. NumberInv'
  <2> SUFFICES ASSUME Clean' PROVE NumberInv'
    BY DEF NumberInv
  <2>1. Clean /\ taken + 1 <= SeqMod /\ \A u \in Target : ~Taking(u)
    <3>1. ~raced' /\ taken' = taken + 1 /\ taken' <= SeqMod
      BY DEF Clean
    <3>2. ~raced /\ \A u \in Target : ~Taking(u)
      BY <3>1, Zenon
    <3>3. taken <= SeqMod
      BY <3>1 DEF IcmpTypeOK
    <3>4. QED
      BY <3>1, <3>2, <3>3 DEF Clean
  <2>2. icmpSeq = Num(taken)
    BY <2>1 DEF NumberInv, Taking
  <2>3. incremented'[t] = Num(taken')
    BY <2>1, <2>2, NumSuccessor DEF IcmpTypeOK
  <2>4. \A u \in Target : Taking(u)' => u = t
    BY <2>1 DEF Taking, IcmpTypeOK
  <2>5. pc'[t] = "store" /\ nth'[t] = taken'
    BY DEF IcmpTypeOK
  <2>6. \A u \in Target : pc'[u] \in {"open", "send", "wait"} => seq'[u] = Num(nth'[u])
    BY <2>1 DEF NumberInv, IcmpTypeOK
  <2>7. \A m \in inFlight' : m.seq = Num(m.nth)
    BY <2>1 DEF NumberInv
  <2>8. \A u \in Target : \A m \in queue'[u] : m.seq = Num(m.nth)
    BY <2>1 DEF NumberInv
  <2>9. QED
    BY <2>3, <2>4, <2>5, <2>6, <2>7, <2>8 DEF NumberInv, Num
<1>5. RepliesOwn'
  BY DEF RepliesOwn, IcmpTypeOK, ScheduleInv
<1>6. QED
  BY <1>1, <1>2, <1>3, <1>4, <1>5

LEMMA StoreInv ==
  ASSUME IcmpInv, NEW t \in Target, Store(t)
  PROVE  IcmpInv'
<1> USE DEF IcmpInv, Store, Go, network, history, cycleVars
<1>1. IcmpTypeOK'
  BY DEF IcmpTypeOK, TypeOK
<1>2. ScheduleInv'
  BY DEF ScheduleInv, IcmpTypeOK
<1>3. OrderInv'
  BY DEF OrderInv, IcmpTypeOK
<1>4. NumberInv'
  BY DEF NumberInv, Clean, Taking, IcmpTypeOK, Num
<1>5. RepliesOwn'
  BY DEF RepliesOwn
<1>6. QED
  BY <1>1, <1>2, <1>3, <1>4, <1>5

LEMMA NumberStepInv ==
  ASSUME IcmpInv, NEW t \in Target, Number(t)
  PROVE  IcmpInv'
<1> USE DEF IcmpInv, Number, Go, network, history, cycleVars
<1>1. IcmpTypeOK'
  BY DEF IcmpTypeOK, TypeOK
<1>2. ScheduleInv'
  BY DEF ScheduleInv, IcmpTypeOK
<1>3. OrderInv'
  BY DEF OrderInv, IcmpTypeOK
<1>4. NumberInv'
  <2> SUFFICES ASSUME Clean PROVE NumberInv'
    BY DEF NumberInv, Clean
  <2>1. \A u \in Target : Taking(u) => u = t
    BY DEF NumberInv, Taking
  <2>2. icmpSeq = Num(taken) /\ incremented[t] = Num(taken) /\ nth[t] = taken
    BY <2>1 DEF NumberInv, Taking
  <2>3. seq'[t] = Num(nth'[t])
    BY <2>2 DEF IcmpTypeOK
  <2>4. QED
    BY <2>1, <2>2, <2>3 DEF NumberInv, Taking, IcmpTypeOK
<1>5. RepliesOwn'
  BY DEF RepliesOwn
<1>6. QED
  BY <1>1, <1>2, <1>3, <1>4, <1>5

LEMMA OpenInv ==
  ASSUME IcmpInv, NEW t \in Target, Open(t)
  PROVE  IcmpInv'
<1> USE DEF IcmpInv, Open, Go, numbers, network, history, cycleVars
<1>1. IcmpTypeOK'
  BY DEF IcmpTypeOK, TypeOK
<1>2. ScheduleInv'
  BY DEF ScheduleInv, IcmpTypeOK
<1>3. OrderInv'
  BY DEF OrderInv, IcmpTypeOK
<1>4. NumberInv'
  BY DEF NumberInv, Clean, Taking, IcmpTypeOK
<1>5. RepliesOwn'
  BY DEF RepliesOwn
<1>6. QED
  BY <1>1, <1>2, <1>3, <1>4, <1>5

LEMMA SendInv ==
  ASSUME IcmpInv, NEW t \in Target, Send(t)
  PROVE  IcmpInv'
<1> USE DEF IcmpInv, Send, Go, numbers, history, cycleVars
<1>1. IcmpTypeOK'
  BY DEF IcmpTypeOK, TypeOK, Message
<1>2. ScheduleInv'
  BY DEF ScheduleInv, IcmpTypeOK
<1>3. OrderInv'
  BY DEF OrderInv, IcmpTypeOK
<1>4. NumberInv'
  BY DEF NumberInv, Clean, Taking, IcmpTypeOK
<1>5. RepliesOwn'
  BY DEF RepliesOwn
<1>6. QED
  BY <1>1, <1>2, <1>3, <1>4, <1>5

LEMMA FailInv ==
  ASSUME IcmpInv, NEW t \in Target, Fail(t)
  PROVE  IcmpInv'
<1> USE DEF IcmpInv, Fail, EndProbe, Go, numbers, history
<1>1. IcmpTypeOK'
  BY DEF IcmpTypeOK, TypeOK
<1>2. ScheduleInv'
  BY DEF ScheduleInv, IcmpTypeOK
<1>3. OrderInv'
  BY DEF OrderInv, IcmpTypeOK
<1>4. NumberInv'
  BY DEF NumberInv, Clean, Taking, IcmpTypeOK
<1>5. RepliesOwn'
  BY DEF RepliesOwn
<1>6. QED
  BY <1>1, <1>2, <1>3, <1>4, <1>5

(* A reply of the probe's number is the probe's own: on a datagram socket
   nothing else arrives, and on a raw one the numbers tell. *)
LEMMA AcceptsOwn ==
  ASSUME IcmpInv, NEW t \in Target, pc[t] = "wait",
         NEW m \in queue[t], Accepts(t, m), ~raw \/ Clean
  PROVE  m.nth = nth[t]
<1> USE DEF IcmpInv
<1>1. CASE ~raw
  BY <1>1 DEF OrderInv
<1>2. CASE Clean
  <2>1. m.nth \in 1 .. SeqMod /\ nth[t] \in 1 .. SeqMod
    BY <1>2, IcmpAssumption DEF OrderInv, Clean, IcmpTypeOK
  <2>2. Num(m.nth) = Num(nth[t])
    BY <1>2 DEF NumberInv, Accepts
  <2>3. QED
    BY <2>1, <2>2, NumInjective
<1>3. QED
  BY <1>1, <1>2

LEMMA ReceiveInv ==
  ASSUME IcmpInv, NEW t \in Target, NEW m \in queue[t], Receive(t, m)
  PROVE  IcmpInv'
<1> USE DEF IcmpInv, Receive, numbers
<1>1. CASE Accepts(t, m)
  <2> USE <1>1 DEF EndProbe, Go
  <2>1. IcmpTypeOK'
    BY DEF IcmpTypeOK, TypeOK, Message
  <2>2. ScheduleInv'
    BY DEF ScheduleInv, IcmpTypeOK
  <2>3. OrderInv'
    BY DEF OrderInv, IcmpTypeOK
  <2>4. NumberInv'
    BY DEF NumberInv, Clean, Taking, IcmpTypeOK
  <2>5. RepliesOwn'
    <3>1. m.nth = nth[t] \/ (raw /\ ~Clean)
      BY AcceptsOwn
    <3>2. ~Clean => raced \/ taken > SeqMod
      BY IcmpAssumption DEF Clean, IcmpTypeOK
    <3>3. QED
      BY <3>1, <3>2 DEF RepliesOwn, IcmpTypeOK
  <2>6. QED
    BY <2>1, <2>2, <2>3, <2>4, <2>5
<1>2. CASE ~Accepts(t, m)
  <2> USE <1>2 DEF cycleVars
  <2>1. IcmpTypeOK'
    BY DEF IcmpTypeOK, TypeOK
  <2>2. ScheduleInv'
    BY DEF ScheduleInv, IcmpTypeOK
  <2>3. OrderInv'
    BY DEF OrderInv, IcmpTypeOK
  <2>4. NumberInv'
    BY DEF NumberInv, Clean, Taking, IcmpTypeOK
  <2>5. RepliesOwn'
    BY DEF RepliesOwn
  <2>6. QED
    BY <2>1, <2>2, <2>3, <2>4, <2>5
<1>3. QED
  BY <1>1, <1>2

-----------------------------------------------------------------------------
(* The network. *)
LEMMA ReplyInv ==
  ASSUME IcmpInv, NEW m \in inFlight, Reply(m)
  PROVE  IcmpInv'
<1> USE DEF IcmpInv, Reply, numbers, history, cycleVars
<1>1. IcmpTypeOK'
  BY DEF IcmpTypeOK, TypeOK
<1>2. ScheduleInv'
  BY DEF ScheduleInv, IcmpTypeOK, Hears
<1>3. OrderInv'
  BY DEF OrderInv, IcmpTypeOK, Hears
<1>4. NumberInv'
  BY DEF NumberInv, Clean, Taking, IcmpTypeOK
<1>5. RepliesOwn'
  BY DEF RepliesOwn
<1>6. QED
  BY <1>1, <1>2, <1>3, <1>4, <1>5

LEMMA StutterInv == IcmpInv /\ UNCHANGED vars => IcmpInv'
BY DEF IcmpInv, vars, cycleVars, numbers, network, history, IcmpTypeOK, TypeOK,
       ScheduleInv, OrderInv, NumberInv, Clean, Taking, RepliesOwn

LEMMA NextInv == IcmpInv /\ [IcmpNext]_vars => IcmpInv'
<1> SUFFICES ASSUME IcmpInv, [IcmpNext]_vars PROVE IcmpInv'
  OBVIOUS
<1>1. CASE StartRound \/ EndRound
  BY <1>1, OwnerInv
<1>2. CASE \E t \in Target : Probing(t)
  BY <1>2, BeginInv, LoadInv, StoreInv, NumberStepInv, OpenInv, SendInv, FailInv,
     ReceiveInv DEF Probing
<1>3. CASE \E m \in inFlight : Reply(m)
  BY <1>3, ReplyInv
<1>4. CASE Closed \/ UNCHANGED vars
  BY <1>4, StutterInv DEF Closed
<1>5. QED
  BY <1>1, <1>2, <1>3, <1>4 DEF IcmpNext

(* The inductive invariant holds in every reachable state. *)
THEOREM IcmpInvariance == IcmpSpec => []IcmpInv
<1>1. QED
  BY InitInv, NextInv, PTL DEF IcmpSpec

(* Every success of an ICMP probe is the reply to that very probe, on
   datagram sockets always, on raw sockets until two workers race for a
   number or more than 2^16 probes were sent: so the sequential mode can
   rely on the number alone (socket.c:851-858). *)
THEOREM SuccessesAreOwn == IcmpSpec => []RepliesOwn
<1>1. IcmpInv => RepliesOwn
  BY DEF IcmpInv
<1>2. QED
  BY <1>1, IcmpInvariance, PTL

-----------------------------------------------------------------------------
(* A traceroute.                                                           *)

(* The numbers of the queries of a hop are its own. *)
LEMMA OneHop ==
  ASSUME NEW s \in Nat, NEW a \in Nat, NEW b \in Nat, OfHop(s, a), OfHop(s, b)
  PROVE  a = b
<1>1. Queries \in Nat \ {0}
  BY TracerouteAssumption
<1>2. \A x, y \in Nat : x < y => x * Queries <= (y - 1) * Queries
  <2>1. ASSUME NEW x \in Nat, NEW y \in Nat, x < y
        PROVE  x * Queries <= (y - 1) * Queries
    <3>1. PICK d \in Nat : y - 1 = x + d
      <4>1. y - 1 - x \in Nat /\ y - 1 = x + (y - 1 - x)
        BY <2>1
      <4>2. QED
        BY <4>1
    <3>2. (x + d) * Queries = x * Queries + d * Queries /\ d * Queries \in Nat
      BY <1>1
    <3>3. QED
      BY <1>1, <3>1, <3>2
  <2>2. QED BY <2>1
<1>3. a * Queries \in Nat /\ b * Queries \in Nat
  BY <1>1
<1>4. (a - 1) * Queries \in Int /\ (b - 1) * Queries \in Int
  BY <1>1
<1>5. ~(a < b) /\ ~(b < a)
  BY <1>2, <1>3, <1>4 DEF OfHop
<1>6. QED
  BY <1>5

(* The number of query number n of hop h. *)
LEMMA NumberOfHop ==
  ASSUME NEW h \in Nat \ {0}, NEW n \in 0 .. Queries - 1
  PROVE  /\ OfHop((h - 1) * Queries + n + 1, h)
         /\ n + 1 = Queries => (h - 1) * Queries + n + 1 = (h + 1 - 1) * Queries
         /\ (h - 1) * Queries \in Nat
<1>1. Queries \in Nat \ {0} /\ h - 1 \in Nat
  BY TracerouteAssumption
<1>2. h * Queries = (h - 1) * Queries + Queries /\ (h - 1) * Queries \in Nat
  BY <1>1
<1>3. QED
  BY <1>1, <1>2 DEF OfHop

LEMMA OneMoreQuery ==
  ASSUME NEW k \in Nat
  PROVE  (k + 1) * Timeout = k * Timeout + Timeout /\ k * Timeout \in Nat
BY TracerouteAssumption

-----------------------------------------------------------------------------
LEMMA InitTrace == TraceInit => TraceInv
<1> SUFFICES ASSUME TraceInit PROVE TraceInv
  OBVIOUS
<1> USE TracerouteAssumption DEF TraceInit
<1>1. TraceTypeOK
  <2>1. hop \in Nat \ {0} /\ q \in 0 .. Queries - 1 /\ sent \in Nat
    OBVIOUS
  <2>2. net = {} /\ shown = {} /\ now \in Nat /\ start \in Nat /\ reachedDest \in BOOLEAN
    OBVIOUS
  <2>3. QED BY <2>1, <2>2 DEF TraceTypeOK
<1>2. SentInv
  BY DEF SentInv
<1>3. LineInv
  BY DEF LineInv, RepliesOnTheirLine, HopsComplete
<1>4. TimeInv
  BY DEF TimeInv, TimeBounded
<1>5. QED BY <1>1, <1>2, <1>3, <1>4 DEF TraceInv

LEMMA NextHopTrace == TraceInv /\ NextHop => TraceInv'
<1> SUFFICES ASSUME TraceInv, NextHop PROVE TraceInv'
  OBVIOUS
<1>1. /\ stage = "hop"
      /\ UNCHANGED <<hop, sent, now, start, reachedDest, net, shown>>
      /\ \/ stage' = "query" /\ q' = 0 /\ ~reachedDest
         \/ stage' = "done" /\ q' = q
  BY DEF NextHop
<1> USE TracerouteAssumption DEF TraceInv
<1>2. TraceTypeOK'
  BY <1>1 DEF TraceTypeOK
<1>3. SentInv'
  <2>1. (hop - 1) * Queries \in Nat
    BY NumberOfHop DEF TraceTypeOK
  <2>2. QED
    BY <1>1, <2>1 DEF SentInv
<1>4. LineInv'
  BY <1>1 DEF LineInv, RepliesOnTheirLine, HopsComplete, Reached
<1>5. TimeInv'
  BY <1>1 DEF TimeInv, TimeBounded
<1>6. QED BY <1>2, <1>3, <1>4, <1>5

(* What the network sends back bears the number and the distance of the
   probe that provoked it. *)
LEMMA RepliesOfProbe ==
  ASSUME NEW ttl \in Nat \ {0}, NEW s \in Nat, NEW m \in Replies(ttl, s)
  PROVE  /\ m \in Messages /\ m.mine /\ m.seq = s /\ m.ttl = ttl
         /\ m.kind = "exceeded" => m.from = ttl
<1>1. DestAt \in Nat /\ 1 .. DestAt - 1 \subseteq Nat
  BY TracerouteAssumption
<1>2. \/ \E whole \in BOOLEAN : m = Msg("exceeded", ttl, s, TRUE, whole, ttl)
      \/ m = Msg("echo", DestAt, s, TRUE, TRUE, ttl)
      \/ \E r \in Nat : m = Msg("unreach", r, s, TRUE, TRUE, ttl)
  <2>1. CASE m \in {Msg("unreach", r, s, TRUE, TRUE, ttl) :
                   r \in {x \in 1 .. DestAt - 1 : x <= ttl /\ TRUE \in Unreachables}}
    BY <1>1, <2>1
  <2>2. CASE m \notin {Msg("unreach", r, s, TRUE, TRUE, ttl) :
                      r \in {x \in 1 .. DestAt - 1 : x <= ttl /\ TRUE \in Unreachables}}
    BY <2>2 DEF Replies
  <2>3. QED BY <2>1, <2>2
<1>3. CASE \E whole \in BOOLEAN : m = Msg("exceeded", ttl, s, TRUE, whole, ttl)
  BY <1>3 DEF Msg, Messages
<1>4. CASE m = Msg("echo", DestAt, s, TRUE, TRUE, ttl)
  BY <1>1, <1>4 DEF Msg, Messages
<1>5. CASE \E r \in Nat : m = Msg("unreach", r, s, TRUE, TRUE, ttl)
  BY <1>5 DEF Msg, Messages
<1>6. QED BY <1>2, <1>3, <1>4, <1>5

LEMMA SendTrace == TraceInv /\ SendQuery => TraceInv'
<1> SUFFICES ASSUME TraceInv, SendQuery PROVE TraceInv'
  OBVIOUS
<1>1. /\ stage = "query" /\ sent' = sent + 1
      /\ UNCHANGED <<hop, q, now, reachedDest, shown>>
  BY DEF SendQuery
<1>2. /\ hop \in Nat \ {0} /\ q \in 0 .. Queries - 1 /\ sent \in Nat /\ now \in Nat
      /\ Timeout \in Nat \ {0}
  BY TracerouteAssumption DEF TraceInv, TraceTypeOK
<1>3. sent' = (hop - 1) * Queries + q + 1 /\ OfHop(sent', hop) /\ sent' \in Nat
  BY <1>1, <1>2, NumberOfHop DEF TraceInv, SentInv
<1>4. sent' * Timeout = sent * Timeout + Timeout /\ sent * Timeout \in Nat /\ now <= sent * Timeout
  BY <1>1, <1>2, OneMoreQuery DEF TraceInv, TimeInv, TimeBounded
<1> USE DEF TraceInv
<1>5. CASE stage' = "done" /\ UNCHANGED <<start, net>>
  <2>1. TraceTypeOK'
    BY <1>1, <1>3, <1>5 DEF TraceTypeOK
  <2>2. SentInv'
    <3>1. \A m \in net : m.seq <= sent'
      BY <1>1, <1>2 DEF SentInv, TraceTypeOK, Messages
    <3>2. QED
      BY <1>1, <1>5, <3>1 DEF SentInv
  <2>3. LineInv'
    <3>1. \A a \in shown : Reached(a.msg) => a.hop = hop
      BY <1>1 DEF LineInv
    <3>2. HopsComplete'
      BY <1>1, <1>5, <3>1 DEF LineInv, HopsComplete, Reached
    <3>3. QED
      BY <1>1, <1>5, <3>2 DEF LineInv, RepliesOnTheirLine, Reached
  <2>4. TimeInv'
    BY <1>1, <1>2, <1>4, <1>5 DEF TimeInv, TimeBounded
  <2>5. QED BY <2>1, <2>2, <2>3, <2>4
<1>6. CASE /\ stage' = "wait" /\ start' = now
           /\ net' \in {net} \cup {net \cup {m} : m \in Replies(hop, sent')}
  <2>1. \A m \in net' : m \in net \/ m \in Replies(hop, sent')
    BY <1>6
  <2>2. \A m \in net' :
          /\ m \in Messages /\ m.mine /\ m.seq <= sent' /\ OfHop(m.seq, m.ttl)
          /\ m.kind = "exceeded" => m.from = m.ttl
    <3>1. ASSUME NEW m \in net
          PROVE  /\ m \in Messages /\ m.mine /\ m.seq <= sent' /\ OfHop(m.seq, m.ttl)
                 /\ m.kind = "exceeded" => m.from = m.ttl
      BY <1>1, <1>2 DEF SentInv, TraceTypeOK, Messages
    <3>2. ASSUME NEW m \in Replies(hop, sent')
          PROVE  /\ m \in Messages /\ m.mine /\ m.seq <= sent' /\ OfHop(m.seq, m.ttl)
                 /\ m.kind = "exceeded" => m.from = m.ttl
      BY <1>2, <1>3, RepliesOfProbe
    <3>3. QED
      BY <2>1, <3>1, <3>2
  <2>3. TraceTypeOK'
    BY <1>1, <1>2, <1>3, <1>6, <2>2 DEF TraceTypeOK
  <2>4. SentInv'
    BY <1>1, <1>3, <1>6, <2>2 DEF SentInv
  <2>5. LineInv'
    BY <1>1, <1>6 DEF LineInv, RepliesOnTheirLine, HopsComplete, Reached
  <2>6. TimeInv'
    BY <1>1, <1>2, <1>4, <1>6 DEF TimeInv, TimeBounded
  <2>7. QED BY <2>3, <2>4, <2>5, <2>6
<1>7. QED BY <1>5, <1>6 DEF SendQuery

(* After an answer, or silence: the next query, or the next hop. *)
LEMMA AnsweredKeeps ==
  ASSUME TraceInv, stage = "wait", Answered, UNCHANGED <<sent, now, start>>,
         net' \subseteq net
  PROVE  /\ stage' \in {"query", "hop"} /\ hop' \in Nat \ {0} /\ q' \in 0 .. Queries - 1
         /\ SentInv' /\ TimeInv'
         /\ stage' = "query" => hop' = hop
         /\ stage' = "hop" => hop' = hop + 1
<1>1. hop \in Nat \ {0} /\ q \in 0 .. Queries - 1 /\ sent \in Nat /\ Queries \in Nat \ {0}
  BY TracerouteAssumption DEF TraceInv, TraceTypeOK
<1>2. sent = (hop - 1) * Queries + q + 1
  BY DEF TraceInv, SentInv
<1>3. TimeInv'
  <2>1. start + Timeout <= sent * Timeout /\ now <= start + Timeout
    BY DEF TraceInv, TimeInv
  <2>2. start \in Nat /\ now \in Nat /\ Timeout \in Nat /\ sent * Timeout \in Nat
    BY <1>1, TracerouteAssumption DEF TraceInv, TraceTypeOK
  <2>3. QED
    BY <2>1, <2>2 DEF Answered, TimeInv, TimeBounded
<1>4. CASE q + 1 < Queries
  <2>1. stage' = "query" /\ q' = q + 1 /\ hop' = hop
    BY <1>4 DEF Answered
  <2>2. sent = (hop - 1) * Queries + q'
    BY <1>1, <1>2, <2>1, NumberOfHop
  <2>3. SentInv'
    BY <2>1, <2>2 DEF TraceInv, SentInv
  <2>4. QED
    BY <1>1, <1>3, <1>4, <2>1, <2>3
<1>5. CASE ~(q + 1 < Queries)
  <2>1. stage' = "hop" /\ hop' = hop + 1 /\ q' = q
    BY <1>5 DEF Answered
  <2>2. sent = (hop' - 1) * Queries
    BY <1>1, <1>2, <1>5, <2>1, NumberOfHop
  <2>3. SentInv'
    BY <2>1, <2>2 DEF TraceInv, SentInv
  <2>4. QED
    BY <1>1, <1>3, <2>1, <2>3
<1>6. QED BY <1>4, <1>5

LEMMA SilenceTrace == TraceInv /\ Silence => TraceInv'
<1> SUFFICES ASSUME TraceInv, Silence PROVE TraceInv'
  OBVIOUS
<1>1. /\ stage = "wait" /\ Answered
      /\ UNCHANGED <<sent, now, start, reachedDest, net, shown>>
  BY DEF Silence
<1>2. /\ stage' \in {"query", "hop"} /\ hop' \in Nat \ {0} /\ q' \in 0 .. Queries - 1
      /\ SentInv' /\ TimeInv'
      /\ stage' = "query" => hop' = hop
      /\ stage' = "hop" => hop' = hop + 1
  BY <1>1, AnsweredKeeps
<1>3. hop \in Nat /\ \A a \in shown : a.hop \in Nat
  BY DEF TraceInv, TraceTypeOK
<1> USE DEF TraceInv
<1>4. TraceTypeOK'
  BY <1>1, <1>2 DEF TraceTypeOK
<1>5. LineInv'
  <2>1. HopsComplete'
    BY <1>1, <1>2 DEF LineInv, HopsComplete, SentInv, Reached
  <2>2. RepliesOnTheirLine'
    BY <1>1 DEF LineInv, RepliesOnTheirLine
  <2>3. QED
    BY <1>1, <1>2, <1>3, <2>1, <2>2 DEF LineInv, Reached
<1>6. QED BY <1>2, <1>4, <1>5

(* The reply that is shown belongs to the query waited for: only a message
   that is not ours, or that is cut short, may be taken for it wrongly. *)
LEMMA MatchesOwn ==
  ASSUME TraceInv, stage = "wait", NEW m \in net, Matches(m), m.whole
  PROVE  m.ttl = hop /\ (m.kind = "exceeded" => m.from = hop)
<1>1. m \in Messages /\ hop \in Nat \ {0} /\ q \in 0 .. Queries - 1
  BY DEF TraceInv, TraceTypeOK
<1>2. m.seq = sent /\ m.ttl \in Nat /\ m.seq \in Nat
  BY <1>1 DEF Matches, Messages
<1>3. OfHop(sent, hop) /\ OfHop(m.seq, m.ttl) /\ (m.kind = "exceeded" => m.from = m.ttl)
  BY <1>1, NumberOfHop DEF TraceInv, SentInv
<1>4. QED
  BY <1>1, <1>2, <1>3, OneHop

LEMMA ReceiveTrace ==
  ASSUME TraceInv, NEW m \in net \cup ForeignMsgs, ReceiveMessage(m)
  PROVE  TraceInv'
<1>1. /\ stage = "wait" /\ Arrives(m)
      /\ UNCHANGED <<sent, now, start>>
  BY DEF ReceiveMessage
<1>2. net' \subseteq net /\ (m \in net \/ ~m.mine) /\ m \in Messages
  <2>1. ASSUME m \in ForeignMsgs PROVE ~m.mine /\ m \in Messages
    <3>1. PICK kind \in {"echo", "exceeded"} : m \in Foreign(kind)
      BY <2>1 DEF ForeignMsgs
    <3>2. PICK s \in 1 .. MaxHops * Queries : m = Msg(kind, 0, s, FALSE, TRUE, 0)
      BY <3>1 DEF Foreign
    <3>3. s \in Nat
      BY TracerouteAssumption
    <3>4. QED
      BY <3>2, <3>3 DEF Msg, Messages
  <2>2. QED
    BY <1>1, <2>1 DEF Arrives, TraceInv, TraceTypeOK
<1> USE DEF TraceInv
<1>3. CASE ~Matches(m)
  <2>1. UNCHANGED <<stage, hop, q, sent, now, start, reachedDest, shown>>
    BY <1>1, <1>3 DEF ReceiveMessage
  <2>2. TraceTypeOK'
    BY <1>2, <2>1 DEF TraceTypeOK
  <2>3. SentInv'
    BY <1>2, <2>1 DEF SentInv
  <2>4. LineInv'
    BY <2>1 DEF LineInv, RepliesOnTheirLine, HopsComplete, Reached
  <2>5. TimeInv'
    BY <2>1 DEF TimeInv, TimeBounded
  <2>6. QED BY <2>2, <2>3, <2>4, <2>5
<1>4. CASE Matches(m)
  <2> DEFINE a == [hop |-> hop, seq |-> sent, msg |-> m]
  <2>1. /\ shown' = shown \cup {a} /\ Answered
        /\ reachedDest' = (reachedDest \/ Reached(m))
    BY <1>4 DEF ReceiveMessage
  <2>2. /\ stage' \in {"query", "hop"} /\ hop' \in Nat \ {0} /\ q' \in 0 .. Queries - 1
        /\ SentInv' /\ TimeInv'
        /\ stage' = "query" => hop' = hop
        /\ stage' = "hop" => hop' = hop + 1
    BY <1>1, <1>2, <2>1, AnsweredKeeps
  <2>3. hop \in Nat /\ sent \in Nat /\ \A b \in shown : b.hop \in Nat
    BY DEF TraceTypeOK
  <2>4. a.hop = hop /\ a.msg = m /\ a \in [hop : Nat, seq : Nat, msg : Messages]
    BY <1>2, <2>3
  <2> HIDE DEF a
  <2>5. TraceTypeOK'
    <3>1. reachedDest' \in BOOLEAN
      BY <2>1 DEF TraceTypeOK, Reached
    <3>2. QED
      BY <1>1, <1>2, <2>1, <2>2, <2>4, <3>1 DEF TraceTypeOK
  <2>6. RepliesOnTheirLine'
    <3>1. m.mine /\ m.whole => m.ttl = hop /\ (m.kind = "exceeded" => m.from = hop)
      BY <1>1, <1>2, <1>4, MatchesOwn
    <3>2. QED
      BY <2>1, <2>4, <3>1 DEF LineInv, RepliesOnTheirLine
  <2>7. /\ \A b \in shown' : b.hop <= hop /\ (Reached(b.msg) => b.hop = hop)
        /\ \A b \in shown' : Reached(b.msg) => reachedDest'
    <3>1. \A b \in shown' : b \in shown \/ b = a
      BY <2>1
    <3>2. /\ \A b \in shown : b.hop <= hop /\ (Reached(b.msg) => b.hop = hop)
          /\ \A b \in shown : Reached(b.msg) => reachedDest
      BY <1>1 DEF LineInv
    <3>3. a.hop <= hop /\ (Reached(a.msg) => a.hop = hop)
      BY <2>3, <2>4
    <3>4. (reachedDest => reachedDest') /\ (Reached(a.msg) => reachedDest')
      BY <2>1, <2>4, Zenon
    <3>5. \A b \in shown' : b.hop <= hop /\ (Reached(b.msg) => b.hop = hop)
      BY <3>1, <3>2, <3>3, Zenon
    <3>6. \A b \in shown' : Reached(b.msg) => reachedDest'
      BY <3>1, <3>2, <3>4, Zenon
    <3>7. QED BY <3>5, <3>6
  <2>8. HopsComplete'
    BY <1>1, <2>2, <2>7 DEF HopsComplete, SentInv, Reached
  <2>9. LineInv'
    BY <2>2, <2>3, <2>4, <2>1, <2>6, <2>7, <2>8 DEF LineInv, Reached
  <2>10. QED BY <2>2, <2>5, <2>9
<1>5. QED BY <1>3, <1>4

LEMMA OthersTrace == TraceInv /\ (Tick \/ Interrupt \/ UNCHANGED traceVars) => TraceInv'
<1> SUFFICES ASSUME TraceInv, Tick \/ Interrupt \/ UNCHANGED traceVars PROVE TraceInv'
  OBVIOUS
<1>1. /\ UNCHANGED <<stage, hop, q, sent, start, reachedDest, net, shown>>
      /\ now' = now \/ (now' = now + 1 /\ stage = "wait" /\ now - start < Timeout)
  BY DEF Tick, Interrupt, traceVars
<1> USE DEF TraceInv
<1>2. now \in Nat /\ start \in Nat /\ Timeout \in Nat /\ sent * Timeout \in Nat
  BY TracerouteAssumption DEF TraceTypeOK
<1>3. TraceTypeOK'
  BY <1>1, <1>2 DEF TraceTypeOK
<1>4. SentInv'
  BY <1>1 DEF SentInv
<1>5. LineInv'
  BY <1>1 DEF LineInv, RepliesOnTheirLine, HopsComplete, Reached
<1>6. TimeInv'
  BY <1>1, <1>2 DEF TimeInv, TimeBounded
<1>7. QED BY <1>3, <1>4, <1>5, <1>6

-----------------------------------------------------------------------------
(* The numbers of the queries, the lines of the replies and the budgets of
   the queries fit together in every state of a traceroute. *)
THEOREM TraceInvariance == TraceSpec => []TraceInv
<1>1. TraceInv /\ [TraceNext]_traceVars => TraceInv'
  <2> SUFFICES ASSUME TraceInv, [TraceNext]_traceVars PROVE TraceInv'
    OBVIOUS
  <2>1. CASE Run \/ Silence
    BY <2>1, NextHopTrace, SendTrace, SilenceTrace DEF Run, GiveUp
  <2>2. CASE \E m \in net \cup ForeignMsgs : ReceiveMessage(m)
    BY <2>2, ReceiveTrace
  <2>3. CASE Tick \/ Interrupt \/ Done \/ UNCHANGED traceVars
    BY <2>3, OthersTrace DEF Done
  <2>4. QED
    BY <2>1, <2>2, <2>3 DEF TraceNext
<1>2. QED
  BY InitTrace, <1>1, PTL DEF TraceSpec

(* However late an answer comes, it is shown on the line of the hop it was
   provoked at, or not at all, unless it is cut too short to tell. *)
THEOREM RepliesKeepTheirLine == TraceSpec => []RepliesOnTheirLine
<1>1. TraceInv => RepliesOnTheirLine
  BY DEF TraceInv, LineInv
<1>2. QED
  BY TraceInvariance, <1>1, PTL

(* Every hop gets all its queries, and none after the destination is probed. *)
THEOREM HopsAreComplete == TraceSpec => []HopsComplete
<1>1. TraceInv => HopsComplete
  BY DEF TraceInv, LineInv
<1>2. QED
  BY TraceInvariance, <1>1, PTL

(* A traceroute takes one timeout per query at most. *)
THEOREM TimeIsBounded == TraceSpec => []TimeBounded
<1>1. TraceInv => TimeBounded
  BY DEF TraceInv, TimeInv
<1>2. QED
  BY TraceInvariance, <1>1, PTL
=============================================================================
