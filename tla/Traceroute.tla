----------------------------- MODULE Traceroute -----------------------------
(***************************************************************************)
(* Traceroute_Run and TraceProbe of traceroute.c (the raw-socket build):   *)
(* echo requests with growing TTLs, and the ICMP messages they provoke.    *)
(* A raw socket receives every ICMP message that reaches the host while it *)
(* is open, so replies to earlier probes and to other programs arrive too. *)
(*                                                                         *)
(* The destination is DestAt hops away and the routers before it are       *)
(* 1 .. DestAt - 1.  Time passes only while a probe waits in poll().       *)
(***************************************************************************)
EXTENDS Integers, FiniteSets

CONSTANTS
  DestAt,         \* distance of the destination, in hops
  MaxHops,        \* cfg->MaxHops
  Queries,        \* cfg->Queries
  Timeout,        \* cfg->TimeoutMs, in ticks
  V6,             \* possible values of is_v6
  Unreachables,   \* do routers send destination-unreachable: possible values
  MaxForeign      \* bound on the messages meant for other programs

ASSUME TracerouteAssumption ==
  /\ DestAt \in Nat \ {0} /\ MaxHops \in Nat \ {0} /\ Queries \in Nat \ {0}
  /\ Timeout \in Nat \ {0} /\ MaxForeign \in Nat
  /\ V6 \subseteq BOOLEAN /\ Unreachables \subseteq BOOLEAN

VARIABLES
  stage,          \* "hop", "query", "wait" (in TraceProbe), "done"
  v6,             \* is_v6
  hop, q, sent,   \* the loop variables and the sequence number
  now, start,     \* the clock, and the timer of TraceProbe
  reachedDest,    \* reached_dest
  ret,            \* what Traceroute_Run returns
  interrupted,    \* g_interrupted
  net,            \* ICMP messages under way to this host, some for ever
  foreign,        \* how many were not for us
  shown           \* history: the replies printed, with the hop of their line

traceVars == <<stage, v6, hop, q, sent, now, start, reachedDest, ret, interrupted, net, foreign, shown>>

(* A message: its kind, its sender, the sequence number in it (or in the
   packet it returns), whether the identifier is ours, whether the returned
   packet is long enough to show it, and (history) the TTL of the probe that
   provoked it. *)
Msg(kind, from, s, mine, whole, ttl) ==
  [kind |-> kind, from |-> from, seq |-> s, mine |-> mine, whole |-> whole, ttl |-> ttl]

TraceInit ==
  /\ stage = "hop" /\ v6 \in V6
  /\ hop = 1 /\ q = 0 /\ sent = 0
  /\ now = 0 /\ start = 0
  /\ reachedDest = FALSE /\ ret = "none"
  /\ interrupted \in BOOLEAN
  /\ net = {} /\ foreign = 0 /\ shown = {}

(* The loop over hops. *)
NextHop ==
  /\ stage = "hop"
  /\ IF hop <= MaxHops /\ ~reachedDest /\ ~interrupted
     THEN stage' = "query" /\ q' = 0 /\ UNCHANGED ret
     ELSE /\ stage' = "done" /\ UNCHANGED q
          /\ ret' = IF reachedDest THEN "success" ELSE "failure"
  /\ UNCHANGED <<v6, hop, sent, now, start, reachedDest, interrupted, net, foreign, shown>>

(* What the network may send back for a probe with this TTL and sequence
   number; nothing, if it is lost. *)
Replies(ttl, s) ==
  (IF ttl < DestAt
   THEN {Msg("exceeded", ttl, s, TRUE, whole, ttl) : whole \in BOOLEAN}
   ELSE {Msg("echo", DestAt, s, TRUE, TRUE, ttl)})
  \cup
  {Msg("unreach", r, s, TRUE, TRUE, ttl) :
     r \in {x \in 1 .. DestAt - 1 : x <= ttl /\ TRUE \in Unreachables}}

(* Mutant of SendQuery: the sequence numbers start again with every hop. *)
SendPerHop ==
  /\ stage = "query"
  /\ sent' = q + 1
  /\ \/ /\ stage' = "done" /\ ret' = "failure"
        /\ UNCHANGED <<start, net>>
     \/ /\ stage' = "wait" /\ start' = now
        /\ net' \in {net} \cup {net \cup {m} : m \in Replies(hop, sent')}
        /\ UNCHANGED ret
  /\ UNCHANGED <<v6, hop, q, now, reachedDest, interrupted, foreign, shown>>

(* The next query of this hop: the socket cannot be opened or written, and
   the run gives up, or the probe is sent. *)
SendQuery ==
  /\ stage = "query"
  /\ sent' = sent + 1
  /\ \/ /\ stage' = "done" /\ ret' = "failure"
        /\ UNCHANGED <<start, net>>
     \/ /\ stage' = "wait" /\ start' = now
        /\ net' \in {net} \cup {net \cup {m} : m \in Replies(hop, sent')}
        /\ UNCHANGED ret
  /\ UNCHANGED <<v6, hop, q, now, reachedDest, interrupted, foreign, shown>>

(* Mutant of Answered: the queries of a hop stop at the first that reaches
   the destination. *)
AnsweredUnlessReached ==
  IF q + 1 < Queries /\ ~reachedDest'
  THEN stage' = "query" /\ q' = q + 1 /\ UNCHANGED hop
  ELSE stage' = "hop" /\ hop' = hop + 1 /\ UNCHANGED q

(* TraceProbe returned: the next query, or the next hop. *)
Answered ==
  IF q + 1 < Queries THEN stage' = "query" /\ q' = q + 1 /\ UNCHANGED hop
                     ELSE stage' = "hop" /\ hop' = hop + 1 /\ UNCHANGED q

(* Does TraceProbe take m for the answer to its probe? *)
Matches(m) ==
  CASE m.kind = "echo" -> m.seq = sent /\ (m.mine \/ v6)
    [] m.kind \in {"exceeded", "unreach"} -> m.whole => m.seq = sent

Reached(m) == m.kind = "echo" \/ (m.kind = "unreach" /\ m.whole)

(* Answers to another program's traceroute or ping. *)
Foreign(kind) == {Msg(kind, 0, s, FALSE, TRUE, 0) : s \in 1 .. MaxHops * Queries}

ForeignMsgs == Foreign("echo") \cup Foreign("exceeded")

(* The next message on the socket: an answer under way, or a foreign one. *)
Arrives(m) ==
  \/ m \in net /\ net' = net \ {m} /\ UNCHANGED foreign
  \/ m \in ForeignMsgs /\ foreign < MaxForeign /\ foreign' = foreign + 1 /\ UNCHANGED net

(* Mutant of ReceiveMessage: the timer starts again with every message. *)
ReceiveRestarts(m) ==
  /\ stage = "wait" /\ now - start < Timeout
  /\ Arrives(m)
  /\ start' = now
  /\ IF Matches(m)
     THEN /\ shown' = shown \cup {[hop |-> hop, seq |-> sent, msg |-> m]}
          /\ reachedDest' = (reachedDest \/ Reached(m))
          /\ Answered
     ELSE UNCHANGED <<stage, hop, q, reachedDest, shown>>
  /\ UNCHANGED <<v6, sent, now, ret, interrupted>>

(* recvfrom: an answer, or a message to pass over. *)
ReceiveMessage(m) ==
  /\ stage = "wait" /\ now - start < Timeout
  /\ Arrives(m)
  /\ IF Matches(m)
     THEN /\ shown' = shown \cup {[hop |-> hop, seq |-> sent, msg |-> m]}
          /\ reachedDest' = (reachedDest \/ Reached(m))
          /\ Answered
     ELSE UNCHANGED <<stage, hop, q, reachedDest, shown>>
  /\ UNCHANGED <<v6, sent, now, start, ret, interrupted>>

(* The timeout, or a poll() or recvfrom() that fails: an asterisk. *)
Silence ==
  /\ stage = "wait"
  /\ UNCHANGED <<v6, sent, now, start, reachedDest, ret, interrupted, net, foreign, shown>>
  /\ Answered

GiveUp == now - start >= Timeout /\ Silence

Tick ==
  /\ stage = "wait" /\ now - start < Timeout
  /\ now' = now + 1
  /\ UNCHANGED <<stage, v6, hop, q, sent, start, reachedDest, ret, interrupted, net, foreign, shown>>

(* SIGINT: poll() is repeated, and the loop over hops sees it. *)
Interrupt ==
  /\ ~interrupted /\ stage # "done"
  /\ interrupted' = TRUE
  /\ UNCHANGED <<stage, v6, hop, q, sent, now, start, reachedDest, ret, net, foreign, shown>>

Done == stage = "done" /\ UNCHANGED traceVars

Run == NextHop \/ SendQuery \/ GiveUp

TraceNext ==
  \/ Run \/ Silence \/ Tick \/ Interrupt
  \/ \E m \in net \cup ForeignMsgs : ReceiveMessage(m)
  \/ Done

(* The program runs and time passes; nobody has to answer. *)
TraceSpec == TraceInit /\ [][TraceNext]_traceVars /\ WF_traceVars(Run) /\ WF_traceVars(Tick)

-----------------------------------------------------------------------------
(* Properties.                                                             *)

(* A reply to one of our probes is shown on the line of the hop it was sent
   for, and an intermediate hop shows the router at that distance, although
   replies may come so late that they meet a later probe: the sequence
   number is never used twice (traceroute.c:330).  A reply too short to hold
   the number is not covered: TraceProbe accepts it for any probe. *)
RepliesOnTheirLine ==
  \A a \in shown : (a.msg.mine /\ a.msg.whole) =>
    /\ a.msg.ttl = a.hop
    /\ a.msg.kind = "exceeded" => a.msg.from = a.hop

(* Every hop gets all its queries, the hop that reached the destination too,
   and no hop after that one is probed. *)
HopsComplete ==
  /\ stage = "hop" => sent = (hop - 1) * Queries
  /\ \A a, b \in shown : Reached(a.msg) => b.hop <= a.hop

(* The run takes at most one timeout per query sent, whatever arrives in
   between and however often poll() is repeated. *)
TimeBounded == now <= sent * Timeout

(* traceroute.c:48 "Set to 1 when the responder is the destination": the run
   succeeds only when the destination has answered.  The code breaks it: a
   router's destination-unreachable counts as reached (traceroute.c:172). *)
SuccessIsDestination ==
  (ret = "success" /\ foreign = 0) => \E a \in shown : a.msg.from = DestAt

-----------------------------------------------------------------------------
(* The inductive invariant behind the three (see TracerouteProofs): the     *)
(* sequence number alone tells the hop it belongs to, of the probe that is  *)
(* waited for and of every answer still under way.                          *)

(* s is one of the numbers of the queries of this hop. *)
OfHop(s, h) == (h - 1) * Queries < s /\ s <= h * Queries

Messages ==
  [kind : {"echo", "exceeded", "unreach"}, from : Nat, seq : Nat, mine : BOOLEAN,
   whole : BOOLEAN, ttl : Nat]

TraceTypeOK ==
  /\ stage \in {"hop", "query", "wait", "done"}
  /\ hop \in Nat \ {0} /\ q \in 0 .. Queries - 1 /\ sent \in Nat
  /\ now \in Nat /\ start \in Nat
  /\ reachedDest \in BOOLEAN
  /\ net \subseteq Messages /\ shown \subseteq [hop : Nat, seq : Nat, msg : Messages]

SentInv ==
  /\ stage = "hop" => sent = (hop - 1) * Queries
  /\ stage = "query" => sent = (hop - 1) * Queries + q
  /\ stage = "wait" => sent = (hop - 1) * Queries + q + 1
  /\ \A m \in net :
       /\ m.mine /\ m.seq <= sent /\ OfHop(m.seq, m.ttl)
       /\ m.kind = "exceeded" => m.from = m.ttl

LineInv ==
  /\ \A a \in shown :
       /\ a.hop <= hop /\ (stage = "hop" => a.hop < hop)
       /\ Reached(a.msg) => /\ reachedDest
                            /\ stage \in {"query", "wait"} => a.hop = hop
                            /\ stage = "hop" => a.hop + 1 = hop
  /\ RepliesOnTheirLine /\ HopsComplete

TimeInv ==
  /\ stage = "wait" => /\ start <= now /\ now <= start + Timeout
                    /\ start + Timeout <= sent * Timeout
  /\ TimeBounded

TraceInv == TraceTypeOK /\ SentInv /\ LineInv /\ TimeInv
=============================================================================
