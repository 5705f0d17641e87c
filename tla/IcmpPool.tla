------------------------------ MODULE IcmpPool ------------------------------
(***************************************************************************)
(* The ICMP probes of a pool (ProbeIcmp of socket.c, POSIX build), which   *)
(* share two things: the static icmp_seq they number their requests with,  *)
(* incremented without a lock, and, on raw sockets, the replies, since a   *)
(* raw socket is handed every ICMP message that reaches the host.  All     *)
(* requests carry the same identifier, the process id, and the sender of a *)
(* reply is not looked at: only the number tells the replies apart.        *)
(*                                                                         *)
(* The probes of a cycle are scheduled as ProbeCycle says, which Cpool     *)
(* implements; with no overlap it is the sequential mode.  One probe by    *)
(* itself, with its clock, its addresses and the messages of other         *)
(* programs, is the subject of Probe.                                      *)
(***************************************************************************)
EXTENDS ProbeCycle, Integers, FiniteSets

CONSTANTS
  SeqMod,         \* numbers icmp_seq can have: 2^16 in the code
  MaxProbes       \* bound on the probes of a run

ASSUME IcmpAssumption ==
  /\ SeqMod \in Nat /\ SeqMod > 1
  /\ MaxProbes \in Nat

VARIABLES
  raw,            \* the system allows only raw ICMP sockets, not datagram ones
  icmpSeq,        \* icmp_seq
  pc,             \* where the probe of a target is
  incremented,    \* icmp_seq + 1, in a register of the thread
  seq,            \* the number of a probe
  queue,          \* the replies waiting at its socket
  inFlight,       \* requests sent and not yet answered, perhaps never to be
  taken,          \* history: how many probes have started to take a number
  nth,            \* history: which of them the probe of a target is
  got,            \* history: the probe whose reply was accepted (0: none)
  raced           \* history: two probes have taken their numbers at once

numbers == <<icmpSeq, incremented, seq>>
network == <<queue, inFlight>>
history == <<taken, nth, got, raced>>
vars == <<cycleVars, raw, pc, numbers, network, history>>

IcmpInit ==
  /\ Init
  /\ raw \in BOOLEAN
  /\ icmpSeq = 0
  /\ pc = [t \in Target |-> "idle"]
  /\ incremented = [t \in Target |-> 0]
  /\ seq = [t \in Target |-> 0]
  /\ queue = [t \in Target |-> {}]
  /\ inFlight = {}
  /\ taken = 0 /\ raced = FALSE
  /\ nth = [t \in Target |-> 0]
  /\ got = [t \in Target |-> 0]

Go(t, to) == pc' = [pc EXCEPT ![t] = to]

-----------------------------------------------------------------------------
(* The owner of the pool. *)
StartRound ==
  /\ taken + Cardinality(Target) <= MaxProbes
  /\ StartCycle
  /\ UNCHANGED <<raw, pc, numbers, network, history>>

EndRound ==
  /\ EndCycle \/ Close
  /\ UNCHANGED <<raw, pc, numbers, network, history>>

-----------------------------------------------------------------------------
(* A worker with target t: seq = ++icmp_seq, which compiles to a load and  *)
(* a store, and in some builds a second load.                              *)

Begin(t) ==
  /\ BeginProbe(t)
  /\ Go(t, "load")
  /\ got' = [got EXCEPT ![t] = 0]
  /\ UNCHANGED <<raw, numbers, network, taken, nth, raced>>

Taking(t) == pc[t] \in {"store", "number"}

Successor(s) == IF s + 1 = SeqMod THEN 0 ELSE s + 1

Load(t) ==
  /\ pc[t] = "load"
  /\ Go(t, "store")
  /\ incremented' = [incremented EXCEPT ![t] = Successor(icmpSeq)]
  /\ taken' = taken + 1
  /\ nth' = [nth EXCEPT ![t] = taken + 1]
  /\ raced' = (raced \/ \E u \in Target : Taking(u))
  /\ UNCHANGED <<cycleVars, raw, icmpSeq, seq, network, got>>

(* Mutant of Store: the increment is lost. *)
StoreNothing(t) ==
  /\ pc[t] = "store"
  /\ Go(t, "number")
  /\ UNCHANGED <<cycleVars, raw, numbers, network, history>>

Store(t) ==
  /\ pc[t] = "store"
  /\ Go(t, "number")
  /\ icmpSeq' = incremented[t]
  /\ UNCHANGED <<cycleVars, raw, incremented, seq, network, history>>

(* seq is what the register holds, or icmp_seq read once more. *)
Number(t) ==
  /\ pc[t] = "number"
  /\ Go(t, "open")
  /\ \E s \in {incremented[t], icmpSeq} : seq' = [seq EXCEPT ![t] = s]
  /\ UNCHANGED <<cycleVars, raw, icmpSeq, incremented, network, history>>

-----------------------------------------------------------------------------
(* The probe ends with an error or a timeout: no permission, no source to  *)
(* bind to, an unreachable network, no reply in time.                      *)
Fail(t) ==
  /\ pc[t] \in {"open", "send", "wait"}
  /\ EndProbe(t)
  /\ Go(t, "idle")
  /\ queue' = [queue EXCEPT ![t] = {}]
  /\ UNCHANGED <<raw, numbers, inFlight, history>>

(* socket and what prepares it: from here on replies can wait at it. *)
Open(t) ==
  /\ pc[t] = "open"
  /\ Go(t, "send")
  /\ UNCHANGED <<cycleVars, raw, numbers, network, history>>

(* sendto *)
Send(t) ==
  /\ pc[t] = "send"
  /\ Go(t, "wait")
  /\ inFlight' = inFlight \cup {[nth |-> nth[t], seq |-> seq[t]]}
  /\ UNCHANGED <<cycleVars, raw, numbers, queue, history>>

(* Mutant of Accepts: any echo reply to this process will do. *)
AcceptsAny(t, m) == TRUE

Accepts(t, m) == m.seq = seq[t]

(* WaitReadable and recvfrom: a reply of another number is dropped, and
   the probe goes on to wait. *)
Receive(t, m) ==
  /\ pc[t] = "wait" /\ m \in queue[t]
  /\ IF Accepts(t, m)
     THEN /\ EndProbe(t)
          /\ Go(t, "idle")
          /\ got' = [got EXCEPT ![t] = m.nth]
          /\ queue' = [queue EXCEPT ![t] = {}]
     ELSE /\ queue' = [queue EXCEPT ![t] = @ \ {m}]
          /\ UNCHANGED <<cycleVars, pc, got>>
  /\ UNCHANGED <<raw, numbers, inFlight, taken, nth, raced>>

-----------------------------------------------------------------------------
(* The network and the kernel: a request is answered after any time, or    *)
(* never.  A raw socket gets a copy of every reply; a datagram socket has  *)
(* an identifier of its own, which the kernel writes into its requests and *)
(* by which it is handed the replies to them.                              *)
Hears(t, m) ==
  /\ pc[t] \in {"send", "wait"}
  /\ raw \/ nth[t] = m.nth

Reply(m) ==
  /\ m \in inFlight
  /\ inFlight' = inFlight \ {m}
  /\ queue' = [t \in Target |-> IF Hears(t, m) THEN queue[t] \cup {m} ELSE queue[t]]
  /\ UNCHANGED <<cycleVars, raw, pc, numbers, history>>

Closed == phase = "closed" /\ UNCHANGED vars

Probing(t) ==
  \/ Begin(t) \/ Load(t) \/ Store(t) \/ Number(t)
  \/ Open(t) \/ Send(t) \/ Fail(t)
  \/ \E m \in queue[t] : Receive(t, m)

IcmpNext ==
  \/ StartRound
  \/ EndRound
  \/ \E t \in Target : Probing(t)
  \/ \E m \in inFlight : Reply(m)
  \/ Closed

IcmpSpec == IcmpInit /\ [][IcmpNext]_vars

-----------------------------------------------------------------------------
(* Properties.                                                             *)

(* A success of target t is the reply to the probe of target t.  On
   datagram sockets that is always so, whatever happens to icmp_seq; on raw
   sockets it is so as long as the numbers have not been taken by two
   workers at once (socket.c:756) and have not come round, however the
   probes overlap and however late replies are (socket.c:851-858). *)
RepliesOwn ==
  \A t \in Target :
    got[t] # 0 /\ got[t] # nth[t] => raw /\ (raced \/ taken > SeqMod)

(* Every success is the reply to the probe that reports it, and its
   round-trip time (socket.h:44) is that of this probe.  The code breaks it
   on raw sockets, once two workers have raced for a number or the numbers
   have come round. *)
RepliesAlwaysOwn == \A t \in Target : got[t] \in {0, nth[t]}

-----------------------------------------------------------------------------
(* The inductive invariant behind RepliesOwn (see IcmpProofs).             *)

(* A reply carries the probe it answers (which the code cannot see) and
   that probe's number. *)
Message == [nth : Nat, seq : Nat]

IcmpTypeOK ==
  /\ TypeOK
  /\ raw \in BOOLEAN /\ raced \in BOOLEAN
  /\ icmpSeq \in Nat /\ taken \in Nat
  /\ pc \in [Target -> {"idle", "load", "store", "number", "open", "send", "wait"}]
  /\ incremented \in [Target -> Nat] /\ seq \in [Target -> Nat]
  /\ nth \in [Target -> Nat] /\ got \in [Target -> Nat]
  /\ queue \in [Target -> SUBSET Message]
  /\ inFlight \in SUBSET Message

(* A target whose probe is under way is in the cycle and is not given out
   again; before its request is out there is nothing to receive. *)
ScheduleInv ==
  /\ phase # "running" => pending = {} /\ probing = {}
  /\ pending \cap probing = {}
  /\ \A t \in Target : pc[t] # "idle" => t \in probing
  /\ \A t \in Target : pc[t] \notin {"send", "wait"} => queue[t] = {}
  /\ \A t \in Target : pc[t] # "idle" => got[t] = 0

(* Which probe is which. *)
OrderInv ==
  /\ \A t \in Target : pc[t] \notin {"idle", "load"} => nth[t] \in 1 .. taken
  /\ \A m \in inFlight : m.nth \in 1 .. taken
  /\ \A t \in Target : \A m \in queue[t] :
       m.nth \in 1 .. taken /\ (~raw => m.nth = nth[t])

(* The number of the n-th probe, while numbers are taken one at a time and
   have not come round. *)
Num(n) == IF n = SeqMod THEN 0 ELSE n

Clean == ~raced /\ taken <= SeqMod

NumberInv ==
  Clean =>
    /\ \A t, u \in Target : Taking(t) /\ Taking(u) => t = u
    /\ (\A t \in Target : pc[t] # "store") => icmpSeq = Num(taken)
    /\ \A t \in Target : Taking(t) => nth[t] = taken /\ incremented[t] = Num(taken)
    /\ \A t \in Target : pc[t] \in {"open", "send", "wait"} => seq[t] = Num(nth[t])
    /\ \A m \in inFlight : m.seq = Num(m.nth)
    /\ \A t \in Target : \A m \in queue[t] : m.seq = Num(m.nth)

IcmpInv == IcmpTypeOK /\ ScheduleInv /\ OrderInv /\ NumberInv /\ RepliesOwn
=============================================================================
