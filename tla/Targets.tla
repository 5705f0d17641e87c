------------------------------ MODULE Targets ------------------------------
(***************************************************************************)
(* The target matrix: Targets_Build expands hosts, ports and protocols,    *)
(* --target specs and a targets file into a list, and Targets_Resolve      *)
(* gives every target the addresses of its host, from the name server or   *)
(* from an earlier target (targets.c).  Startup calls both.                *)
(*                                                                         *)
(* An argument is what the tokenizer and strtol make of its text: a port   *)
(* is an integer, a token that is no protocol is "bad".  The name server   *)
(* may answer the same question differently each time.                     *)
(***************************************************************************)
EXTENDS Integers, SequencesExt

CONSTANTS
  PortMod,        \* 2^16: the values of a uint16_t
  MaxPorts,       \* 1024, the size of ports[]
  MaxProtos,      \* 8, the size of protos[]
  InitCap,        \* 8, the first capacity of the list
  MaxAddrs,       \* MAX_RESOLVED_ADDRS
  Answers         \* what the name server may answer: sequences of addresses

Protocols == {"tcp", "udp", "icmp"}
(* A --target: without a port it has port 0. *)
Line == [host : STRING, port : Int, proto : Protocols \cup {"bad"}]
(* A line of the targets file: a port that is not there is 0 (have_port). *)
FileLine == [host : STRING, port : Int, havePort : BOOLEAN, proto : Protocols \cup {"bad"}]

ASSUME TargetsAssumption ==
  /\ PortMod \in Nat \ {0, 1}
  /\ MaxPorts \in Nat \ {0} /\ MaxProtos \in Nat \ {0}
  /\ InitCap \in Nat \ {0} /\ MaxAddrs \in Nat \ {0}
  /\ <<>> \notin Answers

VARIABLES
  stage,          \* "matrix", "specs", "file", "resolve", "failed": see Startup
  args,           \* hosts, ports (ranges), protos, specs; file, and is it readable
  items,          \* list->Items
  at,             \* the spec, line or target that is next
  resolved        \* "ok" of Targets_Resolve

-----------------------------------------------------------------------------
(* The list.                                                               *)

(* A target as TargetList_Add leaves it, zeroed but for its destination. *)
Target(host, port, type) ==
  [host |-> host, port |-> port % PortMod, type |-> type,
   ok |-> FALSE, toPort |-> 0, toType |-> "none", addrs |-> <<>>]

(* From n to m targets the list is reallocated: it doubles when it is full. *)
Grows(n, m) == \E c \in n .. m - 1 : c = 0 \/ \E k \in 0 .. m : c = InitCap * 2 ^ k

(* The targets are appended, or realloc fails. *)
Add(new, next) ==
  \/ items' = items \o new /\ stage' = next
  \/ Grows(Len(items), Len(items) + Len(new)) /\ stage' = "failed" /\ UNCHANGED items

Fail == stage' = "failed" /\ UNCHANGED items

-----------------------------------------------------------------------------
(* Targets_Build.                                                          *)

(* Mutant of PortRange: the last port of a range is left out. *)
PortRangeOpen(r) == [k \in 1 .. r[2] - r[1] |-> r[1] + k - 1]

(* ParsePortList. *)
PortRange(r) == [k \in 1 .. r[2] - r[1] + 1 |-> r[1] + k - 1]
Ports(ranges) == FlattenSeq([i \in DOMAIN ranges |-> PortRange(ranges[i])])
PortsOk(ranges) ==
  /\ \A r \in ToSet(ranges) : 1 <= r[1] /\ r[1] <= r[2] /\ r[2] < PortMod
  /\ Len(Ports(ranges)) <= MaxPorts

(* ParseProtoList. *)
Protos(tokens) == IF tokens = <<>> THEN <<"tcp">> ELSE tokens
ProtosOk(tokens) == "bad" \notin ToSet(tokens) /\ Len(tokens) <= MaxProtos

(* The targets of one host and one protocol: ICMP has no port. *)
Row(host, type, ports) ==
  IF type = "icmp" THEN <<Target(host, 0, type)>>
                   ELSE [i \in DOMAIN ports |-> Target(host, ports[i], type)]

(* The positional hosts x protocols x ports, in the order of the loops. *)
BuildMatrix ==
  /\ stage = "matrix"
  /\ IF args.hosts = <<>> THEN stage' = "specs" /\ UNCHANGED items
     ELSE IF ~PortsOk(args.ports) \/ ~ProtosOk(args.protos) THEN Fail
     ELSE LET ports == Ports(args.ports)
              protos == Protos(args.protos)
              rows(h) == FlattenSeq([i \in DOMAIN protos |-> Row(h, protos[i], ports)])
          IN IF ports = <<>> /\ ToSet(protos) # {"icmp"} THEN Fail
             ELSE Add(FlattenSeq([h \in DOMAIN args.hosts |-> rows(args.hosts[h])]),
                      "specs")
  /\ at' = 1 /\ UNCHANGED <<args, resolved>>

(* One --target. *)
AddSpec ==
  /\ stage = "specs"
  /\ IF at > Len(args.specs) THEN stage' = "file" /\ at' = 1 /\ UNCHANGED items
     ELSE LET s == args.specs[at] IN
          /\ at' = at + 1
          /\ IF \/ s.proto = "bad" \/ s.host = ""
                \/ s.proto # "icmp" /\ s.port \notin 1 .. PortMod - 1
             THEN Fail ELSE Add(<<Target(s.host, s.port, s.proto)>>, "specs")
  /\ UNCHANGED <<args, resolved>>

(* One line of the targets file, if there is one and it opens, and the end of
   Targets_Build.  A blank line or a comment has no host; a port is required,
   but any port is taken. *)
AddFileLine ==
  /\ stage = "file"
  /\ IF ~args.readable THEN Fail /\ UNCHANGED at
     ELSE IF at > Len(args.file)
     THEN at' = 1 /\ stage' = (IF items = <<>> THEN "failed" ELSE "resolve")
          /\ UNCHANGED items
     ELSE LET l == args.file[at] IN
          /\ at' = at + 1
          /\ IF l.host = "" THEN UNCHANGED <<stage, items>>
             ELSE IF l.proto # "icmp" /\ ~l.havePort THEN Fail
             ELSE Add(<<Target(l.host, l.port, l.proto)>>, "file")
  /\ UNCHANGED <<args, resolved>>

-----------------------------------------------------------------------------
(* Targets_Resolve.                                                        *)

(* What Resolve keeps of an answer.  Without a socket type (ICMP, socket.c:153)
   getaddrinfo lists each address once per type: stream, datagram and raw. *)
Kept(answer, type) ==
  LET list == IF type = "icmp" THEN [k \in 1 .. 3 * Len(answer) |-> answer[(k + 2) \div 3]]
                               ELSE answer
  IN SubSeq(list, 1, IF Len(list) < MaxAddrs THEN Len(list) ELSE MaxAddrs)

(* Mutant of Known: only a target of the same protocol is looked for. *)
KnownSameType(t) ==
  {j \in 1 .. at - 1 : items[j].ok /\ items[j].host = t.host /\ items[j].type = t.type}

(* The earlier targets whose addresses can be used again. *)
Known(t) == {j \in 1 .. at - 1 : items[j].ok /\ items[j].host = t.host}

(* The addresses are copied, the connection settings are the target's own. *)
Copied(t, p) ==
  [t EXCEPT !.ok = TRUE, !.addrs = p.addrs, !.toPort = t.port, !.toType = t.type]

(* SetPortAndType and Resolve; an empty answer is a failure. *)
Asked(t, answer) ==
  [t EXCEPT !.ok = answer # <<>>, !.addrs = Kept(answer, t.type),
            !.toPort = t.port, !.toType = t.type]

(* One turn of the loop. *)
ResolveOne ==
  /\ stage = "resolve" /\ at <= Len(items)
  /\ LET t == items[at] IN
     /\ IF Known(t) # {}
        THEN LET first == CHOOSE j \in Known(t) : \A k \in Known(t) : j <= k
             IN items' = [items EXCEPT ![at] = Copied(t, items[first])]
        ELSE \E answer \in Answers \cup {<<>>} :
               items' = [items EXCEPT ![at] = Asked(t, answer)]
     /\ resolved' = IF items'[at].ok THEN resolved + 1 ELSE resolved
  /\ at' = at + 1
  /\ UNCHANGED <<stage, args>>

Build == BuildMatrix \/ AddSpec \/ AddFileLine

-----------------------------------------------------------------------------
(* Properties, of the list as Startup builds and resolves it.              *)

Destination(t) == <<t.host, t.type, t.port>>
Built ==
  stage \in {"resolve", "annotate", "mode", "trace", "load", "csv", "json", "loop", "close"}
  /\ items # <<>>

(* The ways in which the arguments name a destination. *)
RangesWith(p) == {i \in DOMAIN args.ports : args.ports[i][1] <= p /\ p <= args.ports[i][2]}
AskedFor(host, type, port) ==
  Cardinality({h \in DOMAIN args.hosts : args.hosts[h] = host})
  * Cardinality({i \in DOMAIN Protos(args.protos) : Protos(args.protos)[i] = type})
  * (IF type = "icmp" THEN (IF port = 0 THEN 1 ELSE 0) ELSE Cardinality(RangesWith(port)))

(* The README's "full host x port x protocol matrix", in which "ICMP targets
   ignore the port", stated without the loops of targets.c:323-343: a
   destination is in the list for each way the arguments name it. *)
MatrixComplete ==
  Built /\ args.specs = <<>> /\ args.file = <<>> =>
    /\ \A t \in ToSet(items) : t.host \in ToSet(args.hosts)
    /\ \A host \in ToSet(args.hosts), type \in Protocols, port \in 0 .. PortMod - 1 :
         Cardinality({j \in DOMAIN items : Destination(items[j]) = <<host, type, port>>})
           = AskedFor(host, type, port)

(* Targets of one host that are resolved have the same addresses, even when
   the name server changes its answer between two questions, but a failure
   is not remembered (targets.c:407); and each keeps its own port and
   protocol with the addresses of another (targets.c:412-413). *)
HostsAgree ==
  /\ \A i, j \in DOMAIN items :
       items[i].host = items[j].host /\ items[i].ok /\ items[j].ok =>
         items[i].addrs = items[j].addrs
  /\ \A t \in ToSet(items) :
       /\ t.ok <=> t.addrs # <<>>
       /\ t.ok => t.toPort = t.port /\ t.toType = t.type
  /\ Built => resolved = Cardinality({j \in DOMAIN items : items[j].ok})

(* targets.h:73 "Invalid input" makes Targets_Build fail, and a port that is
   none is invalid input for -p and --target.  The code breaks it for the
   targets file: AddFileLine checks that there is a port, not which one, and
   the cast to uint16_t makes another port of it. *)
PortsValid ==
  Built => \A l \in ToSet(args.file) :
             l.host # "" /\ l.proto # "icmp" => l.port \in 1 .. PortMod - 1

(* socket.h:36 "trying each resolved address in turn", once.  The code breaks
   it for ICMP targets, and for others that share the host of one: Resolve
   keeps each entry of getaddrinfo's list, which has three per address. *)
AddressesOnce == \A t \in ToSet(items) : IsInjective(t.addrs)
=============================================================================
