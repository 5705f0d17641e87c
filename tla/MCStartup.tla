---------------------------- MODULE MCStartup ----------------------------
(* Instances of Startup for TLC.  The command lines vary one subject at a
   time: the targets; colour; numbers; the configuration file; the modes and
   their log files; the source interface; the annotation. *)
EXTENDS Startup

MCNumber == [n \in {"0", "1", "2", "5", "64", "300"} |->
               CASE n = "0" -> 0 [] n = "1" -> 1 [] n = "2" -> 2 [] n = "5" -> 5
                 [] n = "64" -> 64 [] n = "300" -> 300]
MCTruth == [yes |-> TRUE, no |-> FALSE]

-----------------------------------------------------------------------------
(* Targets: ports 1 to 3 are valid and ports[] holds three of them. *)

MCPortList ==
     "1-2" :> <<<<1, 2>>>>             @@ "3,1-2" :> <<<<3, 3>>, <<1, 2>>>>
  @@ "2,2" :> <<<<2, 2>>, <<2, 2>>>>   @@ "1-3,1" :> <<<<1, 3>>, <<1, 1>>>>
  @@ "0-1" :> <<<<0, 1>>>>             @@ "2-1" :> <<<<2, 1>>>>
  @@ "3-4" :> <<<<3, 4>>>>             @@ "1" :> <<<<1, 1>>>>
MCProtoList ==
     "icmp" :> <<"icmp">>              @@ "tcp,icmp" :> <<"tcp", "icmp">>
  @@ "udp,tcp" :> <<"udp", "tcp">>     @@ "x" :> <<"bad">>
  @@ "all" :> <<"tcp", "udp", "icmp">> @@ "ICMP" :> <<"icmp">>

To(h, p, t) == [host |-> h, port |-> p, proto |-> t]
MCSpecOf ==
     "h1:3/udp" :> To("h1", 3, "udp")  @@ "h1/icmp" :> To("h1", 0, "icmp")
  @@ "h1:1" :> To("h1", 1, "tcp")      @@ "h2:4" :> To("h2", 4, "tcp")
  @@ ":1" :> To("", 1, "tcp")          @@ "h2:1/x" :> To("h2", 1, "bad")
FileTo(h, p, have, t) == [host |-> h, port |-> p, havePort |-> have, proto |-> t]
Ported(h, p, t) == FileTo(h, p, TRUE, t)
Portless(h, t) == FileTo(h, 0, FALSE, t)
MCLinesOf ==
     "good" :> <<Portless("h2", "icmp"), Portless("", "tcp"), Ported("h2", 2, "udp")>>
  @@ "portless" :> <<Portless("h1", "tcp")>>
  @@ "range" :> <<Ported("h2", 5, "tcp"), Ported("h1", -1, "tcp")>>

Hosts == {<<>>, <<"h1">>, <<"h1", "h2">>}
Option(name, values) == {<<>>} \cup {<<name, v>> : v \in values}
Specs(s) == FlattenSeq([i \in DOMAIN s |-> <<"--target", s[i]>>])
TargetLines ==
  {h \o p \o t : h \in Hosts, p \in Option("--port", DOMAIN MCPortList),
                 t \in Option("--protocol", DOMAIN MCProtoList)}
  \cup
  {m \o Specs(s) \o f :
     m \in {<<>>, <<"h1", "--port", "1-2">>, <<"h1", "--protocol", "icmp">>},
     s \in {<<>>, <<"h1:3/udp">>, <<"h1/icmp", "h1:1">>, <<"h2:4">>, <<":1">>, <<"h2:1/x">>},
     f \in Option("--targets", DOMAIN MCLinesOf \cup {"missing"})}

-----------------------------------------------------------------------------
(* Settings. *)

Base == <<"h1", "--port", "1">>

ColourFlags == {"--json", "--prometheus", "--color", "--no-color"}
ColourLines == {Base \o f : f \in {<<>>} \cup {<<a>> : a \in ColourFlags}
                                  \cup {<<a, b>> : a, b \in ColourFlags}}
ColourFiles ==
  {<<>>, <<<<"color", "yes">>>>, <<<<"color", "no">>>>, <<<<"json", "yes">>, <<"color", "yes">>>>,
   <<<<"color", "yes">>, <<"json", "yes">>>>, <<<<"color", "yes">>, <<"color", "no">>>>}

NumberLines ==
  {Base \o f : f \in
     {<<>>, <<"--timeout", "2">>, <<"--timeout", "2", "--timeout", "1">>, <<"--timeout">>,
      <<"--timeout", "0">>, <<"--timeout", "x">>, <<"--tos", "5", "--dscp", "1">>,
      <<"--dscp", "1", "--tos", "5">>, <<"--dscp", "64">>, <<"--queries", "64">>,
      <<"--max-hops", "300">>, <<"--port", "1-2", "--port">>, <<"--port", "--config">>,
      <<"--quiet", "--count", "0", "--rate", "0", "h2">>, <<"h2", "h1">>, <<"--bogus">>,
      <<"-">>, <<"--help">>, <<"--bogus", "--help">>, <<"--help", "--bogus">>,
      <<"--http-status", "64">>, <<"--concurrency", "300">>, <<"--protocol", "icmp">>,
      <<"--target", "h1:1", "--target", "h1:1", "--target", "h1:1">>}}
NumberFiles ==
  {<<>>, <<<<"timeout", "5">>, <<>>, <<"timeout", "2">>>>, <<<<"timeout", "0">>>>,
   <<<<"timeout", "2">>, <<"timeouts", "2">>>>, <<<<"port", "1-2">>, <<"tos", "5">>>>,
   <<<<"protocol", "icmp">>, <<"quiet", "yes">>>>, <<<<"quiet", "2">>>>, <<<<"count">>>>,
   <<<<"quiet", "yes">>, <<"quiet", "no">>, <<"audible", "yes">>>>, <<<<"rate", "">>>>}

ConfigLines ==
  LET options == {<<>>, <<"--no-config">>, <<"--config", "f">>, <<"--config", "gone">>,
                  <<"--http-method", "--no-config">>, <<"--http-method", "--config">>}
  IN {c \o Base \o d : c, d \in options}

ModeFlags == {"--monitor", "--load-test", "--resilience", "--traceroute"}
ModeLines ==
  {h \o m \o d \o p \o l :
     h \in {<<"h1">>, <<"h1", "h2">>, <<"--http", "url">>},
     m \in {<<a>> : a \in ModeFlags} \cup {<<>>, <<"--load-test", "--traceroute">>},
     d \in {<<>>, <<"--duration", "1">>}, p \in {<<>>, <<"--port", "1">>},
     l \in {<<>>, <<"--csv">>, <<"--json-file">>, <<"--csv", "--json-file">>}}

(* Addresses of two interfaces, in the orders that getifaddrs may give. *)
Addr(name, family, addr, linkLocal) ==
  [name |-> name, family |-> family, addr |-> addr, linkLocal |-> linkLocal]
V4 == Addr("eth", "v4", "10.1", FALSE)
Global == Addr("eth", "v6", "2001::1", FALSE)
Local == Addr("eth", "v6", "fe80::1", TRUE)
Other == Addr("lo", "v6", "::1", FALSE)
AddrLists == {<<>>} \cup SetToAllKPermutations({V4, Global, Local, Other})
MCLiteral == "10.1" :> "v4" @@ "2001::1" :> "v6"
InterfaceLines ==
  {Base \o <<"--interface", i>> \o m :
     i \in {"eth", "lo", "", "10.1", "2001::1"}, m \in {<<>>, <<"--http", "url">>}}

(* Answers about addresses and ASs: records before and after the one wanted,
   several ASs in a field, empty and missing fields. *)
Txt(fields) == [kind |-> "txt", fields |-> fields]
OtherRR == [kind |-> "other", fields |-> <<>>]
BadRR == [kind |-> "bad", fields |-> <<>>]
MCNames == [a \in {"a1", "a2"} |-> IF a = "a1" THEN {"n1"} ELSE {"", "n2"}]
MCOrigin ==
  [a \in {"a1", "a2"} |->
     IF a = "a1" THEN {<<>>, <<OtherRR, Txt(<<<<"13", "38">>, <<"p">>>>)>>, <<BadRR, Txt(<<<<"38">>>>)>>}
                 ELSE {<<Txt(<<<<>>, <<"p">>>>)>>, <<Txt(<<<<"38">>>>), Txt(<<<<"13">>>>)>>}]
MCHolder ==
  [n \in {"13", "38"} |->
     IF n = "13" THEN {<<>>, <<Txt(<<<<n>>, <<"U">>, <<"r">>, <<"d">>, <<"A", "Inc">>>>)>>}
                 ELSE {<<OtherRR>>, <<Txt(<<<<n>>, <<"U">>>>)>>, <<Txt(<<<<n>>, <<>>, <<>>, <<>>, <<"B">>>>)>>}]
MCStrays == {<<Txt(<<<<"38">>, <<"q">>, <<>>, <<>>, <<"C">>>>)>>}
AnnotateLines ==
  {<<"h1", "--resolve", "--port", "1-2">>, <<"h1", "h2", "--resolve", "--protocol", "icmp">>}

-----------------------------------------------------------------------------
InWith(lines, files, homes, noColors, ttys, lists) ==
  [argv : lines, files : files, home : homes, noColor : noColors, tty : ttys, addrs : lists]
In(lines, files, homes, noColors, ttys) == InWith(lines, files, homes, noColors, ttys, {<<>>})
AtHome(file) == "~/.pingdd" :> file
MCInputs ==
  In(TargetLines \cup ModeLines \cup AnnotateLines, {<<>>}, {FALSE}, {FALSE}, {TRUE})
  \cup InWith(InterfaceLines, {<<>>}, {FALSE}, {FALSE}, {TRUE}, AddrLists)
  \cup In(ColourLines, {AtHome(f) : f \in ColourFiles}, {TRUE}, BOOLEAN, BOOLEAN)
  \cup In(NumberLines, {AtHome(f) : f \in NumberFiles}, {TRUE}, {FALSE}, {TRUE})
  \cup In(ConfigLines, {AtHome(<<<<"timeout", "5">>>>) @@ "f" :> <<<<"timeout", "2">>>>}, BOOLEAN,
          {FALSE}, {TRUE})

MCAnswers == {<<"a1">>, <<"a1", "a2">>, <<"a2", "a1">>}
=============================================================================
