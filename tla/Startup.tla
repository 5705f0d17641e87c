------------------------------ MODULE Startup ------------------------------
(***************************************************************************)
(* A run of the program as main sees it (main.c:1033-1190): arguments and  *)
(* configuration, colour, the source interface, the target list and its    *)
(* annotation, the choice of the mode, the log files, and the exit.  What  *)
(* a mode does is the subject of other modules; here it returns 0 or 1.    *)
(*                                                                         *)
(* A signal changes nothing before a mode runs: the handler sets a flag    *)
(* that only the modes read.                                               *)
(***************************************************************************)
EXTENDS Settings, Targets

CONSTANTS
  Inputs,         \* command lines, the configuration files that open, the environment
  PortList,       \* what ParsePortList reads in a text: ranges
  ProtoList,      \* what ParseProtoList reads in a text: tokens
  SpecOf,         \* what AddSpec reads in a text
  LinesOf,        \* the targets files that open, and their lines
  Literal,        \* the texts that are addresses, and their family
  Names,          \* what getnameinfo may answer; "" if it fails
  Origin,         \* what the name server may answer about an address
  Holder,         \* what it may answer about an AS
  Strays          \* other datagrams that may reach a DNS query: late answers, or anyone's

(* A resource record, and what getifaddrs lists.  An address tells its family
   and whether it is link-local. *)
Record == [kind : {"other", "txt", "bad"}, fields : Seq(Seq(STRING))]
InterfaceAddr == [name : Text, family : {"v4", "v6"}, addr : Text, linkLocal : BOOLEAN]

ASSUME StartupAssumption ==
  /\ \A i \in Inputs :
       /\ i.argv \in Seq(Text) /\ i.addrs \in Seq(InterfaceAddr)
       /\ \A a, b \in ToSet(i.addrs) :
            a.addr = b.addr => a.family = b.family /\ a.linkLocal = b.linkLocal
       /\ Null \notin DOMAIN i.files /\ \A path \in DOMAIN i.files : i.files[path] \in Seq(Seq(Text))
  /\ \A t \in DOMAIN PortList : PortList[t] \in Seq(Int \X Int)
  /\ \A t \in DOMAIN ProtoList : ProtoList[t] \in Seq(Protocols \cup {"bad"})
  /\ \A t \in DOMAIN SpecOf : SpecOf[t] \in Line
  /\ \A f \in DOMAIN LinesOf : LinesOf[f] \in Seq({l \in FileLine : l.proto # "bad"})
  /\ \A t \in DOMAIN Literal : t # Null /\ Literal[t] \in {"v4", "v6"}
  /\ \A a \in DOMAIN Origin : Origin[a] \subseteq Seq(Record)
  /\ \A n \in DOMAIN Holder : Holder[n] \subseteq Seq(Record)
  /\ Strays \subseteq Seq(Record)
  /\ Answers \subseteq Seq(DOMAIN Origin)
  /\ \A a \in DOMAIN Origin : \A reply \in Origin[a] \cup Strays : \A r \in ToSet(reply) :
       r.fields # <<>> /\ r.fields[1] # <<>> => r.fields[1][1] \in DOMAIN Holder

VARIABLES
  input,          \* argv, files, home; NO_COLOR and isatty; what getifaddrs lists
  settings,       \* args of main
  color,          \* UseColor
  src,            \* g_src4 and g_src6, Null while they are not set
  notes,          \* ReverseName, Asn and AsnOrg of the targets annotated so far
  ran,            \* the mode that was started, "none" before
  logs,           \* the log files that are open: "csv", "json"
  exitStatus      \* EXIT_SUCCESS is 0, EXIT_FAILURE 1

list == <<args, items, at, resolved>>
own == <<input, settings, color, src, notes, ran, logs, exitStatus>>
mainVars == <<stage, list, own>>

NoSource == [v4 |-> Null, v6 |-> Null]

(* What the parsers of targets.c make of a text: a text that is no list has a
   port, a token or a protocol that is none. *)
NoSpec == [host |-> "", port |-> 0, proto |-> "bad"]
PortsIn(text) == IF text = Null THEN <<>>
                 ELSE IF text \in DOMAIN PortList THEN PortList[text] ELSE <<<<0, 0>>>>
ProtosIn(text) == IF text = Null THEN <<>>
                  ELSE IF text \in DOMAIN ProtoList THEN ProtoList[text] ELSE <<"bad">>
SpecIn(text) == IF text \in DOMAIN SpecOf THEN SpecOf[text]
                ELSE NoSpec

(* The arguments of Targets_Build, read as its parsers read them. *)
TargetArgs(s) ==
  [hosts  |-> s.hosts,
   ports  |-> PortsIn(s.portSpec),
   protos |-> ProtosIn(s.protoSpec),
   specs  |-> [i \in DOMAIN s.specs |-> SpecIn(s.specs[i])],
   readable |-> s.targetsFile \in DOMAIN LinesOf \cup {Null},
   file   |-> IF s.targetsFile \in DOMAIN LinesOf THEN LinesOf[s.targetsFile] ELSE <<>>]

MainInit ==
  /\ input \in Inputs
  /\ settings = InitDefaults /\ color = FALSE /\ src = NoSource
  /\ args = TargetArgs(InitDefaults) /\ items = <<>> /\ at = 1 /\ resolved = 0 /\ notes = <<>>
  /\ ran = "none" /\ logs = {} /\ exitStatus = 0 /\ stage = "arguments"

Exit(code) == stage' = "exit" /\ exitStatus' = code

(* Exit after Targets_Free. *)
FreeExit(code) == Exit(code) /\ items' = <<>>

-----------------------------------------------------------------------------
(* ProcessArguments and the colour policy.  Help and version exit at once. *)
Arguments ==
  /\ stage = "arguments"
  /\ LET r == ProcessArguments(input.argv, input.files, input.home) IN
     IF r.status = "ok"
     THEN /\ settings' = r.settings
          /\ color' = Colored(r.settings, input.noColor, input.tty)
          /\ stage' = "interface" /\ UNCHANGED exitStatus
     ELSE Exit(IF r.status = "help" THEN 0 ELSE 1) /\ UNCHANGED <<settings, color>>
  /\ UNCHANGED <<list, input, src, notes, ran, logs>>

(* Mutant of Chosen: a link-local address replaces a global one. *)
ChosenLast(s, a) == [s EXCEPT ![a.family] = a.addr]

(* One address of the interface: the last of a family is taken, but a
   link-local one only if there is none yet. *)
Chosen(s, a) ==
  IF a.family = "v6" /\ a.linkLocal /\ s.v6 # Null THEN s
                                                   ELSE [s EXCEPT ![a.family] = a.addr]

(* SetSourceInterface by name; the list is empty if getifaddrs fails. *)
SourceOf(name, addrs) ==
  FoldLeft(LAMBDA s, a : IF a.name = name THEN Chosen(s, a) ELSE s, NoSource, addrs)

(* From the interface and SetTos, which stores settings.tos, to the HTTP mode,
   which is chosen first and whatever the other modes, or to Targets_Build. *)
Proceed ==
  IF settings.httpUrl # Null
  THEN stage' = "http" /\ ran' = "http" /\ UNCHANGED args
  ELSE stage' = "matrix" /\ args' = TargetArgs(settings) /\ UNCHANGED ran

UseInterface ==
  /\ stage = "interface"
  /\ \/ settings.interface = Null /\ Proceed /\ UNCHANGED <<src, exitStatus>>
     \/ /\ settings.interface \in DOMAIN Literal
        /\ src' = [src EXCEPT ![Literal[settings.interface]] = settings.interface]
        /\ Proceed /\ UNCHANGED exitStatus
     \/ /\ settings.interface \notin DOMAIN Literal \cup {Null}
        /\ src' = SourceOf(settings.interface, input.addrs)
        /\ IF src' = NoSource THEN Exit(1) /\ UNCHANGED <<args, ran>>
                              ELSE Proceed /\ UNCHANGED exitStatus
  /\ UNCHANGED <<input, settings, color, items, at, resolved, notes, logs>>

(* Targets_Build and Targets_Resolve; a list that could not be built is not
   freed. *)
TargetsStep == (Build \/ ResolveOne) /\ UNCHANGED own

BuildFailed ==
  /\ stage = "failed" /\ Exit(1)
  /\ UNCHANGED <<list, input, settings, color, src, notes, ran, logs>>

Resolved ==
  /\ stage = "resolve" /\ at > Len(items)
  /\ IF resolved = 0 THEN FreeExit(1) /\ UNCHANGED at
     ELSE stage' = "annotate" /\ at' = 1 /\ UNCHANGED <<items, exitStatus>>
  /\ UNCHANGED <<args, resolved, input, settings, color, src, notes, ran, logs>>

-----------------------------------------------------------------------------
(* Resolve_Annotate.  A reply is a sequence of resource records, <<>> if    *)
(* none came.  A record of kind "txt" has fields, and a field has words; a  *)
(* record of kind "other" is passed over, and a "bad" one does not fit in   *)
(* the packet.                                                              *)

(* DnsTxtQuery: the first TXT record, if every record before it fits; else
   one without fields. *)
TxtOf(reply) ==
  LET stops == {i \in DOMAIN reply : reply[i].kind # "other"}
  IN IF stops = {} \/ reply[Min(stops)].kind = "bad" THEN <<>> ELSE reply[Min(stops)].fields

(* CymruField, counted from 0; <<>> if it is empty or there is none. *)
CymruField(record, idx) == IF idx + 1 \in DOMAIN record THEN record[idx + 1] ELSE <<>>

(* The datagram that DnsTxtQuery receives: an answer to its question, or a
   stray, since it compares neither id nor question nor sender. *)
Datagrams(answers) == [reply : answers, asked : {TRUE}] \cup [reply : Strays, asked : {FALSE}]

(* A text of a note, and whether it comes from an answer to the question that
   was asked, which the program does not know. *)
Found(text, asked) == [text |-> text, asked |-> asked]
NoNote == [name |-> "", asn |-> Found(Null, TRUE), org |-> Found(<<>>, TRUE)]

(* Mutant of Annotated: the last address is looked up. *)
AnnotatedLast(t) ==
  LET addr == t.addrs[Len(t.addrs)]
  IN {[NoNote EXCEPT !.name = name] : name \in Names[addr]}

(* What a target may be annotated with: the name of its first address, the
   first AS of the answer about that address, and the fifth field of the
   answer about this AS. *)
Annotated(t) ==
  LET addr == t.addrs[1]
      firstAs(d) == LET words == CymruField(TxtOf(d.reply), 0)
                    IN Found(IF words = <<>> THEN Null ELSE words[1], d.asked)
      orgs(asn) == IF asn = Null THEN {Found(<<>>, TRUE)}
                   ELSE {Found(CymruField(TxtOf(d.reply), 4), d.asked) : d \in Datagrams(Holder[asn])}
  IN UNION {[name : Names[addr], asn : {asn}, org : orgs(asn.text)] :
              asn \in {firstAs(d) : d \in Datagrams(Origin[addr])}}

(* One turn of the loop over the targets, and its end. *)
Annotate ==
  /\ stage = "annotate"
  /\ IF ~settings.resolve \/ at > Len(items)
     THEN stage' = "mode" /\ UNCHANGED <<at, notes>>
     ELSE /\ at' = at + 1 /\ UNCHANGED stage
          /\ \E note \in IF items[at].ok THEN Annotated(items[at]) ELSE {NoNote} :
               notes' = Append(notes, note)
  /\ UNCHANGED <<args, items, resolved, input, settings, color, src, ran, logs, exitStatus>>

-----------------------------------------------------------------------------
(* The modes.                                                              *)

(* Traceroute and load tests take a single target; without either the log
   files are opened for the probe loop. *)
ChooseMode ==
  /\ stage = "mode"
  /\ LET single == settings.traceroute \/ settings.loadTest \/ settings.resilience
         mode == IF settings.traceroute THEN "trace" ELSE "load"
     IN IF ~single THEN stage' = "csv" /\ UNCHANGED <<ran, items, exitStatus>>
        ELSE IF Len(items) # 1 THEN FreeExit(1) /\ UNCHANGED ran
        ELSE stage' = mode /\ ran' = mode /\ UNCHANGED <<items, exitStatus>>
  /\ UNCHANGED <<args, at, resolved, input, settings, color, src, notes, logs>>

(* RunHttpMode, Traceroute_Run or RunLoadTestMode returns, and main exits;
   the HTTP mode has no list to free. *)
ModeReturns ==
  /\ stage \in {"http", "trace", "load"}
  /\ \E rc \in {0, 1} : FreeExit(rc)
  /\ UNCHANGED <<args, at, resolved, input, settings, color, src, notes, ran, logs>>

OpenCsv ==
  /\ stage = "csv"
  /\ \/ ~settings.csv /\ stage' = "json" /\ UNCHANGED <<items, exitStatus, logs>>
     \/ settings.csv /\ stage' = "json" /\ logs' = logs \cup {"csv"} /\ UNCHANGED <<items, exitStatus>>
     \/ settings.csv /\ FreeExit(1) /\ UNCHANGED logs
  /\ UNCHANGED <<args, at, resolved, input, settings, color, src, notes, ran>>

(* Mutant of OpenJson: the CSV file stays open. *)
OpenJsonLeaks ==
  /\ stage = "json"
  /\ \/ /\ stage' = "loop" /\ ran' = "loop" /\ UNCHANGED <<items, exitStatus>>
        /\ logs' = IF settings.jsonFile THEN logs \cup {"json"} ELSE logs
     \/ settings.jsonFile /\ FreeExit(1) /\ UNCHANGED <<ran, logs>>
  /\ UNCHANGED <<args, at, resolved, input, settings, color, src, notes>>

(* The JSON file; if it cannot be opened the CSV file is closed. *)
OpenJson ==
  /\ stage = "json"
  /\ \/ /\ stage' = "loop" /\ ran' = "loop" /\ UNCHANGED <<items, exitStatus>>
        /\ logs' = IF settings.jsonFile THEN logs \cup {"json"} ELSE logs
     \/ settings.jsonFile /\ FreeExit(1) /\ logs' = logs \ {"csv"} /\ UNCHANGED ran
  /\ UNCHANGED <<args, at, resolved, input, settings, color, src, notes>>

(* ProbeLoop returns. *)
LoopReturns ==
  /\ stage = "loop" /\ stage' = "close" /\ exitStatus' \in {0, 1}
  /\ UNCHANGED <<list, input, settings, color, src, notes, ran, logs>>

CloseLogs ==
  /\ stage = "close" /\ FreeExit(exitStatus)
  /\ logs' = logs \ ((IF settings.csv THEN {"csv"} ELSE {})
                      \cup (IF settings.jsonFile THEN {"json"} ELSE {}))
  /\ UNCHANGED <<args, at, resolved, input, settings, color, src, notes, ran>>

MainNext ==
  \/ Arguments \/ UseInterface \/ TargetsStep \/ BuildFailed \/ Resolved
  \/ Annotate \/ ChooseMode \/ ModeReturns \/ OpenCsv \/ OpenJson
  \/ LoopReturns \/ CloseLogs

MainSpec == MainInit /\ [][MainNext]_mainVars

-----------------------------------------------------------------------------
(* Properties.  They are stated on the positions of the command line and    *)
(* the lines of the file, without the folds of ProcessArguments.            *)

argv == input.argv
Started == stage \notin {"arguments", "exit"}

(* The positions that are read as an option or a host, not as the value of
   the option before: of the options with a value that stand just before it,
   every second one is itself a value. *)
Before(i) == Cardinality({j \in 1 .. i - 1 : \A k \in j .. i - 1 : argv[k] \in TakesValue})
IsRead == {i \in DOMAIN argv : Before(i) % 2 = 0}
Given(options) == {i \in IsRead : argv[i] \in options}

(* The file that is used, wherever its option stands and even if it is the
   value of another one: that of the first --config, if no --no-config
   precedes it; ~/.pingdd, if there is neither. *)
FileAt(path) == IF path \in DOMAIN input.files THEN input.files[path] ELSE <<>>
Picks(i) == argv[i] = "--no-config" \/ (argv[i] = "--config" /\ i < Len(argv))
Picked == {i \in DOMAIN argv : Picks(i) /\ \A j \in 1 .. i - 1 : ~Picks(j)}
Lines ==
  IF \E i \in Picked : argv[i] = "--config" THEN FileAt(argv[Max(Picked) + 1])
  ELSE IF Picked # {} \/ ~input.home THEN <<>> ELSE FileAt("~/.pingdd")
LinesFor(lines, key) == {i \in DOMAIN lines : lines[i] # <<>> /\ lines[i][1] = key}

(* The README's precedence: a setting is that of the last flag, else of the
   last line of the file, else the default; a switch that the file or the
   command line turned on stays on; each text is an option, its value or a
   host, never two of them. *)
SettingsFrom(lines) ==
  /\ \A field \in {NumberOption[o].field : o \in DOMAIN NumberOption} :
       LET flags == Given({o \in DOMAIN NumberOption : NumberOption[o].field = field})
           last == Max(flags)
           set == LinesFor(lines, field)
       IN settings[field] = IF flags # {} THEN Number[argv[last + 1]] * NumberOption[argv[last]].unit
                            ELSE IF set # {} THEN Number[lines[Max(set)][2]]
                            ELSE InitDefaults[field]
  /\ \A key \in DOMAIN TextKey :
       LET flags == Given({o \in DOMAIN TextOption : TextOption[o] = TextKey[key]})
           set == LinesFor(lines, key)
       IN settings[TextKey[key]] =
            IF flags # {} THEN argv[Max(flags) + 1]
            ELSE IF set # {} THEN lines[Max(set)][2]
            ELSE IF key = "protocol" /\ Given({"--traceroute"}) # {} THEN "ICMP" ELSE Null
  /\ \A key \in BoolKey :
       LET set == LinesFor(lines, key)
       IN settings[key] <=> \/ Given({o \in DOMAIN Switch : key \in Switch[o]}) # {}
                            \/ set # {} /\ Truth[lines[Max(set)][2]]
  /\ LET hosts == Given(ToSet(argv) \ (TakesValue \cup DOMAIN Switch))
     IN /\ Len(settings.hosts) = Cardinality(hosts)
        /\ \A i \in hosts : settings.hosts[Cardinality({j \in hosts : j <= i})] = argv[i]

(* Settings follow the precedence, from the file that the code takes; which one
   the documents would have it take is the subject of NamedFileIsRead,
   NoConfigDisables and ImplicitFileIsRead. *)
SettingsSound == Started => SettingsFrom(Lines)

(* Colour may come only where it was asked for or fits: never beside --json,
   --prometheus or --no-color, whatever their order with --color
   (main.c:1047-1048 "--json/--no-color force off"), and without a terminal,
   or against NO_COLOR, only if --color or the file forces it. *)
ColourSound ==
  color =>
    /\ Given({"--json", "--prometheus", "--no-color"}) = {}
    /\ input.noColor \/ ~input.tty =>
         \/ Given({"--color"}) # {}
         \/ LET set == LinesFor(Lines, "color")
            IN set # {} /\ Truth[Lines[Max(set)][2]]

Within(n, low, high) == low <= n /\ n <= high

(* The source addresses are those of the interface that was named, and a
   link-local one is used only if it is the only option (socket.c:546). *)
SourceIs(s, mine) ==
  /\ s # NoSource /\ {s.v4, s.v6} \ {Null} \subseteq {a.addr : a \in mine}
  /\ \A a, b \in mine : a.addr = s.v6 /\ a.linkLocal /\ b.family = "v6" => b.linkLocal
SourceInv ==
  Started /\ stage # "interface" /\ settings.interface \notin DOMAIN Literal \cup {Null} =>
    SourceIs(src, {a \in ToSet(input.addrs) : a.name = settings.interface})

(* What a mode relies on when main starts it: at most one mode was asked for
   beside HTTP; a load test or sweep has a duration and a thread count that
   loadtest.c divides by, and these and a traceroute have one target, which is
   resolved; the loop has a target that is; hops and queries fit the arrays of
   traceroute.c; and the source addresses are as SourceInv says. *)
ModeSound ==
  /\ stage \in {"trace", "load", "loop"} => Cardinality(Modes(settings)) <= 1
  /\ stage = "http" => items = <<>> /\ settings.httpUrl # Null
  /\ stage \in {"trace", "load"} => Len(items) = 1 /\ items[1].ok
  /\ stage = "trace" => /\ Within(settings.maxHops, 1, 255)
                        /\ Within(settings.queries, 1, 10)
  /\ stage = "load" => /\ Within(settings.duration, 1000, 3600000)
                       /\ Within(settings.concurrency, 1, 256)
  /\ stage = "loop" => /\ \E t \in ToSet(items) : t.ok
                   /\ ~settings.traceroute /\ ~settings.loadTest /\ ~settings.resilience
  /\ SourceInv

(* An annotation is about the address it is printed beside, the first one of
   its target, as far as answers went to their questions: the name is one of
   that address, the AS the first of an answer about it, and the holder that of
   this AS, even if the AS is a stray one; there is no holder without an AS, and
   unresolved targets have no note. *)
AnnotationsMatch ==
  LET fieldsIn(replies) == UNION {{rr.fields : rr \in {r \in ToSet(reply) : r.kind = "txt"}} :
                                    reply \in replies}
  IN stage \in {"annotate", "mode", "trace", "load", "csv", "json", "loop", "close"} =>
       \A i \in DOMAIN notes :
         LET n == notes[i]
             addr == items[i].addrs[1]
             as == n.asn.text
             org == n.org.text
         IN IF ~items[i].ok THEN n = NoNote
            ELSE /\ n.name \in Names[addr]
                 /\ n.asn.asked /\ as # Null => \E f \in fieldsIn(Origin[addr]) : f[1] # <<>> /\ f[1][1] = as
                 /\ org # <<>> => as # Null
                 /\ n.org.asked /\ org # <<>> => \E f \in fieldsIn(Holder[as]) : org \in ToSet(f)

(* However the run ends, its log files are closed and its list is freed, but
   for a list that could not be built; it succeeds only if a mode did, or if
   help was all that was asked for. *)
CleanExit ==
  stage = "exit" =>
    /\ logs = {}
    /\ exitStatus = 0 => ran # "none" \/ Given({"--help", "--version"}) # {}
    /\ resolved > 0 => items = <<>>

(* resolve.h:20-21 "for the host's primary address ... fields that cannot be
   determined are left empty".  The code breaks it when a datagram other than
   the answer arrives first: it prints what that one says. *)
NotesAreOwn == \A i \in DOMAIN notes : notes[i].asn.asked /\ notes[i].org.asked

(* README.md:126 "--config FILE ... Load options from a config file", and
   arguments.c:76 "--no-config ... ignore the implicit ~/.pingdd config file",
   not that one.  The code breaks it: after --no-config FILE is not read. *)
NamedFileIsRead ==
  Started /\ Given({"--config"}) # {} =>
    \E i \in Given({"--config"}) : SettingsFrom(FileAt(argv[i + 1]))

(* arguments.c:150 "--no-config (disables file loading entirely)".  The code
   breaks it: a file that was named before is read. *)
NoConfigDisables == Started /\ Given({"--no-config"}) # {} => SettingsFrom(<<>>)

(* README.md:126, the default of --config: "~/.pingdd".  The code breaks it when
   the value of another option reads --no-config or --config. *)
ImplicitFileIsRead ==
  Started /\ input.home /\ Given({"--config", "--no-config"}) = {} =>
    SettingsFrom(FileAt("~/.pingdd"))

(* The README's "A flag always wins over the file".  The code breaks it for
   colour: after color=false in the file --color has no effect. *)
FlagWins ==
  Started /\ stage # "interface" /\ Given({"--color"}) # {}
    /\ Given({"--json", "--prometheus", "--no-color"}) = {} => color

(* main.c:1047 "--json/--no-color force off".  The code breaks it in the file:
   color=true after json=true turns the colour on again. *)
JsonIsPlain == settings.json => ~color

(* "Optional IP ToS/DSCP marking on every probe socket" and the source address
   (main.c:1063-1075): the HTTP sockets of http.c and the raw socket of
   traceroute.c get neither. *)
MarkedSockets ==
  ran \in {"http", "trace"} => settings.tos = -1 /\ src = NoSource

-----------------------------------------------------------------------------
(* The inductive invariant.                                                *)

(* What a field of the settings may hold. *)
Flags == {"useColor", "forceColor", "quiet", "audible", "json", "jsonFile", "csv", "prometheus",
          "concurrent", "resolve", "monitor", "loadTest", "resilience", "traceroute"}
Texts == {"portSpec", "protoSpec", "targetsFile", "interface", "httpUrl"}
Numbers == {"timeout", "count", "rate", "deadline", "tos", "httpStatus", "maxHops", "queries",
            "concurrency", "duration"}
Lists == {"hosts", "specs"}
Fits(f, v) ==
  /\ f \in Flags => v \in BOOLEAN
  /\ f \in Lists => v \in Seq(Text)
  /\ f \in Numbers => v \in Int
  /\ f = "maxHops" => 1 <= v /\ v <= 255
  /\ f = "queries" => 1 <= v /\ v <= 10
  /\ f = "concurrency" => 1 <= v /\ v <= 256
  /\ f = "duration" => v = 0 \/ (1000 <= v /\ v <= 3600000)
SettingsType(s) ==
  /\ Flags \cup Texts \cup Numbers \cup Lists \subseteq DOMAIN s
  /\ \A f \in DOMAIN s : Fits(f, s[f])

Tokens == Protocols \cup {"bad", "none"}
Entry == [host : STRING, port : Int, type : Tokens, ok : BOOLEAN,
          toPort : Int, toType : Tokens, addrs : Seq(DOMAIN Origin)]
Fresh == {t \in Entry : ~t.ok /\ t.addrs = <<>>}

Early == {"arguments", "interface", "http"}
Building == {"matrix", "specs", "file", "failed"}
Looping == {"csv", "json", "loop", "close"}
Later == {"annotate", "mode", "trace", "load"} \cup Looping

TypeInv ==
  /\ input \in Inputs
  /\ stage \in Early \cup Building \cup {"resolve", "exit"} \cup Later
  /\ items \in Seq(Entry) /\ resolved \in Nat
  /\ stage \in {"specs", "file", "resolve", "annotate"} => at \in Nat \ {0}
  /\ args.hosts \in Seq(Text) /\ args.ports \in Seq(Int \X Int)
  /\ args.protos \in Seq(Tokens) /\ args.file \in Seq(FileLine)
  /\ args.specs \in Seq(Line \cup {NoSpec})

(* The list is made of fresh targets, and is resolved from the left. *)
ListInv ==
  /\ stage \in Early => items = <<>>
  /\ stage \in Early \cup Building => ToSet(items) \subseteq Fresh /\ resolved = 0
  /\ stage = "resolve" => /\ items # <<>>
                         /\ \A j \in DOMAIN items : at <= j => items[j] \in Fresh
  /\ stage \in Later => \E t \in ToSet(items) : t.ok
  /\ HostsAgree

ModeInv ==
  /\ SettingsType(settings)
  /\ Started => Acceptable(settings)
  /\ stage = "http" => settings.httpUrl # Null
  /\ stage \in {"trace", "load"} => Len(items) = 1
  /\ stage = "load" => settings.loadTest \/ settings.resilience
  /\ stage \in Looping => ~settings.traceroute /\ ~settings.loadTest /\ ~settings.resilience

(* One note per target annotated so far. *)
NotesInv ==
  /\ stage \notin Later \cup {"exit"} => notes = <<>>
  /\ notes \in Seq(ToSet(notes)) /\ (stage = "annotate" => Len(notes) = at - 1)
  /\ AnnotationsMatch

ExitInv ==
  /\ exitStatus \in {0, 1}
  /\ stage \notin {"json", "loop", "close"} => logs = {}
  /\ logs \subseteq (IF settings.csv THEN {"csv"} ELSE {})
                  \cup (IF settings.jsonFile THEN {"json"} ELSE {})
  /\ stage = "json" => logs \subseteq {"csv"}
  /\ stage \in {"http", "trace", "load", "loop", "close"} => ran # "none"
  /\ CleanExit

MainInv == TypeInv /\ ListInv /\ ModeInv /\ SourceInv /\ NotesInv /\ ExitInv
=============================================================================
