------------------------------ MODULE Settings ------------------------------
(***************************************************************************)
(* Where the settings of a run come from: the defaults, a configuration    *)
(* file (config.c) and the command line (arguments.c).                     *)
(*                                                                         *)
(* A text is a string that is compared and never taken apart.  What strtol *)
(* and the tokens of a boolean make of it are the functions Number and     *)
(* Truth.  Long and short names of an option are the same option.          *)
(***************************************************************************)
EXTENDS Integers, SequencesExt

CONSTANTS
  Number,         \* ParseLong, ParseLongValue: the numerals and their values
  Truth,          \* ParseBool: the words for true and false
  Dashed,         \* the texts that begin with '-', other than "-" itself
  MaxHosts,       \* MAX_HOSTS
  MaxSpecs        \* MAX_TARGET_SPECS

Null == "NULL"
Text == STRING \ {Null}

ASSUME SettingsAssumption ==
  /\ \A t \in DOMAIN Number : Number[t] \in Int
  /\ \A t \in DOMAIN Truth : Truth[t] \in BOOLEAN
  /\ MaxHosts \in Nat /\ MaxSpecs \in Nat

(* Notation: one field with a value; fields of s replaced; a table of pairs. *)
Setting(field, value) == [f \in {field} |-> value]
Over(change, s) == [f \in DOMAIN s |-> IF f \in DOMAIN change THEN change[f] ELSE s[f]]
Table(pairs) == [k \in {p[1] : p \in pairs} |-> (CHOOSE p \in pairs : p[1] = k)[2]]

(* ParseLong and the range check behind it. *)
NumberIn(text, range) ==
  text \in DOMAIN Number /\ range[1] <= Number[text] /\ Number[text] <= range[2]

InitDefaults ==
  [timeout |-> 1000, count |-> -1, rate |-> 0, deadline |-> 0, tos |-> -1,
   concurrency |-> 10, duration |-> 0, maxHops |-> 30, queries |-> 3, httpStatus |-> 0,
   portSpec |-> Null, protoSpec |-> Null, targetsFile |-> Null, interface |-> Null,
   httpUrl |-> Null, httpMethod |-> "GET", hosts |-> <<>>, specs |-> <<>>,
   useColor |-> TRUE, forceColor |-> FALSE,
   quiet |-> FALSE, audible |-> FALSE, json |-> FALSE, jsonFile |-> FALSE,
   csv |-> FALSE, prometheus |-> FALSE, concurrent |-> FALSE, resolve |-> FALSE,
   monitor |-> FALSE, loadTest |-> FALSE, resilience |-> FALSE, traceroute |-> FALSE]

-----------------------------------------------------------------------------
(* The configuration file: a line is <<>> when it is blank or a comment,   *)
(* <<key, value>>, or anything else when it has no '='.                    *)

NumberKey ==
  [timeout |-> <<1, 3600000>>, count |-> <<-1, 2147483647>>, rate |-> <<0, 3600000>>,
   deadline |-> <<1, 86400000>>, tos |-> <<0, 255>>]
TextKey == [port |-> "portSpec", protocol |-> "protoSpec", interface |-> "interface"]
BoolKey == {"quiet", "audible", "json", "csv", "concurrent", "resolve"}

(* ApplyKeyValue returns SUCCESS ... *)
KeyAccepts(key, value) ==
  \/ key \in DOMAIN TextKey
  \/ key \in DOMAIN NumberKey /\ NumberIn(value, NumberKey[key])
  \/ key \in BoolKey \cup {"color"} /\ value \in DOMAIN Truth

(* ... and assigns these fields: "color" sets two, "json" may set two. *)
KeyEffect(key, value) ==
  CASE key \in DOMAIN TextKey   -> Setting(TextKey[key], value)
    [] key \in DOMAIN NumberKey -> Setting(key, Number[value])
    [] key = "color"            -> [useColor |-> Truth[value], forceColor |-> Truth[value]]
    [] key = "json" /\ Truth[value] -> [json |-> TRUE, useColor |-> FALSE]
    [] OTHER                    -> Setting(key, Truth[value])

LineOk(line) ==
  line = <<>> \/ (Len(line) = 2 /\ "" \notin ToSet(line) /\ KeyAccepts(line[1], line[2]))

ReadLine(s, line) == IF line = <<>> THEN s ELSE Over(KeyEffect(line[1], line[2]), s)

(* Mutant of Config_Load: the first line of a key wins. *)
Config_LoadFirst(lines) ==
  FoldRight(LAMBDA line, s : ReadLine(s, line), lines, InitDefaults)

(* Config_Load over the defaults, when every line is accepted. *)
Config_Load(lines) ==
  FoldLeft(ReadLine, InitDefaults, lines)

(* SelectConfigPath: the first of --no-config and --config PATH among all
   the texts of the command line; without either, ~/.pingdd if there is a
   HOME.  Only a file that was named must exist. *)
SelectConfigPath(argv, home) ==
  LET hits == {i \in DOMAIN argv : \/ argv[i] = "--no-config"
                                   \/ argv[i] = "--config" /\ i < Len(argv)}
      first == Min(hits)
  IN IF hits = {} THEN [path |-> IF home THEN "~/.pingdd" ELSE Null, required |-> FALSE]
     ELSE IF argv[first] = "--no-config" THEN [path |-> Null, required |-> FALSE]
     ELSE [path |-> argv[first + 1], required |-> TRUE]

-----------------------------------------------------------------------------
(* The command line.                                                       *)

Numeric(field, range, unit) == [field |-> field, range |-> range, unit |-> unit]

(* Options with a number: field, range, and what the number is multiplied by. *)
NumberOption == Table({
  <<"--timeout",     Numeric("timeout", <<1, 3600000>>, 1)>>,
  <<"--count",       Numeric("count", <<-1, 2147483647>>, 1)>>,
  <<"--deadline",    Numeric("deadline", <<1, 86400000>>, 1)>>,
  <<"--rate",        Numeric("rate", <<0, 3600000>>, 1)>>,
  <<"--tos",         Numeric("tos", <<0, 255>>, 1)>>,
  <<"--dscp",        Numeric("tos", <<0, 63>>, 4)>>,
  <<"--http-status", Numeric("httpStatus", <<100, 599>>, 1)>>,
  <<"--max-hops",    Numeric("maxHops", <<1, 255>>, 1)>>,
  <<"--queries",     Numeric("queries", <<1, 10>>, 1)>>,
  <<"--concurrency", Numeric("concurrency", <<1, 256>>, 1)>>,
  <<"--duration",    Numeric("duration", <<1, 3600>>, 1000)>>})

TextOption == Table({
  <<"--port", "portSpec">>, <<"--protocol", "protoSpec">>, <<"--targets", "targetsFile">>,
  <<"--interface", "interface">>, <<"--http", "httpUrl">>, <<"--http-method", "httpMethod">>})

(* Options without a value, and the fields they assign: each is turned on, but
   "useColor", which is turned off. *)
Switch == Table({
  <<"--concurrent", {"concurrent"}>>, <<"--resolve", {"resolve"}>>, <<"--quiet", {"quiet"}>>,
  <<"--audible", {"audible"}>>,       <<"--csv", {"csv"}>>,         <<"--json-file", {"jsonFile"}>>,
  <<"--json", {"json", "useColor"}>>, <<"--prometheus", {"prometheus", "useColor"}>>,
  <<"--color", {"forceColor"}>>,      <<"--no-color", {"useColor"}>>,
  <<"--monitor", {"monitor"}>>,       <<"--load-test", {"loadTest"}>>,
  <<"--resilience", {"resilience"}>>, <<"--traceroute", {"traceroute"}>>,
  <<"--no-config", {}>>})
Switched(text) == [field \in Switch[text] |-> field # "useColor"]

TakesValue == DOMAIN NumberOption \cup DOMAIN TextOption \cup {"--target", "--config"}

(* The loop over argv: the settings so far, the option whose value is next
   (or Null), and whether the loop has ended early. *)
Reading(s) == [settings |-> s, wants |-> Null, status |-> "reading"]

(* The value of the option that was read before. *)
ReadValue(r, text) ==
  LET opt == r.wants
      set(change) == [r EXCEPT !.wants = Null, !.settings = Over(change, r.settings)]
      fail == [r EXCEPT !.status = "error"]
  IN CASE opt = "--config" -> set(<<>>)
       [] opt = "--target" ->
            IF Len(r.settings.specs) >= MaxSpecs THEN fail
            ELSE set([specs |-> Append(r.settings.specs, text)])
       [] opt \in DOMAIN TextOption -> set(Setting(TextOption[opt], text))
       [] opt \in DOMAIN NumberOption ->
            LET o == NumberOption[opt]
            IN IF NumberIn(text, o.range) THEN set(Setting(o.field, Number[text] * o.unit)) ELSE fail

(* An option or a host. *)
ReadArg(r, text) ==
  LET fail == [r EXCEPT !.status = "error"]
      set(change) == [r EXCEPT !.settings = Over(change, r.settings)]
  IN IF text \in {"--help", "--version"} THEN [r EXCEPT !.status = "help"]
     ELSE IF text \in TakesValue THEN [r EXCEPT !.wants = text]
     ELSE IF text \in DOMAIN Switch THEN set(Switched(text))
     ELSE IF text \in Dashed \/ Len(r.settings.hosts) >= MaxHosts THEN fail
     ELSE set([hosts |-> Append(r.settings.hosts, text)])

ReadText(r, text) ==
  IF r.status # "reading" THEN r
  ELSE IF r.wants # Null THEN ReadValue(r, text) ELSE ReadArg(r, text)

(* After the loop: traceroute needs no port. *)
Completed(s) ==
  IF s.traceroute /\ s.protoSpec = Null THEN [s EXCEPT !.protoSpec = "ICMP"] ELSE s

Modes(s) == {m \in {"monitor", "loadTest", "resilience", "traceroute"} : s[m]}

(* Mutant of Acceptable: a duration is not asked for. *)
AcceptableAnyDuration(s) ==
  /\ s.hosts # <<>> \/ s.specs # <<>> \/ s.targetsFile # Null \/ s.httpUrl # Null
  /\ Cardinality(Modes(s)) <= 1

(* A destination, one mode at most, and a duration for those that need it. *)
Acceptable(s) ==
  /\ s.hosts # <<>> \/ s.specs # <<>> \/ s.targetsFile # Null \/ s.httpUrl # Null
  /\ Cardinality(Modes(s)) <= 1
  /\ s.loadTest \/ s.resilience => s.duration # 0

(* ProcessArguments: "ok" with the settings, "help" or "error".  "files" maps
   the paths that can be opened to their lines. *)
ProcessArguments(argv, files, home) ==
  LET config == SelectConfigPath(argv, home)
      found == config.path \in DOMAIN files
      lines == IF found THEN files[config.path] ELSE <<>>
      failed == [status |-> "error", settings |-> InitDefaults]
  IN IF config.required /\ ~found THEN failed
     ELSE IF \E l \in ToSet(lines) : ~LineOk(l) THEN failed
     ELSE LET r == FoldLeft(ReadText, Reading(Config_Load(lines)), argv)
              s == Completed(r.settings)
          IN IF r.status = "help" THEN [status |-> "help", settings |-> InitDefaults]
             ELSE IF r.status = "error" \/ r.wants # Null \/ ~Acceptable(s) THEN failed
             ELSE [status |-> "ok", settings |-> s]

(* Mutant of Colored: --color is looked at first. *)
ColoredForced(s, noColor, tty) == s.forceColor \/ (s.useColor /\ ~noColor /\ tty)

(* The colour policy of main: a terminal and NO_COLOR decide, unless colour
   is forced or forbidden. *)
Colored(s, noColor, tty) == s.useColor /\ (s.forceColor \/ (~noColor /\ tty))
=============================================================================
