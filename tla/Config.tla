------------------------------- MODULE Config -------------------------------
(***************************************************************************)
(* The settings of the program: config.c, conf_parser.c, init_cfg of       *)
(* minieap.c, the plugin lists of packet_plugin.c and the options of the   *)
(* rjv3 plugin.  Every step is a start of the program: defaults, then the  *)
(* configuration file, then the command line, and with --save the file is  *)
(* written again.                                                          *)
(*                                                                         *)
(* A text is a sequence of character codes.  A line of the file is its key *)
(* and the text behind the "="; comments and lines without "=" add nothing *)
(* and are left out.                                                       *)
(***************************************************************************)
EXTENDS Integers, Sequences, SequencesExt, Lists

CONSTANTS
    Argument,       \* the pairs of option and text tried on the command line
    FirstFile,      \* the configuration files there may be at first
    MAX_LINE_LEN,
    MaxArguments,   \* bound: options on one command line
    MaxStarts       \* bound: starts of the program

ASSUME ConfigAssumption ==
    /\ \A a \in Argument : a = [key |-> a.key, value |-> a.value]
    /\ \A f \in FirstFile : f \in Seq(Range(f))
    /\ MAX_LINE_LEN \in Nat /\ MaxArguments \in Nat /\ MaxStarts \in Nat

VARIABLES
    file,     \* the lines of the configuration file
    cfg,      \* the settings of the last start
    args,     \* history: its command line
    starts    \* number of starts

config_vars == <<file, cfg, args, starts>>

NULL == <<-1>>
RJV3 == <<114, 106, 118, 51>>
PRINTER == <<112, 114>>
SOCKRAW == <<115>>
Blank == 32

-----------------------------------------------------------------------------
(* The options that hold a text, with the length strndup cuts it to, and the
   ones that hold a number, with their defaults.                              *)
ProgText == [username |-> 64, password |-> 64, nic |-> 16, ifimpl |-> 16,
             proxylaniface |-> 16, pidfile |-> 260, logfile |-> 260]
ProgNumber == [maxfail |-> 3, maxretries |-> 3, waitafterfail |-> 30, stagetimeout |-> 5,
               authround |-> 1, daemonize |-> 0]
Rjv3Text == [service |-> 32, versionstr |-> 200, dhcpscript |-> 260,
             fakedns1 |-> 46, fakedns2 |-> 46, fakeserial |-> 200]
Rjv3Number == [heartbeat |-> 60, maxdhcpcount |-> 3, eapbcastaddr |-> 0, dhcptype |-> 2]

(* The options of which only the remainder counts. *)
Modulus == [daemonize |-> 4, eapbcastaddr |-> 2, dhcptype |-> 4]

KeyLen == [username |-> 8, password |-> 8, nic |-> 3, ifimpl |-> 7, proxylaniface |-> 15,
           pidfile |-> 8, logfile |-> 8, maxfail |-> 8, maxretries |-> 11,
           waitafterfail |-> 15, stagetimeout |-> 13, authround |-> 10, daemonize |-> 9,
           service |-> 7, versionstr |-> 11, dhcpscript |-> 11, fakedns1 |-> 9,
           fakedns2 |-> 9, fakeserial |-> 11, heartbeat |-> 9, maxdhcpcount |-> 14,
           eapbcastaddr |-> 14, dhcptype |-> 9, module |-> 6, noautoreauth |-> 14,
           rjoption |-> 9, kill |-> 4, save |-> 4]

-----------------------------------------------------------------------------
strndup(text, n) == SubSeq(text, 1, IF Len(text) < n THEN Len(text) ELSE n)

(* C's remainder has the sign of the dividend. *)
CRem(a, b) == IF a < 0 THEN -((-a) % b) ELSE a % b

Minus == 45
Digits(text) == {i \in DOMAIN text : text[i] \in 48..57}
atoi(text) ==
    LET first == IF text # <<>> /\ text[1] = Minus THEN 2 ELSE 1
        value[i \in (first - 1)..Len(text)] ==
            IF i = first - 1 THEN [n |-> 0, end |-> FALSE]
            ELSE LET before == value[i - 1]
                 IN  IF before.end \/ i \notin Digits(text) THEN [before EXCEPT !.end = TRUE]
                     ELSE [before EXCEPT !.n = 10 * @ + text[i] - 48]
        n == value[Len(text)].n
    IN  IF first = 2 THEN -n ELSE n

(* The sign my_itoa writes first is overwritten by the first digit. *)
my_itoa(n) ==
    LET abs == IF n < 0 THEN -n ELSE n
        digits[k \in 0..abs] ==
            IF k < 10 THEN <<48 + k>> ELSE Append(digits[k \div 10], 48 + (k % 10))
    IN  digits[abs]

-----------------------------------------------------------------------------
(* conf_parser_add_value *)
conf_parser_add_value(list, key, value) ==
    IF value = NULL THEN list ELSE Append(list, [key |-> key, value |-> value])

RTRIM(text) ==
    LET solid == {i \in DOMAIN text : text[i] # Blank}
    IN  SubSeq(text, 1, IF solid = {} THEN 0 ELSE CHOOSE i \in solid : \A j \in solid : j <= i)

(* Mutant of ReadLine: the buffer is taken to hold the whole line. *)
ReadLine_LineEndLost(line) ==
    [line EXCEPT !.value = RTRIM(strndup(line.value, MAX_LINE_LEN - 3 - KeyLen[line.key]))]

(* One fgets of conf_parser_parse_now: MAX_LINE_LEN - 1 characters of the line,
   "=" and the end of line counted.  The rest of a longer line is read as a line
   of its own, which has no key of ours.                                        *)
ReadLine(line) ==
    [line EXCEPT !.value = RTRIM(strndup(line.value, MAX_LINE_LEN - 2 - KeyLen[line.key]))]

(* A missing file reads like an empty one: init_program_config only warns. *)
conf_parser_parse_now(f) == [i \in DOMAIN f |-> ReadLine(f[i])]

-----------------------------------------------------------------------------
load_default_params ==
    [text |-> [o \in DOMAIN ProgText |->
                  IF o \in {"nic", "pidfile", "logfile"} THEN <<100>> ELSE NULL],
     number |-> ProgNumber, restart_on_logoff |-> TRUE, save_now |-> FALSE,
     kill_type |-> "KILL_NONE", proxy_on |-> FALSE, packet_plugin_list |-> <<>>,
     rj_options |-> <<>>, ok |-> TRUE]

(* parse_one_opt of config.c, for the file and for the command line. *)
parse_one_opt(c, option, argument) ==
    CASE option = "proxylaniface" ->
            [c EXCEPT !.proxy_on = TRUE, !.text[option] = strndup(argument, ProgText[option])]
      [] option \in DOMAIN ProgText \ {"proxylaniface"} ->
            [c EXCEPT !.text[option] = strndup(argument, ProgText[option])]
      [] option = "daemonize" -> [c EXCEPT !.number[option] = CRem(atoi(argument), 4)]
      [] option \in DOMAIN ProgNumber \ {"daemonize"} ->
            [c EXCEPT !.number[option] = atoi(argument)]
      [] option = "module" -> [c EXCEPT !.packet_plugin_list = Append(@, argument)]
      [] option = "save" -> [c EXCEPT !.save_now = TRUE]
      [] option = "noautoreauth" -> [c EXCEPT !.restart_on_logoff = FALSE]
      [] option = "kill" ->
            [c EXCEPT !.kill_type = IF argument = NULL THEN "KILL_ONLY" ELSE "KILL_AND_START"]
      [] OTHER -> c

(* A text without ":" makes append_rj_cmdline_opt fail. *)
Malformed(text) == ~ \E i \in DOMAIN text : text[i] = 58 /\ 1 < i /\ i < Len(text)

(* rjv3_parse_one_opt *)
rjv3_parse_one_opt(c, option, argument) ==
    CASE option \in DOMAIN Rjv3Text ->
            [c EXCEPT !.text[option] = strndup(argument, Rjv3Text[option])]
      [] option \in DOMAIN Rjv3Number ->
            [c EXCEPT !.number[option] = IF option \in DOMAIN Modulus
                                         THEN CRem(atoi(argument), Modulus[option])
                                         ELSE atoi(argument)]
      [] option = "rjoption" ->
            IF Malformed(argument) THEN [c EXCEPT !.ok = FALSE]
            ELSE [c EXCEPT !.rj_options = Append(@, argument)]
      [] OTHER -> c

rjv3_load_default_params(c) ==
    [c EXCEPT !.text = [o \in DOMAIN Rjv3Text \cup DOMAIN @ |->
                  CASE o = "dhcpscript" -> <<>>
                    [] o \in {"service", "versionstr"} -> <<100>>
                    [] o \in {"fakedns1", "fakedns2", "fakeserial"} -> NULL
                    [] OTHER -> @[o]],
              !.number = [o \in DOMAIN Rjv3Number \cup DOMAIN @ |->
                  IF o \in DOMAIN Rjv3Number THEN Rjv3Number[o] ELSE @[o]]]

Parse(parser, c, pair) ==
    CASE parser = "config" -> parse_one_opt(c, pair.key, pair.value)
      [] parser = "rjv3" -> rjv3_parse_one_opt(c, pair.key, pair.value)

(* Every line or argument in its order, by one of the two parsers above. *)
Apply(parser, c, pairs) ==
    LET done[i \in 0..Len(pairs)] ==
            IF i = 0 THEN c ELSE Parse(parser, done[i - 1], pairs[i])
    IN  done[Len(pairs)]

(* parser_traverser: lines without a value are refused. *)
WithValue(lines) == ListOf(lines, {i \in DOMAIN lines : lines[i].value # <<>>})

(* parse_config_file *)
parse_config_file(c, f) == Apply("config", c, WithValue(conf_parser_parse_now(f)))

(* parse_cmdline_opts: the first --module gives up the modules of the file. *)
parse_cmdline_opts(c, arguments) ==
    Apply("config",
          IF \E i \in DOMAIN arguments : arguments[i].key = "module"
          THEN [c EXCEPT !.packet_plugin_list = <<>>] ELSE c,
          arguments)

validate_params(c) ==
    /\ IF c.proxy_on THEN c.text["proxylaniface"] # NULL
       ELSE c.text["username"] # NULL /\ c.text["password"] # NULL
    /\ c.text["nic"] # NULL

(* packet_plugin_list_select and select_packet_plugin: unknown names only warn. *)
active_plugins(c) ==
    LET list == c.packet_plugin_list
    IN  ListOf(list, {i \in DOMAIN list : list[i] \in {RJV3, PRINTER}})

(* rjv3_process_config_file: a bad line is passed over; rjv3_process_cmdline_opts: a
   bad argument is an error (so is one that is missing, see init_cfg_refused). *)
rjv3_process_config_file(c, lines) == [Apply("rjv3", c, lines) EXCEPT !.ok = TRUE]
rjv3_process_cmdline_opts(c, arguments) == Apply("rjv3", c, arguments)

Rjv3Count(c) ==
    Len(ListOf(active_plugins(c), {i \in DOMAIN active_plugins(c) : active_plugins(c)[i] = RJV3}))

(* select_if_impl: the first driver when none is named. *)
select_if_impl(c) == IF c.text["ifimpl"] = NULL THEN SOCKRAW ELSE c.text["ifimpl"]

(* init_plugin_config: all the defaults, then the file, then the command line,
   each once for every occurrence of the plugin in the list of active plugins. *)
init_plugin_config(c, f, arguments) ==
    LET n == Rjv3Count(c)
        times(pairs) == FlattenSeq([i \in 1..n |-> pairs])
        lines == times(WithValue(conf_parser_parse_now(f)))
    IN  IF n = 0 THEN c
        ELSE rjv3_process_cmdline_opts(
                 rjv3_process_config_file(rjv3_load_default_params(c), lines), times(arguments))

(* Mutant of init_cfg: the command line is read before the file. *)
init_cfg_FileLast(f, arguments) ==
    LET c == parse_config_file(parse_cmdline_opts(load_default_params, arguments), f)
    IN  IF ~validate_params(c) \/ select_if_impl(c) # SOCKRAW THEN [c EXCEPT !.ok = FALSE]
        ELSE init_plugin_config(c, f, arguments)

(* init_cfg up to the saving of the file; ok is whether the program goes on. *)
init_cfg(f, arguments) ==
    LET c == parse_cmdline_opts(parse_config_file(load_default_params, f), arguments)
    IN  IF ~validate_params(c) \/ select_if_impl(c) # SOCKRAW THEN [c EXCEPT !.ok = FALSE]
        ELSE init_plugin_config(c, f, arguments)

(* init_cfg where getopt finds an option without the argument it requires, which
   for short and for long ones ends the parsing and the program.               *)
init_cfg_refused(f, arguments) ==
    [parse_cmdline_opts(parse_config_file(load_default_params, f), arguments)
        EXCEPT !.ok = FALSE]

-----------------------------------------------------------------------------
(* save_one_packet_plugin and rjv3_save_config with rjv3_save_one_prop: the
   modifying options (they end in "r") are written behind the others.  The plugin
   prints its numbers into itoa_buf[10]: one of ten digits ends a byte behind it,
   which is not modelled.                                                     *)
IsMod(text) == text[Len(text)] = 114
Options(c, mod) ==
    ListOf(c.rj_options, {i \in DOMAIN c.rj_options : IsMod(c.rj_options[i]) = mod})

Line(key, value) == conf_parser_add_value(<<>>, key, value)
Lines(key, values) == [i \in DOMAIN values |-> [key |-> key, value |-> values[i]]]
TextLine(c, o) == Line(o, c.text[o])
NumberLine(c, o) == Line(o, my_itoa(c.number[o]))

(* Mutant of rjv3_save_config: the modifying options are in both lists. *)
rjv3_save_config_ModsInBoth(c) ==
    Lines("rjoption", c.rj_options) \o Lines("rjoption", Options(c, TRUE))

rjv3_save_config(c) ==
    NumberLine(c, "heartbeat") \o NumberLine(c, "eapbcastaddr") \o NumberLine(c, "dhcptype")
    \o Lines("rjoption", Options(c, FALSE)) \o Lines("rjoption", Options(c, TRUE))
    \o TextLine(c, "service") \o TextLine(c, "versionstr") \o TextLine(c, "dhcpscript")
    \o TextLine(c, "fakedns1") \o TextLine(c, "fakedns2") \o TextLine(c, "fakeserial")
    \o NumberLine(c, "maxdhcpcount")

save_config_file(c) ==
    TextLine(c, "username") \o TextLine(c, "password") \o TextLine(c, "nic")
    \o Lines("module", active_plugins(c))
    \o NumberLine(c, "daemonize") \o Line("ifimpl", select_if_impl(c))
    \o NumberLine(c, "maxfail") \o NumberLine(c, "maxretries")
    \o Line("noautoreauth", IF c.restart_on_logoff THEN <<48>> ELSE <<49>>)
    \o NumberLine(c, "waitafterfail") \o NumberLine(c, "stagetimeout")
    \o TextLine(c, "proxylaniface") \o NumberLine(c, "authround")
    \o TextLine(c, "pidfile") \o TextLine(c, "logfile")
    \o FlattenSeq([i \in DOMAIN active_plugins(c) |->
                      IF active_plugins(c)[i] = RJV3 THEN rjv3_save_config(c) ELSE <<>>])

-----------------------------------------------------------------------------
InitConfig ==
    /\ file \in FirstFile
    /\ cfg = load_default_params /\ args = <<>> /\ starts = 0

(* One start of the program; a failing one leaves the file alone. *)
StartProgram(arguments) ==
    /\ starts < MaxStarts
    /\ starts' = starts + 1
    /\ args' = arguments
    /\ cfg' = init_cfg(file, arguments)
    /\ file' = IF cfg'.ok /\ cfg'.save_now THEN save_config_file(cfg') ELSE file

(* A start whose last option on the command line lacks its argument. *)
StartRefused(arguments) ==
    /\ starts < MaxStarts
    /\ starts' = starts + 1
    /\ args' = arguments
    /\ cfg' = init_cfg_refused(file, arguments)
    /\ UNCHANGED file

ConfigNext ==
    \/ \E n \in 0..MaxArguments : \E arguments \in [1..n -> Argument] : StartProgram(arguments)
    \/ \E n \in 0..(MaxArguments - 1) :
          \E arguments \in [1..n -> Argument] : StartRefused(arguments)

ConfigSpec == InitConfig /\ [][ConfigNext]_config_vars

-----------------------------------------------------------------------------
(* The texts and numbers the file can hold as they are. *)
Fits(key, text) == Len(text) + KeyLen[key] + 2 <= MAX_LINE_LEN
Plain(key, text) == text # <<>> /\ Fits(key, text) /\ RTRIM(text) = text
PlainConfig(c) ==
    /\ \A o \in DOMAIN c.text :
          c.text[o] = NULL \/ Plain(o, c.text[o]) \/ (o = "dhcpscript" /\ c.text[o] = <<>>)
    /\ \A o \in DOMAIN c.number : c.number[o] >= 0
    /\ \A i \in DOMAIN c.rj_options : Fits("rjoption", c.rj_options[i])
    /\ Rjv3Count(c) <= 1

(* Help text of --save, "saves the parameters used this time" (config.c:91): a start
   without arguments finds in the saved file every setting of the start that
   saved it, as long as its texts and numbers are ones the file can hold.  The
   exceptions are the settings of that start only (save and kill), names of
   modules that were not found, and restart_on_logoff, which the saved line
   turns off whatever its value is.                                             *)
SavedConfigIsReloaded ==
    cfg.ok /\ cfg.save_now /\ PlainConfig(cfg) =>
        LET again == init_cfg(file, <<>>)
        IN  /\ again.ok
            /\ again.text = [cfg.text EXCEPT !["ifimpl"] = select_if_impl(cfg)]
            /\ again.number = cfg.number
            /\ again.proxy_on = cfg.proxy_on
            /\ active_plugins(again) = active_plugins(cfg)
            /\ \A mod \in BOOLEAN : Options(again, mod) = Options(cfg, mod)

(* "Override values in config file with cmdline" (minieap.c:26): the last value
   an option has on the command line is its setting, and a --module there makes
   the list of modules the command line's alone.                                *)
CmdlineOverridesFile ==
    \A i \in DOMAIN args :
        LET o == args[i].key
            last == \A j \in DOMAIN args : args[j].key = o => j <= i
        IN  /\ last /\ o \in DOMAIN ProgText => cfg.text[o] = strndup(args[i].value, ProgText[o])
            /\ last /\ o \in DOMAIN ProgNumber \ DOMAIN Modulus =>
                  cfg.number[o] = atoi(args[i].value)
            /\ o = "module" => \A m \in Range(cfg.packet_plugin_list) :
                                   \E j \in DOMAIN args : args[j] = [key |-> o, value |-> m]

(* Saving what was loaded settles: one save may change a setting (a long or
   padded text, a negative number, restart_on_logoff), a second one does not,
   as long as no plugin is enabled twice.                                      *)
SavingSettles ==
    LET Save(f) == save_config_file(init_cfg(f, <<>>))
        once == Save(file)
    IN  init_cfg(file, <<>>).ok
        /\ Rjv3Count(init_cfg(file, <<>>)) <= 1
        => LET twice == Save(once) IN Save(twice) = twice
=============================================================================
