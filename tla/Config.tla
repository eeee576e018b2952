--------------------------------- MODULE Config ---------------------------------
(***************************************************************************)
(* The configuration of the backend, src/config.cpp: applyConfigFile() and *)
(* the two passes of parseArgs() over the words of the command line.       *)
(* Wherever the code returns an error the result is Refused.               *)
(***************************************************************************)
EXTENDS Toml

CONSTANTS
  Files,        \* external: a function from the paths that can be opened to their lines
  EntityIds,    \* the strings that parseDisEntityId() accepts
  Lower(_),     \* std::tolower() of every character
  LongOf(_),    \* std::from_chars() to a long, None if it does not take the whole word
  DoubleOf(_)   \* std::from_chars() to a double, as <<n, d>>, or None

\* None is no word and no number (the provers do not know that a literal is in
\* STRING).  No file can be opened by the empty name; a line is blank, a header or
\* a pair.
ASSUME ConfigAssumption ==
  /\ None \notin STRING \cup Int /\ None # "--config"
  /\ "" \notin DOMAIN Files
  /\ \A path \in DOMAIN Files :
       /\ Len(Files[path]) \in Nat /\ DOMAIN Files[path] = 1 .. Len(Files[path])
       /\ \A i \in DOMAIN Files[path] : Files[path][i].kind \in {"blank", "header", "pair"}

Modes == {"olv1", "dis", "olv2"}
LogLevels == {"debug", "info", "warn", "error"}

\* struct Config.
Defaults ==
  [config_file |-> "", udp_bind |-> "0.0.0.0", udp_port |-> 47000,
   ws_bind |-> "0.0.0.0", ws_port |-> 8765, log_file |-> "olv_backend.log",
   log_level |-> "info", expiry_seconds |-> 15, broadcast_hz |-> <<1, 1>>,
   log_stderr |-> TRUE, input_mode |-> "olv1", show_help |-> FALSE,
   dis_bind |-> "0.0.0.0", dis_port |-> 47001, dis_exercise_id |-> None,
   dis_satellite_entity_id |-> "", olv2_bind |-> "0.0.0.0", olv2_port |-> 47002]

\* The keys of the file and the flags that take a value, by the field they set.
Keys ==
  [network   |-> {"udp_bind", "udp_port", "ws_bind", "ws_port"},
   broadcast |-> {"hz"},
   state     |-> {"expiry_seconds"},
   logging   |-> {"file", "level", "stderr"},
   input     |-> {"mode", "dis_bind", "dis_port", "dis_exercise_id",
                  "dis_satellite_entity_id", "olv2_bind", "olv2_port"}]
Renamed ==
  [hz |-> "broadcast_hz", file |-> "log_file", level |-> "log_level",
   stderr |-> "log_stderr", mode |-> "input_mode"]
FieldOfKey ==
  [k \in UNION {{table} \X Keys[table] : table \in DOMAIN Keys} |->
     IF k[2] \in DOMAIN Renamed THEN Renamed[k[2]] ELSE k[2]]

Flags ==
  {<<"--udp-bind", "udp_bind">>, <<"--udp-port", "udp_port">>, <<"--ws-bind", "ws_bind">>,
   <<"--ws-port", "ws_port">>, <<"--log-file", "log_file">>, <<"--log-level", "log_level">>,
   <<"--input-mode", "input_mode">>, <<"--expiry-seconds", "expiry_seconds">>,
   <<"--broadcast-hz", "broadcast_hz">>}
FieldOfFlag == [w \in {f[1] : f \in Flags} |-> (CHOOSE f \in Flags : f[1] = w)[2]]

Ports == {"udp_port", "ws_port", "dis_port", "olv2_port"}

\* The type a key must have; broadcast.hz takes an integer too.
TypesOf(f) ==
  CASE f \in Ports \cup {"expiry_seconds", "dis_exercise_id"} -> {"integer"}
    [] f = "broadcast_hz" -> {"integer", "float"}
    [] f = "log_stderr" -> {"boolean"}
    [] OTHER -> {"string"}

\* validPort() .. validExerciseId(), and the names a setting may have.
Valid(f, v) ==
  CASE f \in Ports -> v \in 1 .. 65535
    [] f = "expiry_seconds" -> v \in 1 .. 3600
    [] f = "broadcast_hz" -> v[1] > 0 /\ v[1] <= 60 * v[2]
    [] f = "dis_exercise_id" -> v \in 0 .. 255
    [] f = "log_level" -> v \in LogLevels
    [] f = "input_mode" -> v \in Modes
    [] f = "dis_satellite_entity_id" -> v \in EntityIds
    [] OTHER -> TRUE

-------------------------------------------------------------------------------

Refused == [refused |-> TRUE]
Accepted(cfg) == [refused |-> FALSE, cfg |-> cfg]

\* What a value of the file is as a field: an integer hz is a double, and the
\* case of a log level does not matter.
AsField(value, f) ==
  CASE f = "broadcast_hz" /\ value.type = "integer" -> <<value.v, 1>>
    [] f = "log_level" /\ value.type = "string" -> Lower(value.v)
    [] OTHER -> value.v

ValueOk(f, value) ==
  /\ value.type \in TypesOf(f)
  /\ Valid(f, AsField(value, f))
  /\ f = "log_file" => value.v # ""

KeyOk(key, value) == key \in DOMAIN FieldOfKey /\ ValueOk(FieldOfKey[key], value)

\* All keys are good, or the file is refused whole.
ApplyValues(res, cfg) ==
  IF res.error \/ \E k \in DOMAIN res.values : ~KeyOk(k, res.values[k]) THEN Refused
  ELSE Accepted([f \in DOMAIN cfg |->
         IF \E k \in DOMAIN res.values : FieldOfKey[k] = f
         THEN AsField(res.values[CHOOSE k \in DOMAIN res.values : FieldOfKey[k] = f], f)
         ELSE cfg[f]])

\* applyConfigFile().
ApplyConfigFile(path, cfg) ==
  IF path \notin DOMAIN Files THEN Refused ELSE ApplyValues(ParseToml(Files[path]), cfg)

-------------------------------------------------------------------------------

\* Pass 1 of parseArgs(): the word after --config, which may be given once.
Scan(st, w) ==
  IF st.pending THEN [st EXCEPT !.path = w, !.pending = FALSE]
  ELSE IF w # "--config" THEN st
  ELSE IF st.path # None THEN [st EXCEPT !.twice = TRUE]
  ELSE [st EXCEPT !.pending = TRUE]

FindConfig(argv) ==
  LET after[i \in 0 .. Len(argv)] ==
        IF i = 0 THEN [path |-> None, pending |-> FALSE, twice |-> FALSE]
        ELSE Scan(after[i - 1], argv[i])
  IN  after[Len(argv)]

\* The value of a flag, None if it is not a number where one is needed.
FlagValue(flag, w) ==
  CASE TypesOf(FieldOfFlag[flag]) = {"integer"} -> LongOf(w)
    [] FieldOfFlag[flag] = "broadcast_hz" -> DoubleOf(w)
    [] FieldOfFlag[flag] = "log_level" -> Lower(w)
    [] OTHER -> w

FlagOk(flag, w) ==
  /\ flag \in DOMAIN FieldOfFlag
  /\ FlagValue(flag, w) # None
  /\ Valid(FieldOfFlag[flag], FlagValue(flag, w))

\* A flag without a value is refused at the end of the words; --config, skipped
\* with whatever follows, is not.
FlagsResult(end) ==
  IF end.bad \/ end.flag \notin {None, "--config"} THEN Refused ELSE Accepted(end.cfg)

\* Pass 2: a word is the value of the flag before it, or a flag.  --help ends it.
TakeWord(st, w) ==
  IF st.bad \/ st.cfg.show_help THEN st
  ELSE IF st.flag = "--config" THEN [st EXCEPT !.flag = None]
  ELSE IF st.flag # None
  THEN IF FlagOk(st.flag, w)
       THEN [st EXCEPT !.flag = None, !.cfg[FieldOfFlag[st.flag]] = FlagValue(st.flag, w)]
       ELSE [st EXCEPT !.bad = TRUE]
  ELSE IF w \in {"--help", "-h"} THEN [st EXCEPT !.cfg.show_help = TRUE]
  ELSE IF w = "--quiet" THEN [st EXCEPT !.cfg.log_stderr = FALSE]
  ELSE [st EXCEPT !.flag = w]

ApplyFlags(argv, cfg) ==
  LET after[i \in 0 .. Len(argv)] ==
        IF i = 0 THEN [cfg |-> cfg, flag |-> None, bad |-> FALSE] ELSE TakeWord(after[i - 1], argv[i])
  IN  FlagsResult(after[Len(argv)])

WithFlags(file, argv) == IF file.refused THEN file ELSE ApplyFlags(argv, file.cfg)

\* Wrong: flags are applied before the file; only the file is checked for a
\* satellite.
FromFile_late(path, cfg, argv) ==
  IF path = None \/ ApplyFlags(argv, cfg).refused THEN ApplyFlags(argv, cfg)
  ELSE ApplyConfigFile(path, ApplyFlags(argv, cfg).cfg)
MissesSatellite_fileOnly(cfg) ==
  cfg.input_mode = "dis" /\ cfg.dis_satellite_entity_id = "" /\ cfg.config_file # ""

\* Defaults, then the file, then the flags.
FromFile(path, cfg, argv) ==
  IF path = None THEN ApplyFlags(argv, cfg)
  ELSE WithFlags(ApplyConfigFile(path, [cfg EXCEPT !.config_file = path]), argv)

\* The check across fields, on what all of them come to.
MissesSatellite(cfg) == cfg.input_mode = "dis" /\ cfg.dis_satellite_entity_id = ""

CrossCheck(res) ==
  IF ~res.refused /\ ~res.cfg.show_help /\ MissesSatellite(res.cfg) THEN Refused ELSE res

\* parseArgs().
Passes(found, argv) ==
  IF found.twice \/ found.pending THEN Refused
  ELSE CrossCheck(FromFile(found.path, Defaults, argv))
ParseArgs(argv) == Passes(FindConfig(argv), argv)

===============================================================================
