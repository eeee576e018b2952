-------------------------------- MODULE Lifecycle --------------------------------
(***************************************************************************)
(* The life of the backend process, src/main.cpp: the command line, what   *)
(* is opened and in which order, the two threads with the two mutexes they *)
(* share, and the end of the process after a signal.                       *)
(*                                                                         *)
(* The main thread runs the io_context of the broadcaster; the input       *)
(* thread runs the io_context of the input source, whose handlers are      *)
(* `queue'.  What the handlers compute is in the modules of the input      *)
(* sources and in WsServer; here they only take their mutexes.             *)
(***************************************************************************)
EXTENDS Config

CONSTANT Argvs        \* the command lines, without the program's name

ASSUME LifecycleAssumption ==
  /\ Argvs \subseteq Seq(STRING)
  /\ None \notin {"main", "input"}     \* the two threads

VARIABLES
  argv,       \* forgotten once the configuration is made
  cfg,
  pc,         \* what the main thread does next
  exit,       \* how the process ended, None while it runs
  input,      \* what the input thread does next
  udp, tcp,   \* the two sockets: "none", "open" or "closed"
  queue,      \* handlers of the input's io_context that are ready to run
  armed,      \* a receive is outstanding
  held,       \* the thread that holds each mutex
  signalled   \* SIGINT or SIGTERM came while it was waited for

processVars == <<argv, cfg, exit>>
inputVars == <<udp, queue, armed>>
vars == <<processVars, pc, input, inputVars, tcp, held, signalled>>

Mutexes == {"store", "log"}

Init ==
  /\ argv \in Argvs
  /\ cfg = Defaults
  /\ pc = "parse" /\ exit = None
  /\ input = "none"
  /\ udp = "none" /\ tcp = "none"
  /\ queue = << >> /\ armed = FALSE
  /\ held = [m \in Mutexes |-> None]
  /\ signalled = FALSE

\* A thread takes mutex m, and in a later step releases it and goes on.
Take(m, thread) == held[m] = None /\ held' = [held EXCEPT ![m] = thread]
Release(m, thread) == held[m] = thread /\ held' = [held EXCEPT ![m] = None]

-------------------------------------------------------------------------------
\* The main thread.

Go(from, to) == pc = from /\ pc' = to
Exit(from, code) == Go(from, "exit") /\ exit' = code

MainLocks(m, from, to) ==
  /\ \/ pc = from /\ Take(m, "main") /\ UNCHANGED pc
     \/ Release(m, "main") /\ Go(from, to)
  /\ UNCHANGED <<processVars, input, inputVars, tcp, signalled>>

Rank == [debug |-> 0, info |-> 1, warn |-> 2, error |-> 3]

\* Logger::log(): a line below the level is dropped before the mutex is taken.
MainLogs(level, from, to) ==
  IF Rank[level] >= Rank[cfg.log_level] THEN MainLocks("log", from, to)
  ELSE Go(from, to) /\ UNCHANGED <<processVars, input, inputVars, tcp, held, signalled>>

Start(res) ==
  CASE res.refused -> Exit("parse", 2) /\ UNCHANGED cfg
    [] ~res.refused /\ res.cfg.show_help -> Exit("parse", 0) /\ cfg' = res.cfg
    [] ~res.refused /\ ~res.cfg.show_help ->
         Go("parse", "open") /\ cfg' = res.cfg /\ UNCHANGED exit

Parse ==
  /\ pc = "parse"
  /\ Start(ParseArgs(argv))
  /\ UNCHANGED <<argv, input, inputVars, tcp, held, signalled>>

\* log.open(); no file has the empty name.
OpenLog ==
  /\ \/ cfg.log_file # "" /\ Go("open", "startup") /\ argv' = << >> /\ UNCHANGED exit
     \/ Exit("open", 1) /\ UNCHANGED argv
  /\ UNCHANGED <<cfg, input, inputVars, tcp, held, signalled>>

LogStartup == MainLogs("info", "startup", "bind_input")

\* makeInputSource() and the constructor of WsServer bind their sockets, or throw;
\* then what was made is destroyed before the error is logged.
BindInput ==
  /\ \/ Go("bind_input", "bind_ws") /\ udp' = "open"
     \/ Go("bind_input", "fatal") /\ UNCHANGED udp
  /\ UNCHANGED <<processVars, input, queue, armed, tcp, held, signalled>>
BindWs ==
  /\ \/ Go("bind_ws", "start_input") /\ tcp' = "open" /\ UNCHANGED udp
     \/ Go("bind_ws", "fatal") /\ udp' = "closed" /\ UNCHANGED tcp
  /\ UNCHANGED <<processVars, input, queue, armed, held, signalled>>

LogFatal == MainLogs("error", "fatal", "failed")
ExitFatal == Exit("failed", 1) /\ UNCHANGED <<argv, cfg, input, inputVars, tcp, held, signalled>>

\* input->start(): a receive is armed and the thread made.
StartInput ==
  /\ Go("start_input", "signals")
  /\ armed' = TRUE /\ input' = "ready"
  /\ UNCHANGED <<processVars, udp, queue, tcp, held, signalled>>

\* ws.start(), and the signals are waited for from here on.
AwaitSignals ==
  /\ Go("signals", "run")
  /\ UNCHANGED <<processVars, input, inputVars, tcp, held, signalled>>

\* ioc.run(): a tick takes the store, a client coming or leaving is logged.
RunHandler ==
  /\ pc = "run" /\ pc' \in {"tick", "client"}
  /\ UNCHANGED <<processVars, input, inputVars, tcp, held, signalled>>
Tick == MainLocks("store", "tick", "run")
LogClient == MainLogs("info", "client", "run")

\* The handler of the signal.
HandleSignal ==
  /\ signalled /\ Go("run", "shutting_down")
  /\ UNCHANGED <<processVars, input, inputVars, tcp, held, signalled>>

\* Wrong: the line is still being written when the input is stopped.
LogShutdown_held ==
  /\ Go("shutting_down", "stop_ws")
  /\ Take("log", "main")
  /\ UNCHANGED <<processVars, input, inputVars, tcp, signalled>>
LogShutdown == MainLogs("info", "shutting_down", "stop_ws")

StopWs ==
  /\ Go("stop_ws", "stop_input") /\ tcp' = "closed"
  /\ UNCHANGED <<processVars, input, inputVars, held, signalled>>

\* stop() of the input source posts the closing to its thread, and joins it.
StopInput ==
  /\ Go("stop_input", "join") /\ queue' = Append(queue, "close")
  /\ UNCHANGED <<processVars, input, udp, armed, tcp, held, signalled>>
Join ==
  /\ input = "done" /\ Go("join", "clean")
  /\ UNCHANGED <<processVars, input, inputVars, tcp, held, signalled>>

LogClean == MainLogs("info", "clean", "return")
Return == Exit("return", 0) /\ UNCHANGED <<argv, cfg, input, inputVars, tcp, held, signalled>>

Starting ==
  Parse \/ OpenLog \/ LogStartup \/ BindInput \/ BindWs \/ LogFatal \/ ExitFatal
  \/ StartInput \/ AwaitSignals
Running ==
  RunHandler \/ Tick \/ LogClient
  \/ HandleSignal \/ LogShutdown \/ StopWs \/ StopInput \/ Join \/ LogClean \/ Return

-------------------------------------------------------------------------------
\* The input thread.  Its locking is that of the OLV1 source.

InputLocks(m, from, to) ==
  /\ \/ input = from /\ Take(m, "input") /\ UNCHANGED input
     \/ input = from /\ Release(m, "input") /\ input' \in to
  /\ UNCHANGED <<processVars, pc, inputVars, tcp, signalled>>

\* The next handler of its io_context.
RunInput ==
  /\ input = "ready" /\ queue # << >>
  /\ queue' = Tail(queue)
  /\ \/ Head(queue) = "datagram" /\ input' = "count" /\ UNCHANGED udp
     \/ Head(queue) = "close" /\ input' = "done" /\ udp' = "closed"
  /\ UNCHANGED <<processVars, pc, armed, tcp, held, signalled>>

\* handleDatagram(): countReceived(), then countDropped() or apply(), then a line.
Count == InputLocks("store", "count", {"drop", "apply"})
Drop == InputLocks("store", "drop", {"warn"})
Apply == InputLocks("store", "apply", {"debug"})
LogDatagram ==
  \E level \in {"warn", "debug"} :
    IF Rank[level] >= Rank[cfg.log_level] THEN InputLocks("log", level, {"arm"})
    ELSE /\ input = level /\ input' = "arm"
         /\ UNCHANGED <<processVars, pc, inputVars, tcp, held, signalled>>
ArmReceive ==
  /\ input = "arm" /\ input' = "ready"
  /\ armed' = TRUE
  /\ UNCHANGED <<processVars, pc, udp, queue, tcp, held, signalled>>

Input == RunInput \/ Count \/ Drop \/ Apply \/ LogDatagram \/ ArmReceive

-------------------------------------------------------------------------------
\* The outside.

\* A datagram completes the receive.
Arrive ==
  /\ armed /\ udp = "open" /\ exit = None
  /\ armed' = FALSE
  /\ queue' = Append(queue, "datagram")
  /\ UNCHANGED <<processVars, pc, input, udp, tcp, held, signalled>>

Waiting ==
  {"run", "tick", "client", "shutting_down", "stop_ws", "stop_input", "join", "clean", "return"}

\* SIGINT or SIGTERM: before it is waited for it ends the process at once.
Signal ==
  /\ exit = None /\ ~signalled
  /\ IF pc \in Waiting THEN signalled' = TRUE /\ UNCHANGED <<pc, exit>>
     ELSE pc' = "exit" /\ exit' = 143 /\ UNCHANGED signalled
  /\ UNCHANGED <<argv, cfg, input, inputVars, tcp, held>>

Next == exit = None /\ (Starting \/ Running \/ Input \/ Arrive \/ Signal)

Spec == Init /\ [][Next]_vars

\* The threads are scheduled and get the mutexes they wait for; an io_context
\* runs its handlers in the order in which they became ready.  Nothing is asked
\* of the start, which may hang or be killed.
Fairness ==
  /\ SF_vars(exit = None /\ Running)
  /\ SF_vars(exit = None /\ HandleSignal)
  /\ SF_vars(exit = None /\ Input)

FairSpec == Spec /\ Fairness

-------------------------------------------------------------------------------
\* What a command line means, said without the two passes.

Switches == {"--quiet", "--help", "-h"}

\* The positions of flags; and of --config, which counts wherever it stands.
FlagPositions(words) ==
  LET flag[i \in DOMAIN words] == i = 1 \/ ~flag[i - 1] \/ words[i - 1] \in Switches
  IN  {i \in DOMAIN words : flag[i]}
ConfigPositions(words) ==
  LET config[i \in DOMAIN words] ==
        words[i] = "--config" /\ (i = 1 \/ ~config[i - 1])
  IN  {i \in DOMAIN words : config[i]}

\* The flags that count: those before the first --help.
HelpPositions(words) == {i \in FlagPositions(words) : words[i] \in {"--help", "-h"}}
Counting(words) == {i \in FlagPositions(words) : \A h \in HelpPositions(words) : i < h}

\* The settings a file makes, each under the nearest header above it.
TableOf(text, i) ==
  LET headers == {h \in 1 .. i : text[h].kind = "header"}
  IN  IF headers = {} THEN "" ELSE text[Max(headers)].name
PairLines(text) == {i \in DOMAIN text : text[i].kind = "pair"}
KeyAt(text, i) == <<TableOf(text, i), text[i].key>>

GoodLine(line) ==
  \/ line.kind = "blank"
  \/ line.kind = "header" /\ line.closed /\ line.name # "" /\ line.bare /\ ~line.rest
  \/ line.kind = "pair" /\ line.key # "" /\ line.sep = "=" /\ ~line.rest /\ ParseValue(line.value) # Bad

GoodFile(text) ==
  /\ \A i \in DOMAIN text : GoodLine(text[i])
  /\ \A i \in PairLines(text) : KeyOk(KeyAt(text, i), ParseValue(text[i].value))
  /\ \A i, j \in PairLines(text) : KeyAt(text, i) = KeyAt(text, j) => i = j

PathOf(words) ==
  LET at == ConfigPositions(words) IN IF at = {} THEN "" ELSE words[Max(at) + 1]

GoodWords(words) ==
  /\ \A i, j \in ConfigPositions(words) : i = j
  /\ \A i \in ConfigPositions(words) :
       i < Len(words) /\ words[i + 1] \in DOMAIN Files /\ GoodFile(Files[words[i + 1]])
  /\ \A i \in Counting(words) :
       \/ words[i] \in Switches \cup {"--config"}
       \/ i < Len(words) /\ FlagOk(words[i], words[i + 1])

\* The last flag that sets a field, else the file, else the default.
Meaning(words, f) ==
  LET path == PathOf(words)
      text == IF path = "" THEN << >> ELSE Files[path]
      flags == {i \in Counting(words) :
                  words[i] \in DOMAIN FieldOfFlag /\ FieldOfFlag[words[i]] = f}
      lines == {i \in PairLines(text) : FieldOfKey[KeyAt(text, i)] = f}
  IN  IF f = "show_help" THEN HelpPositions(words) # {}
      ELSE IF f = "config_file" THEN path
      ELSE IF f = "log_stderr" /\ \E i \in Counting(words) : words[i] = "--quiet" THEN FALSE
      ELSE IF flags # {} THEN FlagValue(words[Max(flags)], words[Max(flags) + 1])
      ELSE IF lines # {} THEN AsField(ParseValue(text[Max(lines)].value), f)
      ELSE Defaults[f]

MeansDisWithoutSatellite(words) ==
  /\ HelpPositions(words) = {}
  /\ Meaning(words, "input_mode") = "dis"
  /\ Meaning(words, "dis_satellite_entity_id") = ""

-------------------------------------------------------------------------------

\* The process goes on exactly with a command line and file that are good in
\* every word and line, and as a whole; every field is then what the last word
\* on it says, whatever the order in which --config and the flags stand.
\* parseArgs() at src/config.cpp:203-320 gets there in two passes.
ConfigIsMeant ==
  LET good == GoodWords(argv) /\ ~MeansDisWithoutSatellite(argv)
  IN  /\ pc = "open" => good /\ \A f \in DOMAIN cfg : cfg[f] = Meaning(argv, f)
      /\ exit = 2 => ~good
      /\ exit = 0 /\ tcp = "none" => good /\ HelpPositions(argv) # {}

\* Errors of the start come before there are threads or open sockets, as
\* include/olv/olv1_input_source.hpp:31-33 has it; the constructors at
\* src/main.cpp:60-62 stand before input->start().
ErrorsBeforeThreads == exit \in {1, 2} => input = "none" /\ udp # "open" /\ tcp # "open"

\* The program starts with what it was told or not at all.
OnlySoundConfigRuns == ConfigIsMeant /\ ErrorsBeforeThreads

\* A signal that is waited for ends the process in good order: the handler at
\* src/main.cpp:68-73 joins the input thread while datagrams keep coming, and
\* neither mutex nor a queued handler keeps one of the threads from its end.
StopsClean ==
  signalled ~> exit = 0 /\ input = "done" /\ udp = "closed" /\ tcp = "closed"

===============================================================================
