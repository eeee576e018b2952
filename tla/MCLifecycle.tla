------------------------------- MODULE MCLifecycle -------------------------------
(* An instance of Lifecycle for TLC, and the scalars of Toml.                *)
EXTENDS Lifecycle

MCEntityIds == {"1:1:1"}
MCLower(w) == IF w = "WARN" THEN "warn" ELSE w
MCLongOf(w) ==
  CASE w = "1" -> 1 [] w = "0" -> 0 [] w = "70000" -> 70000 [] OTHER -> None
MCDoubleOf(w) ==
  CASE w = "1" -> <<1, 1>> [] w = "0" -> <<0, 1>> [] w = "70000" -> <<70000, 1>> [] OTHER -> None

\* Doubles in small: hundredths below a thousand.  What is not zero and rounds to
\* zero underflows.
MCWide == -99999 .. 99999
MCFloatOf(t) ==
  LET n == Magnitude(t)
      d == 10 ^ (Len(t) - CHOOSE i \in At(t, {"."}) : TRUE)
      hundredths == (200 * n + d) \div (2 * d)
  IN  IF hundredths >= 100000 \/ (n # 0 /\ hundredths = 0) THEN None
      ELSE <<IF t[1] = "-" THEN -hundredths ELSE hundredths, 100>>

-------------------------------------------------------------------------------
\* Files.

Blank == [kind |-> "blank"]
Table(name) == [kind |-> "header", closed |-> TRUE, name |-> name, bare |-> TRUE, rest |-> FALSE]
Setting(key, value) == [kind |-> "pair", key |-> key, sep |-> "=", value |-> value, rest |-> FALSE]
Quoted(s) == [form |-> "quoted", closed |-> TRUE, escapes |-> TRUE, text |-> s]
Scalar(t) == [form |-> "scalar", token |-> t]

Dis == <<Table("input"), Setting("mode", Quoted("dis"))>>
DisId == Setting("dis_satellite_entity_id", Quoted("1:1:1"))
Of(table, key, value) == <<Table(table), Setting(key, value)>>

MCFiles ==
  \* Good ones: nothing, DIS with and without a satellite, a table in two parts,
  \* every kind of value, a rate that rounds to the highest, a name like the flag.
  [f |-> Dis,
   empty |-> <<Blank>>,
   dis |-> Append(Dis, DisId),
   id |-> <<Table("input"), DisId>>,
   parts |-> Dis \o Of("state", "expiry_seconds", Scalar(<<"9">>)) \o <<Table("input"), DisId>>,
   hz |-> Of("broadcast", "hz", Scalar(<<"2">>)) \o Of("logging", "stderr", Scalar(<<"false">>)),
   half |-> Of("broadcast", "hz", Scalar(<<"0", ".", "5">>)) \o Of("logging", "level", Quoted("WARN")),
   sixty |-> Of("broadcast", "hz", Scalar(<<"6", "0", ".", "0", "0", "1">>)),
   plus |-> Of("input", "dis_exercise_id", Scalar(<<"+", "2", "5", "5">>)),
   \* Bad ones: keys, types, ranges and lines.
   twice |-> Dis \o <<Setting("mode", Quoted("olv1"))>>,
   again |-> Dis \o <<DisId, Blank, Table("input"), Setting("mode", Quoted("olv1"))>>,
   root |-> <<Setting("mode", Quoted("dis"))>>,
   unknown |-> Of("network", "mode", Quoted("dis")),
   type |-> Of("network", "udp_port", Quoted("1")),
   bool |-> Of("logging", "stderr", Scalar(<<"1">>)),
   float |-> Of("network", "ws_port", Scalar(<<"1", ".", "0">>)),
   port0 |-> Of("network", "udp_port", Scalar(<<"0">>)),
   port |-> Of("input", "olv2_port", Scalar(<<"6", "5", "5", "3", "6">>)),
   hz61 |-> Of("broadcast", "hz", Scalar(<<"6", "0", ".", "1">>)),
   tiny |-> Of("broadcast", "hz", Scalar(<<"0", ".", "0", "0", "1">>)),
   minus |-> Of("broadcast", "hz", Scalar(<<"-", "1">>)),
   wide |-> Of("state", "expiry_seconds", Scalar(<<"9", "9", "9", "9", "9", "9">>)),
   nolog |-> Of("logging", "file", Quoted("")),
   badid |-> Of("input", "dis_satellite_entity_id", Quoted("")),
   level |-> Of("logging", "level", Quoted("all")),
   list |-> Of("input", "mode", [form |-> "list"]),
   open |-> Of("input", "mode", [Quoted("dis") EXCEPT !.closed = FALSE]),
   header |-> <<[Table("input") EXCEPT !.closed = FALSE]>>,
   dotted |-> <<[Table("input.dis") EXCEPT !.bare = FALSE]>>,
   rest |-> <<Blank, [Setting("mode", Quoted("dis")) EXCEPT !.rest = TRUE]>>,
   sep |-> <<[Setting("mode", Quoted("dis")) EXCEPT !.sep = "."]>>]
  @@ ("--config" :> Append(Dis, DisId))

-------------------------------------------------------------------------------
\* Command lines: all of four words at most, "f" standing for each file in turn
\* and for one that cannot be opened.

Words == {"--config", "f", "--input-mode", "dis", "olv1", "--quiet", "--help"}
Others ==
  {<<"--udp-port", "0">>, <<"--ws-port", "70000">>, <<"--ws-port", "1">>,
   <<"--expiry-seconds", "x">>, <<"--broadcast-hz", "0">>, <<"--broadcast-hz", "1">>,
   <<"--broadcast-hz", "1", "--config", "half">>, <<"--log-level", "WARN", "--config", "dis">>,
   <<"--log-level", "all">>, <<"--log-file", "">>, <<"--udp-bind", "--config">>,
   <<"--log-file", "--config", "f">>, <<"--log-file", "--config", "--config">>,
   <<"--log-file", "--config", "--config", "--quiet">>, <<"--log-level", "error", "--quiet">>,
   <<"--log-level", "debug">>, <<"-h", "--udp-port">>, <<"--ws-bind">>,
   <<"--expiry-seconds", "1", "--config", "parts">>}

Short == UNION {[1 .. n -> Words] : n \in 0 .. 4}
Naming(words, path) == [i \in DOMAIN words |-> IF words[i] = "f" THEN path ELSE words[i]]

MCArgvs ==
  {w \in Short : \A i \in DOMAIN w : w[i] # "--config"} \cup Others
  \cup {Naming(w, path) : w \in {v \in Short : \E i \in DOMAIN v : v[i] = "--config"},
                          path \in DOMAIN MCFiles \cup {"missing"}}

-------------------------------------------------------------------------------
\* The scalars that toml.js:11-12 describes: [+-]?digits and
\* [+-]?digits.digits, and nothing else is a number.

Chars == {"+", "-", ".", "0", "7", "_"}
OnlyDigits(t) == t # << >> /\ Range(t) \subseteq {"0", "7"}
Unsigned(t) ==
  \/ OnlyDigits(t)
  \/ \E i \in DOMAIN t : t[i] = "." /\ OnlyDigits(SubSeq(t, 1, i - 1)) /\ OnlyDigits(SubSeq(t, i + 1, Len(t)))
Described(t) == Unsigned(t) \/ (t # << >> /\ t[1] \in {"+", "-"} /\ Unsigned(Tail(t)))

ASSUME ScalarGrammar ==
  \A n \in 0 .. 5 : \A t \in [1 .. n -> Chars] : (ParseScalar(t) # Bad) <=> Described(t)

===============================================================================
