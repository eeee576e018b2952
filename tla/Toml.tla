---------------------------------- MODULE Toml ----------------------------------
(***************************************************************************)
(* The TOML subset of the configuration files: parseToml() of              *)
(* frontend/js/toml.js, which include/olv/toml.hpp mirrors for the backend *)
(* and the simulator.  They differ in the numbers they take, which are     *)
(* constants here.                                                         *)
(*                                                                         *)
(* A line is a record that says what stands on it, and a scalar a sequence *)
(* of characters; skipping of spaces and comments is left out.             *)
(*   blank:  [kind |-> "blank"]                                            *)
(*   header: closed, name, bare (the name has only bare key characters),   *)
(*           rest (text follows)                                           *)
(*   pair:   key, sep, value, rest; "key" is "" if no bare key starts the  *)
(*           line, value.form one of missing, quoted, list (arrays, inline *)
(*           tables, single quotes), scalar                                *)
(***************************************************************************)
EXTENDS Integers, Sequences, FiniteSets, SequencesExt, TLC

CONSTANTS
  None,
  Wide,       \* the integers taken: 64 bits in toml.hpp, the safe ones in toml.js
  FloatOf(_)  \* external: strtod() or Number() of digits with a point, the double
              \* they round to as <<n, d>> for n / d; None where it is refused, an
              \* overflow and for strtod() also an underflow

ASSUME TomlAssumption == Wide \subseteq Int

Digits == <<"0", "1", "2", "3", "4", "5", "6", "7", "8", "9">>
Digit == [c \in ToSet(Digits) |-> (CHOOSE i \in DOMAIN Digits : Digits[i] = c) - 1]

Bad == [type |-> "bad"]
Typed(type, v) == [type |-> type, v |-> v]

At(t, chars) == {i \in DOMAIN t : t[i] \in chars}

\* The loop of parseScalar(): which tokens it takes for numbers.
IsNumber(t) ==
  LET signs == At(t, {"+", "-"})
      dots == At(t, {"."})
      digits == At(t, DOMAIN Digit)
  IN  /\ signs \cup dots \cup digits = DOMAIN t
      /\ signs \subseteq {1}
      /\ Cardinality(dots) <= 1
      /\ \A d \in dots : {d - 1, d + 1} \subseteq digits
      /\ digits # {}

\* Number() and strtoll() of the digits.
Magnitude(t) ==
  LET n[i \in 0 .. Len(t)] ==
        IF i = 0 THEN 0
        ELSE IF t[i] \in DOMAIN Digit THEN 10 * n[i - 1] + Digit[t[i]] ELSE n[i - 1]
  IN  n[Len(t)]
NumberOf(t) == IF t[1] = "-" THEN -Magnitude(t) ELSE Magnitude(t)

\* parseScalar().
ParseScalar(t) ==
  IF t \in {<<"true">>, <<"false">>} THEN Typed("boolean", t = <<"true">>)
  ELSE IF ~IsNumber(t) THEN Bad
  ELSE IF At(t, {"."}) # {}
  THEN IF FloatOf(t) = None THEN Bad ELSE Typed("float", FloatOf(t))
  ELSE IF NumberOf(t) \in Wide THEN Typed("integer", NumberOf(t)) ELSE Bad

\* parseQuotedString(), and the forms that are refused.
ParseValue(v) ==
  CASE v.form = "quoted" -> IF v.closed /\ v.escapes THEN Typed("string", v.text) ELSE Bad
    [] v.form = "scalar" -> ParseScalar(v.token)
    [] OTHER -> Bad

\* A line refused: its number is reported, and no value is used.
Fail(st) == [st EXCEPT !.error = TRUE]

Header(st, line) ==
  IF line.closed /\ line.name # "" /\ line.bare /\ ~line.rest
  THEN [st EXCEPT !.table = line.name] ELSE Fail(st)

\* values.set(): one key has a new value.
Insert(values, full, value) ==
  [k \in {full} \cup DOMAIN values |-> IF k = full THEN value ELSE values[k]]

\* Wrong: the second value of a key replaces the first.
Put_replace(st, full, value) == [st EXCEPT !.values = Insert(@, full, value)]

\* A key may be given once per table, wherever the table's parts stand.
Put(st, full, value) ==
  IF full \in DOMAIN st.values THEN Fail(st) ELSE [st EXCEPT !.values = Insert(@, full, value)]

Pair(st, line) ==
  IF line.key = "" \/ line.sep # "=" \/ ParseValue(line.value) = Bad \/ line.rest THEN Fail(st)
  ELSE Put(st, <<st.table, line.key>>, ParseValue(line.value))

Line(st, line) ==
  CASE line.kind = "blank" -> st
    [] line.kind = "header" -> Header(st, line)
    [] line.kind = "pair" -> Pair(st, line)

\* parseToml(): the values by table and key, or the number of the first bad line.
Read(st, line) == IF st.error THEN st ELSE Line([st EXCEPT !.ln = @ + 1], line)

ParseToml(text) ==
  LET after[i \in 0 .. Len(text)] ==
        IF i = 0 THEN [table |-> "", values |-> << >>, ln |-> 0, error |-> FALSE]
        ELSE Read(after[i - 1], text[i])
  IN  after[Len(text)]

===============================================================================
