---------------------------- MODULE LifecycleProofs ----------------------------
(***************************************************************************)
(* Lifecycle: for every command line and every file, the process starts    *)
(* with exactly the configuration these mean, or not at all.               *)
(*                                                                         *)
(* The passes of parseArgs() and the lines of parseToml() are recursive    *)
(* functions.  Each is first shown to satisfy its equation; what holds     *)
(* after i words or lines is then shown for i, from 0 upwards, and what    *)
(* holds after the last one is what Lifecycle says without recursion.      *)
(***************************************************************************)
EXTENDS Lifecycle, TLAPS, WellFoundedInduction

-------------------------------------------------------------------------------
(* Induction along a sequence.                                             *)

\* A non-empty set of naturals has a least element.
LEMMA LeastElement ==
  ASSUME NEW T \in SUBSET Nat, T # {}
  PROVE  \E x \in T : \A y \in T : x <= y
<1>1. PICK x \in T : \A y \in T : ~(<<y, x>> \in OpToRel(<, Nat))
  BY NatLessThanWellFounded, WFMin, Zenon
<1>2. \A y \in T : ~(y < x)
  BY <1>1 DEF OpToRel
<1> QED  BY <1>2

\* A set that has 0, and every number up to n with the one before it, has them all.
LEMMA Upwards ==
  ASSUME NEW n \in Nat, NEW S, 0 \in S, \A m \in 1 .. n : m - 1 \in S => m \in S
  PROVE  0 .. n \subseteq S
<1> DEFINE T == (0 .. n) \ S
<1> SUFFICES ASSUME T # {} PROVE FALSE
  OBVIOUS
<1>1. T \in SUBSET Nat
  OBVIOUS
<1>2. PICK m \in T : \A y \in T : m <= y
  <2> HIDE DEF T
  <2> QED  BY <1>1, LeastElement
<1>3. m \in 1 .. n /\ m - 1 \in 0 .. n /\ ~(m <= m - 1)
  OBVIOUS
<1> QED  BY <1>2, <1>3

\* Pass 1 takes the words one by one.
LEMMA ScanWordByWord ==
  ASSUME NEW words, Len(words) \in Nat
  PROVE  \E after :
           /\ after[0] = [path |-> None, pending |-> FALSE, twice |-> FALSE]
           /\ \A n \in 1 .. Len(words) : after[n] = Scan(after[n - 1], words[n])
           /\ FindConfig(words) = after[Len(words)]
<1> DEFINE L == Len(words)
           First == [path |-> None, pending |-> FALSE, twice |-> FALSE]
           Step(f, n) == IF n = 0 THEN First ELSE Scan(f[n - 1], words[n])
           Good(f, m) == f = [n \in 0 .. m |-> Step(f, n)]
           S == {m \in 0 .. L : \E f : Good(f, m)}
<1>1. 0 \in S
  <2> DEFINE f0 == [n \in 0 .. 0 |-> First]
  <2>1. \A n \in 0 .. 0 : Step(f0, n) = First
    OBVIOUS
  <2>2. Good(f0, 0)
    <3> HIDE DEF Step
    <3> QED  BY <2>1
  <2>3. 0 \in 0 .. L
    OBVIOUS
  <2> HIDE DEF Good, f0
  <2> QED  BY <2>2, <2>3
<1>2. ASSUME NEW m \in 1 .. L, m - 1 \in S PROVE m \in S
  <2>1. PICK f : Good(f, m - 1)
    BY <1>2
  <2> DEFINE g == [n \in 0 .. m |-> Step(f, n)]
  <2>2. \A n \in 0 .. m - 1 : f[n] = Step(f, n)
    <3> HIDE DEF Step
    <3> QED  BY <2>1
  <2>3. \A n \in 0 .. m - 1 : g[n] = f[n]
    <3>1. \A n \in 0 .. m - 1 : n \in 0 .. m
      OBVIOUS
    <3> HIDE DEF Step
    <3> QED  BY <2>2, <3>1
  <2>4. \A n \in 0 .. m : Step(g, n) = Step(f, n)
    <3> SUFFICES ASSUME NEW n \in 0 .. m PROVE Step(g, n) = Step(f, n)
      OBVIOUS
    <3>1. n # 0 => n - 1 \in 0 .. m - 1
      OBVIOUS
    <3> HIDE DEF g
    <3> QED  BY <2>3, <3>1
  <2>5. Good(g, m)
    <3> HIDE DEF Step
    <3> QED  BY <2>4
  <2>6. m \in 0 .. L
    OBVIOUS
  <2> HIDE DEF g, Good
  <2> QED  BY <2>5, <2>6
<1>3. L \in S
  <2>1. L \in Nat /\ L \in 0 .. L
    OBVIOUS
  <2> HIDE DEF S, L
  <2> QED  BY <1>1, <1>2, <2>1, Upwards
<1> DEFINE F == CHOOSE f : Good(f, L)
<1>4. Good(F, L)
  BY <1>3
<1>5. FindConfig(words) = F[L]
  BY DEF FindConfig
<1> HIDE DEF F
<1>6. \A n \in 0 .. L : F[n] = Step(F, n)
  <2> HIDE DEF Step
  <2> QED  BY <1>4
<1>7. F[0] = First
  <2>1. 0 \in 0 .. L
    OBVIOUS
  <2> QED  BY <1>6, <2>1
<1>8. \A n \in 1 .. L : F[n] = Scan(F[n - 1], words[n])
  <2> HIDE DEF First
  <2> QED  BY <1>6
<1> QED  BY <1>5, <1>7, <1>8

\* So does pass 2.
LEMMA TakeWordByWord ==
  ASSUME NEW words, Len(words) \in Nat, NEW base
  PROVE  \E after :
           /\ after[0] = [cfg |-> base, flag |-> None, bad |-> FALSE]
           /\ \A n \in 1 .. Len(words) : after[n] = TakeWord(after[n - 1], words[n])
           /\ ApplyFlags(words, base) = FlagsResult(after[Len(words)])
<1> DEFINE L == Len(words)
           First == [cfg |-> base, flag |-> None, bad |-> FALSE]
           Step(f, n) == IF n = 0 THEN First ELSE TakeWord(f[n - 1], words[n])
           Good(f, m) == f = [n \in 0 .. m |-> Step(f, n)]
           S == {m \in 0 .. L : \E f : Good(f, m)}
<1>1. 0 \in S
  <2> DEFINE f0 == [n \in 0 .. 0 |-> First]
  <2>1. \A n \in 0 .. 0 : Step(f0, n) = First
    OBVIOUS
  <2>2. Good(f0, 0)
    <3> HIDE DEF Step
    <3> QED  BY <2>1
  <2>3. 0 \in 0 .. L
    OBVIOUS
  <2> HIDE DEF Good, f0
  <2> QED  BY <2>2, <2>3
<1>2. ASSUME NEW m \in 1 .. L, m - 1 \in S PROVE m \in S
  <2>1. PICK f : Good(f, m - 1)
    BY <1>2
  <2> DEFINE g == [n \in 0 .. m |-> Step(f, n)]
  <2>2. \A n \in 0 .. m - 1 : f[n] = Step(f, n)
    <3> HIDE DEF Step
    <3> QED  BY <2>1
  <2>3. \A n \in 0 .. m - 1 : g[n] = f[n]
    <3>1. \A n \in 0 .. m - 1 : n \in 0 .. m
      OBVIOUS
    <3> HIDE DEF Step
    <3> QED  BY <2>2, <3>1
  <2>4. \A n \in 0 .. m : Step(g, n) = Step(f, n)
    <3> SUFFICES ASSUME NEW n \in 0 .. m PROVE Step(g, n) = Step(f, n)
      OBVIOUS
    <3>1. n # 0 => n - 1 \in 0 .. m - 1
      OBVIOUS
    <3> HIDE DEF g
    <3> QED  BY <2>3, <3>1
  <2>5. Good(g, m)
    <3> HIDE DEF Step
    <3> QED  BY <2>4
  <2>6. m \in 0 .. L
    OBVIOUS
  <2> HIDE DEF g, Good
  <2> QED  BY <2>5, <2>6
<1>3. L \in S
  <2>1. L \in Nat /\ L \in 0 .. L
    OBVIOUS
  <2> HIDE DEF S, L
  <2> QED  BY <1>1, <1>2, <2>1, Upwards
<1> DEFINE F == CHOOSE f : Good(f, L)
<1>4. Good(F, L)
  BY <1>3
<1>5. ApplyFlags(words, base) = FlagsResult(F[L])
  BY DEF ApplyFlags
<1> HIDE DEF F
<1>6. \A n \in 0 .. L : F[n] = Step(F, n)
  <2> HIDE DEF Step
  <2> QED  BY <1>4
<1>7. F[0] = First
  <2>1. 0 \in 0 .. L
    OBVIOUS
  <2> QED  BY <1>6, <2>1
<1>8. \A n \in 1 .. L : F[n] = TakeWord(F[n - 1], words[n])
  <2> HIDE DEF First
  <2> QED  BY <1>6
<1> QED  BY <1>5, <1>7, <1>8

\* And parseToml() takes the lines one by one.
LEMMA ReadLineByLine ==
  ASSUME NEW text, Len(text) \in Nat
  PROVE  \E after :
           /\ after[0] = [table |-> "", values |-> << >>, ln |-> 0, error |-> FALSE]
           /\ \A n \in 1 .. Len(text) : after[n] = Read(after[n - 1], text[n])
           /\ ParseToml(text) = after[Len(text)]
<1> DEFINE L == Len(text)
           First == [table |-> "", values |-> << >>, ln |-> 0, error |-> FALSE]
           Step(f, n) == IF n = 0 THEN First ELSE Read(f[n - 1], text[n])
           Good(f, m) == f = [n \in 0 .. m |-> Step(f, n)]
           S == {m \in 0 .. L : \E f : Good(f, m)}
<1>1. 0 \in S
  <2> DEFINE f0 == [n \in 0 .. 0 |-> First]
  <2>1. \A n \in 0 .. 0 : Step(f0, n) = First
    OBVIOUS
  <2>2. Good(f0, 0)
    <3> HIDE DEF Step
    <3> QED  BY <2>1
  <2>3. 0 \in 0 .. L
    OBVIOUS
  <2> HIDE DEF Good, f0
  <2> QED  BY <2>2, <2>3
<1>2. ASSUME NEW m \in 1 .. L, m - 1 \in S PROVE m \in S
  <2>1. PICK f : Good(f, m - 1)
    BY <1>2
  <2> DEFINE g == [n \in 0 .. m |-> Step(f, n)]
  <2>2. \A n \in 0 .. m - 1 : f[n] = Step(f, n)
    <3> HIDE DEF Step
    <3> QED  BY <2>1
  <2>3. \A n \in 0 .. m - 1 : g[n] = f[n]
    <3>1. \A n \in 0 .. m - 1 : n \in 0 .. m
      OBVIOUS
    <3> HIDE DEF Step
    <3> QED  BY <2>2, <3>1
  <2>4. \A n \in 0 .. m : Step(g, n) = Step(f, n)
    <3> SUFFICES ASSUME NEW n \in 0 .. m PROVE Step(g, n) = Step(f, n)
      OBVIOUS
    <3>1. n # 0 => n - 1 \in 0 .. m - 1
      OBVIOUS
    <3> HIDE DEF g
    <3> QED  BY <2>3, <3>1
  <2>5. Good(g, m)
    <3> HIDE DEF Step
    <3> QED  BY <2>4
  <2>6. m \in 0 .. L
    OBVIOUS
  <2> HIDE DEF g, Good
  <2> QED  BY <2>5, <2>6
<1>3. L \in S
  <2>1. L \in Nat /\ L \in 0 .. L
    OBVIOUS
  <2> HIDE DEF S, L
  <2> QED  BY <1>1, <1>2, <2>1, Upwards
<1> DEFINE F == CHOOSE f : Good(f, L)
<1>4. Good(F, L)
  BY <1>3
<1>5. ParseToml(text) = F[L]
  BY DEF ParseToml
<1> HIDE DEF F
<1>6. \A n \in 0 .. L : F[n] = Step(F, n)
  <2> HIDE DEF Step
  <2> QED  BY <1>4
<1>7. F[0] = First
  <2>1. 0 \in 0 .. L
    OBVIOUS
  <2> QED  BY <1>6, <2>1
<1>8. \A n \in 1 .. L : F[n] = Read(F[n - 1], text[n])
  <2> HIDE DEF First
  <2> QED  BY <1>6
<1> QED  BY <1>5, <1>7, <1>8

\* A word is a flag unless the one before it is a flag with a value.
LEMMA FlagsFollow ==
  ASSUME NEW words \in Seq(STRING)
  PROVE  /\ FlagPositions(words) \subseteq 1 .. Len(words)
         /\ \A i \in 1 .. Len(words) :
              i \in FlagPositions(words) <=>
                i = 1 \/ i - 1 \notin FlagPositions(words) \/ words[i - 1] \in Switches
<1> DEFINE L == Len(words)
           Step(f, n) == n = 1 \/ ~f[n - 1] \/ words[n - 1] \in Switches
           Good(f, m) == f = [n \in 1 .. m |-> Step(f, n)]
           S == {m \in 0 .. L : \E f : Good(f, m)}
<1>1. 0 \in S
  <2> DEFINE f0 == [n \in 1 .. 0 |-> TRUE]
  <2>1. Good(f0, 0)
    <3> HIDE DEF Step
    <3> QED  OBVIOUS
  <2>2. 0 \in 0 .. L
    OBVIOUS
  <2> HIDE DEF Good, f0
  <2> QED  BY <2>1, <2>2
<1>2. ASSUME NEW m \in 1 .. L, m - 1 \in S PROVE m \in S
  <2>1. PICK f : Good(f, m - 1)
    BY <1>2
  <2> DEFINE g == [n \in 1 .. m |-> Step(f, n)]
  <2>2. \A n \in 1 .. m - 1 : f[n] = Step(f, n)
    <3> HIDE DEF Step
    <3> QED  BY <2>1
  <2>3. \A n \in 1 .. m - 1 : g[n] = f[n]
    <3>1. \A n \in 1 .. m - 1 : n \in 1 .. m
      OBVIOUS
    <3> HIDE DEF Step
    <3> QED  BY <2>2, <3>1
  <2>4. \A n \in 1 .. m : Step(g, n) = Step(f, n)
    <3> SUFFICES ASSUME NEW n \in 1 .. m PROVE Step(g, n) = Step(f, n)
      OBVIOUS
    <3>1. n # 1 => n - 1 \in 1 .. m - 1
      OBVIOUS
    <3> HIDE DEF g
    <3> QED  BY <2>3, <3>1
  <2>5. Good(g, m)
    <3> HIDE DEF Step
    <3> QED  BY <2>4
  <2>6. m \in 0 .. L
    OBVIOUS
  <2> HIDE DEF g, Good
  <2> QED  BY <2>5, <2>6
<1>3. L \in S
  <2>1. L \in Nat /\ L \in 0 .. L
    OBVIOUS
  <2> HIDE DEF S, L
  <2> QED  BY <1>1, <1>2, <2>1, Upwards
<1> DEFINE F == CHOOSE f : f = [n \in DOMAIN words |-> Step(f, n)]
<1>4. F = [n \in DOMAIN words |-> Step(F, n)] /\ DOMAIN words = 1 .. L
  <2>1. DOMAIN words = 1 .. L
    OBVIOUS
  <2> HIDE DEF Step, L
  <2> QED  BY <1>3, <2>1
<1>5. FlagPositions(words) = {i \in DOMAIN words : F[i]}
  BY DEF FlagPositions
<1> HIDE DEF F
<1>6. \A n \in 1 .. L : F[n] = Step(F, n)
  <2> HIDE DEF Step
  <2> QED  BY <1>4
<1>7. \A n \in 1 .. L : n \in FlagPositions(words) <=> F[n]
  BY <1>4, <1>5
<1>8. FlagPositions(words) \subseteq 1 .. L
  BY <1>4, <1>5
<1>9. ASSUME NEW n \in 1 .. L
      PROVE  F[n] <=> n = 1 \/ n - 1 \notin FlagPositions(words) \/ words[n - 1] \in Switches
  <2>1. n # 1 => n - 1 \in 1 .. L
    OBVIOUS
  <2>2. F[n] = Step(F, n)
    BY <1>6
  <2> HIDE DEF L, F
  <2> QED  BY <1>7, <2>1, <2>2
<1> HIDE DEF L
<1> QED  BY <1>7, <1>8, <1>9 DEF L

\* A word --config counts unless the one before it does.
LEMMA ConfigsFollow ==
  ASSUME NEW words \in Seq(STRING)
  PROVE  /\ ConfigPositions(words) \subseteq 1 .. Len(words)
         /\ \A i \in 1 .. Len(words) :
              i \in ConfigPositions(words) <=>
                words[i] = "--config" /\ (i = 1 \/ i - 1 \notin ConfigPositions(words))
<1> DEFINE L == Len(words)
           Step(f, n) == words[n] = "--config" /\ (n = 1 \/ ~f[n - 1])
           Good(f, m) == f = [n \in 1 .. m |-> Step(f, n)]
           S == {m \in 0 .. L : \E f : Good(f, m)}
<1>1. 0 \in S
  <2> DEFINE f0 == [n \in 1 .. 0 |-> TRUE]
  <2>1. Good(f0, 0)
    <3> HIDE DEF Step
    <3> QED  OBVIOUS
  <2>2. 0 \in 0 .. L
    OBVIOUS
  <2> HIDE DEF Good, f0
  <2> QED  BY <2>1, <2>2
<1>2. ASSUME NEW m \in 1 .. L, m - 1 \in S PROVE m \in S
  <2>1. PICK f : Good(f, m - 1)
    BY <1>2
  <2> DEFINE g == [n \in 1 .. m |-> Step(f, n)]
  <2>2. \A n \in 1 .. m - 1 : f[n] = Step(f, n)
    <3> HIDE DEF Step
    <3> QED  BY <2>1
  <2>3. \A n \in 1 .. m - 1 : g[n] = f[n]
    <3>1. \A n \in 1 .. m - 1 : n \in 1 .. m
      OBVIOUS
    <3> HIDE DEF Step
    <3> QED  BY <2>2, <3>1
  <2>4. \A n \in 1 .. m : Step(g, n) = Step(f, n)
    <3> SUFFICES ASSUME NEW n \in 1 .. m PROVE Step(g, n) = Step(f, n)
      OBVIOUS
    <3>1. n # 1 => n - 1 \in 1 .. m - 1
      OBVIOUS
    <3> HIDE DEF g
    <3> QED  BY <2>3, <3>1
  <2>5. Good(g, m)
    <3> HIDE DEF Step
    <3> QED  BY <2>4
  <2>6. m \in 0 .. L
    OBVIOUS
  <2> HIDE DEF g, Good
  <2> QED  BY <2>5, <2>6
<1>3. L \in S
  <2>1. L \in Nat /\ L \in 0 .. L
    OBVIOUS
  <2> HIDE DEF S, L
  <2> QED  BY <1>1, <1>2, <2>1, Upwards
<1> DEFINE F == CHOOSE f : f = [n \in DOMAIN words |-> Step(f, n)]
<1>4. F = [n \in DOMAIN words |-> Step(F, n)] /\ DOMAIN words = 1 .. L
  <2>1. DOMAIN words = 1 .. L
    OBVIOUS
  <2> HIDE DEF Step, L
  <2> QED  BY <1>3, <2>1
<1>5. ConfigPositions(words) = {i \in DOMAIN words : F[i]}
  BY DEF ConfigPositions
<1> HIDE DEF F
<1>6. \A n \in 1 .. L : F[n] = Step(F, n)
  <2> HIDE DEF Step
  <2> QED  BY <1>4
<1>7. \A n \in 1 .. L : n \in ConfigPositions(words) <=> F[n]
  BY <1>4, <1>5
<1>8. ConfigPositions(words) \subseteq 1 .. L
  BY <1>4, <1>5
<1>9. ASSUME NEW n \in 1 .. L
      PROVE  F[n] <=> words[n] = "--config" /\ (n = 1 \/ n - 1 \notin ConfigPositions(words))
  <2>1. n # 1 => n - 1 \in 1 .. L
    OBVIOUS
  <2>2. F[n] = Step(F, n)
    BY <1>6
  <2> HIDE DEF L, F
  <2> QED  BY <1>7, <2>1, <2>2
<1> HIDE DEF L
<1> QED  BY <1>7, <1>8, <1>9 DEF L

-------------------------------------------------------------------------------
(* Pass 1 finds the --config that counts.                                  *)

\* What pass 1 knows after i words: which of them was --config.
Scanned(st, words, i) ==
  /\ st \in [path : STRING \cup {None}, pending : BOOLEAN, twice : BOOLEAN]
  /\ st.twice => \E a, b \in ConfigPositions(words) : a # b
  /\ ~st.twice =>
       /\ st.pending <=> i \in ConfigPositions(words)
       /\ \A a, b \in ConfigPositions(words) : a <= i /\ b <= i => a = b
       /\ st.path = None <=> \A a \in ConfigPositions(words) : i <= a
       /\ \A a \in ConfigPositions(words) : a < i => st.path = words[a + 1]

LEMMA ScanStep ==
  ASSUME NEW words \in Seq(STRING), NEW i \in 1 .. Len(words), NEW st, Scanned(st, words, i - 1)
  PROVE  Scanned(Scan(st, words[i]), words, i)
<1> DEFINE C == ConfigPositions(words)
           w == words[i]
           new == Scan(st, w)
<1>1. /\ C \subseteq 1 .. Len(words) /\ w \in STRING /\ w # None /\ i - 1 \in Int
      /\ i \in C <=> w = "--config" /\ i - 1 \notin C
  <2>1. C \subseteq 1 .. Len(words) /\ (i \in C <=> w = "--config" /\ (i = 1 \/ i - 1 \notin C))
    BY ConfigsFollow
  <2>2. w \in STRING /\ i - 1 \in Int
    OBVIOUS
  <2>3. i = 1 => i - 1 \notin C
    BY <2>1
  <2> QED  BY <2>1, <2>2, <2>3, ConfigAssumption
<1>2. /\ st \in [path : STRING \cup {None}, pending : BOOLEAN, twice : BOOLEAN]
      /\ st.twice => \E a, b \in C : a # b
      /\ ~st.twice =>
           /\ st.pending <=> i - 1 \in C
           /\ \A a, b \in C : a <= i - 1 /\ b <= i - 1 => a = b
           /\ st.path = None <=> \A a \in C : i - 1 <= a
           /\ \A a \in C : a < i - 1 => st.path = words[a + 1]
  BY DEF Scanned
<1>3. \A a \in C : a \in Int /\ (a <= i - 1 <=> a < i) /\ (a <= i <=> a < i \/ a = i) /\ (a < i - 1 <=> a < i /\ a # i - 1)
  BY <1>1
<1> HIDE DEF C, w
<1>4. CASE st.twice
  <2>1. new \in [path : STRING \cup {None}, pending : BOOLEAN, twice : BOOLEAN] /\ new.twice
    BY <1>1, <1>2, <1>4 DEF Scan
  <2> QED  BY <1>2, <1>4, <2>1 DEF Scanned, C, w
<1>5. CASE ~st.twice /\ st.pending
  <2>1. new = [path |-> w, pending |-> FALSE, twice |-> FALSE]
    BY <1>2, <1>5 DEF Scan
  <2>2. i - 1 \in C /\ i \notin C
    BY <1>1, <1>2, <1>5
  <2>3. \A a \in C : a < i => a = i - 1
    BY <1>2, <1>3, <1>5, <2>2
  <2>4. w = words[(i - 1) + 1]
    BY DEF w
  <2>5. \A a \in C : a < i => w = words[a + 1]
    BY <2>3, <2>4
  <2>6. \A a, b \in C : a <= i /\ b <= i => a = b
    BY <1>3, <2>2, <2>3
  <2>7. ~ \A a \in C : i <= a
    BY <1>3, <2>2
  <2> QED  BY <1>1, <2>1, <2>2, <2>5, <2>6, <2>7 DEF Scanned, C, w
<1>6. CASE ~st.twice /\ ~st.pending /\ w # "--config"
  <2>1. new = st
    BY <1>6 DEF Scan
  <2>2. i - 1 \notin C /\ i \notin C
    BY <1>1, <1>2, <1>6
  <2>3. \A a \in C : (i - 1 <= a <=> i <= a) /\ (a <= i <=> a <= i - 1) /\ (a < i <=> a < i - 1)
    BY <1>3, <2>2
  <2>4. st.path = None <=> \A a \in C : i <= a
    BY <1>2, <1>6, <2>3
  <2>5. \A a, b \in C : a <= i /\ b <= i => a = b
    BY <1>2, <1>6, <2>3
  <2>6. \A a \in C : a < i => st.path = words[a + 1]
    BY <1>2, <1>6, <2>3
  <2> QED  BY <1>2, <1>6, <2>1, <2>2, <2>4, <2>5, <2>6 DEF Scanned, C, w
<1>7. CASE ~st.twice /\ ~st.pending /\ w = "--config" /\ st.path # None
  <2>1. new \in [path : STRING \cup {None}, pending : BOOLEAN, twice : BOOLEAN] /\ new.twice
    BY <1>2, <1>7 DEF Scan
  <2>2. i \in C
    BY <1>1, <1>2, <1>7
  <2>3. PICK a \in C : ~(i - 1 <= a)
    BY <1>2, <1>7
  <2>4. a # i
    BY <2>3
  <2> QED  BY <2>1, <2>2, <2>4 DEF Scanned, C, w
<1>8. CASE ~st.twice /\ ~st.pending /\ w = "--config" /\ st.path = None
  <2>1. new = [path |-> None, pending |-> TRUE, twice |-> FALSE]
    BY <1>2, <1>8 DEF Scan
  <2>2. i \in C /\ i - 1 \notin C
    BY <1>1, <1>2, <1>8
  <2>3. \A a \in C : i <= a
    BY <1>2, <1>3, <1>8, <2>2
  <2>4. \A a \in C : ~(a < i) /\ (a <= i => a = i)
    BY <1>3, <2>3
  <2> QED  BY <2>1, <2>2, <2>3, <2>4 DEF Scanned, C, w
<1> QED  BY <1>4, <1>5, <1>6, <1>7, <1>8 DEF w

\* Pass 1 fails exactly if two --config count, or the last word is one; else it
\* has the word behind the one that counts.
LEMMA ConfigFound ==
  ASSUME NEW words \in Seq(STRING)
  PROVE  /\ FindConfig(words).twice \in BOOLEAN /\ FindConfig(words).pending \in BOOLEAN
         /\ FindConfig(words).twice \/ FindConfig(words).pending <=>
              ~ /\ \A a, b \in ConfigPositions(words) : a = b
                /\ \A a \in ConfigPositions(words) : a < Len(words)
         /\ ~FindConfig(words).twice /\ ~FindConfig(words).pending =>
              /\ FindConfig(words).path = None <=> ConfigPositions(words) = {}
              /\ \A a \in ConfigPositions(words) : FindConfig(words).path = words[a + 1]
<1> DEFINE n == Len(words)
           C == ConfigPositions(words)
<1>1. n \in Nat /\ C \subseteq 1 .. n
  BY ConfigsFollow
<1>2. PICK after : /\ after[0] = [path |-> None, pending |-> FALSE, twice |-> FALSE]
                   /\ \A i \in 1 .. n : after[i] = Scan(after[i - 1], words[i])
                   /\ FindConfig(words) = after[n]
  BY <1>1, ScanWordByWord
<1> DEFINE S == {i \in 0 .. n : Scanned(after[i], words, i)}
<1>3. 0 \in S
  <2>1. \A a \in C : 0 <= a /\ ~(a <= 0) /\ ~(a < 0) /\ a # 0
    BY <1>1
  <2> HIDE DEF n
  <2>2. Scanned(after[0], words, 0)
    BY <1>2, <2>1 DEF Scanned
  <2> QED  BY <1>1, <2>2
<1>4. \A i \in 1 .. n : i - 1 \in S => i \in S
  <2> SUFFICES ASSUME NEW i \in 1 .. n, Scanned(after[i - 1], words, i - 1)
               PROVE  Scanned(after[i], words, i)
    OBVIOUS
  <2>1. after[i] = Scan(after[i - 1], words[i])
    BY <1>2
  <2> QED  BY <2>1, ScanStep
<1>5. Scanned(after[n], words, n)
  <2>1. n \in 0 .. n
    BY <1>1
  <2>2. n \in S
    <3> HIDE DEF S, n
    <3> QED  BY <1>1, <1>3, <1>4, <2>1, Upwards
  <2> QED  BY <2>2
<1>6. \A a \in C : a <= n /\ (a < n <=> a # n) /\ (n <= a <=> a = n)
  BY <1>1
<1> HIDE DEF n, C
<1>7. /\ FindConfig(words).twice \in BOOLEAN /\ FindConfig(words).pending \in BOOLEAN
      /\ FindConfig(words).twice => \E a, b \in C : a # b
      /\ ~FindConfig(words).twice =>
           /\ FindConfig(words).pending <=> n \in C
           /\ \A a, b \in C : a <= n /\ b <= n => a = b
           /\ FindConfig(words).path = None <=> \A a \in C : n <= a
           /\ \A a \in C : a < n => FindConfig(words).path = words[a + 1]
  BY <1>2, <1>5 DEF Scanned, C
<1>8. CASE FindConfig(words).twice
  BY <1>7, <1>8 DEF C
<1>9. CASE ~FindConfig(words).twice /\ n \in C
  BY <1>6, <1>7, <1>9 DEF C, n
<1>10. CASE ~FindConfig(words).twice /\ n \notin C
  <2>1. \A a \in C : a < n
    BY <1>6, <1>10
  <2>2. \A a, b \in C : a = b
    BY <1>6, <1>7, <1>10
  <2>3. FindConfig(words).path = None <=> C = {}
    BY <1>6, <1>7, <1>10
  <2> QED  BY <1>7, <1>10, <2>1, <2>2, <2>3 DEF C, n
<1> QED  BY <1>7, <1>8, <1>9, <1>10

-------------------------------------------------------------------------------
(* parseToml() reads the settings under their tables.                      *)

\* A finite set of numbers: the greatest is the one no other is above.
LEMMA MaxIs ==
  ASSUME NEW S, NEW m \in S, m \in Int, \A y \in S : y \in Int /\ y <= m
  PROVE  Max(S) = m
<1>1. \A y \in S : m >= y
  OBVIOUS
<1>2. \A x \in S : (\A y \in S : x >= y) => x = m
  OBVIOUS
<1> QED  BY <1>1, <1>2 DEF Max

\* A header names the table from its line on; other lines leave it.
LEMMA TableFollows ==
  ASSUME NEW text, Len(text) \in Nat
  PROVE  /\ TableOf(text, 0) = ""
         /\ \A i \in 1 .. Len(text) :
              TableOf(text, i) =
                IF text[i].kind = "header" THEN text[i].name ELSE TableOf(text, i - 1)
<1> DEFINE H(i) == {h \in 1 .. i : text[h].kind = "header"}
<1>1. TableOf(text, 0) = ""
  <2>1. H(0) = {}
    OBVIOUS
  <2> QED  BY <2>1 DEF TableOf
<1>2. ASSUME NEW i \in 1 .. Len(text), text[i].kind = "header"
      PROVE  TableOf(text, i) = text[i].name
  <2>1. i \in H(i) /\ i \in Int /\ \A y \in H(i) : y \in Int /\ y <= i
    BY <1>2
  <2>2. Max(H(i)) = i
    <3> HIDE DEF H
    <3> QED  BY <2>1, MaxIs
  <2>3. H(i) # {}
    <3> HIDE DEF H
    <3> QED  BY <2>1
  <2> QED  BY <2>2, <2>3 DEF TableOf
<1>3. ASSUME NEW i \in 1 .. Len(text), text[i].kind # "header"
      PROVE  TableOf(text, i) = TableOf(text, i - 1)
  <2>1. H(i) = H(i - 1)
    <3>1. \A h : h \in 1 .. i <=> h \in 1 .. i - 1 \/ h = i
      OBVIOUS
    <3> QED  BY <1>3, <3>1
  <2> QED  BY <2>1 DEF TableOf
<1> QED  BY <1>1, <1>2, <1>3

\* The first i lines can be read: every one is good, and no key stands twice.
GoodUpTo(text, i) ==
  /\ \A j \in 1 .. i : GoodLine(text[j])
  /\ \A j, k \in PairLines(text) :
       j <= i /\ k <= i /\ KeyAt(text, j) = KeyAt(text, k) => j = k

\* A state of parseToml() has its four fields and no more.
IsReading(st) ==
  st = [table |-> st.table, values |-> st.values, ln |-> st.ln, error |-> st.error]

\* What is known of the first i lines.
ReadSoFar(st, text, i) ==
  /\ IsReading(st)
  /\ st.error \in BOOLEAN
  /\ st.error <=> ~GoodUpTo(text, i)
  /\ ~st.error =>
       /\ st.table = TableOf(text, i)
       /\ DOMAIN st.values = {KeyAt(text, j) : j \in {k \in PairLines(text) : k <= i}}
       /\ \A j \in PairLines(text) : j <= i => st.values[KeyAt(text, j)] = ParseValue(text[j].value)

\* The state of parseToml() field by field.
LEMMA ReadFields ==
  ASSUME NEW r, NEW t, NEW v, NEW n, NEW e,
         r = [table |-> t, values |-> v, ln |-> n, error |-> e]
  PROVE  /\ r.table = t /\ r.values = v /\ r.ln = n /\ r.error = e
         /\ r = [table |-> r.table, values |-> r.values, ln |-> r.ln, error |-> r.error]
         /\ \A x : /\ [r EXCEPT !.table = x] = [table |-> x, values |-> v, ln |-> n, error |-> e]
                  /\ [r EXCEPT !.values = x] = [table |-> t, values |-> x, ln |-> n, error |-> e]
                  /\ [r EXCEPT !.error = x] = [table |-> t, values |-> v, ln |-> n, error |-> x]
  OBVIOUS

\* One line, as it changes what is known.
LEMMA ReadOne ==
  ASSUME NEW st, NEW line, line.kind \in {"blank", "header", "pair"},
         IsReading(st), st.error \in BOOLEAN, ~st.error
  PROVE  \A new, key, more :
           /\ new = Read(st, line)
           /\ key = <<st.table, line.key>>
           /\ more = Insert(st.values, key, ParseValue(line.value))
           =>
           /\ IsReading(new)
           /\ new.error \in BOOLEAN
           /\ ~GoodLine(line) => new.error
           /\ GoodLine(line) /\ line.kind = "blank" =>
                ~new.error /\ new.table = st.table /\ new.values = st.values
           /\ GoodLine(line) /\ line.kind = "header" =>
                ~new.error /\ new.table = line.name /\ new.values = st.values
           /\ GoodLine(line) /\ line.kind = "pair" =>
                /\ new.error <=> key \in DOMAIN st.values
                /\ ~new.error => new.table = st.table /\ new.values = more
<1>a. SUFFICES ASSUME NEW new, NEW key, NEW more,
                      new = Read(st, line),
                      key = <<st.table, line.key>>,
                      more = Insert(st.values, key, ParseValue(line.value))
               PROVE
                 /\ IsReading(new)
                 /\ new.error \in BOOLEAN
                 /\ ~GoodLine(line) => new.error
                 /\ GoodLine(line) /\ line.kind = "blank" =>
                      ~new.error /\ new.table = st.table /\ new.values = st.values
                 /\ GoodLine(line) /\ line.kind = "header" =>
                      ~new.error /\ new.table = line.name /\ new.values = st.values
                 /\ GoodLine(line) /\ line.kind = "pair" =>
                      /\ new.error <=> key \in DOMAIN st.values
                      /\ ~new.error => new.table = st.table /\ new.values = more
  BY Zenon
<1> DEFINE s == [st EXCEPT !.ln = @ + 1]
<1>0. PICK t, v, n, e : st = [table |-> t, values |-> v, ln |-> n, error |-> e]
  BY Zenon DEF IsReading
<1>1. s = [table |-> t, values |-> v, ln |-> n + 1, error |-> e]
      /\ st.table = t /\ st.values = v /\ e \in BOOLEAN /\ ~e
  BY <1>0
<1>2. new = Line(s, line)
  BY <1>a, <1>1 DEF Read
<1>3. \E y : y /\ Fail(s) = [table |-> t, values |-> v, ln |-> n + 1, error |-> y]
  <2>1. PICK y : y
    OBVIOUS
  <2>2. [s EXCEPT !.error = y] = [table |-> t, values |-> v, ln |-> n + 1, error |-> y]
    <3> HIDE DEF s
    <3> QED  BY <1>1, ReadFields DEF IsReading
  <2> QED  BY <2>1, <2>2 DEF Fail
<1>4. CASE line.kind = "blank"
  <2>1. GoodLine(line) /\ new = s
    BY <1>2, <1>4 DEF GoodLine, Line
  <2> HIDE DEF s
  <2>2. /\ new.table = t /\ new.values = v /\ new.error = e
        /\ IsReading(new)
    BY <1>1, <2>1, ReadFields DEF IsReading
  <2> QED  BY <1>1, <1>4, <2>1, <2>2
<1>5. CASE line.kind = "header"
  <2>1. GoodLine(line) <=> line.closed /\ line.name # "" /\ line.bare /\ ~line.rest
    BY <1>5 DEF GoodLine
  <2>2. new = IF GoodLine(line) THEN [s EXCEPT !.table = line.name] ELSE Fail(s)
    BY <1>2, <1>5, <2>1 DEF Line, Header
  <2> HIDE DEF s
  <2>3. [s EXCEPT !.table = line.name]
          = [table |-> line.name, values |-> v, ln |-> n + 1, error |-> e]
    BY <1>1, ReadFields DEF IsReading
  <2>4. CASE GoodLine(line)
    <3>1. /\ new.table = line.name /\ new.values = v /\ new.error = e
          /\ IsReading(new)
      BY <1>1, <2>2, <2>3, <2>4, ReadFields DEF IsReading
    <3> QED  BY <1>1, <1>5, <2>4, <3>1
  <2>5. CASE ~GoodLine(line)
    <3>1. /\ new.error
          /\ IsReading(new)
      BY <1>3, <2>2, <2>5, ReadFields DEF IsReading
    <3> QED  BY <1>1, <1>5, <2>5, <3>1
  <2> QED  BY <2>4, <2>5
<1>6. CASE line.kind = "pair"
  <2>1. GoodLine(line) <=> ~(line.key = "" \/ line.sep # "=" \/ ParseValue(line.value) = Bad \/ line.rest)
    BY <1>6 DEF GoodLine
  <2>2. s.table = st.table /\ s.values = st.values
    BY <1>1
  <2>3. new = IF ~GoodLine(line) THEN Fail(s) ELSE Put(s, key, ParseValue(line.value))
    BY <1>a, <1>2, <1>6, <2>1, <2>2 DEF Line, Pair
  <2>4. Put(s, key, ParseValue(line.value)) =
          IF key \in DOMAIN st.values THEN Fail(s)
          ELSE [table |-> t, values |-> Insert(v, key, ParseValue(line.value)),
                ln |-> n + 1, error |-> e]
    <3>1. key \notin DOMAIN st.values =>
            Put(s, key, ParseValue(line.value)) = [s EXCEPT !.values = Insert(v, key, ParseValue(line.value))]
      BY <1>1, <2>2 DEF Put
    <3>2. key \in DOMAIN st.values => Put(s, key, ParseValue(line.value)) = Fail(s)
      BY <2>2 DEF Put
    <3>3. [s EXCEPT !.values = Insert(v, key, ParseValue(line.value))]
            = [table |-> t, values |-> Insert(v, key, ParseValue(line.value)), ln |-> n + 1, error |-> e]
      <4> HIDE DEF s
      <4> QED  BY <1>1, ReadFields DEF IsReading
    <3> HIDE DEF s
    <3> QED  BY <3>1, <3>2, <3>3
  <2>m. more = Insert(v, key, ParseValue(line.value))
    BY <1>a, <1>1
  <2> HIDE DEF s
  <2>5. CASE new = Fail(s)
    <3>1. /\ new.error
          /\ IsReading(new)
      BY <1>3, <2>5, ReadFields DEF IsReading
    <3>2. GoodLine(line) => key \in DOMAIN v
      <4>1. ASSUME GoodLine(line), key \notin DOMAIN v PROVE FALSE
        <5>1. new = [table |-> t, values |-> more, ln |-> n + 1, error |-> e]
          BY <1>1, <2>3, <2>4, <2>m, <4>1
        <5> QED  BY <1>1, <3>1, <5>1, ReadFields DEF IsReading
      <4> QED  BY <4>1
    <3> QED  BY <1>1, <1>6, <3>1, <3>2
  <2>6. CASE new # Fail(s)
    <3>1. GoodLine(line) /\ key \notin DOMAIN v
      BY <1>1, <2>3, <2>4, <2>6
    <3>2. new = [table |-> t, values |-> more, ln |-> n + 1, error |-> e]
      BY <1>1, <2>3, <2>4, <2>m, <3>1
    <3>3. /\ new.table = t /\ new.values = more /\ new.error = e
          /\ IsReading(new)
      BY <1>1, <3>2, ReadFields DEF IsReading
    <3> QED  BY <1>1, <1>6, <3>1, <3>3
  <2> QED  BY <2>5, <2>6
<1> QED  BY <1>4, <1>5, <1>6

\* One line more is good if it is, and its key is new.
LEMMA GoodOneMore ==
  ASSUME NEW text, Len(text) \in Nat, DOMAIN text = 1 .. Len(text), NEW i \in 1 .. Len(text)
  PROVE  GoodUpTo(text, i) <=>
           /\ GoodUpTo(text, i - 1)
           /\ GoodLine(text[i])
           /\ i \in PairLines(text) =>
                \A j \in PairLines(text) : j <= i - 1 => KeyAt(text, j) # KeyAt(text, i)
<1>1. \A j \in PairLines(text) : j \in Int /\ (j <= i <=> j <= i - 1 \/ j = i) /\ (j <= i - 1 => j # i)
  BY DEF PairLines
<1>2. \A j : j \in 1 .. i <=> j \in 1 .. i - 1 \/ j = i
  OBVIOUS
<1>3. (\A j \in 1 .. i : GoodLine(text[j])) <=>
        (\A j \in 1 .. i - 1 : GoodLine(text[j])) /\ GoodLine(text[i])
  BY <1>2
<1>4. (\A j, k \in PairLines(text) :
         j <= i /\ k <= i /\ KeyAt(text, j) = KeyAt(text, k) => j = k) <=>
        /\ \A j, k \in PairLines(text) :
             j <= i - 1 /\ k <= i - 1 /\ KeyAt(text, j) = KeyAt(text, k) => j = k
        /\ i \in PairLines(text) =>
             \A j \in PairLines(text) : j <= i - 1 => KeyAt(text, j) # KeyAt(text, i)
  BY <1>1
<1> QED  BY <1>3, <1>4 DEF GoodUpTo

\* parseToml() knows of i lines what it should, if it did of the lines before.
LEMMA ReadStep ==
  ASSUME NEW text, Len(text) \in Nat, DOMAIN text = 1 .. Len(text), NEW i \in 1 .. Len(text),
         text[i].kind \in {"blank", "header", "pair"},
         NEW st, ReadSoFar(st, text, i - 1)
  PROVE  ReadSoFar(Read(st, text[i]), text, i)
<1> DEFINE new == Read(st, text[i])
           Before(k) == {j \in PairLines(text) : j <= k}
<1>1. /\ IsReading(st)
      /\ st.error \in BOOLEAN
      /\ st.error <=> ~GoodUpTo(text, i - 1)
      /\ ~st.error =>
           /\ st.table = TableOf(text, i - 1)
           /\ DOMAIN st.values = {KeyAt(text, j) : j \in Before(i - 1)}
           /\ \A j \in PairLines(text) : j <= i - 1 => st.values[KeyAt(text, j)] = ParseValue(text[j].value)
  BY DEF ReadSoFar
<1>2. TableOf(text, i) = IF text[i].kind = "header" THEN text[i].name ELSE TableOf(text, i - 1)
  BY TableFollows
<1>3. i \in PairLines(text) <=> text[i].kind = "pair"
  BY DEF PairLines
<1>4. \A j \in PairLines(text) : j \in Int /\ (j <= i <=> j <= i - 1 \/ j = i) /\ (j <= i - 1 => j # i)
  BY DEF PairLines
<1>5. CASE st.error
  <2>1. new = st
    BY <1>5 DEF Read
  <2>2. ~GoodUpTo(text, i)
    BY <1>1, <1>5, GoodOneMore
  <2> QED  BY <1>1, <1>5, <2>1, <2>2 DEF ReadSoFar
<1>6. CASE ~st.error
  <2> DEFINE key == <<st.table, text[i].key>>
             added == Insert(st.values, key, ParseValue(text[i].value))
  <2>2. /\ IsReading(new)
        /\ new.error \in BOOLEAN
        /\ ~GoodLine(text[i]) => new.error
        /\ GoodLine(text[i]) /\ text[i].kind = "blank" =>
             ~new.error /\ new.table = st.table /\ new.values = st.values
        /\ GoodLine(text[i]) /\ text[i].kind = "header" =>
             ~new.error /\ new.table = text[i].name /\ new.values = st.values
        /\ GoodLine(text[i]) /\ text[i].kind = "pair" =>
             /\ new.error <=> key \in DOMAIN st.values
             /\ ~new.error => new.table = st.table /\ new.values = added
    <3>1. text[i].kind \in {"blank", "header", "pair"} /\ new = Read(st, text[i])
          /\ key = <<st.table, text[i].key>>
          /\ added = Insert(st.values, key, ParseValue(text[i].value))
      OBVIOUS
    <3> HIDE DEF new, key, added
    <3> QED  BY <1>1, <1>6, <3>1, ReadOne
  <2> HIDE DEF new, added
  <2>3. text[i].kind = "pair" => key = KeyAt(text, i)
    BY <1>1, <1>2, <1>6 DEF KeyAt
  <2> HIDE DEF key
  <2>4. GoodUpTo(text, i - 1)
    BY <1>1, <1>6
  <2>5. CASE ~GoodLine(text[i])
    <3>1. ~GoodUpTo(text, i)
      BY <2>5, GoodOneMore
    <3> QED  BY <2>2, <2>5, <3>1 DEF ReadSoFar, new
  <2>6. CASE GoodLine(text[i]) /\ text[i].kind # "pair"
    <3>1. GoodUpTo(text, i)
      BY <1>3, <2>4, <2>6, GoodOneMore
    <3>2. ~new.error /\ new.values = st.values /\ new.table = TableOf(text, i)
      BY <1>1, <1>2, <1>6, <2>2, <2>6
    <3>3. Before(i) = Before(i - 1)
      BY <1>3, <1>4, <2>6
    <3>4. \A j \in PairLines(text) : j <= i => j <= i - 1
      BY <1>3, <1>4, <2>6
    <3> QED  BY <1>1, <1>6, <2>2, <3>1, <3>2, <3>3, <3>4 DEF ReadSoFar, new
  <2>7. CASE GoodLine(text[i]) /\ text[i].kind = "pair" /\ key \in DOMAIN st.values
    <3>1. PICK j \in PairLines(text) : j <= i - 1 /\ KeyAt(text, j) = KeyAt(text, i)
      BY <1>1, <1>6, <2>3, <2>7
    <3>2. ~GoodUpTo(text, i)
      BY <1>3, <2>7, <3>1, GoodOneMore
    <3> QED  BY <2>2, <2>7, <3>2 DEF ReadSoFar, new
  <2>8. CASE GoodLine(text[i]) /\ text[i].kind = "pair" /\ key \notin DOMAIN st.values
    <3>1. ~new.error /\ new.table = TableOf(text, i) /\ new.values = added
      BY <1>1, <1>2, <1>6, <2>2, <2>8
    <3>2. \A j \in PairLines(text) : j <= i - 1 => KeyAt(text, j) # KeyAt(text, i)
      BY <1>1, <1>6, <2>3, <2>8
    <3>3. GoodUpTo(text, i)
      BY <2>4, <2>8, <3>2, GoodOneMore
    <3>4. /\ DOMAIN added = {key} \cup DOMAIN st.values
          /\ added[key] = ParseValue(text[i].value)
          /\ \A x \in DOMAIN st.values : x # key => added[x] = st.values[x]
      <4>1. added = Insert(st.values, key, ParseValue(text[i].value))
        BY DEF added
      <4>2. PICK f, d, e : f = st.values /\ d = key /\ e = ParseValue(text[i].value)
        OBVIOUS
      <4> HIDE DEF added
      <4>3. added = Insert(f, d, e)
        BY <4>1, <4>2
      <4>4. DOMAIN added = {d} \cup DOMAIN f /\ added[d] = e /\ \A x \in DOMAIN f : x # d => added[x] = f[x]
        BY <4>3 DEF Insert
      <4> QED  BY <4>2, <4>4
    <3>5. DOMAIN added = {KeyAt(text, j) : j \in Before(i)}
      <4>1. Before(i) = Before(i - 1) \cup {i}
        BY <1>3, <1>4, <2>8
      <4> HIDE DEF Before
      <4> QED  BY <1>1, <1>6, <2>3, <2>8, <3>4, <4>1
    <3>6. ASSUME NEW j \in PairLines(text), j <= i
          PROVE  added[KeyAt(text, j)] = ParseValue(text[j].value)
      <4>1. CASE j = i
        BY <2>3, <2>8, <3>4, <4>1
      <4>2. CASE j <= i - 1
        <5>1. KeyAt(text, j) \in DOMAIN st.values /\ KeyAt(text, j) # key
          BY <1>1, <1>6, <2>3, <2>8, <3>2, <4>2
        <5> QED  BY <1>1, <1>6, <3>4, <4>2, <5>1
      <4> QED  BY <1>4, <3>6, <4>1, <4>2
    <3> QED  BY <2>2, <3>1, <3>3, <3>5, <3>6 DEF ReadSoFar, new
  <2> QED  BY <1>1, <2>5, <2>6, <2>7, <2>8
<1> QED  BY <1>1, <1>5, <1>6

\* parseToml() fails exactly on a bad line or a key that stands twice; else it
\* has every setting under its table and key.
LEMMA TomlRead ==
  ASSUME NEW text, Len(text) \in Nat, DOMAIN text = 1 .. Len(text),
         \A i \in DOMAIN text : text[i].kind \in {"blank", "header", "pair"}
  PROVE  LET res == ParseToml(text)
         IN  /\ res.error \in BOOLEAN
             /\ res.error <=> ~ /\ \A i \in DOMAIN text : GoodLine(text[i])
                                /\ \A i, j \in PairLines(text) : KeyAt(text, i) = KeyAt(text, j) => i = j
             /\ ~res.error =>
                  /\ DOMAIN res.values = {KeyAt(text, j) : j \in PairLines(text)}
                  /\ \A j \in PairLines(text) : res.values[KeyAt(text, j)] = ParseValue(text[j].value)
<1> DEFINE n == Len(text)
<1>1. n \in Nat /\ PairLines(text) \subseteq 1 .. n /\ \A j \in PairLines(text) : j <= n /\ ~(j <= 0)
  BY DEF PairLines
<1>2. PICK after : /\ after[0] = [table |-> "", values |-> << >>, ln |-> 0, error |-> FALSE]
                   /\ \A i \in 1 .. n : after[i] = Read(after[i - 1], text[i])
                   /\ ParseToml(text) = after[n]
  BY <1>1, ReadLineByLine
<1> DEFINE S == {i \in 0 .. n : ReadSoFar(after[i], text, i)}
<1> HIDE DEF n
<1>3. 0 \in S
  <2>1. GoodUpTo(text, 0)
    BY <1>1 DEF GoodUpTo
  <2>2. TableOf(text, 0) = ""
    BY TableFollows DEF n
  <2>3. {KeyAt(text, j) : j \in {k \in PairLines(text) : k <= 0}} = DOMAIN << >>
    BY <1>1
  <2>4. ReadSoFar(after[0], text, 0)
    <3>1. PICK t, v, z, e : t = "" /\ v = << >> /\ z = 0 /\ e = FALSE
      OBVIOUS
    <3>2. after[0] = [table |-> t, values |-> v, ln |-> z, error |-> e]
      BY <1>2, <3>1
    <3>3. /\ after[0].table = t /\ after[0].values = v /\ after[0].error = e
          /\ IsReading(after[0])
      BY <3>2, ReadFields DEF IsReading
    <3> QED  BY <1>1, <2>1, <2>2, <2>3, <3>1, <3>3 DEF ReadSoFar
  <2> QED  BY <1>1, <2>4
<1>4. \A i \in 1 .. n : i - 1 \in S => i \in S
  <2> SUFFICES ASSUME NEW i \in 1 .. n, ReadSoFar(after[i - 1], text, i - 1)
               PROVE  i \in 0 .. n /\ ReadSoFar(after[i], text, i)
    OBVIOUS
  <2>1. after[i] = Read(after[i - 1], text[i])
    BY <1>2
  <2>2. i \in 1 .. Len(text) /\ i \in DOMAIN text /\ i \in 0 .. n
    BY <1>1 DEF n
  <2>3. text[i].kind \in {"blank", "header", "pair"}
    BY <2>2
  <2> QED  BY <1>1, <2>1, <2>2, <2>3, ReadStep
<1>5. ReadSoFar(after[n], text, n)
  <2>1. n \in 0 .. n
    BY <1>1
  <2>2. n \in S
    <3> HIDE DEF S
    <3> QED  BY <1>1, <1>3, <1>4, <2>1, Upwards
  <2> QED  BY <2>2
<1>6. {k \in PairLines(text) : k <= n} = PairLines(text)
  BY <1>1
<1>7. GoodUpTo(text, n) <=> /\ \A i \in DOMAIN text : GoodLine(text[i])
                            /\ \A i, j \in PairLines(text) : KeyAt(text, i) = KeyAt(text, j) => i = j
  BY <1>1 DEF GoodUpTo, n
<1> QED  BY <1>1, <1>2, <1>5, <1>6, <1>7 DEF ReadSoFar

-------------------------------------------------------------------------------
(* applyConfigFile() makes the settings of a good file.                    *)

\* The key of the file that sets a field.
KeyOf(f) ==
  CASE f \in {"udp_bind", "udp_port", "ws_bind", "ws_port"} -> <<"network", f>>
    [] f = "broadcast_hz" -> <<"broadcast", "hz">>
    [] f = "expiry_seconds" -> <<"state", f>>
    [] f = "log_file" -> <<"logging", "file">>
    [] f = "log_level" -> <<"logging", "level">>
    [] f = "log_stderr" -> <<"logging", "stderr">>
    [] f = "input_mode" -> <<"input", "mode">>
    [] OTHER -> <<"input", f>>

\* No two keys set the same field, and none sets what only the command line says.
LEMMA OneKeyPerField ==
  ASSUME NEW k \in DOMAIN FieldOfKey
  PROVE  k = KeyOf(FieldOfKey[k]) /\ FieldOfKey[k] \notin {"show_help", "config_file"}
<1>1. DOMAIN Keys = {"network", "broadcast", "state", "logging", "input"}
  BY DEF Keys
<1>2. PICK table \in DOMAIN Keys : \E f \in Keys[table] : k = <<table, f>>
  BY DEF FieldOfKey
<1>3. PICK f \in Keys[table] : k = <<table, f>>
  BY <1>2
<1>4. FieldOfKey[k] = IF f \in DOMAIN Renamed THEN Renamed[f] ELSE f
  BY <1>3 DEF FieldOfKey
<1>5. DOMAIN Renamed = {"hz", "file", "level", "stderr", "mode"}
  BY DEF Renamed
<1>6. CASE table = "network"
  <2>1. f \in {"udp_bind", "udp_port", "ws_bind", "ws_port"}
    BY <1>6 DEF Keys
  <2> QED  BY <1>3, <1>4, <1>5, <1>6, <2>1 DEF KeyOf
<1>7. CASE table = "broadcast"
  <2>1. f = "hz" /\ Renamed["hz"] = "broadcast_hz"
    BY <1>7 DEF Keys, Renamed
  <2> QED  BY <1>3, <1>4, <1>5, <1>7, <2>1 DEF KeyOf
<1>8. CASE table = "state"
  <2>1. f = "expiry_seconds"
    BY <1>8 DEF Keys
  <2> QED  BY <1>3, <1>4, <1>5, <1>8, <2>1 DEF KeyOf
<1>9. CASE table = "logging"
  <2>1. f \in {"file", "level", "stderr"}
    BY <1>9 DEF Keys
  <2>2. Renamed["file"] = "log_file" /\ Renamed["level"] = "log_level" /\ Renamed["stderr"] = "log_stderr"
    BY DEF Renamed
  <2> QED  BY <1>3, <1>4, <1>5, <1>9, <2>1, <2>2 DEF KeyOf
<1>10. CASE table = "input"
  <2>1. f \in {"mode", "dis_bind", "dis_port", "dis_exercise_id", "dis_satellite_entity_id",
               "olv2_bind", "olv2_port"}
    BY <1>10 DEF Keys
  <2>2. Renamed["mode"] = "input_mode"
    BY DEF Renamed
  <2> QED  BY <1>3, <1>4, <1>5, <1>10, <2>1, <2>2 DEF KeyOf
<1> QED  BY <1>1, <1>6, <1>7, <1>8, <1>9, <1>10

\* A result is an error or a configuration.
LEMMA Outcomes ==
  /\ Refused.refused /\ Refused.refused \in BOOLEAN
  /\ \A c : ~Accepted(c).refused /\ Accepted(c).refused \in BOOLEAN /\ Accepted(c).cfg = c
  BY DEF Refused, Accepted

\* A configuration has the fields of struct Config.
IsConfig(c) == DOMAIN c = DOMAIN Defaults

\* The lines of a file that set a field.
LinesOn(text, f) == {i \in PairLines(text) : FieldOfKey[KeyAt(text, i)] = f}

\* A field that had value v, once the file is read.
FromText(text, f, v) ==
  IF LinesOn(text, f) = {} THEN v ELSE AsField(ParseValue(text[Max(LinesOn(text, f))].value), f)

LEMMA FileApplied ==
  ASSUME NEW path, NEW base, IsConfig(base), NEW res, res = ApplyConfigFile(path, base)
  PROVE  /\ res.refused \in BOOLEAN
         /\ res.refused <=> ~(path \in DOMAIN Files /\ GoodFile(Files[path]))
         /\ ~res.refused =>
              /\ res = Accepted(res.cfg)
              /\ IsConfig(res.cfg)
              /\ \A f \in DOMAIN Defaults :
                   res.cfg[f] = FromText(Files[path], f, base[f])
<1> DEFINE text == Files[path]
           toml == ParseToml(text)
           Bads == \E k \in DOMAIN toml.values : ~KeyOk(k, toml.values[k])
<1>1. CASE path \notin DOMAIN Files
  BY <1>1, Outcomes DEF ApplyConfigFile
<1>2. CASE path \in DOMAIN Files
  <2>1. res = ApplyValues(toml, base)
    BY <1>2 DEF ApplyConfigFile
  <2>2. /\ Len(text) \in Nat /\ DOMAIN text = 1 .. Len(text)
        /\ \A i \in DOMAIN text : text[i].kind \in {"blank", "header", "pair"}
        /\ \A i \in PairLines(text) : i \in Int
    <3>1. /\ Len(text) \in Nat /\ DOMAIN text = 1 .. Len(text)
          /\ \A i \in DOMAIN text : text[i].kind \in {"blank", "header", "pair"}
      BY <1>2, ConfigAssumption, Zenon
    <3> HIDE DEF text
    <3> QED  BY <3>1 DEF PairLines
  <2> HIDE DEF text
  <2>3. /\ toml.error \in BOOLEAN
        /\ toml.error <=> ~ /\ \A i \in DOMAIN text : GoodLine(text[i])
                            /\ \A i, j \in PairLines(text) : KeyAt(text, i) = KeyAt(text, j) => i = j
        /\ ~toml.error =>
             /\ DOMAIN toml.values = {KeyAt(text, j) : j \in PairLines(text)}
             /\ \A j \in PairLines(text) : toml.values[KeyAt(text, j)] = ParseValue(text[j].value)
    BY <2>2, TomlRead
  <2> HIDE DEF toml
  <2>4. ~toml.error =>
          (Bads <=> ~ \A i \in PairLines(text) : KeyOk(KeyAt(text, i), ParseValue(text[i].value)))
    BY <2>3
  <2>5. toml.error \/ Bads <=> ~GoodFile(text)
    BY <2>3, <2>4 DEF GoodFile
  <2>6. CASE toml.error \/ Bads
    <3>1. res = Refused
      BY <2>1, <2>6 DEF ApplyValues
    <3> QED  BY <1>2, <2>5, <2>6, <3>1, Outcomes DEF text
  <2>7. CASE ~toml.error /\ ~Bads
    <3> DEFINE Sets(f, k) == k \in DOMAIN toml.values /\ FieldOfKey[k] = f
               made == [f \in DOMAIN base |->
                          IF \E k \in DOMAIN toml.values : FieldOfKey[k] = f
                          THEN AsField(toml.values[CHOOSE k \in DOMAIN toml.values : FieldOfKey[k] = f], f)
                          ELSE base[f]]
    <3>1. res = Accepted(made)
      BY <2>1, <2>7 DEF ApplyValues
    <3>2. \A k \in DOMAIN toml.values : k \in DOMAIN FieldOfKey
      BY <2>7 DEF KeyOk
    <3>3. ASSUME NEW f \in DOMAIN base
          PROVE  made[f] = FromText(text, f, base[f])
      <4>1. CASE LinesOn(text, f) = {}
        <5>1. ~ \E k \in DOMAIN toml.values : FieldOfKey[k] = f
          BY <2>3, <2>7, <4>1 DEF LinesOn
        <5> QED  BY <4>1, <5>1 DEF FromText
      <4>2. ASSUME NEW i \in LinesOn(text, f) PROVE made[f] = AsField(ParseValue(text[i].value), f) /\ Max(LinesOn(text, f)) = i
        <5>1. i \in PairLines(text) /\ KeyAt(text, i) \in DOMAIN toml.values /\ FieldOfKey[KeyAt(text, i)] = f
          BY <2>3, <2>7 DEF LinesOn
        <5>2. \A k \in DOMAIN toml.values : FieldOfKey[k] = f => k = KeyAt(text, i)
          BY <3>2, <5>1, OneKeyPerField
        <5>3. made[f] = AsField(toml.values[KeyAt(text, i)], f)
          <6>1. (CHOOSE k \in DOMAIN toml.values : FieldOfKey[k] = f) = KeyAt(text, i)
            BY <5>1, <5>2
          <6> QED  BY <5>1, <6>1
        <5>4. \A j \in LinesOn(text, f) : j = i
          <6> SUFFICES ASSUME NEW j \in LinesOn(text, f) PROVE j = i
            OBVIOUS
          <6>1. j \in PairLines(text) /\ KeyAt(text, j) \in DOMAIN toml.values /\ FieldOfKey[KeyAt(text, j)] = f
            BY <2>3, <2>7 DEF LinesOn
          <6> QED  BY <2>3, <2>7, <5>1, <5>2, <6>1
        <5>5. Max(LinesOn(text, f)) = i
          BY <2>2, <5>1, <5>4, MaxIs
        <5> QED  BY <2>3, <2>7, <5>1, <5>3, <5>5
      <4> HIDE DEF made
      <4> QED  BY <4>1, <4>2 DEF FromText
    <3>4. DOMAIN base = DOMAIN Defaults /\ IsConfig(made)
      <4>1. DOMAIN base = DOMAIN Defaults
        BY DEF IsConfig
      <4> QED  BY <4>1 DEF IsConfig
    <3> HIDE DEF made
    <3>5. ~res.refused /\ res.cfg = made /\ res.refused \in BOOLEAN
      BY <3>1, Outcomes
    <3> QED  BY <1>2, <2>5, <2>7, <3>1, <3>3, <3>4, <3>5 DEF text
  <2> QED  BY <2>6, <2>7
<1> QED  BY <1>1, <1>2

-------------------------------------------------------------------------------
(* Pass 2 takes the flags that count.                                      *)

\* The words that are flags with a value, and the fields that flags set.
LEMMA FlagNames ==
  /\ \A w : w \in Switches \cup {"--config"} => w \notin DOMAIN FieldOfFlag
  /\ \A w \in DOMAIN FieldOfFlag :
       FieldOfFlag[w] \in DOMAIN Defaults \ {"show_help", "config_file", "log_stderr"}
<1>1. DOMAIN FieldOfFlag = {f[1] : f \in Flags}
  BY DEF FieldOfFlag
<1>2. \A f \in Flags : f[1] \notin Switches \cup {"--config"}
  BY DEF Flags, Switches
<1>3. \A f \in Flags : f[2] \in DOMAIN Defaults \ {"show_help", "config_file", "log_stderr"}
  BY DEF Flags, Defaults
<1>4. ASSUME NEW w \in DOMAIN FieldOfFlag
      PROVE  \E f \in Flags : FieldOfFlag[w] = f[2]
  <2>1. \E f \in Flags : f[1] = w
    BY <1>1
  <2>2. FieldOfFlag[w] = (CHOOSE f \in Flags : f[1] = w)[2]
    BY <1>1 DEF FieldOfFlag
  <2>3. (CHOOSE f \in Flags : f[1] = w) \in Flags
    BY <2>1
  <2> QED  BY <2>2, <2>3
<1> QED  BY <1>1, <1>2, <1>3, <1>4

\* What --quiet makes of log_stderr.
Off == FALSE

\* A state of pass 2.
IsTaking(st) ==
  /\ st = [cfg |-> st.cfg, flag |-> st.flag, bad |-> st.bad]
  /\ IsConfig(st.cfg)
  /\ st.bad \in BOOLEAN
  /\ st.cfg["show_help"] \in BOOLEAN

LEMMA TakeFields ==
  ASSUME NEW r, NEW c, NEW g, NEW b, r = [cfg |-> c, flag |-> g, bad |-> b]
  PROVE  /\ r.cfg = c /\ r.flag = g /\ r.bad = b
         /\ r = [cfg |-> r.cfg, flag |-> r.flag, bad |-> r.bad]
         /\ \A x : /\ [r EXCEPT !.flag = x] = [cfg |-> c, flag |-> x, bad |-> b]
                  /\ [r EXCEPT !.bad = x] = [cfg |-> c, flag |-> g, bad |-> x]
                  /\ [r EXCEPT !.cfg = x] = [cfg |-> x, flag |-> g, bad |-> b]
  OBVIOUS

\* One field of the configuration gets a value.
LEMMA FieldSet ==
  ASSUME NEW c, IsConfig(c), NEW field \in DOMAIN Defaults, NEW v,
         NEW new, new = [c EXCEPT ![field] = v]
  PROVE  /\ IsConfig(new)
         /\ \A f \in DOMAIN Defaults : new[f] = IF f = field THEN v ELSE c[f]
  BY DEF IsConfig

\* One word, as it changes what was taken.
LEMMA TakeOne ==
  ASSUME NEW st, IsTaking(st), NEW w, w # None
  PROVE  \A new :
           new = TakeWord(st, w) =>
             /\ IsTaking(new)
             /\ st.bad \/ st.cfg["show_help"] => new = st
             /\ ~st.bad /\ ~st.cfg["show_help"] =>
                  /\ st.flag = "--config" => ~new.bad /\ new.flag = None /\ new.cfg = st.cfg
                  /\ st.flag \notin {None, "--config"} /\ FlagOk(st.flag, w) =>
                       /\ ~new.bad /\ new.flag = None
                       /\ \A f \in DOMAIN Defaults :
                            new.cfg[f] = IF f = FieldOfFlag[st.flag] THEN FlagValue(st.flag, w)
                                         ELSE st.cfg[f]
                  /\ st.flag \notin {None, "--config"} /\ ~FlagOk(st.flag, w) => new.bad
                  /\ st.flag = None /\ w \in {"--help", "-h"} =>
                       /\ ~new.bad /\ new.flag = None /\ new.cfg["show_help"]
                       /\ \A f \in DOMAIN Defaults : f # "show_help" => new.cfg[f] = st.cfg[f]
                  /\ st.flag = None /\ w = "--quiet" =>
                       /\ ~new.bad /\ new.flag = None
                       /\ new.cfg["log_stderr"] = Off
                       /\ \A f \in DOMAIN Defaults : f # "log_stderr" => new.cfg[f] = st.cfg[f]
                  /\ st.flag = None /\ w \notin Switches =>
                       ~new.bad /\ new.flag = w /\ new.cfg = st.cfg
<1>a. TAKE new
<1>b. HAVE new = TakeWord(st, w)
<1>1. PICK c, g, b : st = [cfg |-> c, flag |-> g, bad |-> b]
  BY Zenon DEF IsTaking
<1>2. /\ st.cfg = c /\ st.flag = g /\ st.bad = b /\ b \in BOOLEAN
      /\ IsConfig(c) /\ c["show_help"] \in BOOLEAN
  BY <1>1 DEF IsTaking
<1>3. {"show_help", "log_stderr"} \subseteq DOMAIN Defaults
  BY DEF Defaults
<1>4. "--config" # None
  BY ConfigAssumption
<1> DEFINE on == ~b /\ ~c["show_help"]
<1>5. CASE ~on
  <2>1. new = st
    BY <1>b, <1>2, <1>5 DEF TakeWord
  <2> QED  BY <1>2, <1>5, <2>1
<1>6. CASE on /\ g = "--config"
  <2>1. new = [st EXCEPT !.flag = None]
    BY <1>b, <1>2, <1>6 DEF TakeWord
  <2>2. new = [cfg |-> c, flag |-> None, bad |-> b]
    BY <1>1, <2>1, TakeFields
  <2>3. new.cfg = c /\ new.flag = None /\ new.bad = b /\ IsTaking(new)
    BY <1>2, <2>2, TakeFields DEF IsTaking
  <2> QED  BY <1>2, <1>4, <1>6, <2>3
<1>7. CASE on /\ g \notin {None, "--config"} /\ FlagOk(g, w)
  <2> DEFINE field == FieldOfFlag[g]
             value == FlagValue(g, w)
             next == [c EXCEPT ![field] = value]
  <2>1. new = [[st EXCEPT !.flag = None] EXCEPT !.cfg = next]
    <3>1. new = [st EXCEPT !.flag = None, !.cfg[field] = value]
      BY <1>b, <1>2, <1>7 DEF TakeWord
    <3> HIDE DEF field, value
    <3>2. [st EXCEPT !.flag = None].cfg = c
      BY <1>1
    <3> QED  BY <3>1, <3>2
  <2>2. field \in DOMAIN Defaults \ {"show_help", "config_file", "log_stderr"}
    BY <1>7, FlagNames DEF FlagOk
  <2> HIDE DEF field, value
  <2>3. IsConfig(next)
        /\ \A f \in DOMAIN Defaults : next[f] = IF f = field THEN value ELSE c[f]
    BY <1>2, <2>2, FieldSet
  <2> HIDE DEF next
  <2>4. new = [cfg |-> next, flag |-> None, bad |-> b]
    BY <1>1, <2>1, TakeFields
  <2>5. new.cfg = next /\ new.flag = None /\ new.bad = b
        /\ new = [cfg |-> new.cfg, flag |-> new.flag, bad |-> new.bad]
    BY <2>4, TakeFields
  <2>6. next["show_help"] = c["show_help"]
    BY <1>3, <2>2, <2>3
  <2>7. IsTaking(new)
    BY <1>2, <2>3, <2>5, <2>6 DEF IsTaking
  <2> QED  BY <1>2, <1>7, <2>3, <2>5, <2>7 DEF field, value
<1>8. CASE on /\ g \notin {None, "--config"} /\ ~FlagOk(g, w)
  <2>1. new = [st EXCEPT !.bad = TRUE]
    BY <1>b, <1>2, <1>8 DEF TakeWord
  <2>2. PICK y : y = TRUE
    OBVIOUS
  <2>3. new = [cfg |-> c, flag |-> g, bad |-> y]
    BY <1>1, <2>1, <2>2, TakeFields
  <2>4. new.cfg = c /\ new.flag = g /\ new.bad = y /\ IsTaking(new)
    BY <1>2, <2>2, <2>3, TakeFields DEF IsTaking
  <2> QED  BY <1>2, <1>8, <2>2, <2>4
<1>9. CASE on /\ g = None /\ w \in {"--help", "-h"}
  <2>1. PICK y : y = TRUE
    OBVIOUS
  <2> DEFINE next == [c EXCEPT !["show_help"] = y]
  <2>2. new = [st EXCEPT !.cfg = next]
    BY <1>b, <1>2, <1>4, <1>9, <2>1 DEF TakeWord
  <2>3. IsConfig(next)
        /\ \A f \in DOMAIN Defaults : next[f] = IF f = "show_help" THEN y ELSE c[f]
    BY <1>2, <1>3, FieldSet
  <2> HIDE DEF next
  <2>4. new = [cfg |-> next, flag |-> g, bad |-> b]
    BY <1>1, <2>2, TakeFields
  <2>5. new.cfg = next /\ new.flag = g /\ new.bad = b
        /\ new = [cfg |-> new.cfg, flag |-> new.flag, bad |-> new.bad]
    BY <2>4, TakeFields
  <2>6. next["show_help"] = y /\ \A f \in DOMAIN Defaults : f # "show_help" => next[f] = c[f]
    BY <1>3, <2>3
  <2>7. IsTaking(new)
    BY <1>2, <2>1, <2>3, <2>5, <2>6 DEF IsTaking
  <2>8. w # "--quiet" /\ w \in Switches
    BY <1>9 DEF Switches
  <2> QED  BY <1>2, <1>4, <1>9, <2>1, <2>5, <2>6, <2>7, <2>8
<1>10. CASE on /\ g = None /\ w = "--quiet"
  <2>1. PICK y : y = FALSE /\ y = Off
    BY DEF Off
  <2> DEFINE next == [c EXCEPT !["log_stderr"] = y]
  <2>2. new = [st EXCEPT !.cfg = next]
    BY <1>b, <1>2, <1>4, <1>10, <2>1 DEF TakeWord
  <2>3. IsConfig(next)
        /\ \A f \in DOMAIN Defaults : next[f] = IF f = "log_stderr" THEN y ELSE c[f]
    BY <1>2, <1>3, FieldSet
  <2> HIDE DEF next
  <2>4. new = [cfg |-> next, flag |-> g, bad |-> b]
    BY <1>1, <2>2, TakeFields
  <2>5. new.cfg = next /\ new.flag = g /\ new.bad = b
        /\ new = [cfg |-> new.cfg, flag |-> new.flag, bad |-> new.bad]
    BY <2>4, TakeFields
  <2>6. /\ next["show_help"] = c["show_help"] /\ next["log_stderr"] = y
        /\ \A f \in DOMAIN Defaults : f # "log_stderr" => next[f] = c[f]
    BY <1>3, <2>3
  <2>7. IsTaking(new)
    BY <1>2, <2>3, <2>5, <2>6 DEF IsTaking
  <2>8. w \notin {"--help", "-h"} /\ w \in Switches
    BY <1>10 DEF Switches
  <2> QED  BY <1>2, <1>4, <1>10, <2>1, <2>5, <2>6, <2>7, <2>8
<1>11. CASE on /\ g = None /\ w \notin Switches
  <2>1. w \notin {"--help", "-h", "--quiet"}
    BY <1>11 DEF Switches
  <2>2. new = [st EXCEPT !.flag = w]
    BY <1>b, <1>2, <1>4, <1>11, <2>1 DEF TakeWord
  <2>3. new = [cfg |-> c, flag |-> w, bad |-> b]
    BY <1>1, <2>2, TakeFields
  <2>4. new.cfg = c /\ new.flag = w /\ new.bad = b /\ IsTaking(new)
    BY <1>2, <2>3, TakeFields DEF IsTaking
  <2> QED  BY <1>2, <1>4, <1>11, <2>1, <2>4
<1>12. w \in Switches <=> w \in {"--help", "-h"} \/ w = "--quiet"
  BY DEF Switches
<1> QED  BY <1>5, <1>6, <1>7, <1>8, <1>9, <1>10, <1>11, <1>12

\* The flags that count and set a field; and one that counts and has no good value.
FlagsOn(words, f) ==
  {p \in Counting(words) : words[p] \in DOMAIN FieldOfFlag /\ FieldOfFlag[words[p]] = f}
BadFlag(words, p) ==
  /\ p \in Counting(words)
  /\ words[p] \notin Switches \cup {"--config"}
  /\ ~FlagOk(words[p], words[p + 1])
QuietUpTo(words, i) == \E p \in Counting(words) : p <= i /\ words[p] = "--quiet"
FlagsOnBefore(words, f, i) == {p \in FlagsOn(words, f) : p < i}

\* What the first i words make of a field, and what pass 2 knows after them.
Made(words, base, f, i) ==
  LET flags == FlagsOnBefore(words, f, i)
  IN  IF f = "log_stderr" /\ QuietUpTo(words, i) THEN Off
      ELSE IF flags # {} THEN FlagValue(words[Max(flags)], words[Max(flags) + 1])
      ELSE base[f]
Taken(st, words, base, i) ==
  /\ IsTaking(st)
  /\ st.bad <=> \E p \in Counting(words) : p < i /\ BadFlag(words, p)
  /\ ~st.bad =>
       /\ st.cfg["show_help"] <=> \E h \in HelpPositions(words) : h <= i
       /\ st.cfg["show_help"] => st.flag = None
       /\ ~st.cfg["show_help"] =>
            st.flag = IF i \in FlagPositions(words) /\ words[i] \notin Switches THEN words[i] ELSE None
       /\ \A f \in DOMAIN Defaults \ {"show_help"} : st.cfg[f] = Made(words, base, f, i)

\* How the positions that count stand to each other.
LEMMA Positions ==
  ASSUME NEW words \in Seq(STRING)
  PROVE  /\ FlagPositions(words) \subseteq 1 .. Len(words)
         /\ \A p \in HelpPositions(words) : p \in FlagPositions(words) /\ words[p] \in {"--help", "-h"}
         /\ \A p \in FlagPositions(words) : words[p] \in {"--help", "-h"} => p \in HelpPositions(words)
         /\ \A p \in Counting(words) : p \in FlagPositions(words) /\ \A h \in HelpPositions(words) : p < h
         /\ \A p \in FlagPositions(words) : (\A h \in HelpPositions(words) : p < h) => p \in Counting(words)
         /\ \A p \in FlagPositions(words) \cup HelpPositions(words) \cup Counting(words) :
              p \in 1 .. Len(words) /\ p \in Int
  BY FlagsFollow DEF HelpPositions, Counting

\* A word that is not the value of a flag on f leaves f as it was.
LEMMA MadeStays ==
  ASSUME NEW words \in Seq(STRING), NEW base, NEW f, NEW i \in 1 .. Len(words),
         i - 1 \notin FlagsOn(words, f),
         f = "log_stderr" /\ i \in Counting(words) => words[i] # "--quiet"
  PROVE  Made(words, base, f, i) = Made(words, base, f, i - 1)
<1>1. \A p \in Counting(words) : p \in Int
  BY Positions
<1>2. FlagsOnBefore(words, f, i) = FlagsOnBefore(words, f, i - 1)
  <2>1. \A p \in FlagsOn(words, f) : p < i <=> p < i - 1
    BY <1>1 DEF FlagsOn
  <2> QED  BY <2>1 DEF FlagsOnBefore
<1>3. f = "log_stderr" => (QuietUpTo(words, i) <=> QuietUpTo(words, i - 1))
  <2>1. \A p \in Counting(words) : p <= i <=> p <= i - 1 \/ p = i
    BY <1>1
  <2> QED  BY <2>1 DEF QuietUpTo
<1> QED  BY <1>2, <1>3 DEF Made

\* Behind the first --help nothing counts.
LEMMA TakeStays ==
  ASSUME NEW words \in Seq(STRING), NEW base, NEW i \in 1 .. Len(words), NEW st,
         Taken(st, words, base, i - 1), st.bad \/ st.cfg["show_help"]
  PROVE  Taken(st, words, base, i)
<1>1. CASE st.bad
  <2>1. \A p \in Counting(words) : p < i - 1 => p < i
    BY Positions
  <2> QED  BY <1>1, <2>1 DEF Taken
<1>2. CASE ~st.bad /\ st.cfg["show_help"]
  <2>1. PICK h \in HelpPositions(words) : h <= i - 1
    BY <1>2 DEF Taken
  <2>2. h \in Int /\ h <= i
    BY <2>1, Positions
  <2>3. \A p \in Counting(words) : p < h /\ p < i - 1 /\ p < i /\ p # i /\ p # i - 1
    <3>1. \A p \in Counting(words) : p < h /\ p \in Int
      BY Positions
    <3> QED  BY <2>1, <2>2, <3>1
  <2>4. \A f : i - 1 \notin FlagsOn(words, f) /\ i \notin Counting(words)
    BY <2>3 DEF FlagsOn
  <2>5. \A f : Made(words, base, f, i) = Made(words, base, f, i - 1)
    BY <2>4, MadeStays
  <2> QED  BY <1>2, <2>2, <2>3, <2>5 DEF Taken
<1> QED  BY <1>1, <1>2 DEF Taken, IsTaking

LEMMA TakeStep ==
  ASSUME NEW words \in Seq(STRING), NEW base, NEW i \in 1 .. Len(words), NEW st,
         Taken(st, words, base, i - 1)
  PROVE  Taken(TakeWord(st, words[i]), words, base, i)
<1>0. IsTaking(st) /\ st.bad \in BOOLEAN /\ st.cfg["show_help"] \in BOOLEAN
  BY DEF Taken, IsTaking
<1>1. PICK new : new = TakeWord(st, words[i])
  OBVIOUS
<1>2. words[i] # None /\ (i # 1 => words[i - 1] # None)
  <2>1. words[i] \in STRING /\ (i # 1 => words[i - 1] \in STRING)
    <3>1. i # 1 => i - 1 \in 1 .. Len(words)
      OBVIOUS
    <3> QED  BY <3>1
  <2> QED  BY <2>1, ConfigAssumption
<1>3. CASE st.bad \/ st.cfg["show_help"]
  <2>1. new = st
    BY <1>1, <1>3 DEF TakeWord
  <2> QED  BY <1>1, <1>3, <2>1, TakeStays
<1>4. CASE ~st.bad /\ ~st.cfg["show_help"]
  <2> DEFINE F == FlagPositions(words)
             H == HelpPositions(words)
             C == Counting(words)
             valued == i - 1 \in F /\ words[i - 1] \notin Switches
             w == words[i]
             before == words[i - 1]
  <2>1. /\ \A p \in C : p < i - 1 => ~BadFlag(words, p)
        /\ \A h \in H : ~(h <= i - 1)
        /\ st.flag = IF valued THEN before ELSE None
        /\ \A f \in DOMAIN Defaults \ {"show_help"} : st.cfg[f] = Made(words, base, f, i - 1)
    BY <1>4 DEF Taken
  <2>2. i \in F <=> ~valued
    BY FlagsFollow
  <2>3. \A p \in F \cup H \cup C : p \in Int /\ (p < i <=> p < i - 1 \/ p = i - 1) /\ (p <= i <=> p <= i - 1 \/ p = i)
    BY Positions
  <2>4. /\ \A h \in H : i <= h
        /\ (\E h \in H : h <= i) <=> i \in H
        /\ i \in H <=> i \in F /\ w \in {"--help", "-h"}
        /\ i \in C <=> i \in F /\ w \notin {"--help", "-h"}
        /\ valued => i - 1 \in C
    <3>1. \A h \in H : i <= h /\ (h <= i => h = i)
      BY <2>1, <2>3
    <3>2. i \in H <=> i \in F /\ w \in {"--help", "-h"}
      BY Positions
    <3>3. i \in C => i \notin H
      <4>1. ~(i < i)
        OBVIOUS
      <4> QED  BY <4>1, Positions
    <3>4. i \in F /\ i \notin H => i \in C
      <4>1. i \notin H => \A h \in H : i < h
        BY <2>3, <3>1
      <4> QED  BY <4>1, Positions
    <3>5. valued => i - 1 \in C
      <4>1. \A h \in H : i - 1 < h
        BY <2>3, <3>1
      <4> QED  BY <4>1, Positions
    <3>6. i \in C => i \in F
      BY Positions
    <3> QED  BY <2>3, <3>1, <3>2, <3>3, <3>4, <3>5, <3>6
  <2>5. /\ IsTaking(new)
        /\ st.flag = "--config" => ~new.bad /\ new.flag = None /\ new.cfg = st.cfg
        /\ st.flag \notin {None, "--config"} /\ FlagOk(st.flag, w) =>
             /\ ~new.bad /\ new.flag = None
             /\ \A f \in DOMAIN Defaults :
                  new.cfg[f] = IF f = FieldOfFlag[st.flag] THEN FlagValue(st.flag, w) ELSE st.cfg[f]
        /\ st.flag \notin {None, "--config"} /\ ~FlagOk(st.flag, w) => new.bad
        /\ st.flag = None /\ w \in {"--help", "-h"} =>
             /\ ~new.bad /\ new.flag = None /\ new.cfg["show_help"]
             /\ \A f \in DOMAIN Defaults : f # "show_help" => new.cfg[f] = st.cfg[f]
        /\ st.flag = None /\ w = "--quiet" =>
             /\ ~new.bad /\ new.flag = None
             /\ new.cfg["log_stderr"] = Off
             /\ \A f \in DOMAIN Defaults : f # "log_stderr" => new.cfg[f] = st.cfg[f]
        /\ st.flag = None /\ w \notin Switches => ~new.bad /\ new.flag = w /\ new.cfg = st.cfg
    <3>1. w # None /\ new = TakeWord(st, w)
      BY <1>1, <1>2
    <3> HIDE DEF w
    <3> QED  BY <1>0, <1>4, <3>1, TakeOne
  <2> HIDE DEF F, H, C, w, before
  <2>6. CASE ~valued
    <3>1. st.flag = None /\ i \in F
      BY <2>1, <2>2, <2>6
    <3>2. \A f : i - 1 \notin FlagsOn(words, f) /\ ~BadFlag(words, i - 1)
      BY <2>6, FlagNames, Positions DEF FlagsOn, BadFlag, F
    <3>3. \A p \in C : p < i => ~BadFlag(words, p)
      BY <2>1, <2>3, <3>2
    <3>4. CASE w \in {"--help", "-h"}
      <4>1. i \in H /\ i \notin C
        BY <2>4, <3>1, <3>4
      <4>2. \A f : Made(words, base, f, i) = Made(words, base, f, i - 1)
        BY <3>2, <4>1, MadeStays DEF C
      <4> QED  BY <1>1, <2>1, <2>4, <2>5, <3>1, <3>3, <3>4, <4>1, <4>2 DEF Taken, C, H
    <3>5. CASE w = "--quiet"
      <4>1. i \notin H /\ i \in C
        BY <2>4, <3>1, <3>5
      <4>2. \A f : f # "log_stderr" => Made(words, base, f, i) = Made(words, base, f, i - 1)
        BY <3>2, MadeStays
      <4>3. QuietUpTo(words, i)
        BY <3>5, <4>1 DEF QuietUpTo, C, w
      <4>4. Made(words, base, "log_stderr", i) = Off
        BY <4>3 DEF Made
      <4>5. w \in Switches
        BY <3>5 DEF Switches
      <4>6. \A f \in DOMAIN Defaults \ {"show_help"} : new.cfg[f] = Made(words, base, f, i)
        <5>1. new.cfg["log_stderr"] = Made(words, base, "log_stderr", i)
          BY <2>5, <3>1, <3>5, <4>4
        <5>2. \A f \in DOMAIN Defaults : f # "log_stderr" => new.cfg[f] = st.cfg[f]
          BY <2>5, <3>1, <3>5
        <5> QED  BY <2>1, <4>2, <5>1, <5>2
      <4>7. new.cfg["show_help"] = st.cfg["show_help"]
        <5>1. "show_help" \in DOMAIN Defaults
          BY DEF Defaults
        <5> QED  BY <2>5, <3>1, <3>5, <5>1
      <4> QED  BY <1>1, <1>4, <2>4, <2>5, <3>1, <3>3, <3>5, <4>1, <4>5, <4>6, <4>7 DEF Taken, C, H, F, w
    <3>6. CASE w \notin Switches
      <4>1. w \notin {"--help", "-h", "--quiet"}
        BY <3>6 DEF Switches
      <4>2. i \notin H
        BY <2>4, <4>1
      <4>3. \A f : Made(words, base, f, i) = Made(words, base, f, i - 1)
        BY <3>2, <4>1, MadeStays DEF w
      <4> QED  BY <1>1, <1>4, <2>1, <2>4, <2>5, <3>1, <3>3, <3>6, <4>2, <4>3 DEF Taken, C, H, F, w
    <3> QED  BY <3>4, <3>5, <3>6 DEF Switches
  <2>7. CASE valued
    <3>1. /\ i \notin F /\ i \notin H /\ i \notin C /\ i - 1 \in C
          /\ i # 1 /\ before # None /\ before \notin Switches /\ st.flag = before
          /\ (i - 1) + 1 = i
      <4>1. i # 1
        BY <2>3, <2>7, Positions DEF F
      <4> QED  BY <1>2, <2>1, <2>2, <2>4, <2>7, <4>1, Positions DEF F, before
    <3>2. ~(\E h \in H : h <= i)
      BY <2>4, <3>1
    <3>3. CASE before = "--config"
      <4>1. \A f : i - 1 \notin FlagsOn(words, f) /\ ~BadFlag(words, i - 1)
        BY <3>3, FlagNames DEF FlagsOn, BadFlag, before
      <4>2. \A f : Made(words, base, f, i) = Made(words, base, f, i - 1)
        BY <3>1, <4>1, MadeStays DEF C
      <4>3. \A p \in C : p < i => ~BadFlag(words, p)
        BY <2>1, <2>3, <4>1
      <4> QED  BY <1>1, <1>4, <2>1, <2>5, <3>1, <3>2, <3>3, <4>2, <4>3 DEF Taken, C, H, F, w
    <3>4. CASE before # "--config" /\ ~FlagOk(before, w)
      <4>1. new.bad
        BY <2>5, <3>1, <3>4
      <4>2. BadFlag(words, i - 1)
        BY <3>1, <3>4 DEF BadFlag, before, w, C
      <4>3. i - 1 < i
        OBVIOUS
      <4> QED  BY <1>1, <2>5, <3>1, <4>1, <4>2, <4>3 DEF Taken, C
    <3>5. CASE before # "--config" /\ FlagOk(before, w)
      <4> DEFINE field == FieldOfFlag[before]
      <4>1. /\ ~new.bad /\ new.flag = None
            /\ \A f \in DOMAIN Defaults :
                 new.cfg[f] = IF f = field THEN FlagValue(before, w) ELSE st.cfg[f]
        BY <2>5, <3>1, <3>5
      <4>2. before \in DOMAIN FieldOfFlag
            /\ field \in DOMAIN Defaults \ {"show_help", "config_file", "log_stderr"}
        BY <3>5, FlagNames DEF FlagOk
      <4>3. ~BadFlag(words, i - 1)
        BY <3>1, <3>5 DEF BadFlag, before, w
      <4>4. \A p \in C : p < i => ~BadFlag(words, p)
        BY <2>1, <2>3, <4>3
      <4> HIDE DEF field
      <4>5. \A f : f # field => Made(words, base, f, i) = Made(words, base, f, i - 1)
        <5>1. \A f : f # field => i - 1 \notin FlagsOn(words, f)
          BY DEF FlagsOn, field, before
        <5> QED  BY <3>1, <5>1, MadeStays DEF C
      <4>6. Made(words, base, field, i) = FlagValue(before, w)
        <5> DEFINE S == FlagsOnBefore(words, field, i)
        <5>1. i - 1 \in S
          <6>1. i - 1 < i
            OBVIOUS
          <6> QED  BY <3>1, <4>2, <6>1 DEF FlagsOnBefore, FlagsOn, field, before, C
        <5>2. i - 1 \in Int /\ \A y \in S : y \in Int /\ y <= i - 1
          <6>1. \A y \in S : y \in C /\ y < i
            BY DEF FlagsOnBefore, FlagsOn, C
          <6> QED  BY <2>3, <6>1
        <5>3. Max(S) = i - 1
          <6> HIDE DEF S
          <6> QED  BY <5>1, <5>2, MaxIs
        <5> QED  BY <3>1, <4>2, <5>1, <5>3 DEF Made, before, w
      <4>7. \A f \in DOMAIN Defaults \ {"show_help"} : new.cfg[f] = Made(words, base, f, i)
        BY <2>1, <4>1, <4>5, <4>6
      <4>8. new.cfg["show_help"] = st.cfg["show_help"]
        <5>1. "show_help" \in DOMAIN Defaults
          BY DEF Defaults
        <5> QED  BY <4>1, <4>2, <5>1
      <4> QED  BY <1>1, <1>4, <2>5, <3>1, <3>2, <4>1, <4>4, <4>7, <4>8 DEF Taken, C, H, F, w
    <3> QED  BY <3>3, <3>4, <3>5
  <2> QED  BY <2>6, <2>7
<1> QED  BY <1>0, <1>3, <1>4

\* Pass 2 fails exactly if a flag that counts has no good value; else every
\* field is what the flags make of it.
LEMMA FlagsApplied ==
  ASSUME NEW words \in Seq(STRING), NEW base, IsConfig(base),
         base["show_help"] \in BOOLEAN, ~base["show_help"],
         NEW res, res = ApplyFlags(words, base)
  PROVE  /\ res.refused \in BOOLEAN
         /\ res.refused <=>
              ~ \A p \in Counting(words) :
                  \/ words[p] \in Switches \cup {"--config"}
                  \/ p < Len(words) /\ FlagOk(words[p], words[p + 1])
         /\ ~res.refused =>
              /\ res = Accepted(res.cfg)
              /\ IsConfig(res.cfg)
              /\ res.cfg["show_help"] \in BOOLEAN
              /\ res.cfg["show_help"] <=> HelpPositions(words) # {}
              /\ \A f \in DOMAIN Defaults \ {"show_help"} :
                   res.cfg[f] = Made(words, base, f, Len(words))
<1> DEFINE n == Len(words)
<1>1. n \in Nat /\ n \in 0 .. n
  OBVIOUS
<1>2. PICK after : /\ after[0] = [cfg |-> base, flag |-> None, bad |-> FALSE]
                   /\ \A i \in 1 .. n : after[i] = TakeWord(after[i - 1], words[i])
                   /\ ApplyFlags(words, base) = FlagsResult(after[n])
  BY <1>1, TakeWordByWord
<1> HIDE DEF n
<1> DEFINE S == {i \in 0 .. n : Taken(after[i], words, base, i)}
<1>3. 0 \in S
  <2>1. PICK y : y = FALSE
    OBVIOUS
  <2>2. after[0] = [cfg |-> base, flag |-> None, bad |-> y]
    BY <1>2, <2>1
  <2>3. after[0].cfg = base /\ after[0].flag = None /\ after[0].bad = y /\ IsTaking(after[0])
    <3>1. /\ after[0].cfg = base /\ after[0].flag = None /\ after[0].bad = y
          /\ after[0] = [cfg |-> after[0].cfg, flag |-> after[0].flag, bad |-> after[0].bad]
      BY <2>2, TakeFields
    <3>2. PICK a : a = after[0]
      OBVIOUS
    <3> QED  BY <2>1, <3>1, <3>2 DEF IsTaking
  <2>4. \A p \in FlagPositions(words) \cup HelpPositions(words) \cup Counting(words) :
          ~(p < 0) /\ ~(p <= 0) /\ p # 0
    <3>1. \A p \in 1 .. Len(words) : ~(p < 0) /\ ~(p <= 0) /\ p # 0
      OBVIOUS
    <3> QED  BY <3>1, Positions
  <2>5. \A f : Made(words, base, f, 0) = base[f]
    <3>1. \A f : FlagsOnBefore(words, f, 0) = {} /\ ~QuietUpTo(words, 0)
      BY <2>4 DEF FlagsOnBefore, FlagsOn, QuietUpTo
    <3> QED  BY <3>1 DEF Made
  <2>6. Taken(after[0], words, base, 0)
    BY <2>1, <2>3, <2>4, <2>5 DEF Taken
  <2> QED  BY <1>1, <2>6
<1>4. \A i \in 1 .. n : i - 1 \in S => i \in S
  <2> SUFFICES ASSUME NEW i \in 1 .. n, Taken(after[i - 1], words, base, i - 1)
               PROVE  i \in 0 .. n /\ Taken(after[i], words, base, i)
    OBVIOUS
  <2>1. after[i] = TakeWord(after[i - 1], words[i])
    BY <1>2
  <2>2. i \in 1 .. Len(words) /\ i \in 0 .. n
    BY <1>1 DEF n
  <2> QED  BY <2>1, <2>2, TakeStep
<1>5. Taken(after[n], words, base, n)
  <2>1. n \in S
    <3> HIDE DEF S
    <3> QED  BY <1>1, <1>3, <1>4, Upwards
  <2> QED  BY <2>1
<1>6. PICK end : end = after[n] /\ Taken(end, words, base, n) /\ res = FlagsResult(end)
  BY <1>2, <1>5
<1> DEFINE F == FlagPositions(words)
           H == HelpPositions(words)
           C == Counting(words)
           Fine(p) == \/ words[p] \in Switches \cup {"--config"}
                      \/ p < n /\ FlagOk(words[p], words[p + 1])
<1>7. /\ IsTaking(end) /\ end.bad \in BOOLEAN /\ end.cfg["show_help"] \in BOOLEAN
      /\ end.bad <=> \E p \in C : p < n /\ BadFlag(words, p)
      /\ ~end.bad =>
           /\ end.cfg["show_help"] <=> \E h \in H : h <= n
           /\ end.cfg["show_help"] => end.flag = None
           /\ ~end.cfg["show_help"] =>
                end.flag = IF n \in F /\ words[n] \notin Switches THEN words[n] ELSE None
           /\ \A f \in DOMAIN Defaults \ {"show_help"} : end.cfg[f] = Made(words, base, f, n)
  BY <1>6 DEF Taken, IsTaking
<1>8. \A p \in F \cup H \cup C : p \in 1 .. n /\ p <= n /\ (p < n <=> p # n) /\ ~(n < p)
  <2>1. \A p \in F \cup H \cup C : p \in 1 .. Len(words) /\ p \in Int
    BY Positions
  <2> QED  BY <1>1, <2>1 DEF n
<1>9. C \subseteq F /\ (\A p \in C, h \in H : p < h) /\ \A p \in F : (\A h \in H : p < h) => p \in C
  BY Positions
<1>10. \A p \in 1 .. n : words[p] # None
  <2>1. \A p \in 1 .. n : words[p] \in STRING
    BY DEF n
  <2> QED  BY <2>1, ConfigAssumption
<1>11. \A p \in C : p < n => (BadFlag(words, p) <=> ~Fine(p))
  BY DEF BadFlag
<1> HIDE DEF F, H, C
<1>12. end.bad \/ end.flag \notin {None, "--config"} <=> ~ \A p \in C : Fine(p)
  <2>1. CASE end.bad
    BY <1>7, <1>11, <2>1
  <2>2. CASE ~end.bad /\ end.flag \notin {None, "--config"}
    <3>1. H = {} /\ n \in F /\ words[n] \notin Switches \cup {"--config"}
      BY <1>7, <1>8, <2>2
    <3>2. n \in C /\ ~(n < n)
      BY <1>1, <1>9, <3>1
    <3> QED  BY <2>2, <3>1, <3>2
  <2>3. CASE ~end.bad /\ end.flag \in {None, "--config"}
    <3> SUFFICES ASSUME NEW p \in C, ~Fine(p) PROVE FALSE
      BY <2>3
    <3>1. p = n /\ words[p] \notin Switches \cup {"--config"}
      BY <1>7, <1>8, <1>11, <2>3
    <3>2. H = {}
      BY <1>8, <1>9, <3>1
    <3>3. end.flag = words[n] /\ n \in 1 .. n
      BY <1>7, <1>8, <1>9, <2>3, <3>1, <3>2
    <3> QED  BY <1>10, <2>3, <3>1, <3>3
  <2> QED  BY <1>7, <2>1, <2>2, <2>3
<1> HIDE DEF Fine
<1>13. CASE end.bad \/ end.flag \notin {None, "--config"}
  <2>1. res = Refused
    BY <1>6, <1>13 DEF FlagsResult
  <2>2. res.refused /\ res.refused \in BOOLEAN
    BY <2>1, Outcomes
  <2> QED  BY <1>12, <1>13, <2>2 DEF Fine, C, n
<1>14. CASE ~(end.bad \/ end.flag \notin {None, "--config"})
  <2>1. res = Accepted(end.cfg)
    BY <1>6, <1>14 DEF FlagsResult
  <2>2. ~res.refused /\ res.refused \in BOOLEAN /\ res.cfg = end.cfg
    BY <2>1, Outcomes
  <2>3. end.cfg["show_help"] <=> H # {}
    BY <1>7, <1>8, <1>14
  <2> QED  BY <1>7, <1>12, <1>14, <2>1, <2>2, <2>3 DEF Fine, C, H, n, IsTaking
<1> QED  BY <1>13, <1>14

-------------------------------------------------------------------------------
(* parseArgs() means what Lifecycle says the command line means.           *)

TextOf(words) == IF PathOf(words) = "" THEN << >> ELSE Files[PathOf(words)]
FlagsGood(words) ==
  \A p \in Counting(words) :
    \/ words[p] \in Switches \cup {"--config"}
    \/ p < Len(words) /\ FlagOk(words[p], words[p + 1])

\* What a field is before the flags.
Given(words, f) == FromText(TextOf(words), f, Defaults[f])

\* Meaning, case by case, where the flags that count have their values.
LEMMA MeaningIs ==
  ASSUME NEW words \in Seq(STRING), FlagsGood(words)
  PROVE  /\ Meaning(words, "show_help") = (HelpPositions(words) # {})
         /\ Meaning(words, "config_file") = PathOf(words)
         /\ \A base : \A f \in DOMAIN Defaults \ {"show_help", "config_file"} :
              base[f] = Given(words, f) => Meaning(words, f) = Made(words, base, f, Len(words))
<1>1. Meaning(words, "show_help") = (HelpPositions(words) # {})
  BY DEF Meaning
<1>2. Meaning(words, "config_file") = PathOf(words)
  BY DEF Meaning
<1>3. ASSUME NEW f \in DOMAIN Defaults \ {"show_help", "config_file"}, NEW base, base[f] = Given(words, f)
      PROVE  Meaning(words, f) = Made(words, base, f, Len(words))
  <2> DEFINE quiet == f = "log_stderr" /\ QuietUpTo(words, Len(words))
             flags == FlagsOn(words, f)
             lines == LinesOn(TextOf(words), f)
  <2>1. QuietUpTo(words, Len(words)) <=> \E p \in Counting(words) : words[p] = "--quiet"
    <3>1. \A p \in Counting(words) : p <= Len(words)
      BY Positions
    <3> QED  BY <3>1 DEF QuietUpTo
  <2>2. FlagsOnBefore(words, f, Len(words)) = flags
    <3>1. \A p \in flags : p < Len(words)
      BY FlagNames DEF FlagsOn, FlagsGood
    <3> QED  BY <3>1 DEF FlagsOnBefore
  <2>3. Meaning(words, f) =
          IF quiet THEN Off
          ELSE IF flags # {} THEN FlagValue(words[Max(flags)], words[Max(flags) + 1])
          ELSE IF lines # {} THEN AsField(ParseValue(TextOf(words)[Max(lines)].value), f)
          ELSE Defaults[f]
    BY <1>3, <2>1 DEF Meaning, Off, FlagsOn, LinesOn, TextOf
  <2>4. Made(words, base, f, Len(words)) =
          IF quiet THEN Off
          ELSE IF flags # {} THEN FlagValue(words[Max(flags)], words[Max(flags) + 1])
          ELSE Given(words, f)
    BY <1>3, <2>2 DEF Made
  <2>5. Given(words, f) = IF lines = {} THEN Defaults[f]
                          ELSE AsField(ParseValue(TextOf(words)[Max(lines)].value), f)
    BY DEF Given, FromText
  <2> HIDE DEF quiet, flags, lines
  <2> QED  BY <2>3, <2>4, <2>5
<1> QED  BY <1>1, <1>2, <1>3

\* The configuration the flags are put over.
IsGiven(base, words) ==
  /\ IsConfig(base)
  /\ base["show_help"] \in BOOLEAN /\ ~base["show_help"]
  /\ base["config_file"] = PathOf(words)
  /\ \A f \in DOMAIN Defaults \ {"show_help", "config_file"} : base[f] = Given(words, f)

\* The flags over the file, and the check across fields.
LEMMA FlagsMean ==
  ASSUME NEW words \in Seq(STRING), NEW base, IsGiven(base, words),
         NEW res, res = CrossCheck(ApplyFlags(words, base))
  PROVE  /\ res.refused \in BOOLEAN
         /\ res.refused <=> ~(FlagsGood(words) /\ ~MeansDisWithoutSatellite(words))
         /\ ~res.refused =>
              /\ res = Accepted(res.cfg)
              /\ IsConfig(res.cfg)
              /\ res.cfg["show_help"] \in BOOLEAN
              /\ res.cfg["show_help"] <=> HelpPositions(words) # {}
              /\ \A f \in DOMAIN Defaults : res.cfg[f] = Meaning(words, f)
<1>1. PICK made : made = ApplyFlags(words, base)
  OBVIOUS
<1>2. /\ made.refused \in BOOLEAN
      /\ made.refused <=> ~FlagsGood(words)
      /\ ~made.refused =>
           /\ made = Accepted(made.cfg)
           /\ IsConfig(made.cfg)
           /\ made.cfg["show_help"] \in BOOLEAN
           /\ made.cfg["show_help"] <=> HelpPositions(words) # {}
           /\ \A f \in DOMAIN Defaults \ {"show_help"} :
                made.cfg[f] = Made(words, base, f, Len(words))
  <2>1. /\ made.refused \in BOOLEAN
        /\ made.refused <=>
             ~ \A p \in Counting(words) :
                 \/ words[p] \in Switches \cup {"--config"}
                 \/ p < Len(words) /\ FlagOk(words[p], words[p + 1])
        /\ ~made.refused =>
             /\ made = Accepted(made.cfg)
             /\ IsConfig(made.cfg)
             /\ made.cfg["show_help"] \in BOOLEAN
             /\ made.cfg["show_help"] <=> HelpPositions(words) # {}
             /\ \A f \in DOMAIN Defaults \ {"show_help"} :
                  made.cfg[f] = Made(words, base, f, Len(words))
    BY <1>1, FlagsApplied DEF IsGiven
  <2> QED  BY <2>1 DEF FlagsGood
<1>3. CASE made.refused
  <2>1. res = made
    BY <1>1, <1>3 DEF CrossCheck
  <2> QED  BY <1>2, <1>3, <2>1
<1>4. CASE ~made.refused
  <2>1. FlagsGood(words)
    BY <1>2, <1>4
  <2>2. \A f \in DOMAIN Defaults \ {"show_help"} : made.cfg[f] = Meaning(words, f)
    <3>1. Made(words, base, "config_file", Len(words)) = base["config_file"]
      <4>1. FlagsOn(words, "config_file") = {}
        BY FlagNames DEF FlagsOn
      <4>2. FlagsOnBefore(words, "config_file", Len(words)) = {}
        BY <4>1 DEF FlagsOnBefore
      <4> QED  BY <4>2 DEF Made
    <3> QED  BY <1>2, <1>4, <2>1, <3>1, MeaningIs DEF IsGiven
  <2>3. Meaning(words, "show_help") = (HelpPositions(words) # {})
    BY <2>1, MeaningIs
  <2>4. {"input_mode", "dis_satellite_entity_id", "show_help"} \subseteq DOMAIN Defaults
    BY DEF Defaults
  <2>5. MeansDisWithoutSatellite(words) <=> ~made.cfg["show_help"] /\ MissesSatellite(made.cfg)
    BY <1>2, <1>4, <2>2, <2>4 DEF MeansDisWithoutSatellite, MissesSatellite
  <2>6. res = IF MeansDisWithoutSatellite(words) THEN Refused ELSE made
    BY <1>1, <1>4, <2>5 DEF CrossCheck
  <2>7. \A f \in DOMAIN Defaults : made.cfg[f] = Meaning(words, f)
    <3>1. made.cfg["show_help"] = Meaning(words, "show_help")
      BY <1>2, <1>4, <2>3
    <3> QED  BY <2>2, <3>1
  <2>8. CASE MeansDisWithoutSatellite(words)
    BY <2>6, <2>8, Outcomes
  <2>9. CASE ~MeansDisWithoutSatellite(words)
    <3>1. res = made
      BY <2>6, <2>9
    <3> QED  BY <1>2, <1>4, <2>1, <2>7, <2>9, <3>1
  <2> QED  BY <2>8, <2>9
<1> QED  BY <1>2, <1>3, <1>4

\* The defaults under a file: what a field is before the flags.
LEMMA DefaultsGiven ==
  /\ IsConfig(Defaults) /\ Defaults["show_help"] \in BOOLEAN /\ ~Defaults["show_help"]
  /\ Defaults["config_file"] = "" /\ {"show_help", "config_file"} \subseteq DOMAIN Defaults
<1>1. IsConfig(Defaults)
  BY DEF IsConfig, Defaults
<1>2. ~Defaults["show_help"] /\ Defaults["show_help"] \in BOOLEAN
  BY DEF Defaults
<1>3. Defaults["config_file"] = "" /\ {"show_help", "config_file"} \subseteq DOMAIN Defaults
  BY DEF Defaults
<1> QED  BY <1>1, <1>2, <1>3

LEMMA ArgsParsed ==
  ASSUME NEW words \in Seq(STRING), NEW res, res = ParseArgs(words)
  PROVE  /\ res.refused \in BOOLEAN
         /\ res.refused <=> ~(GoodWords(words) /\ ~MeansDisWithoutSatellite(words))
         /\ ~res.refused =>
              /\ res = Accepted(res.cfg)
              /\ IsConfig(res.cfg)
              /\ res.cfg["show_help"] \in BOOLEAN
              /\ res.cfg["show_help"] <=> HelpPositions(words) # {}
              /\ \A f \in DOMAIN Defaults : res.cfg[f] = Meaning(words, f)
<1> DEFINE C == ConfigPositions(words)
<1>1. PICK found : found = FindConfig(words)
  OBVIOUS
<1>2. /\ found.twice \in BOOLEAN /\ found.pending \in BOOLEAN
      /\ found.twice \/ found.pending <=> ~((\A a, b \in C : a = b) /\ \A a \in C : a < Len(words))
      /\ ~found.twice /\ ~found.pending =>
           /\ found.path = None <=> C = {}
           /\ \A a \in C : found.path = words[a + 1]
  BY <1>1, ConfigFound
<1>3. C \subseteq 1 .. Len(words)
  BY ConfigsFollow
<1>4. GoodWords(words) <=>
        /\ \A a, b \in C : a = b
        /\ \A a \in C : a < Len(words) /\ words[a + 1] \in DOMAIN Files /\ GoodFile(Files[words[a + 1]])
        /\ FlagsGood(words)
  BY DEF GoodWords, FlagsGood
<1>5. res = Passes(found, words)
  BY <1>1 DEF ParseArgs
<1>6. CASE found.twice \/ found.pending
  <2>1. res = Refused
    BY <1>5, <1>6 DEF Passes
  <2>2. ~GoodWords(words)
    BY <1>2, <1>4, <1>6
  <2> QED  BY <2>1, <2>2, Outcomes
<1>7. CASE ~found.twice /\ ~found.pending
  <2>1. res = CrossCheck(FromFile(found.path, Defaults, words))
    BY <1>5, <1>7 DEF Passes
  <2>2. CASE C = {}
    <3>1. res = CrossCheck(ApplyFlags(words, Defaults))
      BY <1>2, <1>7, <2>1, <2>2 DEF FromFile
    <3>2. PathOf(words) = ""
      BY <2>2 DEF PathOf
    <3>3. \A f : LinesOn(TextOf(words), f) = {}
      <4>1. TextOf(words) = << >>
        BY <3>2 DEF TextOf
      <4>2. PairLines(<< >>) = {}
        BY DEF PairLines
      <4> QED  BY <4>1, <4>2 DEF LinesOn
    <3>4. \A f : Defaults[f] = Given(words, f)
      BY <3>3 DEF Given, FromText
    <3>5. GoodWords(words) <=> FlagsGood(words)
      BY <1>4, <2>2
    <3>6. IsGiven(Defaults, words)
      BY <3>2, <3>4, DefaultsGiven DEF IsGiven
    <3> QED  BY <3>1, <3>5, <3>6, FlagsMean
  <2>3. ASSUME NEW a \in C PROVE C = {a} /\ a < Len(words) /\ found.path = words[a + 1]
                                 /\ found.path # None /\ PathOf(words) = found.path
    <3>1. C = {a} /\ a < Len(words) /\ found.path = words[a + 1] /\ found.path # None
      BY <1>2, <1>7, <2>3
    <3>2. Max(C) = a
      <4>1. a \in Int /\ \A y \in C : y \in Int /\ y <= a
        BY <1>3, <3>1
      <4> HIDE DEF C
      <4> QED  BY <4>1, <2>3, MaxIs
    <3> QED  BY <3>1, <3>2 DEF PathOf
  <2>4. CASE C # {}
    <3>1. PICK a \in C : TRUE
      BY <2>4
    <3> DEFINE path == found.path
    <3>2. C = {a} /\ a < Len(words) /\ path = words[a + 1] /\ path # None /\ PathOf(words) = path
      BY <2>3
    <3>3. GoodWords(words) <=> path \in DOMAIN Files /\ GoodFile(Files[path]) /\ FlagsGood(words)
      BY <1>4, <3>2
    <3>4. PICK start, file : start = [Defaults EXCEPT !.config_file = path]
                             /\ file = ApplyConfigFile(path, start)
      OBVIOUS
    <3>5. res = CrossCheck(WithFlags(file, words))
      BY <2>1, <3>2, <3>4 DEF FromFile
    <3>6. IsConfig(start) /\ \A f \in DOMAIN Defaults :
                               start[f] = IF f = "config_file" THEN path ELSE Defaults[f]
      <4>1. start = [Defaults EXCEPT !["config_file"] = path]
        BY <3>4
      <4> HIDE DEF path
      <4> QED  BY <4>1, DefaultsGiven, FieldSet
    <3> HIDE DEF path
    <3>7. /\ file.refused \in BOOLEAN
          /\ file.refused <=> ~(path \in DOMAIN Files /\ GoodFile(Files[path]))
          /\ ~file.refused =>
               /\ IsConfig(file.cfg)
               /\ \A f \in DOMAIN Defaults :
                    file.cfg[f] = FromText(Files[path], f, start[f])
      BY <3>4, <3>6, FileApplied
    <3>8. CASE file.refused
      <4>1. res = file
        BY <3>5, <3>8 DEF WithFlags, CrossCheck
      <4> QED  BY <3>3, <3>7, <3>8, <4>1
    <3>9. CASE ~file.refused
      <4> DEFINE base == file.cfg
      <4>1. res = CrossCheck(ApplyFlags(words, base))
        BY <3>5, <3>9 DEF WithFlags
      <4>2. path \in DOMAIN Files /\ GoodFile(Files[path]) /\ path # ""
        BY <3>7, <3>9, ConfigAssumption
      <4>3. TextOf(words) = Files[path]
        BY <3>2, <4>2 DEF TextOf
      <4>5. IsConfig(base)
        BY <3>7, <3>9
      <4>6. LinesOn(Files[path], "show_help") = {} /\ LinesOn(Files[path], "config_file") = {}
        <5>1. \A i \in PairLines(Files[path]) : KeyAt(Files[path], i) \in DOMAIN FieldOfKey
          BY <4>2 DEF GoodFile, KeyOk
        <5> QED  BY <5>1, OneKeyPerField DEF LinesOn
      <4>7. base["show_help"] = Defaults["show_help"] /\ base["config_file"] = path
        BY <3>6, <3>7, <3>9, <4>6, DefaultsGiven DEF FromText
      <4>8. \A f \in DOMAIN Defaults \ {"show_help", "config_file"} : base[f] = Given(words, f)
        BY <3>6, <3>7, <3>9, <4>3 DEF Given
      <4>9. GoodWords(words) <=> FlagsGood(words)
        BY <3>3, <4>2
      <4> HIDE DEF base
      <4>10. IsGiven(base, words)
        BY <3>2, <4>5, <4>7, <4>8, DefaultsGiven DEF IsGiven
      <4> QED  BY <4>1, <4>9, <4>10, FlagsMean
    <3> QED  BY <3>7, <3>8, <3>9
  <2> QED  BY <2>2, <2>4
<1> QED  BY <1>2, <1>6, <1>7

-------------------------------------------------------------------------------
(* The start of the process.                                               *)

Early == {"parse", "open", "startup", "bind_input"}
Late == {"signals"} \cup Waiting

\* What is open and which thread runs, by what the main thread does next.
Phases ==
  /\ pc \in Early \cup {"bind_ws", "start_input", "fatal", "failed"} \cup Late \cup {"exit"}
  /\ exit = None <=> pc # "exit"
  /\ pc \in {"parse", "open"} => argv \in Argvs
  /\ pc \in Early => input = "none" /\ udp = "none" /\ tcp = "none"
  /\ pc = "bind_ws" => input = "none" /\ tcp = "none"
  /\ pc = "start_input" => input = "none" /\ tcp = "open"
  /\ pc \in {"fatal", "failed"} => input = "none" /\ udp # "open" /\ tcp # "open"
  /\ pc \in Late => tcp # "none"

StartInv == Phases /\ ConfigIsMeant /\ ErrorsBeforeThreads

\* None is not the code of an exit.
LEMMA NoneIsNoCode == \A x \in {0, 1, 2, 143} : None # x
<1>1. \A x \in Int : None # x
  BY ConfigAssumption
<1>2. {0, 1, 2, 143} \subseteq Int
  OBVIOUS
<1> QED  BY <1>1, <1>2

LEMMA StartInit == Init => StartInv
<1> SUFFICES ASSUME Init PROVE StartInv
  OBVIOUS
<1>1. pc = "parse" /\ exit = None /\ exit \notin Int /\ input = "none" /\ udp = "none" /\ tcp = "none" /\ argv \in Argvs
  BY ConfigAssumption DEF Init
<1>2. Phases
  BY <1>1 DEF Phases, Early, Late, Waiting
<1>3. ConfigIsMeant
  BY <1>1 DEF ConfigIsMeant
<1>4. ErrorsBeforeThreads
  BY <1>1 DEF ErrorsBeforeThreads
<1> QED  BY <1>2, <1>3, <1>4 DEF StartInv

\* A step that keeps the command line and the configuration, and does not end
\* the process as parseArgs() does, keeps what they mean.
LEMMA MeaningStays ==
  ASSUME ConfigIsMeant, exit = None, argv' = argv, cfg' = cfg, pc' = "open" => pc = "open",
         exit' \in {None, 1, 143} \/ (exit' = 0 /\ tcp' # "none")
  PROVE  ConfigIsMeant'
<1>1. exit' # 2 /\ ~(exit' = 0 /\ tcp' = "none")
  BY NoneIsNoCode
<1>2. pc' = "open" => pc = "open"
  OBVIOUS
<1> QED  BY <1>1, <1>2 DEF ConfigIsMeant

\* The command line is parsed: the process goes on, ends, or ends with the usage.
LEMMA ParseStep ==
  ASSUME StartInv, Parse, exit = None
  PROVE  StartInv'
<1> USE DEF StartInv
<1>1. PICK res : res = ParseArgs(argv)
  OBVIOUS
<1>2. /\ argv \in Seq(STRING) /\ argv' = argv /\ pc = "parse"
      /\ input' = "none" /\ udp' = "none" /\ tcp' = "none"
  BY LifecycleAssumption DEF Parse, Phases, Early, inputVars
<1>3. /\ res.refused \in BOOLEAN
      /\ res.refused <=> ~(GoodWords(argv) /\ ~MeansDisWithoutSatellite(argv))
      /\ ~res.refused =>
           /\ IsConfig(res.cfg)
           /\ res.cfg["show_help"] \in BOOLEAN
           /\ res.cfg["show_help"] <=> HelpPositions(argv) # {}
           /\ \A f \in DOMAIN Defaults : res.cfg[f] = Meaning(argv, f)
  BY <1>1, <1>2, ArgsParsed
<1>4. Start(res)
  BY <1>1 DEF Parse
<1>5. None # 0 /\ None # 2
  BY NoneIsNoCode
<1>6. CASE res.refused
  <2>1. pc' = "exit" /\ exit' = 2
    BY <1>4, <1>6 DEF Start, Exit, Go
  <2>2. Phases'
    BY <1>2, <1>5, <2>1 DEF Phases, Early, Late, Waiting
  <2>3. ConfigIsMeant'
    BY <1>2, <1>3, <1>6, <2>1 DEF ConfigIsMeant
  <2>4. ErrorsBeforeThreads'
    BY <1>2 DEF ErrorsBeforeThreads
  <2> QED  BY <2>2, <2>3, <2>4
<1>7. CASE ~res.refused /\ res.cfg["show_help"]
  <2>1. pc' = "exit" /\ exit' = 0
    BY <1>4, <1>7 DEF Start, Exit, Go
  <2>2. Phases'
    BY <1>2, <1>5, <2>1 DEF Phases, Early, Late, Waiting
  <2>3. ConfigIsMeant'
    BY <1>2, <1>3, <1>7, <2>1 DEF ConfigIsMeant
  <2>4. ErrorsBeforeThreads'
    BY <1>2 DEF ErrorsBeforeThreads
  <2> QED  BY <2>2, <2>3, <2>4
<1>8. CASE ~res.refused /\ ~res.cfg["show_help"]
  <2>1. pc' = "open" /\ exit' = None /\ cfg' = res.cfg
    BY <1>4, <1>8 DEF Start, Exit, Go
  <2>2. Phases'
    BY <1>2, <1>5, <2>1 DEF Phases, Early, Late, Waiting
  <2>3. ConfigIsMeant'
    BY <1>2, <1>3, <1>5, <1>8, <2>1 DEF ConfigIsMeant, IsConfig
  <2>4. ErrorsBeforeThreads'
    BY <1>2 DEF ErrorsBeforeThreads
  <2> QED  BY <2>2, <2>3, <2>4
<1> QED  BY <1>3, <1>6, <1>7, <1>8

\* A line is logged, or the mutex for it taken, and the main thread goes on.
LEMMA MainStays ==
  ASSUME StartInv, exit = None, NEW from, NEW to,
         pc = from, pc' \in {from, to}, UNCHANGED <<processVars, input, inputVars, tcp>>,
         \/ from = "startup" /\ to = "bind_input"
         \/ from = "fatal" /\ to = "failed"
         \/ from \in Late /\ to \in Late
  PROVE  StartInv'
<1> USE DEF StartInv
<1>1. argv' = argv /\ cfg' = cfg /\ exit' = exit /\ input' = input /\ udp' = udp /\ tcp' = tcp
  BY DEF processVars, inputVars
<1>2. pc' # "exit" /\ pc' # "open" /\ pc' # "parse"
  BY DEF Late, Waiting
<1>3. Phases'
  BY <1>1, <1>2 DEF Phases, Early, Late, Waiting
<1>4. ConfigIsMeant'
  BY <1>1, <1>2, MeaningStays
<1>5. ErrorsBeforeThreads'
  BY <1>1, NoneIsNoCode DEF ErrorsBeforeThreads
<1> QED  BY <1>3, <1>4, <1>5

LEMMA StartStep == StartInv /\ [Next]_vars => StartInv'
<1> SUFFICES ASSUME StartInv, [Next]_vars PROVE StartInv'
  OBVIOUS
<1> USE DEF StartInv
<1>1. CASE UNCHANGED vars
  <2>1. UNCHANGED <<argv, cfg, pc, exit, input, udp, tcp>>
    BY <1>1 DEF vars, processVars, inputVars
  <2>2. Phases'
    BY <2>1 DEF Phases, Early, Late, Waiting
  <2>3. ConfigIsMeant'
    BY <2>1 DEF ConfigIsMeant
  <2>4. ErrorsBeforeThreads'
    BY <2>1 DEF ErrorsBeforeThreads
  <2> QED  BY <2>2, <2>3, <2>4
<1>2. CASE Next
  <2>0. exit = None
    BY <1>2 DEF Next
  <2>1. CASE Parse
    BY <2>0, <2>1, ParseStep
  <2>2. CASE OpenLog
    <3>1. /\ cfg' = cfg /\ input' = "none" /\ udp' = "none" /\ tcp' = "none" /\ pc = "open"
          /\ \/ pc' = "startup" /\ exit' = None
             \/ pc' = "exit" /\ exit' = 1 /\ argv' = argv
      BY <2>0, <2>2 DEF OpenLog, Go, Exit, Phases, Early, inputVars
    <3>2. Phases'
      BY <3>1, NoneIsNoCode DEF Phases, Early, Late, Waiting
    <3>3. ConfigIsMeant'
      BY <3>1, NoneIsNoCode DEF ConfigIsMeant
    <3>4. ErrorsBeforeThreads'
      BY <3>1 DEF ErrorsBeforeThreads
    <3> QED  BY <3>2, <3>3, <3>4
  <2>3. CASE LogStartup
    <3>1. pc = "startup" /\ pc' \in {"startup", "bind_input"} /\ UNCHANGED <<processVars, input, inputVars, tcp>>
      BY <2>3 DEF LogStartup, MainLogs, MainLocks, Go
    <3> QED  BY <2>0, <3>1, MainStays
  <2>4. CASE BindInput
    <3>1. /\ UNCHANGED <<argv, cfg, exit, input, tcp>> /\ pc = "bind_input"
          /\ \/ pc' = "bind_ws"
             \/ pc' = "fatal" /\ udp' = udp
      BY <2>4 DEF BindInput, Go, processVars
    <3>2. Phases'
      BY <2>0, <3>1 DEF Phases, Early, Late, Waiting
    <3>3. ConfigIsMeant'
      BY <2>0, <3>1, MeaningStays
    <3>4. ErrorsBeforeThreads'
      BY <2>0, <3>1, NoneIsNoCode DEF ErrorsBeforeThreads
    <3> QED  BY <3>2, <3>3, <3>4
  <2>5. CASE BindWs
    <3>1. /\ UNCHANGED <<argv, cfg, exit, input>> /\ pc = "bind_ws"
          /\ \/ pc' = "start_input" /\ tcp' = "open"
             \/ pc' = "fatal" /\ udp' = "closed" /\ tcp' = tcp
      BY <2>5 DEF BindWs, Go, processVars
    <3>2. Phases'
      BY <2>0, <3>1 DEF Phases, Early, Late, Waiting
    <3>3. ConfigIsMeant'
      BY <2>0, <3>1, MeaningStays
    <3>4. ErrorsBeforeThreads'
      BY <2>0, <3>1, NoneIsNoCode DEF ErrorsBeforeThreads
    <3> QED  BY <3>2, <3>3, <3>4
  <2>6. CASE LogFatal
    <3>1. pc = "fatal" /\ pc' \in {"fatal", "failed"} /\ UNCHANGED <<processVars, input, inputVars, tcp>>
      BY <2>6 DEF LogFatal, MainLogs, MainLocks, Go
    <3> QED  BY <2>0, <3>1, MainStays
  <2>7. CASE ExitFatal
    <3>1. /\ UNCHANGED <<argv, cfg, input, udp, tcp>> /\ pc = "failed" /\ pc' = "exit" /\ exit' = 1
      BY <2>7 DEF ExitFatal, Exit, Go, inputVars
    <3>2. Phases'
      BY <2>0, <3>1, NoneIsNoCode DEF Phases, Early, Late, Waiting
    <3>3. ConfigIsMeant'
      BY <2>0, <3>1, MeaningStays
    <3>4. ErrorsBeforeThreads'
      BY <3>1 DEF ErrorsBeforeThreads, Phases
    <3> QED  BY <3>2, <3>3, <3>4
  <2>8. CASE StartInput
    <3>1. UNCHANGED <<argv, cfg, exit, udp, tcp>> /\ pc = "start_input" /\ pc' = "signals"
      BY <2>8 DEF StartInput, Go, processVars
    <3>2. Phases'
      BY <2>0, <3>1 DEF Phases, Early, Late, Waiting
    <3>3. ConfigIsMeant'
      BY <2>0, <3>1, MeaningStays
    <3>4. ErrorsBeforeThreads'
      BY <2>0, <3>1, NoneIsNoCode DEF ErrorsBeforeThreads
    <3> QED  BY <3>2, <3>3, <3>4
  \* The main thread while the input thread runs.
  <2>9. CASE AwaitSignals \/ (Running /\ ~StopWs /\ ~Return)
    <3>1. /\ pc \in Late /\ pc' \in Late /\ tcp' = tcp /\ UNCHANGED <<argv, cfg, exit, input, udp>>
      <4>1. CASE AwaitSignals
        BY <4>1 DEF AwaitSignals, Go, processVars, inputVars, Late, Waiting
      <4>2. CASE RunHandler
        BY <4>2 DEF RunHandler, processVars, inputVars, Late, Waiting
      <4>3. CASE Tick
        BY <4>3 DEF Tick, MainLocks, Go, processVars, inputVars, Late, Waiting
      <4>4. CASE LogClient
        BY <4>4 DEF LogClient, MainLogs, MainLocks, Go, processVars, inputVars, Late, Waiting
      <4>5. CASE HandleSignal
        BY <4>5 DEF HandleSignal, Go, processVars, inputVars, Late, Waiting
      <4>6. CASE LogShutdown
        BY <4>6 DEF LogShutdown, MainLogs, MainLocks, Go, processVars, inputVars, Late, Waiting
      <4>7. CASE StopInput
        BY <4>7 DEF StopInput, Go, processVars, inputVars, Late, Waiting
      <4>8. CASE Join
        BY <4>8 DEF Join, Go, processVars, inputVars, Late, Waiting
      <4>9. CASE LogClean
        BY <4>9 DEF LogClean, MainLogs, MainLocks, Go, processVars, inputVars, Late, Waiting
      <4> QED  BY <2>9, <4>1, <4>2, <4>3, <4>4, <4>5, <4>6, <4>7, <4>8, <4>9 DEF Running
    <3>2. Phases'
      BY <2>0, <3>1 DEF Phases, Early, Late, Waiting
    <3>3. ConfigIsMeant'
      BY <2>0, <3>1, MeaningStays DEF Late, Waiting
    <3>4. ErrorsBeforeThreads'
      BY <2>0, <3>1, NoneIsNoCode DEF ErrorsBeforeThreads
    <3> QED  BY <3>2, <3>3, <3>4
  <2>10. CASE StopWs
    <3>1. /\ UNCHANGED <<argv, cfg, exit, input, udp>>
          /\ pc = "stop_ws" /\ pc' = "stop_input" /\ tcp' = "closed"
      BY <2>10 DEF StopWs, Go, processVars, inputVars
    <3>2. Phases'
      BY <2>0, <3>1 DEF Phases, Early, Late, Waiting
    <3>3. ConfigIsMeant'
      BY <2>0, <3>1, MeaningStays
    <3>4. ErrorsBeforeThreads'
      BY <2>0, <3>1, NoneIsNoCode DEF ErrorsBeforeThreads
    <3> QED  BY <3>2, <3>3, <3>4
  <2>11. CASE Return
    <3>1. UNCHANGED <<argv, cfg, input, udp, tcp>> /\ pc = "return" /\ pc' = "exit" /\ exit' = 0
      BY <2>11 DEF Return, Exit, Go, inputVars
    <3>2. Phases'
      BY <2>0, <3>1, NoneIsNoCode DEF Phases, Early, Late, Waiting
    <3>3. tcp' # "none"
      BY <3>1 DEF Phases, Late, Waiting
    <3>4. ConfigIsMeant'
      BY <2>0, <3>1, <3>3, MeaningStays
    <3>5. ErrorsBeforeThreads'
      BY <3>1 DEF ErrorsBeforeThreads
    <3> QED  BY <3>2, <3>4, <3>5
  <2>12. CASE Input
    <3>1. UNCHANGED <<argv, cfg, pc, exit, tcp>> /\ input # "none"
      <4>1. CASE RunInput
        BY <4>1 DEF RunInput, processVars
      <4>2. CASE Count \/ Drop \/ Apply
        BY <4>2 DEF Count, Drop, Apply, InputLocks, processVars
      <4>3. CASE LogDatagram
        BY <4>3 DEF LogDatagram, InputLocks, processVars
      <4>4. CASE ArmReceive
        BY <4>4 DEF ArmReceive, processVars
      <4> QED  BY <2>12, <4>1, <4>2, <4>3, <4>4 DEF Input
    <3>2. pc \in Late \cup {"exit"}
      BY <3>1 DEF Phases
    <3>3. Phases'
      BY <2>0, <3>1, <3>2 DEF Phases, Early, Late, Waiting
    <3>4. ConfigIsMeant'
      BY <2>0, <3>1, MeaningStays
    <3>5. ErrorsBeforeThreads'
      BY <2>0, <3>1, NoneIsNoCode DEF ErrorsBeforeThreads
    <3> QED  BY <3>3, <3>4, <3>5
  <2>13. CASE Arrive
    <3>1. UNCHANGED <<argv, cfg, pc, exit, input, udp, tcp>>
      BY <2>13 DEF Arrive, processVars
    <3>2. Phases'
      BY <3>1 DEF Phases, Early, Late, Waiting
    <3>3. ConfigIsMeant'
      BY <2>0, <3>1, MeaningStays
    <3>4. ErrorsBeforeThreads'
      BY <3>1 DEF ErrorsBeforeThreads
    <3> QED  BY <3>2, <3>3, <3>4
  <2>14. CASE Signal
    <3>1. /\ UNCHANGED <<argv, cfg, input, udp, tcp>>
          /\ \/ pc' = pc /\ exit' = exit
             \/ pc' = "exit" /\ exit' = 143
      BY <2>14 DEF Signal, inputVars
    <3>2. Phases'
      BY <2>0, <3>1, NoneIsNoCode DEF Phases, Early, Late, Waiting
    <3>3. ConfigIsMeant'
      BY <2>0, <3>1, MeaningStays
    <3>4. ErrorsBeforeThreads'
      BY <2>0, <3>1, NoneIsNoCode DEF ErrorsBeforeThreads
    <3> QED  BY <3>2, <3>3, <3>4
  <2> QED
    BY <1>2, <2>1, <2>2, <2>3, <2>4, <2>5, <2>6, <2>7, <2>8, <2>9, <2>10, <2>11, <2>12, <2>13, <2>14
    DEF Next, Starting, Running
<1> QED  BY <1>1, <1>2

\* For every command line and all files: the process starts exactly if each word
\* and each line is good and they fit together, every field is then what the last
\* word on it says, and an error comes before there are threads or open sockets.
THEOREM SoundConfig == Spec => []OnlySoundConfigRuns
<1>1. StartInv => OnlySoundConfigRuns
  BY DEF StartInv, OnlySoundConfigRuns
<1> QED  BY <1>1, StartInit, StartStep, PTL DEF Spec


-------------------------------------------------------------------------------
(* The end of the process.  What keeps the two threads from waiting for each *)
(* other is where each holds which mutex.                                    *)

\* The lines that the main thread writes.
Lines == [startup |-> "info", fatal |-> "error", client |-> "info",
          shutting_down |-> "info", clean |-> "info"]

\* A thread holds one mutex at most, and only in the step that took it; SIGTERM
\* may end the process while the first lines are written.
Locks ==
  /\ held \in [Mutexes -> {None, "main", "input"}]
  /\ held["store"] = "main" => pc = "tick"
  /\ held["log"] = "main" =>
       \/ pc \in DOMAIN Lines /\ Rank[Lines[pc]] >= Rank[cfg.log_level]
       \/ exit = 143
  /\ held["store"] = "input" => input \in {"count", "drop", "apply"}
  /\ held["log"] = "input" => input \in {"warn", "debug"} /\ Rank[input] >= Rank[cfg.log_level]

\* The order in which the two sockets are closed and the input thread joined.
Closing ==
  /\ pc \in {"stop_input", "join", "clean", "return"} => tcp = "closed"
  /\ pc \in {"clean", "return"} => input = "done"
  /\ input = "done" => udp = "closed"
  /\ exit = 0 /\ tcp # "none" => input = "done" /\ tcp = "closed"

\* The main thread joins with no mutex of its own, and exit code 0 after a run
\* means that both sockets are closed, the input thread is done and no mutex held.
EndsInOrder ==
  /\ pc \in {"stop_ws", "stop_input", "join"} => \A m \in Mutexes : held[m] # "main"
  /\ exit = 0 /\ tcp # "none" =>
       /\ input = "done" /\ udp = "closed" /\ tcp = "closed"
       /\ \A m \in Mutexes : held[m] = None

EndInv == Locks /\ Closing

LEMMA LinesFacts ==
  /\ DOMAIN Lines = {"startup", "fatal", "client", "shutting_down", "clean"}
  /\ Lines["startup"] = "info" /\ Lines["fatal"] = "error" /\ Lines["client"] = "info"
  /\ Lines["shutting_down"] = "info" /\ Lines["clean"] = "info"
  BY DEF Lines

LEMMA NoneIsNoThread == None # "main" /\ None # "input"
  BY LifecycleAssumption

LEMMA EndInit == Init => EndInv
<1> SUFFICES ASSUME Init PROVE EndInv
  OBVIOUS
<1>1. /\ held = [m \in Mutexes |-> None] /\ pc = "parse" /\ input = "none" /\ tcp = "none"
      /\ held["store"] = None /\ held["log"] = None
  BY DEF Init, Mutexes
<1>2. Locks
  BY <1>1, NoneIsNoThread DEF Locks
<1>3. Closing
  BY <1>1 DEF Closing
<1> QED  BY <1>2, <1>3 DEF EndInv

\* Taking and releasing a mutex in the main thread, or passing a line over.
LEMMA MainLocksStep ==
  ASSUME Locks, NEW from, NEW to, NEW m \in Mutexes, MainLocks(m, from, to),
         \/ m = "store" /\ from = "tick"
         \/ m = "log" /\ from \in DOMAIN Lines /\ Rank[Lines[from]] >= Rank[cfg.log_level]
  PROVE  Locks'
<1>1. UNCHANGED <<cfg, exit, input>>
  BY DEF MainLocks, processVars
<1>2. CASE pc = from /\ Take(m, "main") /\ UNCHANGED pc
  <2>1. held' = [held EXCEPT ![m] = "main"]
    BY <1>2 DEF Take
  <2> QED  BY <1>1, <1>2, <2>1, LinesFacts DEF Locks, Mutexes
<1>3. CASE Release(m, "main") /\ Go(from, to)
  <2>1. held[m] = "main" /\ held' = [held EXCEPT ![m] = None] /\ pc = from
    BY <1>3 DEF Release, Go
  <2>2. \A n \in Mutexes : held'[n] = "main" => held[n] = "main" /\ n # m
    BY <2>1, NoneIsNoThread DEF Locks
  <2>3. \A n \in Mutexes : held'[n] = "input" => held[n] = "input"
    BY <2>1, NoneIsNoThread DEF Locks
  <2>4. held' \in [Mutexes -> {None, "main", "input"}]
    BY <2>1 DEF Locks
  <2>5. held'["store"] # "main"
    BY <2>1, <2>2, LinesFacts DEF Locks, Mutexes
  <2>6. held'["log"] = "main" => exit = 143
    BY <2>1, <2>2, LinesFacts DEF Locks, Mutexes
  <2> QED  BY <1>1, <2>3, <2>4, <2>5, <2>6 DEF Locks, Mutexes
<1> QED  BY <1>2, <1>3 DEF MainLocks

\* A line that is passed over finds its mutex not held by the main thread.
LEMMA MainLogsStep ==
  ASSUME Locks, exit = None, NEW level, NEW from, NEW to, MainLogs(level, from, to),
         from \in DOMAIN Lines, Lines[from] = level
  PROVE  Locks'
<1>1. CASE Rank[level] >= Rank[cfg.log_level]
  <2>1. MainLocks("log", from, to) /\ "log" \in Mutexes
    BY <1>1 DEF MainLogs, Mutexes
  <2> QED  BY <1>1, <2>1, MainLocksStep
<1>2. CASE ~(Rank[level] >= Rank[cfg.log_level])
  <2>1. pc = from /\ UNCHANGED <<cfg, exit, input, held>>
    BY <1>2 DEF MainLogs, Go, processVars
  <2>2. held["log"] # "main" /\ held["store"] # "main"
    BY <1>2, <2>1, NoneIsNoCode, LinesFacts DEF Locks
  <2> QED  BY <2>1, <2>2 DEF Locks
<1> QED  BY <1>1, <1>2

\* The same in the input thread.
LEMMA InputLocksStep ==
  ASSUME Locks, NEW from, NEW to, NEW m \in Mutexes, InputLocks(m, from, to),
         \/ m = "store" /\ from \in {"count", "drop", "apply"}
         \/ m = "log" /\ from \in {"warn", "debug"} /\ Rank[from] >= Rank[cfg.log_level]
  PROVE  Locks'
<1>1. UNCHANGED <<cfg, exit, pc>>
  BY DEF InputLocks, processVars
<1>2. CASE input = from /\ Take(m, "input") /\ UNCHANGED input
  <2>1. held' = [held EXCEPT ![m] = "input"]
    BY <1>2 DEF Take
  <2> QED  BY <1>1, <1>2, <2>1 DEF Locks, Mutexes
<1>3. CASE input = from /\ Release(m, "input") /\ input' \in to
  <2>1. held[m] = "input" /\ held' = [held EXCEPT ![m] = None]
    BY <1>3 DEF Release
  <2>2. \A n \in Mutexes : held'[n] = "input" => held[n] = "input" /\ n # m
    BY <2>1, NoneIsNoThread DEF Locks
  <2>3. \A n \in Mutexes : held'[n] = "main" => held[n] = "main"
    BY <2>1, NoneIsNoThread DEF Locks
  <2>4. held' \in [Mutexes -> {None, "main", "input"}]
    BY <2>1 DEF Locks
  <2>5. held'["store"] # "input" /\ held'["log"] # "input"
    BY <1>3, <2>1, <2>2 DEF Locks, Mutexes
  <2> QED  BY <1>1, <2>3, <2>4, <2>5 DEF Locks, Mutexes
<1> QED  BY <1>2, <1>3 DEF InputLocks

\* While there is one thread and no line is written, no mutex is held.
LEMMA NoneHeld ==
  ASSUME Phases, Locks, pc \in {"parse", "open", "bind_input", "bind_ws", "start_input", "failed"}
  PROVE  \A m \in Mutexes : held[m] = None
<1>1. input = "none" /\ exit = None
  BY DEF Phases, Early
<1>2. exit # 143
  BY <1>1, NoneIsNoCode
<1> QED  BY <1>1, <1>2, LinesFacts DEF Locks, Mutexes

LEMMA LocksStep ==
  ASSUME Phases, Locks, Next
  PROVE  Locks'
<1>0. exit = None
  BY DEF Next
<1>1. CASE Parse \/ OpenLog \/ BindInput \/ BindWs \/ ExitFatal \/ StartInput
  <2>1. held' = held
    BY <1>1 DEF Parse, OpenLog, BindInput, BindWs, ExitFatal, StartInput
  <2>2. pc \in {"parse", "open", "bind_input", "bind_ws", "start_input", "failed"}
    BY <1>1 DEF Parse, OpenLog, BindInput, BindWs, ExitFatal, StartInput, Go, Exit
  <2>3. \A m \in Mutexes : held[m] = None
    BY <2>2, NoneHeld
  <2> QED  BY <2>1, <2>3, NoneIsNoThread DEF Locks, Mutexes
<1>2. CASE LogStartup \/ LogFatal \/ LogClient \/ LogShutdown \/ LogClean
  BY <1>0, <1>2, MainLogsStep, LinesFacts DEF LogStartup, LogFatal, LogClient, LogShutdown, LogClean
<1>3. CASE Tick
  BY <1>3, MainLocksStep DEF Tick, Mutexes
<1>4. CASE AwaitSignals \/ RunHandler \/ HandleSignal \/ StopWs \/ StopInput \/ Join \/ Return
  <2>1. UNCHANGED <<held, input, cfg>>
    BY <1>4 DEF AwaitSignals, RunHandler, HandleSignal, StopWs, StopInput, Join, Return, processVars
  <2>2. pc \in {"signals", "run", "stop_ws", "stop_input", "join", "return"}
    BY <1>4 DEF AwaitSignals, RunHandler, HandleSignal, StopWs, StopInput, Join, Return, Go, Exit
  <2>3. held["store"] # "main" /\ held["log"] # "main"
    BY <1>0, <2>2, NoneIsNoCode, LinesFacts DEF Locks
  <2> QED  BY <2>1, <2>3 DEF Locks
<1>5. CASE RunInput \/ ArmReceive
  <2>1. UNCHANGED <<held, pc, exit, cfg>> /\ input \in {"ready", "arm"}
    BY <1>5 DEF RunInput, ArmReceive, processVars
  <2>2. held["store"] # "input" /\ held["log"] # "input"
    BY <2>1 DEF Locks
  <2> QED  BY <2>1, <2>2 DEF Locks
<1>6. CASE Count \/ Drop \/ Apply
  BY <1>6, InputLocksStep DEF Count, Drop, Apply, Mutexes
<1>7. CASE LogDatagram
  <2>1. PICK level \in {"warn", "debug"} :
          IF Rank[level] >= Rank[cfg.log_level] THEN InputLocks("log", level, {"arm"})
          ELSE /\ input = level /\ input' = "arm"
               /\ UNCHANGED <<processVars, pc, inputVars, tcp, held, signalled>>
    BY <1>7 DEF LogDatagram
  <2>2. CASE Rank[level] >= Rank[cfg.log_level]
    <3>1. InputLocks("log", level, {"arm"}) /\ "log" \in Mutexes
      BY <2>1, <2>2 DEF Mutexes
    <3> QED  BY <2>2, <3>1, InputLocksStep
  <2>3. CASE ~(Rank[level] >= Rank[cfg.log_level])
    <3>1. input = level /\ input' = "arm" /\ UNCHANGED <<cfg, exit, pc, held>>
      BY <2>1, <2>3 DEF processVars
    <3>2. held["store"] # "input" /\ held["log"] # "input"
      BY <2>3, <3>1 DEF Locks
    <3> QED  BY <3>1, <3>2 DEF Locks
  <2> QED  BY <2>2, <2>3
<1>8. CASE Arrive
  BY <1>8 DEF Arrive, processVars, Locks
<1>9. CASE Signal
  <2>1. UNCHANGED <<held, input, cfg>>
    BY <1>9 DEF Signal
  <2>2. CASE pc \in Waiting
    <3>1. UNCHANGED <<pc, exit>>
      BY <1>9, <2>2 DEF Signal
    <3> QED  BY <2>1, <3>1 DEF Locks
  <2>3. CASE pc \notin Waiting
    <3>1. exit' = 143
      BY <1>9, <2>3 DEF Signal
    <3>2. held["store"] # "main"
      BY <2>3 DEF Locks, Waiting
    <3> QED  BY <2>1, <3>1, <3>2 DEF Locks
  <2> QED  BY <2>2, <2>3
<1> QED
  BY <1>1, <1>2, <1>3, <1>4, <1>5, <1>6, <1>7, <1>8, <1>9 DEF Next, Starting, Running, Input

\* The start leaves nothing to close.
LEMMA ClosingStarting ==
  ASSUME Phases, Phases', Closing, exit = None, Starting
  PROVE  Closing'
<1> USE DEF Closing
<1>1. CASE Parse
  <2>1. tcp' = "none" /\ input' = "none" /\ pc' \in {"open", "exit"}
    BY <1>1 DEF Parse, Start, Go, Exit, Phases, Early
  <2> QED  BY <2>1
<1>2. CASE OpenLog \/ BindInput \/ LogStartup
  <2>1. /\ tcp' = "none" /\ input' = "none"
        /\ pc' \in {"startup", "bind_input", "bind_ws", "fatal", "exit"}
    BY <1>2 DEF OpenLog, BindInput, LogStartup, MainLogs, MainLocks, Go, Exit, Phases, Early
  <2> QED  BY <2>1
<1>3. CASE BindWs
  <2>1. exit' = None /\ input' = "none" /\ pc' \in {"start_input", "fatal"}
    BY <1>3 DEF BindWs, Go, processVars, Phases
  <2> QED  BY <2>1, NoneIsNoCode
<1>4. CASE LogFatal
  <2>1. exit' = None /\ input' = "none" /\ pc' \in {"fatal", "failed"}
    BY <1>4 DEF LogFatal, MainLogs, MainLocks, Go, processVars, Phases
  <2> QED  BY <2>1, NoneIsNoCode
<1>5. CASE ExitFatal
  <2>1. exit' = 1 /\ input' = "none" /\ pc' = "exit"
    BY <1>5 DEF ExitFatal, Exit, Go, Phases
  <2> QED  BY <2>1
<1>6. CASE StartInput
  <2>1. exit' = None /\ input' = "ready" /\ pc' = "signals"
    BY <1>6 DEF StartInput, Go, processVars
  <2> QED  BY <2>1, NoneIsNoCode
<1>7. CASE AwaitSignals
  <2>1. exit' = None /\ UNCHANGED <<input, udp>> /\ pc' = "run"
    BY <1>7 DEF AwaitSignals, Go, processVars, inputVars
  <2> QED  BY <2>1, NoneIsNoCode
<1> QED  BY <1>1, <1>2, <1>3, <1>4, <1>5, <1>6, <1>7 DEF Starting

LEMMA ClosingStep ==
  ASSUME Phases, Phases', Closing, Next
  PROVE  Closing'
<1>0. exit = None /\ exit # 0
  BY NoneIsNoCode DEF Next
<1>1. CASE Starting
  BY <1>0, <1>1, ClosingStarting
<1> USE DEF Closing
<1>2. CASE RunHandler \/ Tick \/ LogClient \/ HandleSignal \/ LogShutdown
  <2>1. /\ exit' = None /\ UNCHANGED <<input, udp, tcp>>
        /\ pc' \in {"run", "tick", "client", "shutting_down", "stop_ws"}
    BY <1>0, <1>2 DEF RunHandler, Tick, LogClient, HandleSignal, LogShutdown, MainLogs, MainLocks, Go,
      processVars, inputVars
  <2> QED  BY <2>1, NoneIsNoCode
<1>3. CASE StopWs
  <2>1. exit' = None /\ UNCHANGED <<input, udp>> /\ pc' = "stop_input" /\ tcp' = "closed"
    BY <1>0, <1>3 DEF StopWs, Go, processVars, inputVars
  <2> QED  BY <2>1, NoneIsNoCode
<1>4. CASE StopInput
  <2>1. exit' = None /\ UNCHANGED <<input, udp, tcp>> /\ pc = "stop_input" /\ pc' = "join"
    BY <1>0, <1>4 DEF StopInput, Go, processVars
  <2> QED  BY <2>1, NoneIsNoCode
<1>5. CASE Join
  <2>1. /\ exit' = None /\ UNCHANGED <<input, udp, tcp>>
        /\ pc = "join" /\ pc' = "clean" /\ input = "done"
    BY <1>0, <1>5 DEF Join, Go, processVars, inputVars
  <2> QED  BY <2>1, NoneIsNoCode
<1>6. CASE LogClean
  <2>1. /\ exit' = None /\ UNCHANGED <<input, udp, tcp>>
        /\ pc = "clean" /\ pc' \in {"clean", "return"}
    BY <1>0, <1>6 DEF LogClean, MainLogs, MainLocks, Go, processVars, inputVars
  <2> QED  BY <2>1, NoneIsNoCode
<1>7. CASE Return
  <2>1. UNCHANGED <<input, udp, tcp>> /\ pc = "return" /\ pc' = "exit"
    BY <1>7 DEF Return, Exit, Go, inputVars
  <2> QED  BY <2>1
<1>8. CASE Input
  <2>1. UNCHANGED <<exit, pc, tcp>> /\ input # "done"
        /\ (input' = "done" => udp' = "closed")
    <3>1. CASE RunInput
      BY <3>1 DEF RunInput, processVars
    <3>2. CASE Count \/ Drop \/ Apply
      BY <3>2 DEF Count, Drop, Apply, InputLocks, processVars
    <3>3. CASE LogDatagram
      BY <3>3 DEF LogDatagram, InputLocks, processVars
    <3>4. CASE ArmReceive
      BY <3>4 DEF ArmReceive, processVars
    <3> QED  BY <1>8, <3>1, <3>2, <3>3, <3>4 DEF Input
  <2> QED  BY <1>0, <2>1
<1>9. CASE Arrive
  <2>1. UNCHANGED <<exit, pc, tcp, udp, input>>
    BY <1>9 DEF Arrive, processVars
  <2> QED  BY <2>1
<1>10. CASE Signal
  <2>1. /\ UNCHANGED <<input, udp, tcp>>
        /\ \/ UNCHANGED <<pc, exit>>
           \/ pc' = "exit" /\ exit' = 143
    BY <1>10 DEF Signal, inputVars
  <2> QED  BY <2>1
<1> QED
  BY <1>1, <1>2, <1>3, <1>4, <1>5, <1>6, <1>7, <1>8, <1>9, <1>10 DEF Next, Running

LEMMA EndStep == StartInv /\ StartInv' /\ EndInv /\ [Next]_vars => EndInv'
<1> SUFFICES ASSUME StartInv, StartInv', EndInv, [Next]_vars PROVE EndInv'
  OBVIOUS
<1> USE DEF StartInv, EndInv
<1>1. CASE Next
  BY <1>1, LocksStep, ClosingStep
<1>2. CASE UNCHANGED vars
  <2>1. UNCHANGED <<cfg, exit, pc, input, udp, tcp, held>>
    BY <1>2 DEF vars, processVars, inputVars
  <2> QED  BY <2>1 DEF Locks, Closing
<1> QED  BY <1>1, <1>2

\* The safe half of a shutdown: the input thread is joined while the main thread
\* holds no mutex that it may wait for (src/main.cpp:68-80), and exit code 0 after
\* a run means both sockets closed, the thread done and both mutexes free.
THEOREM CleanEnd == Spec => []EndsInOrder
<1>1. StartInv /\ EndInv => EndsInOrder
  <2> SUFFICES ASSUME StartInv, EndInv PROVE EndsInOrder
    OBVIOUS
  <2> USE DEF StartInv, EndInv
  <2>1. pc \in {"stop_ws", "stop_input", "join"} => \A m \in Mutexes : held[m] # "main"
    BY NoneIsNoCode, LinesFacts DEF Locks, Mutexes, Phases
  <2>2. ASSUME exit = 0, tcp # "none"
        PROVE  /\ input = "done" /\ udp = "closed" /\ tcp = "closed"
               /\ \A m \in Mutexes : held[m] = None
    <3>1. input = "done" /\ udp = "closed" /\ tcp = "closed"
      BY <2>2 DEF Closing
    <3>2. pc = "exit"
      BY <2>2, NoneIsNoCode DEF Phases, Early, Late, Waiting
    <3> QED  BY <2>2, <3>1, <3>2, LinesFacts DEF Locks, Mutexes
  <2> QED  BY <2>1, <2>2 DEF EndsInOrder
<1> QED  BY <1>1, StartInit, StartStep, EndInit, EndStep, PTL DEF Spec
===============================================================================
