---------------------------- MODULE SettingsProofs ----------------------------
(***************************************************************************)
(* Proofs about Settings, for any settings, words, files, environments,    *)
(* flags and statuses.  The invariant has three parts:                      *)
(*   Typing    what may be written where;                                   *)
(*   Recorded  the table of parseTOML is, after every line, what the file   *)
(*             says;                                                        *)
(*   Layered   after each layer every setting is what the layers so far say.*)
(***************************************************************************)
EXTENDS Settings, TLAPS

\* What the file and the environment may say of a setting.
Sayable(f) == IF f = ApiKey THEN Words[ApiKey] \cup Words[SdkKey] ELSE Words[f]

Typing ==
    /\ stage \in {"start", "file", "env", "flag", "loaded", "done", "failed"}
    /\ file \in Seq(Lines)
    /\ DOMAIN table = Variables /\ \A f \in Settings : table[f] \in Words[f] \cup {None}
    /\ \A v \in Variables : env[v] \in Words[v] \cup {None}
    /\ flags.timeout \in Int /\ flags.anonymous \in BOOLEAN
    /\ cfg \in [Settings -> Int]

HasLast(S) == S = {} \/ \E m \in S : \A j \in S : j <= m

Heads(s, i) == {j \in 1..i : s[j].is = "header"}

Pairs(s, f) == {i \in 1..Len(s) : s[i].is = "pair" /\ s[i].of = f /\ SectionAt(s, i) = Section[f]}

Recorded ==
    /\ \A i \in 0..Len(file) : HasLast(Heads(file, i))
    /\ \A f \in Settings : HasLast(Pairs(file, f)) /\ table[f] = FileSays(f)

\* No word that was read is in error, and the setting is what the decisive one says.
Kept(f) ==
    /\ \A word \in {FileSays(f), EnvSays(f)} \ {None} : Read(f, word) # {}
    /\ cfg[f] \in IF Decisive(f) # None THEN Read(f, Decisive(f)) ELSE {Default[f]}

Layered ==
    /\ stage \in {"start", "file"} => cfg = Default
    /\ stage = "start" => file = <<>>
    /\ stage \in {"start", "file", "env"} => env = Unset
    /\ stage \in {"env", "flag"} => \A f \in Settings : Kept(f)
    /\ stage # "done" => reply = None
    /\ SettingsAreAsWritten
    /\ Accepted => Valid(cfg)

Inv == Typing /\ Recorded /\ Layered

----------------------------------------------------------------------------
(* Helpers.  *)

LEMMA MaxIs ==
    ASSUME NEW S \in SUBSET Int, NEW m \in S, \A j \in S : j <= m
    PROVE  Max(S) = m
<1>1. \A x \in S : (\A y \in S : x >= y) => x = m
  OBVIOUS
<1>2. m \in S /\ \A y \in S : m >= y
  OBVIOUS
<1> QED BY <1>1, <1>2 DEF Max

LEMMA ReadIsInt ==
    ASSUME NEW f \in Settings, NEW word \in Sayable(f)
    PROVE  Read(f, word) \subseteq Int
<1>1. MaxDuration \in Int /\ Fraction \in Nat \ {0}
  BY NumbersAssumption
<1>2. Unspecified \subseteq Int
  BY <1>1 DEF Unspecified
<1>3. CASE f \in Texts
  <2>1. word \in Int
    BY <1>3, WordsAssumption DEF Sayable
  <2>2. Read(f, word) = {word}
    BY <1>3, SettingsAssumption DEF Read
  <2> QED BY <2>1, <2>2
<1>4. CASE f \in Ints
  <2>1. word \in Int \cup {Bad, NaN}
    BY <1>4, SettingsAssumption, WordsAssumption DEF Sayable
  <2>2. Read(f, word) = IF word \in {Bad, NaN} THEN {} ELSE {word}
    BY <1>4, SettingsAssumption DEF Read
  <2> QED BY <2>1, <2>2
<1>5. CASE f \in Times
  <2>1. word \in Int \cup {Bad, NaN}
    BY <1>5, SettingsAssumption, WordsAssumption DEF Sayable
  <2>2. Read(f, word) = IF word = Bad THEN {}
                        ELSE IF word = NaN THEN Unspecified
                        ELSE IF word <= 0 THEN {}
                        ELSE IF word \div Fraction > MaxDuration THEN Unspecified
                        ELSE {word \div Fraction}
    BY <1>5, SettingsAssumption DEF Read
  <2>3. word \in Int => word \div Fraction \in Int
    BY <1>1
  <2> QED BY <1>2, <2>1, <2>2, <2>3
<1> QED BY <1>3, <1>4, <1>5 DEF Settings

LEMMA ReadText ==
    ASSUME NEW f \in Texts, NEW word
    PROVE  Read(f, word) = {word}
  BY SettingsAssumption DEF Read

\* A length of time of less than a nanosecond comes only from these words.
LEMMA ReadTime ==
    ASSUME NEW f \in Times, NEW word \in Sayable(f), NEW d \in Read(f, word), d < 1
    PROVE  word = NaN \/ word \in 1..(Fraction - 1) \/ word \div Fraction > MaxDuration
<1>1. Fraction \in Nat \ {0}
  BY NumbersAssumption
<1>2. word \in Int \cup {Bad, NaN}
  BY SettingsAssumption, WordsAssumption DEF Sayable
<1>3. Read(f, word) = IF word = Bad THEN {}
                      ELSE IF word = NaN THEN Unspecified
                      ELSE IF word <= 0 THEN {}
                      ELSE IF word \div Fraction > MaxDuration THEN Unspecified
                      ELSE {word \div Fraction}
  BY SettingsAssumption DEF Read
<1> SUFFICES ASSUME word # NaN, ~(word \div Fraction > MaxDuration)
             PROVE  word \in 1..(Fraction - 1)
  OBVIOUS
<1>4. word \in Int /\ word > 0 /\ d = word \div Fraction
  BY <1>2, <1>3
<1>5. word < Fraction
  BY <1>1, <1>4
<1> QED BY <1>1, <1>4, <1>5

----------------------------------------------------------------------------
(* The file.  *)

\* A line more leaves the sections of the lines before it.
LEMMA SectionStays ==
    ASSUME Typing, Recorded, NEW l \in Lines, NEW i \in 0..Len(file)
    PROVE  /\ Heads(Append(file, l), i) = Heads(file, i)
           /\ SectionAt(Append(file, l), i) = SectionAt(file, i)
<1> DEFINE s == Append(file, l)
<1>1. \A j \in 1..i : s[j] = file[j]
  BY DEF Typing
<1>2. Heads(s, i) = Heads(file, i)
  BY <1>1 DEF Heads
<1>3. CASE Heads(file, i) # {}
  <2>1. PICK m \in Heads(file, i) : \A j \in Heads(file, i) : j <= m
    BY <1>3 DEF Recorded, HasLast
  <2>2. Heads(file, i) \in SUBSET Int
    BY DEF Heads
  <2>3. Max(Heads(file, i)) = m /\ m \in 1..i
    BY <2>1, <2>2, MaxIs DEF Heads
  <2> QED BY <1>1, <1>2, <1>3, <2>3 DEF SectionAt, Heads
<1>4. CASE Heads(file, i) = {}
  BY <1>2, <1>4 DEF SectionAt, Heads
<1> QED BY <1>2, <1>3, <1>4

LEMMA RecordKeeps ==
    ASSUME Typing, Recorded, NEW l \in Lines, file' = Append(file, l),
           table' = IF l.is = "pair" /\ Section[l.of] = SectionAt(file, Len(file))
                    THEN [table EXCEPT ![l.of] = l.says] ELSE table
    PROVE  Recorded'
<1> DEFINE s == Append(file, l)  n == Len(file)
<1>1. n \in Nat /\ Len(s) = n + 1 /\ s[n + 1] = l /\ \A j \in 1..n : s[j] = file[j]
  BY DEF Typing
<1>2. /\ \A i \in 0..n : Heads(s, i) = Heads(file, i)
      /\ \A i \in 0..n : SectionAt(s, i) = SectionAt(file, i)
  BY SectionStays
<1> HIDE DEF s, n
<1>3. Heads(s, n + 1) = IF l.is = "header" THEN Heads(s, n) \cup {n + 1} ELSE Heads(s, n)
  BY <1>1 DEF Heads
<1>4. l.is # "header" => SectionAt(s, n + 1) = SectionAt(s, n)
  BY <1>3 DEF SectionAt, Heads
<1>5. ASSUME NEW i \in 0..(n + 1)
      PROVE  HasLast(Heads(s, i))
  <2>1. \A k \in 0..n : HasLast(Heads(s, k))
    BY <1>2 DEF Recorded, n
  <2>2. n + 1 \in Heads(s, n + 1) \/ Heads(s, n + 1) = Heads(s, n)
    BY <1>3
  <2>3. \A j \in Heads(s, n + 1) : j <= n + 1
    BY <1>1 DEF Heads
  <2>4. HasLast(Heads(s, n + 1))
    BY <1>1, <2>1, <2>2, <2>3 DEF HasLast
  <2> QED BY <1>1, <2>1, <2>4
<1>6. ASSUME NEW f \in Settings
      PROVE  HasLast(Pairs(s, f)) /\ table'[f] = FileSays(f)'
  <2> DEFINE new == l.is = "pair" /\ l.of = f /\ Section[f] = SectionAt(file, n)
  <2>1. Pairs(s, f) = IF new THEN Pairs(file, f) \cup {n + 1} ELSE Pairs(file, f)
    <3>1. n + 1 \in Pairs(s, f) <=> new
      BY <1>1, <1>2, <1>4 DEF Pairs
    <3>2. \A i \in 1..n : i \in Pairs(s, f) <=> i \in Pairs(file, f)
      BY <1>1, <1>2 DEF Pairs, n
    <3>3. Pairs(s, f) \subseteq 1..(n + 1) /\ Pairs(file, f) \subseteq 1..n
      BY <1>1 DEF Pairs, n
    <3>4. \A i : i \in Pairs(s, f) <=> i \in Pairs(file, f) \/ (i = n + 1 /\ new)
      <4> HIDE DEF new
      <4>1. n + 1 \notin 1..n /\ \A i : i \in 1..(n + 1) <=> i \in 1..n \/ i = n + 1
        BY <1>1
      <4> QED BY <3>1, <3>2, <3>3, <4>1
    <3> HIDE DEF new
    <3>5. CASE new
      BY <3>4, <3>5
    <3>6. CASE ~new
      BY <3>4, <3>6
    <3> QED BY <3>5, <3>6
  <2>2. Pairs(file, f) \subseteq 1..n /\ Pairs(s, f) \subseteq 1..(n + 1)
    BY <1>1 DEF Pairs, n
  <2>3. /\ FileSays(f) = IF Pairs(file, f) = {} THEN None ELSE file[Max(Pairs(file, f))].says
        /\ FileSays(f)' = IF Pairs(s, f) = {} THEN None ELSE s[Max(Pairs(s, f))].says
    BY DEF FileSays, Pairs, s
  <2>4. HasLast(Pairs(file, f)) /\ table[f] = FileSays(f)
    BY DEF Recorded
  <2>5. CASE new
    <3>1. n + 1 \in Pairs(s, f) /\ \A j \in Pairs(s, f) : j <= n + 1
      BY <1>1, <2>1, <2>2, <2>5
    <3>2. Max(Pairs(s, f)) = n + 1
      <4>1. Pairs(s, f) \in SUBSET Int
        BY <2>2
      <4> QED BY <3>1, <4>1, MaxIs
    <3>3. FileSays(f)' = l.says
      BY <1>1, <2>3, <3>1, <3>2
    <3>4. table'[f] = l.says
      BY <2>5 DEF Typing, Variables, n
    <3> QED BY <3>1, <3>3, <3>4 DEF HasLast
  <2>6. CASE ~new
    <3>1. table'[f] = table[f]
      BY <2>6 DEF Typing, Variables, n
    <3>2. FileSays(f)' = FileSays(f)
      <4>1. CASE Pairs(file, f) = {}
        BY <2>1, <2>3, <2>6, <4>1
      <4>2. CASE Pairs(file, f) # {}
        <5>1. PICK m \in Pairs(file, f) : \A j \in Pairs(file, f) : j <= m
          BY <2>4, <4>2 DEF HasLast
        <5>2. Max(Pairs(file, f)) = m
          <6>1. Pairs(file, f) \in SUBSET Int
            BY <2>2
          <6> QED BY <5>1, <6>1, MaxIs
        <5>3. m \in 1..n
          BY <2>2
        <5> QED BY <1>1, <2>1, <2>3, <2>6, <4>2, <5>2, <5>3
      <4> QED BY <4>1, <4>2
    <3> QED BY <2>1, <2>4, <2>6, <3>1, <3>2
  <2> HIDE DEF new
  <2> QED BY <2>5, <2>6
<1> QED BY <1>1, <1>5, <1>6 DEF Recorded, s

----------------------------------------------------------------------------
(* The layers.  *)

\* What was read is sayable.
LEMMA SaidIsSayable ==
    ASSUME Typing, Recorded, NEW f \in Settings
    PROVE  /\ FileSays(f) \in Sayable(f) \cup {None}
           /\ EnvSays(f) \in Sayable(f) \cup {None}
           /\ Decisive(f) \in Sayable(f) \cup {None}
<1>1. FileSays(f) \in Sayable(f) \cup {None}
  BY DEF Typing, Recorded, Sayable
<1>2. EnvSays(f) \in Sayable(f) \cup {None}
  BY SettingsAssumption DEF Typing, Sayable, EnvSays, Variables
<1> QED BY <1>1, <1>2 DEF Decisive

\* A layer of words is applied to every setting.
LEMMA LayerApplies ==
    ASSUME NEW words, cfg \in [Settings -> Int], cfg' \in Applied(words),
           \A f \in Settings : words[f] \in Sayable(f) \cup {None}
    PROVE  /\ cfg' \in [Settings -> Int]
           /\ \A f \in Settings :
                 IF words[f] # None THEN cfg'[f] \in Read(f, words[f]) ELSE cfg'[f] = cfg[f]
<1>1. cfg' \in [Settings -> UNION {Outcomes(words, f) : f \in Settings}]
      /\ \A f \in Settings : cfg'[f] \in Outcomes(words, f)
  BY DEF Applied
<1>2. \A f \in Settings : Outcomes(words, f) \subseteq Int
  BY ReadIsInt DEF Outcomes
<1>3. \A f \in Settings : cfg'[f] \in Int
  BY <1>1, <1>2
<1> QED BY <1>1, <1>3 DEF Outcomes

\* Kept and what rests on it read only these variables.
LEMMA SaysStays ==
    ASSUME UNCHANGED <<file, env>>, NEW f
    PROVE  FileSays(f)' = FileSays(f) /\ EnvSays(f)' = EnvSays(f) /\ Decisive(f)' = Decisive(f)
  BY DEF FileSays, EnvSays, Decisive, SectionAt

LEMMA RecordedStays ==
    ASSUME Recorded, UNCHANGED <<file, table>>
    PROVE  Recorded'
<1>1. \A s, i : SectionAt(s, i)' = SectionAt(s, i) /\ Heads(s, i)' = Heads(s, i)
  BY DEF SectionAt, Heads
<1>2. \A f : FileSays(f)' = FileSays(f)
  BY DEF FileSays, SectionAt
<1>3. \A f : Pairs(file, f)' = Pairs(file, f)
  BY DEF Pairs, SectionAt
<1>4. \A i : Heads(file, i)' = Heads(file, i)
  BY DEF Heads
<1>5. /\ \A i \in 0..Len(file) : HasLast(Heads(file, i)')
      /\ \A f \in Settings : HasLast(Pairs(file, f)') /\ table'[f] = FileSays(f)'
  BY <1>2, <1>3, <1>4 DEF Recorded
<1> QED BY <1>5 DEF Recorded, HasLast

LEMMA InitInv == Init => Inv
<1> SUFFICES ASSUME Init PROVE Inv
  OBVIOUS
<1>1. Typing
  <2>1. flags.timeout \in Int /\ flags.anonymous \in BOOLEAN /\ cfg \in [Settings -> Int]
    BY SettingsAssumption, BoundsAssumption DEF Init
  <2>2. table = Unset /\ env = Unset /\ file = <<>> /\ stage = "start"
    BY DEF Init
  <2> QED BY <2>1, <2>2 DEF Typing, Unset, Variables
<1>2. Recorded
  BY DEF Init, Recorded, HasLast, Heads, Pairs, FileSays, Unset, Variables
<1>3. Layered
  BY DEF Init, Layered, SettingsAreAsWritten, Accepted
<1> QED BY <1>1, <1>2, <1>3 DEF Inv

LEMMA FileKeeps ==
    ASSUME Inv, Open \/ ReadLine
    PROVE  Inv'
<1>1. CASE Open
  <2>1. Typing' /\ Recorded'
    BY <1>1, RecordedStays DEF Open, Fail, Inv, Typing
  <2>2. Layered'
    <3>1. stage = "start" /\ UNCHANGED <<file, table, env, flags, cfg, reply, auth>>
          /\ stage' \in {"file", "env", "failed"}
      BY <1>1 DEF Open, Fail
    <3>2. \A f \in Settings : Kept(f)'
      <4> SUFFICES ASSUME NEW f \in Settings PROVE Kept(f)'
        OBVIOUS
      <4>1. FileSays(f) = None /\ EnvSays(f) = None /\ cfg[f] = Default[f]
        BY <3>1, SettingsAssumption DEF Inv, Layered, FileSays, EnvSays, Unset, Variables
      <4>2. FileSays(f)' = None /\ EnvSays(f)' = None /\ Decisive(f)' = None
        BY <3>1, <4>1, SaysStays DEF Decisive
      <4> QED BY <3>1, <4>1, <4>2 DEF Kept
    <3> QED BY <3>1, <3>2 DEF Inv, Layered, SettingsAreAsWritten, Accepted
  <2> QED BY <2>1, <2>2 DEF Inv
<1>2. CASE ReadLine
  <2>1. PICK l \in Lines :
            /\ file' = Append(file, l)
            /\ IF l.is = "broken" THEN Fail ELSE UNCHANGED <<stage, code>>
            /\ table' = IF l.is = "pair" /\ Section[l.of] = SectionAt(file, Len(file))
                        THEN [table EXCEPT ![l.of] = l.says] ELSE table
    BY <1>2 DEF ReadLine
  <2>2. stage = "file" /\ UNCHANGED <<env, flags, cfg, reply, auth>> /\ stage' \in {"file", "failed"}
    BY <1>2, <2>1 DEF ReadLine, Fail
  <2>3. Typing'
    <3>1. l.is = "pair" => l.of \in Settings /\ l.says \in Words[l.of] \cup {None}
      <4>1. CASE l \in Header \/ l = Broken
        BY <4>1 DEF Header, Broken
      <4>2. CASE \E f \in Settings : l \in Pair(f)
        BY <4>2 DEF Pair
      <4>3. l \in Header \/ l \in UNION {Pair(f) : f \in Settings} \/ l = Broken
        <5>1. Lines \subseteq Header \cup (UNION {Pair(g) : g \in Settings}) \cup {Broken}
          BY BoundsAssumption
        <5> QED BY <5>1
      <4> QED BY <4>1, <4>2, <4>3
    <3>2. \A f \in Settings : table'[f] \in Words[f] \cup {None}
      BY <2>1, <3>1 DEF Inv, Typing, Variables
    <3>3. DOMAIN table' = Variables
      BY <2>1 DEF Inv, Typing
    <3>4. file' \in Seq(Lines)
      BY <2>1 DEF Inv, Typing
    <3> QED BY <2>2, <3>2, <3>3, <3>4 DEF Inv, Typing
  <2>4. Recorded'
    BY <2>1, RecordKeeps DEF Inv
  <2>5. Layered'
    BY <2>2 DEF Inv, Layered, SettingsAreAsWritten, Accepted
  <2> QED BY <2>3, <2>4, <2>5 DEF Inv
<1> QED BY <1>1, <1>2

LEMMA ApplyFileKeeps ==
    ASSUME Inv, ApplyFile
    PROVE  Inv'
<1>1. stage = "file" /\ UNCHANGED <<file, table, env, flags, reply, auth>> /\ Layer(table, "env")
  BY DEF ApplyFile
<1>2. Recorded'
  BY <1>1, RecordedStays DEF Inv
<1>3. CASE cfg' \in Applied(table) /\ stage' = "env"
  <2>1. \A f \in Settings : table[f] \in Sayable(f) \cup {None}
    BY SaidIsSayable DEF Inv, Recorded
  <2>2. /\ cfg' \in [Settings -> Int]
        /\ \A f \in Settings :
              IF table[f] # None THEN cfg'[f] \in Read(f, table[f]) ELSE cfg'[f] = cfg[f]
    BY <1>3, <2>1, LayerApplies DEF Inv, Typing
  <2>3. Typing'
    BY <1>1, <1>3, <2>2 DEF Inv, Typing
  <2>4. ASSUME NEW f \in Settings
        PROVE  Kept(f)'
    <3>1. EnvSays(f) = None
      BY <1>1, SettingsAssumption DEF Inv, Layered, EnvSays, Unset, Variables
    <3>2. table[f] = FileSays(f) /\ cfg[f] = Default[f]
      BY <1>1 DEF Inv, Recorded, Layered
    <3>3. EnvSays(f)' = None /\ FileSays(f)' = table[f] /\ Decisive(f)' = table[f]
      BY <1>1, <3>1, <3>2, SaysStays DEF Decisive
    <3> QED BY <2>2, <3>2, <3>3 DEF Kept
  <2>5. Layered'
    BY <1>1, <1>3, <2>4 DEF Inv, Layered, SettingsAreAsWritten, Accepted
  <2> QED BY <1>2, <2>3, <2>5 DEF Inv
<1>4. CASE Fail /\ UNCHANGED cfg
  BY <1>1, <1>2, <1>4 DEF Fail, Inv, Typing, Layered, SettingsAreAsWritten, Accepted
<1> QED BY <1>1, <1>3, <1>4 DEF Layer

LEMMA ApplyEnvKeeps ==
    ASSUME Inv, ApplyEnv
    PROVE  Inv'
<1>1. PICK e \in Environments : env' = e /\ Layer([e EXCEPT ![ApiKey] = KeyWord(e)], "flag")
  BY DEF ApplyEnv
<1> DEFINE words == [e EXCEPT ![ApiKey] = KeyWord(e)]
<1>2. stage = "env" /\ UNCHANGED <<file, table, flags, reply, auth>>
  BY DEF ApplyEnv
<1>3. DOMAIN e = Variables /\ \A v \in Variables : e[v] \in Words[v] \cup {None}
  BY BoundsAssumption
<1>4. Recorded'
  BY <1>2, RecordedStays DEF Inv
<1>5. \A f \in Settings : words[f] = EnvSays(f)'
  BY <1>1, <1>3, SettingsAssumption DEF KeyWord, EnvSays, Variables, Settings
<1>6. \A f \in Settings : words[f] \in Sayable(f) \cup {None}
  BY <1>1, <1>3, <1>5 DEF EnvSays, Sayable, Variables
<1> HIDE DEF words
<1>7. CASE cfg' \in Applied(words) /\ stage' = "flag"
  <2>1. /\ cfg' \in [Settings -> Int]
        /\ \A f \in Settings :
              IF words[f] # None THEN cfg'[f] \in Read(f, words[f]) ELSE cfg'[f] = cfg[f]
    BY <1>6, <1>7, LayerApplies DEF Inv, Typing
  <2>2. Typing'
    BY <1>1, <1>2, <1>3, <1>7, <2>1 DEF Inv, Typing
  <2>3. ASSUME NEW f \in Settings
        PROVE  Kept(f)'
    <3>1. FileSays(f)' = FileSays(f)
      BY <1>2 DEF FileSays, SectionAt
    <3>2. Kept(f) /\ EnvSays(f) = None
      BY <1>2, SettingsAssumption DEF Inv, Layered, EnvSays, Unset, Variables
    <3>3. Decisive(f) = FileSays(f)
      BY <3>2 DEF Decisive
    <3>4. Decisive(f)' = IF words[f] # None THEN words[f] ELSE FileSays(f)
      BY <1>5, <3>1 DEF Decisive
    <3> QED BY <1>5, <2>1, <3>1, <3>2, <3>3, <3>4 DEF Kept
  <2>4. Layered'
    BY <1>2, <1>7, <2>3 DEF Inv, Layered, SettingsAreAsWritten, Accepted
  <2> QED BY <1>4, <2>2, <2>4 DEF Inv
<1>8. CASE Fail /\ UNCHANGED cfg
  <2>1. Typing'
    BY <1>1, <1>2, <1>3, <1>8 DEF Fail, Inv, Typing
  <2> QED BY <1>2, <1>4, <1>8, <2>1 DEF Fail, Inv, Layered, SettingsAreAsWritten, Accepted
<1> QED BY <1>1, <1>7, <1>8 DEF Layer, words

LEMMA KeyCleared ==
    ASSUME NEW g \in [Settings -> Int]
    PROVE  /\ [g EXCEPT ![ApiKey] = 0] \in [Settings -> Int]
           /\ \A f \in Settings : [g EXCEPT ![ApiKey] = 0][f] = IF f = ApiKey THEN 0 ELSE g[f]
<1>1. [g EXCEPT ![ApiKey] = 0] = [f \in Settings |-> IF f = ApiKey THEN 0 ELSE g[f]]
  BY Zenon
<1>2. \A f \in Settings : (IF f = ApiKey THEN 0 ELSE g[f]) \in Int
  OBVIOUS
<1>3. [g EXCEPT ![ApiKey] = 0] \in [Settings -> Int]
  BY <1>1, <1>2, Zenon
<1>4. \A f \in Settings : [g EXCEPT ![ApiKey] = 0][f] = IF f = ApiKey THEN 0 ELSE g[f]
  BY Zenon
<1> QED BY <1>3, <1>4

LEMMA ResolveKeeps ==
    ASSUME Inv, Resolve
    PROVE  Inv'
<1> DEFINE loaded == [cfg EXCEPT ![Timeout] = IF flags.timeout > 0 THEN flags.timeout ELSE cfg[Timeout]]
<1>1. /\ stage = "flag" /\ UNCHANGED <<file, table, env, flags, reply, auth>>
      /\ \/ /\ Valid(loaded) /\ stage' = "loaded"
            /\ cfg' = IF flags.anonymous THEN Anonymous(loaded) ELSE loaded
         \/ stage' = "failed" /\ UNCHANGED cfg
  BY DEF Resolve, Fail
<1>2. Recorded'
  BY <1>1, RecordedStays DEF Inv
<1>3. loaded \in [Settings -> Int]
      /\ \A f \in Settings : loaded[f] = IF f = Timeout /\ flags.timeout > 0 THEN flags.timeout ELSE cfg[f]
  BY DEF Inv, Typing
<1> HIDE DEF loaded
<1>4. CASE stage' = "loaded"
  <2>1. Valid(loaded) /\ cfg' = IF flags.anonymous THEN Anonymous(loaded) ELSE loaded
    BY <1>1, <1>4
  <2>2. /\ cfg' \in [Settings -> Int]
        /\ \A f \in Settings : cfg'[f] = IF f = ApiKey /\ flags.anonymous THEN 0 ELSE loaded[f]
    <3>1. CASE flags.anonymous
      <4>1. cfg' = [loaded EXCEPT ![ApiKey] = 0]
        BY <2>1, <3>1 DEF Anonymous
      <4>2. loaded \in [Settings -> Int]
        BY <1>3
      <4>3. cfg' \in [Settings -> Int] /\ \A f \in Settings : cfg'[f] = IF f = ApiKey THEN 0 ELSE loaded[f]
        BY <4>1, <4>2, KeyCleared
      <4> QED BY <3>1, <4>3
    <3>2. CASE ~flags.anonymous
      BY <1>3, <2>1, <3>2
    <3>3. flags.anonymous \in BOOLEAN
      BY DEF Inv, Typing
    <3> QED BY <3>1, <3>2, <3>3
  <2>3. Typing'
    BY <1>1, <1>4, <2>2 DEF Inv, Typing
  <2>4. Valid(cfg)'
    <3>1. Limit \in Settings /\ MaxPerHour \in Settings /\ Limit # ApiKey /\ MaxPerHour # ApiKey
      BY SettingsAssumption DEF Settings
    <3> QED BY <2>1, <2>2, <3>1 DEF Valid
  <2>5. SettingsAreAsWritten'
    <3> SUFFICES ASSUME NEW f \in Settings
                 PROVE  /\ \A word \in {FileSays(f), EnvSays(f)} \ {None} : Read(f, word) # {}
                        /\ cfg'[f] \in IF f = ApiKey /\ flags.anonymous THEN {0}
                                       ELSE IF f = Timeout /\ flags.timeout > 0 THEN {flags.timeout}
                                       ELSE IF Decisive(f) # None THEN Read(f, Decisive(f))
                                       ELSE {Default[f]}
      BY <1>1, SaysStays DEF SettingsAreAsWritten
    <3>1. Kept(f)
      BY <1>1 DEF Inv, Layered
    <3> QED BY <1>3, <2>2, <3>1 DEF Kept
  <2>6. Layered'
    BY <1>1, <1>4, <2>4, <2>5 DEF Inv, Layered
  <2> QED BY <1>2, <2>3, <2>6 DEF Inv
<1>5. CASE stage' = "failed"
  BY <1>1, <1>2, <1>5 DEF Inv, Typing, Layered, SettingsAreAsWritten, Accepted
<1> QED BY <1>1, <1>4, <1>5

LEMMA AuthKeeps ==
    ASSUME Inv, AuthCheck
    PROVE  Inv'
<1>1. stage = "loaded" /\ stage' = "done" /\ UNCHANGED <<file, table, env, flags, cfg>>
  BY DEF AuthCheck
<1>2. Typing' /\ Recorded'
  BY <1>1, RecordedStays DEF Inv, Typing
<1>3. SettingsAreAsWritten'
  <2>1. SettingsAreAsWritten
    BY DEF Inv, Layered
  <2> QED BY <1>1, <2>1, SaysStays DEF SettingsAreAsWritten, Accepted
<1>4. Layered'
  BY <1>1, <1>3 DEF Inv, Layered, Accepted, Valid
<1> QED BY <1>2, <1>4 DEF Inv

LEMMA NextInv == Inv /\ [Next]_vars => Inv'
<1> SUFFICES ASSUME Inv, [Next]_vars PROVE Inv'
  OBVIOUS
<1>1. CASE UNCHANGED vars
  <2>1. Typing' /\ Recorded'
    BY <1>1, RecordedStays DEF Inv, Typing, vars
  <2>2. \A f \in Settings : Kept(f)' <=> Kept(f)
    BY <1>1, SaysStays DEF Kept, vars
  <2>3. SettingsAreAsWritten'
    <3>1. SettingsAreAsWritten
      BY DEF Inv, Layered
    <3> QED BY <1>1, <3>1, SaysStays DEF SettingsAreAsWritten, Accepted, vars
  <2>4. Layered'
    BY <1>1, <2>2, <2>3 DEF Inv, Layered, Accepted, Valid, vars
  <2> QED BY <2>1, <2>4 DEF Inv
<1> QED BY <1>1, FileKeeps, ApplyFileKeeps, ApplyEnvKeeps, ResolveKeeps, AuthKeeps DEF Next

LEMMA SpecInv == Spec => []Inv
  BY InitInv, NextInv, PTL DEF Spec

----------------------------------------------------------------------------
\* Every accepted setting is what the flag, the environment, the file or the default
\* says, in this order (config.go, Load).
THEOREM PrecedenceHolds == Spec => []SettingsAreAsWritten
<1>1. Inv => SettingsAreAsWritten
  BY DEF Inv, Layered
<1> QED BY SpecInv, <1>1, PTL

\* The rest of the program can work with it (config.go, validate and parseSeconds).
THEOREM UsableHolds == Spec => []ConfigIsUsable
<1>1. Inv => ConfigIsUsable
  <2> SUFFICES ASSUME Inv, Accepted
               PROVE  /\ cfg[Limit] >= 1
                      /\ RateCeiling >= 1
                      /\ \A f \in Times : cfg[f] < 1 =>
                            \/ Decisive(f) = NaN
                            \/ Decisive(f) \in 1..(Fraction - 1)
                            \/ Decisive(f) \div Fraction > MaxDuration
    BY DEF ConfigIsUsable
  <2>1. cfg[Limit] >= 1 /\ cfg[MaxPerHour] >= 0
    BY DEF Inv, Layered, Valid
  <2>2. RateCeiling >= 1
    <3>1. cfg[MaxPerHour] \in Int
      BY SettingsAssumption DEF Inv, Typing, Settings
    <3>2. AnonymousCeiling >= 1 /\ KeyedCeiling >= 1
      BY NumbersAssumption
    <3> QED BY <3>1, <3>2 DEF RateCeiling
  <2>3. ASSUME NEW f \in Times, cfg[f] < 1
        PROVE  \/ Decisive(f) = NaN
               \/ Decisive(f) \in 1..(Fraction - 1)
               \/ Decisive(f) \div Fraction > MaxDuration
    <3>1. f \in Settings /\ f # ApiKey /\ Default[f] >= 1 /\ Default[f] \in Int /\ cfg[f] \in Int
      BY SettingsAssumption DEF Settings, Inv, Typing
    <3>2. cfg[f] \in IF f = Timeout /\ flags.timeout > 0 THEN {flags.timeout}
                     ELSE IF Decisive(f) # None THEN Read(f, Decisive(f)) ELSE {Default[f]}
      BY <3>1 DEF Inv, Layered, SettingsAreAsWritten
    <3>3. Decisive(f) # None /\ cfg[f] \in Read(f, Decisive(f))
      <4>1. flags.timeout \in Int
        BY DEF Inv, Typing
      <4> QED BY <2>3, <3>1, <3>2, <4>1
    <3>4. Decisive(f) \in Sayable(f)
      BY <3>1, <3>3, SaidIsSayable DEF Inv
    <3> QED BY <2>3, <3>3, <3>4, ReadTime
  <2> QED BY <2>1, <2>2, <2>3
<1> QED BY SpecInv, <1>1, PTL

\* Whether there is a key is known from what was written.
LEMMA KeyIsKnown ==
    ASSUME Inv, Accepted
    PROVE  cfg[ApiKey] = 0 <=> flags.anonymous \/ Decisive(ApiKey) = None
<1>1. ApiKey \in Settings /\ ApiKey \in Texts /\ ApiKey # Timeout /\ Default[ApiKey] = 0
  BY SettingsAssumption DEF Settings
<1>2. cfg[ApiKey] \in IF flags.anonymous THEN {0}
                      ELSE IF Decisive(ApiKey) # None THEN Read(ApiKey, Decisive(ApiKey))
                      ELSE {Default[ApiKey]}
  BY <1>1 DEF Inv, Layered, SettingsAreAsWritten
<1>3. Decisive(ApiKey) # None => Decisive(ApiKey) \in Int \ {0}
  <2>1. Decisive(ApiKey) \in Sayable(ApiKey) \cup {None}
    BY <1>1, SaidIsSayable DEF Inv
  <2>2. Words[ApiKey] \subseteq Int \ {0} /\ Words[SdkKey] \subseteq Int \ {0}
    BY <1>1, WordsAssumption
  <2> QED BY <2>1, <2>2 DEF Sayable
<1>4. Read(ApiKey, Decisive(ApiKey)) = {Decisive(ApiKey)}
  BY <1>1, ReadText
<1>5. flags.anonymous \in BOOLEAN
  BY DEF Inv, Typing
<1> QED BY <1>1, <1>2, <1>3, <1>4, <1>5

\* auth check never takes an outage for a refusal, nor a refusal for an outage
\* (auth.go, runAuth).
THEOREM AuthHolds == Spec => []AuthIsTrue
<1>1. Init => AuthIsTrue
  BY DEF Init, AuthIsTrue
<1>2. Inv /\ AuthIsTrue /\ [Next]_vars => AuthIsTrue'
  <2> SUFFICES ASSUME Inv, AuthIsTrue, [Next]_vars PROVE AuthIsTrue'
    OBVIOUS
  <2>1. CASE UNCHANGED vars
    <3>1. Decisive(ApiKey)' = Decisive(ApiKey)
      BY <2>1, SaysStays DEF vars
    <3> QED BY <2>1, <3>1 DEF AuthIsTrue, vars
  <2>2. CASE AuthCheck
    <3>1. /\ stage = "loaded" /\ stage' = "done" /\ UNCHANGED <<file, table, env, flags, cfg>>
          /\ reply = None /\ Decisive(ApiKey)' = Decisive(ApiKey)
          /\ cfg[ApiKey] = 0 <=> flags.anonymous \/ Decisive(ApiKey) = None
      BY <2>2, SaysStays, KeyIsKnown DEF AuthCheck, Accepted, Inv, Layered
    <3>2. CASE cfg[ApiKey] = 0
      <4>1. auth' = "absent" /\ code' = 2 /\ reply' = None
        BY <2>2, <3>1, <3>2 DEF AuthCheck
      <4> QED BY <3>1, <3>2, <4>1 DEF AuthIsTrue
    <3>3. CASE cfg[ApiKey] # 0
      <4>1. PICK r \in [status : Statuses, decodes : {FALSE}] \cup [status : {200}, decodes : {TRUE}] :
                reply' = r /\ auth' = Verdict(r).auth /\ code' \in {Verdict(r).code, 2}
        BY <2>2, <3>3 DEF AuthCheck
      <4>2. r \in [status : Statuses \cup {200}, decodes : BOOLEAN]
        OBVIOUS
      <4>3. r # None
        BY <4>2, WordsAssumption
      <4>4. /\ ErrorOf(r) = "none" <=> r.status = 200 /\ r.decodes
            /\ ErrorOf(r) = "auth_required" <=> r.status \in {401, 403}
        BY <4>2 DEF ErrorOf
      <4>5. /\ Verdict(r).auth = IF ErrorOf(r) = "none" THEN "valid"
                                 ELSE IF ErrorOf(r) = "auth_required" THEN "rejected" ELSE "unreachable"
            /\ Verdict(r).code = IF ErrorOf(r) = "none" THEN 0
                                 ELSE IF ErrorOf(r) = "auth_required" THEN 2 ELSE 1
        BY DEF Verdict
      <4> QED BY <3>1, <3>3, <4>1, <4>3, <4>4, <4>5 DEF AuthIsTrue
    <3> QED BY <3>2, <3>3
  <2>3. CASE Open \/ ReadLine \/ ApplyFile \/ ApplyEnv \/ Resolve
    <3>1. stage # "done" /\ stage' # "done"
      BY <2>3 DEF Open, ReadLine, ApplyFile, ApplyEnv, Resolve, Layer, Fail
    <3> QED BY <3>1 DEF AuthIsTrue
  <2> QED BY <2>1, <2>2, <2>3 DEF Next
<1> QED BY SpecInv, <1>1, <1>2, PTL DEF Spec
=============================================================================
