------------------------------ MODULE Settings ------------------------------
(***************************************************************************)
(* How a run of the command gets its configuration (config.Load, and       *)
(* buildClient after it) and what `auth check` then says of the key.        *)
(*                                                                         *)
(* Every setting is a number: a key or a directory by its name, 0 when      *)
(* there is none; a length of time in fractions of a nanosecond as it is    *)
(* written and in nanoseconds as it is kept.  What a value says is          *)
(* modelled, not how it is spelled; None is a value left empty.             *)
(***************************************************************************)
EXTENDS Integers, Sequences, FiniteSetsExt

CONSTANTS
    Texts, Ints, Times,  \* the settings: texts, integers, lengths of time
    ApiKey, SdkKey, Limit, Timeout, MaxPerHour,  \* those the code names one by one
    Section, Sections,   \* the section each setting belongs to; all headers
    Words,               \* bound: what may be written for each variable
    Lines,               \* bound: the lines a file may hold
    MaxLines,            \* bound: how many of them
    Environments,        \* bound: what the environment may say of each variable
    TimeoutFlags,        \* bound: values of --timeout, 0 when not given
    Default,             \* the settings before anything is read
    AnonymousCeiling, KeyedCeiling,
    Fraction,            \* the fractions in a nanosecond
    MaxDuration,         \* the longest time.Duration
    Statuses,            \* HTTP statuses, 0 when the request never completes
    Bad, NaN, None       \* a word that is no number; "nan"; nothing written

Settings == Texts \cup Ints \cup Times

\* The second environment variable for the key is no setting of its own.
Variables == Settings \cup {SdkKey}

Header == [is : {"header"}, of : Sections]
Pair(f) == [is : {"pair"}, of : {f}, says : Words[f] \cup {None}]
Broken == [is |-> "broken"]

ASSUME SettingsAssumption ==
    /\ Texts \cap Ints = {} /\ Texts \cap Times = {} /\ Ints \cap Times = {}
    /\ ApiKey \in Texts /\ {Limit, MaxPerHour} \subseteq Ints /\ Timeout \in Times
    /\ SdkKey \notin Settings
    /\ Section \in [Settings -> Sections]
    /\ Default \in [Settings -> Int] /\ Default[ApiKey] = 0
    /\ Default[Limit] >= 1 /\ Default[MaxPerHour] = 0 /\ \A f \in Times : Default[f] >= 1
ASSUME NumbersAssumption ==
    /\ {AnonymousCeiling, KeyedCeiling, Fraction, MaxDuration} \subseteq Nat \ {0}
    /\ MaxLines \in Nat
ASSUME WordsAssumption ==
    /\ \A f \in Texts \cup {SdkKey} : Words[f] \subseteq Int \ {0}
    /\ \A f \in Ints \cup Times : Words[f] \subseteq Int \cup {Bad, NaN}
    /\ {Bad, NaN, None} \cap Int = {} /\ None \notin {Bad, NaN} \cup Sections
    /\ None \notin [status : Statuses \cup {200}, decodes : BOOLEAN]
ASSUME BoundsAssumption ==
    /\ TimeoutFlags \subseteq Int
    /\ Lines \subseteq Header \cup (UNION {Pair(f) : f \in Settings}) \cup {Broken}
    /\ \A e \in Environments : DOMAIN e = Variables /\ \A v \in Variables : e[v] \in Words[v] \cup {None}

VARIABLES
    stage,   \* how far Load, and then the command, has come
    file,    \* the lines read
    table,   \* parseTOML's result, for the settings the code looks up
    env,     \* what the environment says of each variable
    flags,   \* --timeout and --anonymous
    cfg,     \* the Config
    reply,   \* [status, decodes] of the request to /users/me, or None
    auth,    \* what auth check says
    code     \* the exit code

vars == <<stage, file, table, env, flags, cfg, reply, auth, code>>

Unset == [f \in Variables |-> None]

Init ==
    /\ stage = "start"
    /\ file = <<>>
    /\ table = Unset
    /\ env = Unset
    /\ flags \in [timeout : TimeoutFlags, anonymous : BOOLEAN]
    /\ cfg = Default
    /\ reply = None
    /\ auth = "none"
    /\ code = -1

----------------------------------------------------------------------------
\* A conversion from float64 whose result the language leaves to the platform.
Unspecified == {-MaxDuration - 1, 0, MaxDuration}

\* Slips: a word that cannot be read counts as not written; the sign is not looked at.
ReadLenient(f, word) ==
    IF f \in Ints /\ word \in {Bad, NaN} THEN {Default[f]}
    ELSE IF f \in Times /\ word = Bad THEN {Default[f]}
    ELSE IF f \in Times /\ word = NaN THEN Unspecified
    ELSE IF f \in Times THEN {word \div Fraction} ELSE {word}

\* What parseInt, parseSeconds or parseHours makes of a word: nothing, when it is an
\* error.  A duration is cut to whole nanoseconds after the test of its sign.
Read(f, word) ==
    CASE f \in Texts -> {word}
      [] f \in Ints  -> IF word \in {Bad, NaN} THEN {} ELSE {word}
      [] f \in Times -> IF word = Bad THEN {}
                        ELSE IF word = NaN THEN Unspecified
                        ELSE IF word <= 0 THEN {}
                        ELSE IF word \div Fraction > MaxDuration THEN Unspecified
                        ELSE {word \div Fraction}

\* The configurations that cfg may become when words is applied over it, none when
\* a word is in error: a setting that is not written, or empty, stays.
Outcomes(words, f) == IF words[f] # None THEN Read(f, words[f]) ELSE {cfg[f]}
Applied(words) ==
    {c \in [Settings -> UNION {Outcomes(words, f) : f \in Settings}] :
        \A f \in Settings : c[f] \in Outcomes(words, f)}

Fail == stage' = "failed" /\ code' = 2

\* Load goes on after a layer of words, or returns its error.
Layer(words, next) ==
    \/ cfg' \in Applied(words) /\ stage' = next /\ UNCHANGED code
    \/ Applied(words) = {} /\ Fail /\ UNCHANGED cfg

----------------------------------------------------------------------------
\* The file opens, is not there, or cannot be opened.
Open ==
    /\ stage = "start"
    /\ \/ stage' \in {"file", "env"} /\ UNCHANGED code
       \/ Fail
    /\ UNCHANGED <<file, table, env, flags, cfg, reply, auth>>

\* The section that is open at line i.
SectionAt(s, i) ==
    LET heads == {j \in 1..i : s[j].is = "header"}
    IN  IF heads = {} THEN None ELSE s[Max(heads)].of

\* One round of parseTOML's loop: a pair counts in its own section only, and the last
\* one counts; anything else is an error.
ReadLine ==
    /\ stage = "file" /\ Len(file) < MaxLines
    /\ \E l \in Lines :
          /\ file' = Append(file, l)
          /\ IF l.is = "broken" THEN Fail ELSE UNCHANGED <<stage, code>>
          /\ table' = IF l.is = "pair" /\ Section[l.of] = SectionAt(file, Len(file))
                      THEN [table EXCEPT ![l.of] = l.says] ELSE table
    /\ UNCHANGED <<env, flags, cfg, reply, auth>>

\* applySections, at the end of the file.
ApplyFile ==
    /\ stage = "file"
    /\ Layer(table, "env")
    /\ UNCHANGED <<file, table, env, flags, reply, auth>>

\* A slip: the variable of the SDK wins.
KeyWordSdkFirst(e) == IF e[SdkKey] # None THEN e[SdkKey] ELSE e[ApiKey]

\* The tool's own variable for the key wins over the SDK's.
KeyWord(e) == IF e[ApiKey] = None THEN e[SdkKey] ELSE e[ApiKey]

\* applyEnv.
ApplyEnv ==
    /\ stage = "env"
    /\ \E e \in Environments :
          /\ env' = e
          /\ Layer([e EXCEPT ![ApiKey] = KeyWord(e)], "flag")
    /\ UNCHANGED <<file, table, flags, reply, auth>>

\* validate; a base URL cannot come to be empty.
Valid(c) == c[Limit] >= 1 /\ c[MaxPerHour] >= 0

Anonymous(c) == [c EXCEPT ![ApiKey] = 0]

\* A --timeout above zero wins, the whole is validated, and buildClient drops the key
\* of an --anonymous run.
Resolve ==
    LET timeout == IF flags.timeout > 0 THEN flags.timeout ELSE cfg[Timeout]
        loaded  == [cfg EXCEPT ![Timeout] = timeout]
    IN  /\ stage = "flag"
        /\ \/ /\ Valid(loaded)
              /\ stage' = "loaded"
              /\ cfg' = IF flags.anonymous THEN Anonymous(loaded) ELSE loaded
              /\ UNCHANGED code
           \/ ~Valid(loaded) /\ Fail /\ UNCHANGED cfg
        /\ UNCHANGED <<file, table, env, flags, reply, auth>>

RateCeiling ==
    IF cfg[MaxPerHour] > 0 THEN cfg[MaxPerHour]
    ELSE IF cfg[ApiKey] # 0 THEN KeyedCeiling ELSE AnonymousCeiling

\* statusError and the decoding of an account.
ErrorOf(r) ==
    CASE r.status = 200          -> IF r.decodes THEN "none" ELSE "decode_error"
      [] r.status = 400          -> "bad_request"
      [] r.status \in {401, 403} -> "auth_required"
      [] r.status = 404          -> "not_found"
      [] r.status = 429          -> "rate_limited"
      [] r.status = 0            -> "network_error"
      [] OTHER                   -> "upstream_error"

\* A slip: whatever goes wrong is the key's fault.
VerdictBlamesKey(r) == IF ErrorOf(r) = "none" THEN [auth |-> "valid", code |-> 0] ELSE [auth |-> "rejected", code |-> 2]

Verdict(r) ==
    CASE ErrorOf(r) = "none"          -> [auth |-> "valid", code |-> 0]
      [] ErrorOf(r) = "auth_required" -> [auth |-> "rejected", code |-> 2]
      [] OTHER                        -> [auth |-> "unreachable", code |-> 1]

\* auth check: without a key nothing is asked.  The exit code is 2 also when the
\* answer cannot be written as JSON.
AuthCheck ==
    /\ stage = "loaded"
    /\ stage' = "done"
    /\ \/ /\ cfg[ApiKey] = 0
          /\ auth' = "absent" /\ code' = 2
          /\ UNCHANGED reply
       \/ /\ cfg[ApiKey] # 0
          /\ reply' \in [status : Statuses, decodes : {FALSE}] \cup [status : {200}, decodes : {TRUE}]
          /\ auth' = Verdict(reply').auth
          /\ code' \in {Verdict(reply').code, 2}
    /\ UNCHANGED <<file, table, env, flags, cfg>>

Next == Open \/ ReadLine \/ ApplyFile \/ ApplyEnv \/ Resolve \/ AuthCheck

Spec == Init /\ [][Next]_vars

----------------------------------------------------------------------------
Accepted == stage \in {"loaded", "done"}

\* What the file says of a setting: the last pair of its name under its section.
FileSays(f) ==
    LET at == {i \in 1..Len(file) : /\ file[i].is = "pair" /\ file[i].of = f
                                    /\ SectionAt(file, i) = Section[f]}
    IN  IF at = {} THEN None ELSE file[Max(at)].says

\* What the environment says of it.
EnvSays(f) == IF f = ApiKey /\ env[f] = None THEN env[SdkKey] ELSE env[f]

\* The word that decides a setting.
Decisive(f) == IF EnvSays(f) # None THEN EnvSays(f) ELSE FileSays(f)

\* An accepted setting is what the flag, else the environment, else the file says,
\* else the default; an --anonymous run has no key; and a word that cannot be read is
\* never passed over, even where something else overrides it (config.go, Load:
\* "Environment variables override file values").  A --timeout that is not above zero
\* counts as none, which is what Load does and not what its comment says:
\* TimeoutFlagWins.
SettingsAreAsWritten ==
    Accepted => \A f \in Settings :
        /\ \A word \in {FileSays(f), EnvSays(f)} \ {None} : Read(f, word) # {}
        /\ cfg[f] \in IF f = ApiKey /\ flags.anonymous THEN {0}
                      ELSE IF f = Timeout /\ flags.timeout > 0 THEN {flags.timeout}
                      ELSE IF Decisive(f) # None THEN Read(f, Decisive(f))
                      ELSE {Default[f]}

\* A --timeout that is given decides the timeout, whatever it is: what Load's comment
\* says ("a non-zero timeoutOverride wins over both").  Load only looks at one above
\* zero, and a negative one is neither used nor refused.
TimeoutFlagWins == Accepted /\ flags.timeout # 0 => cfg[Timeout] = flags.timeout

\* An accepted configuration is one the rest of the program can work with: a limit and
\* a budget of at least one, and lengths of time of at least a nanosecond unless the
\* one written is shorter, too long for an int64 or not a number (config.go, validate
\* and parseSeconds; http.Client takes a timeout of 0 or less as none).
ConfigIsUsable ==
    Accepted =>
        /\ cfg[Limit] >= 1
        /\ RateCeiling >= 1
        /\ \A f \in Times : cfg[f] < 1 =>
              \/ Decisive(f) = NaN
              \/ Decisive(f) \in 1..(Fraction - 1)
              \/ Decisive(f) \div Fraction > MaxDuration

\* auth check calls a key valid only when the service answered for it, and rejected
\* only when the service refused it: an outage is neither.  Without a key, or with
\* --anonymous, it says so and asks nobody (auth.go:15 '"we could not ask" is not
\* "the key is bad"').
AuthIsTrue ==
    stage = "done" =>
        /\ (auth = "valid")    <=> (reply # None /\ reply.status = 200 /\ reply.decodes)
        /\ (auth = "rejected") <=> (reply # None /\ reply.status \in {401, 403})
        /\ (auth = "absent")   <=> (reply = None)
        /\ (reply = None)      <=> (flags.anonymous \/ Decisive(ApiKey) = None)
        /\ code = 0 => auth = "valid"
        /\ code = 1 => auth = "unreachable"
============================================================================
