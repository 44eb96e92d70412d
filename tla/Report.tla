------------------------------- MODULE Report -------------------------------
(***************************************************************************)
(* What becomes of the pulses of one answer: Engine.fill sorts them, counts *)
(* in aggregate how many of them name each value and lists the first few,  *)
(* and the MCP server's trimLookup cuts what is still too long.             *)
(*                                                                         *)
(* A text is its number once trimmed, 0 for a blank one, and whether it has *)
(* spaces around it; a time is a number, 0 when it cannot be read.          *)
(***************************************************************************)
EXTENDS Integers, Sequences, FiniteSets, Functions

CONSTANTS
    Categories,    \* adversaries, malware_families, attack_ids, ..., tags
    Texts,         \* bound: the largest number of a text
    Pool,          \* bound: the pulses an answer is made of
    MaxPulses,     \* bound: how many it has
    MaxCount,      \* bound: the largest count an answer states
    MaxReferences, \* bound: how many references it has
    Limits, Tops,  \* bound: the values of limit, and of context_top and references_top
    DefaultLimit,  \* Config.DefaultLimit
    DefaultTop     \* contextTopN and referencesTopN

Text   == [text : 0..Texts, padded : BOOLEAN]
Ref    == [display : Text, id : Text]
Values == 1..Texts

ASSUME PoolAssumption ==
    \A p \in Pool : /\ p.names \in [Categories -> Seq(Ref)]
                    /\ {p.created, p.modified, p.name} \subseteq Nat
ASSUME NumbersAssumption ==
    /\ {Texts, MaxPulses, MaxCount, MaxReferences} \subseteq Nat
    /\ {DefaultLimit, DefaultTop} \subseteq Nat \ {0}
    /\ Limits \subseteq Int /\ Tops \subseteq Int

VARIABLES
    pulses,   \* the pulses of the answer, sorted once fill has begun
    held,     \* PulseInfo.Count: what the answer states, which may be less than
              \* upstream has, and even less than the answer itself lists
    refs,     \* how many references the answer has
    args,     \* limit, context_top, references_top
    stage,    \* "answered", "counting", "counted", "listed" or "trimmed"
    n,        \* how many pulses aggregate has counted
    votes,    \* per category, the pulses counted for each value
    window,   \* FirstReported and LastReported, 0 when unset
    shown,    \* how many pulses the result lists
    capped,   \* Result.Capped
    payload   \* [context, omitted, refs, refsOmitted] of the tool's result

vars == <<pulses, held, refs, args, stage, n, votes, window, shown, capped, payload>>

Init ==
    /\ pulses \in UNION {[1..k -> Pool] : k \in 0..MaxPulses}
    /\ held \in 0..MaxCount
    /\ refs \in 0..MaxReferences
    /\ args \in [limit : Limits, contextTop : Tops, referencesTop : Tops]
    /\ stage = "answered"
    /\ n = 0
    /\ votes = [c \in Categories |-> [v \in Values |-> 0]]
    /\ window = [first |-> 0, last |-> 0]
    /\ shown = 0
    /\ capped = FALSE
    /\ payload = [context |-> [c \in Categories |-> <<>>],
                  omitted |-> [c \in Categories |-> 0], refs |-> 0, refsOmitted |-> 0]

----------------------------------------------------------------------------
\* The members of S, each before those that R, a set of pairs, puts after it: what
\* package sort makes of a list.
Enumeration(S, R) ==
    CHOOSE f \in [1..Cardinality(S) -> S] :
        \A i, j \in 1..Cardinality(S) : i < j => <<f[i], f[j]>> \in R

\* The latest modified first, those without a date last, and by name within a date.
Before(p, q) ==
    \/ p.modified > q.modified
    \/ p.modified = q.modified /\ p.name < q.name

\* The sort is stable: pulses that are equal in both stay in the answer's order.
Ahead(s) ==
    {e \in (DOMAIN s) \X (DOMAIN s) :
        \/ Before(s[e[1]], s[e[2]])
        \/ ~Before(s[e[2]], s[e[1]]) /\ e[1] < e[2]}
Sorted(s) == [k \in DOMAIN s |-> s[Enumeration(DOMAIN s, Ahead(s))[k]]]

\* A display name stands for the id unless it is empty; spaces are not empty.  An
\* attack id's label, which joins the two, is one text here.
Label(r) == IF r.display.text = 0 /\ ~r.display.padded THEN r.id ELSE r.display

\* The values a pulse gives its vote to in a category: trimmed, not blank.
Named(p, c) == {Label(p.names[c][k]).text : k \in 1..Len(p.names[c])} \ {0}

\* A slip: a pulse votes as often as it lists a value.
VotesFromOccurrences(p, c, v) ==
    votes[c][v] + Cardinality({k \in 1..Len(p.names[c]) : Label(p.names[c][k]).text = v})

\* countUnique: one pulse has one vote for a value.
VotesFrom(p, c, v) == votes[c][v] + IF v \in Named(p, c) THEN 1 ELSE 0

\* The values of a category; they are ranked by votes, most first, and then by value.
Counts(c) == {v \in Values : votes[c][v] > 0}

\* A slip: values with as many votes are left in any order.
OutranksByCount(c) ==
    {e \in Values \X Values : e[1] # e[2] /\ votes[c][e[1]] >= votes[c][e[2]]}

Outranks(c) ==
    {e \in Values \X Values :
        \/ votes[c][e[1]] > votes[c][e[2]]
        \/ votes[c][e[1]] = votes[c][e[2]] /\ e[1] < e[2]}
Ranked(c) == Enumeration(Counts(c), Outranks(c))

\* A cap that is not given is the default; a negative one is no cap.
Top(given) == IF given = 0 THEN DefaultTop ELSE given

\* A slip: one value less is kept than is said.
CutToOneLess(size, top) == IF top < 0 \/ size <= top THEN size ELSE top - 1
CutTo(size, top) == IF top < 0 \/ size <= top THEN size ELSE top

----------------------------------------------------------------------------
\* fill copies and sorts the pulses.
Sort ==
    /\ stage = "answered"
    /\ stage' = "counting"
    /\ pulses' = Sorted(pulses)
    /\ UNCHANGED <<held, refs, args, n, votes, window, shown, capped, payload>>

\* One round of aggregate's loop.
Count ==
    LET p == pulses[n + 1] IN
    /\ stage = "counting" /\ n < Len(pulses)
    /\ n' = n + 1
    /\ votes' = [c \in Categories |-> [v \in Values |-> VotesFrom(p, c, v)]]
    /\ window' =
          [first |-> IF p.created > 0 /\ (window.first = 0 \/ p.created < window.first)
                     THEN p.created ELSE window.first,
           last  |-> IF p.modified > window.last THEN p.modified ELSE window.last]
    /\ UNCHANGED <<pulses, held, refs, args, stage, shown, capped, payload>>

Counted ==
    /\ stage = "counting" /\ n = Len(pulses)
    /\ stage' = "counted"
    /\ UNCHANGED <<pulses, held, refs, args, n, votes, window, shown, capped, payload>>

\* A slip: only the caller's limit marks the result as capped.
ListHeldUnseen ==
    LET limit == IF args.limit <= 0 THEN DefaultLimit ELSE args.limit IN
    /\ stage = "counted"
    /\ shown' = IF Len(pulses) > limit THEN limit ELSE Len(pulses)
    /\ capped' = (Len(pulses) > limit)
    /\ stage' = "listed"
    /\ UNCHANGED <<pulses, held, refs, args, n, votes, window, payload>>

\* fill lists the first of the sorted pulses, and says whether there are more.
List ==
    LET limit == IF args.limit <= 0 THEN DefaultLimit ELSE args.limit IN
    /\ stage = "counted"
    /\ shown' = IF Len(pulses) > limit THEN limit ELSE Len(pulses)
    /\ capped' = (Len(pulses) > limit \/ held > Len(pulses))
    /\ stage' = "listed"
    /\ UNCHANGED <<pulses, held, refs, args, n, votes, window, payload>>

\* trimLookup cuts each category and the references, on a copy of the result.
Trim ==
    LET top    == Top(args.contextTop)
        refTop == Top(args.referencesTop)
        size   == [c \in Categories |-> Len(Ranked(c))]
    IN  /\ stage = "listed"
        /\ payload' =
              [context     |-> [c \in Categories |-> SubSeq(Ranked(c), 1, CutTo(size[c], top))],
               omitted     |-> [c \in Categories |->
                                   IF top < 0 \/ size[c] <= top THEN 0 ELSE size[c] - top],
               refs        |-> CutTo(refs, refTop),
               refsOmitted |-> IF refTop < 0 \/ refs <= refTop THEN 0 ELSE refs - refTop]
        /\ stage' = "trimmed"
        /\ UNCHANGED <<pulses, held, refs, args, n, votes, window, shown, capped>>

Next == Sort \/ Count \/ Counted \/ List \/ Trim

Spec == Init /\ [][Next]_vars

----------------------------------------------------------------------------
\* Type invariant.
TypeOK ==
    /\ pulses \in Seq(Pool)
    /\ held \in Nat /\ refs \in 0..MaxReferences
    /\ args \in [limit : Limits, contextTop : Tops, referencesTop : Tops]
    /\ stage \in {"answered", "counting", "counted", "listed", "trimmed"}
    /\ n \in 0..Len(pulses)
    /\ votes \in [Categories -> [Values -> Nat]]
    /\ window \in [first : Nat, last : Nat]
    /\ shown \in 0..Len(pulses)
    /\ capped \in BOOLEAN
    /\ payload \in [context : [Categories -> Seq(Values)], omitted : [Categories -> Nat],
                    refs : Nat, refsOmitted : Nat]

\* A value's count is the number of pulses that name it, however often each lists
\* it and however it is spaced; and the window holds the date of every pulse that
\* has one.  Both speak of all pulses of the answer, not of those listed
\* (engine.go, aggregate: "how many independent reports agree").
VotesAreReports ==
    /\ \A c \in Categories, v \in Values :
          votes[c][v] = Cardinality({i \in 1..n : v \in Named(pulses[i], c)})
    /\ \A i \in 1..n :
          /\ pulses[i].created > 0 => window.first \in 1..pulses[i].created
          /\ pulses[i].modified <= window.last

\* The pulses listed are the newest of the answer, and the result is marked capped
\* exactly when the answer itself shows that there are more: it lists more, or states
\* more, than the result does (engine.go, Result: "a partial answer can never read as a
\* complete one").  What upstream has beyond the count it states does not show:
\* the count is a lower bound (otx/types.go:72).
ListedAreNewest ==
    stage \in {"listed", "trimmed"} =>
        /\ \A i \in 1..shown, j \in (shown + 1)..Len(pulses) :
              pulses[i].modified >= pulses[j].modified
        /\ capped <=> shown < Len(pulses) \/ shown < held

\* Nothing the tool holds back is uncounted, and no value it holds back was named
\* by more pulses than one it keeps (tools.go, trimLookup: "the tool does not get to
\* quietly shrink an answer").
TrimIsHonest ==
    stage = "trimmed" =>
        /\ \A c \in Categories :
              LET kept == Range(payload.context[c])
                  all  == Counts(c)
              IN  /\ kept \subseteq all
                  /\ Cardinality(kept) = Len(payload.context[c])
                  /\ Cardinality(all) = Len(payload.context[c]) + payload.omitted[c]
                  /\ \A v \in kept, w \in all \ kept : votes[c][v] >= votes[c][w]
        /\ payload.refs + payload.refsOmitted = refs

\* Only one list of a category's values is in rank's order, whatever the order in
\* which Go's map gave them to a sort that is not stable, so that the same pulses
\* always make the same result (engine.go, rank: "so output is stable across runs").
RankingIsStable ==
    \A c \in Categories :
        \A f \in [1..Cardinality(Counts(c)) -> Counts(c)] :
            (\A i, j \in DOMAIN f : i < j => <<f[i], f[j]>> \in Outranks(c)) => f = Ranked(c)
============================================================================
