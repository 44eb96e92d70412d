------------------------------- MODULE Lookup -------------------------------
(***************************************************************************)
(* Calls of Engine.Lookup, made one after another or by several processes  *)
(* at once, over the cache directory they share and the upstream whose     *)
(* answers change under them.                                              *)
(*                                                                         *)
(* An answer of upstream is a number: for a "general" section the count of *)
(* pulses, for any other section its version.  Cache reads and writes are  *)
(* single steps here; their file operations are in CacheStore.             *)
(***************************************************************************)
EXTENDS Integers, Sequences

CONSTANTS
    Calls,       \* the calls of Engine.Lookup
    Targets,     \* what a call can be asked about
    Types,       \* indicator types
    TypesOf,     \* Indicator.Types() of a target, <<>> when Classify rejects it
    Sections,    \* names of sections, General among them
    General,     \* the section every lookup fetches
    HasSection,  \* pairs <<type, section>> of indicator.HasSection
    Fold,        \* a target's spelling in a cache key
    Accounts,    \* whom a client speaks for: nobody, or an API key at a base URL
    AuthScope,   \* cache.AuthScope: all a cache key keeps of the account
    Jobs,        \* bound: [ind, account, refresh, sections] that calls may be given
    Codes,       \* otx error codes a fetch can end with
    NoError, None,
    MaxCount,    \* bound: the largest answer of upstream
    HeldFirst,   \* bound: what upstream may answer at first
    MaxChanges,  \* bound: how often upstream changes
    TTL,         \* Config.CacheTTL
    Timeout,     \* http.Client.Timeout
    Horizon      \* bound: the last instant explored

Answers == 0..MaxCount

Has(t, section) == section = General \/ <<t, section>> \in HasSection

\* What can be asked of upstream, and for whom: each account has its own answers.
AllSlots ==
    {s \in [section : Sections, type : Types, ind : Targets, account : Accounts] :
        /\ Has(s.type, s.section)
        /\ \E i \in 1..Len(TypesOf[s.ind]) : TypesOf[s.ind][i] = s.type}
AllKeys ==
    [section : Sections, type : Types, ind : {Fold[i] : i \in Targets},
     scope : {AuthScope[a] : a \in Accounts}]
Entries  == [body : Answers, stamp : 0..Horizon]

ASSUME TypesAssumption ==
    /\ TypesOf \in [Targets -> Seq(Types)]
    /\ General \in Sections
    /\ HasSection \subseteq Types \X Sections
\* The types one target may have offer the same sections: only a name has two, and
\* sectionsByType lists the same sections for a domain and for a hostname.
ASSUME SectionsAssumption ==
    \A i \in Targets : \A a, b \in 1..Len(TypesOf[i]) : \A x \in Sections :
        <<TypesOf[i][a], x>> \in HasSection => <<TypesOf[i][b], x>> \in HasSection
ASSUME FoldAssumption == DOMAIN Fold = Targets /\ DOMAIN AuthScope = Accounts
ASSUME JobsAssumption ==
    \A j \in Jobs : /\ j.ind \in Targets
                    /\ j.account \in Accounts
                    /\ j.refresh \in BOOLEAN
                    /\ j.sections \in Seq(Sections)
ASSUME NumbersAssumption ==
    MaxCount \in Nat /\ MaxChanges \in Nat /\ TTL \in Nat /\ Timeout \in Nat /\ Horizon \in Nat
ASSUME HeldAssumption == HeldFirst \subseteq [AllSlots -> Answers]
ASSUME NoneAssumption ==
    /\ None \notin Entries
    /\ None \notin Nat
    /\ None \notin [type : Types, count : Answers]
    /\ None \notin Jobs
    /\ NoError \notin Codes

VARIABLES
    now,      \* the clock, as the engine's Now and the file stamps read it
    held,     \* what upstream answers for a slot
    left,     \* ghost: when upstream last stopped answering n for a slot
    changes,  \* how often upstream has changed
    cache,    \* the readable entry under a key, or None
    job,      \* the arguments of a call
    pc,       \* where a call is
    pos,      \* its position in the loop over types, then over sections
    began,    \* ghost: when it began
    reply,    \* the body of the exchange it is in, and when upstream gave it
    res       \* its Result so far, with firstErr

upstream == <<held, left, changes>>
vars == <<now, held, left, changes, cache, job, pc, pos, began, reply, res>>

----------------------------------------------------------------------------
\* Slips: the section, or the scope, is left out of the key.
KeyNoSection(s) ==
    [section |-> General, type |-> s.type, ind |-> Fold[s.ind], scope |-> AuthScope[s.account]]
KeyNoScope(s) ==
    [section |-> s.section, type |-> s.type, ind |-> Fold[s.ind],
     scope |-> AuthScope[CHOOSE a \in Accounts : TRUE]]

\* cache.Key over the parts cacheKey passes: section, type, value and scope.  Which
\* API key and which base URL the answer came from is not among them.
Key(s) ==
    [section |-> s.section, type |-> s.type, ind |-> Fold[s.ind], scope |-> AuthScope[s.account]]

Slot(c, section, type) ==
    [section |-> section, type |-> type, ind |-> job[c].ind, account |-> job[c].account]

\* The types Lookup goes through for a call's target.
TypeList(c) == TypesOf[job[c].ind]

\* The sections of --sections that fetchExtraSections fetches: not General, and
\* the type that answered has them.
Extra(c, section) == section # General /\ <<res[c].general.type, section>> \in HasSection

InTypes(c)    == pos[c].stage = "types"    /\ pos[c].n <= Len(TypeList(c))
InSections(c) == pos[c].stage = "sections" /\ pos[c].n <= Len(job[c].sections)

\* The loop is at something to look up.
Wanting(c) == InTypes(c) \/ (InSections(c) /\ Extra(c, job[c].sections[pos[c].n]))

\* A slip: a section is asked of the first type, not of the one that answered.
AskedFirstType(c) ==
    IF pos[c].stage = "types"
    THEN Slot(c, General, TypeList(c)[pos[c].n])
    ELSE Slot(c, job[c].sections[pos[c].n], TypeList(c)[1])

\* The slot a call is asking for.
Asked(c) ==
    IF pos[c].stage = "types"
    THEN Slot(c, General, TypeList(c)[pos[c].n])
    ELSE Slot(c, job[c].sections[pos[c].n], res[c].general.type)

\* A slip: the age is compared with the TTL one tick late.
FreshTooLong(k) == cache[k] # None /\ now - cache[k].stamp <= TTL + 1

\* cache.Store.Get: the entry is there and not older than the TTL.
Fresh(k) == cache[k] # None /\ now - cache[k].stamp <= TTL

NoReply == [body |-> 0, stamp |-> 0]

NoResult == [general |-> None, incomplete |-> FALSE, degraded |-> {}, cached |-> FALSE,
             sections |-> {}, firstErr |-> NoError]

Init ==
    /\ now = 0
    /\ held \in HeldFirst
    /\ left = [s \in AllSlots |-> [n \in Answers |-> None]]
    /\ changes = 0
    /\ cache = [k \in AllKeys |-> None]
    /\ job = [c \in Calls |-> None]
    /\ pc = [c \in Calls |-> "idle"]
    /\ pos = [c \in Calls |-> [stage |-> "types", n |-> 1]]
    /\ began = [c \in Calls |-> 0]
    /\ reply = [c \in Calls |-> NoReply]
    /\ res = [c \in Calls |-> NoResult]

----------------------------------------------------------------------------
\* Classify and validateSections accept the target and the sections asked for.
Accepts(j) ==
    /\ TypesOf[j.ind] # <<>>
    /\ \A m \in 1..Len(j.sections) :
          \E i \in 1..Len(TypesOf[j.ind]) : Has(TypesOf[j.ind][i], j.sections[m])

\* Lookup begins its loop over the types, or returns the error of Classify or
\* validateSections.
Begin(c) ==
    /\ pc[c] = "idle"
    /\ \E j \in Jobs :
          /\ job' = [job EXCEPT ![c] = j]
          /\ pc' = [pc EXCEPT ![c] = IF Accepts(j) THEN "look" ELSE "rejected"]
    /\ began' = [began EXCEPT ![c] = now]
    /\ UNCHANGED <<now, upstream, cache, pos, reply, res>>

\* The next position of the loop: past the list of types when it breaks.
Advance(c, breaks) ==
    /\ pos' = [pos EXCEPT ![c].n = IF breaks THEN Len(TypeList(c)) + 1 ELSE @ + 1]
    /\ pc' = [pc EXCEPT ![c] = "look"]

\* A slip: where an answer came from is not remembered.
AnsweredForgetsCached(c, n, cached) ==
    IF pos[c].stage = "types"
    THEN [res[c] EXCEPT !.general = IF @ = None \/ n > @.count
                                    THEN [type |-> Asked(c).type, count |-> n] ELSE @]
    ELSE [res[c] EXCEPT !.sections = @ \cup {<<Asked(c).section, n>>}]

\* The result after an answer n: the type with the most pulses is chosen, and a
\* section is added under its name.
Answered(c, n, cached) ==
    IF pos[c].stage = "types"
    THEN [res[c] EXCEPT !.cached = @ \/ cached,
                        !.general = IF @ = None \/ n > @.count
                                    THEN [type |-> Asked(c).type, count |-> n] ELSE @]
    ELSE [res[c] EXCEPT !.sections = @ \cup {<<Asked(c).section, n>>}]

\* Slips in recording a failure: the result is not marked incomplete; the error is
\* kept only beside an answer; a section is not listed.
FailedQuietly(c, code) ==
    [res[c] EXCEPT !.firstErr = code, !.degraded = @ \cup {Asked(c).type}]
FailedNameless(c, code) ==
    [res[c] EXCEPT !.firstErr = IF res[c].general = None THEN @ ELSE code,
                   !.degraded = @ \cup {Asked(c).type}, !.incomplete = TRUE]
FailedUnlisted(c, code) ==
    IF pos[c].stage = "types"
    THEN [res[c] EXCEPT !.firstErr = code, !.degraded = @ \cup {Asked(c).type},
                        !.incomplete = TRUE]
    ELSE res[c]

\* The result after a failed fetch: a failed type makes it incomplete, a failed
\* section is only listed.
Failed(c, code) ==
    IF pos[c].stage = "types"
    THEN [res[c] EXCEPT !.firstErr = IF @ = NoError THEN code ELSE @,
                        !.degraded = @ \cup {Asked(c).type},
                        !.incomplete = TRUE]
    ELSE [res[c] EXCEPT !.degraded = @ \cup {Asked(c).section}]

\* What Lookup (or fetchExtraSections) does with an answer for Asked(c).
Take(c, n, cached) ==
    /\ res' = [res EXCEPT ![c] = Answered(c, n, cached)]
    /\ Advance(c, pos[c].stage = "types" /\ n > 0)

\* general (or fetchExtraSections) finds the answer in the cache.
CacheHit(c) ==
    /\ pc[c] = "look"
    /\ Wanting(c)
    /\ ~job[c].refresh
    /\ Fresh(Key(Asked(c)))
    /\ Take(c, cache[Key(Asked(c))].body, TRUE)
    /\ UNCHANGED <<now, upstream, cache, job, began, reply>>

\* It does not, or must not look, and asks upstream; the limiter may hold the
\* request back for any time before it is sent.
CacheMiss(c) ==
    /\ pc[c] = "look"
    /\ Wanting(c)
    /\ job[c].refresh \/ ~Fresh(Key(Asked(c)))
    /\ pc' = [pc EXCEPT ![c] = "fetch"]
    /\ UNCHANGED <<now, upstream, cache, job, pos, began, reply, res>>

\* Upstream answers; the body is on its way to the client.
Serve(c) ==
    /\ pc[c] = "fetch"
    /\ reply' = [reply EXCEPT ![c] = [body |-> held[Asked(c)], stamp |-> now]]
    /\ pc' = [pc EXCEPT ![c] = "store"]
    /\ UNCHANGED <<now, upstream, cache, job, pos, began, res>>

\* A slip: a failed exchange is cached as an empty answer.
FetchFailsCached(c) ==
    /\ pc[c] \in {"fetch", "store"}
    /\ \E code \in Codes : res' = [res EXCEPT ![c] = Failed(c, code)]
    /\ cache' = [cache EXCEPT ![Key(Asked(c))] = [body |-> 0, stamp |-> now]]
    /\ Advance(c, FALSE)
    /\ reply' = [reply EXCEPT ![c] = NoReply]
    /\ UNCHANGED <<now, upstream, job, began>>

\* The exchange ends without a usable answer, served or not.
FetchFails(c) ==
    /\ pc[c] \in {"fetch", "store"}
    /\ \E code \in Codes : res' = [res EXCEPT ![c] = Failed(c, code)]
    /\ Advance(c, FALSE)
    /\ reply' = [reply EXCEPT ![c] = NoReply]
    /\ UNCHANGED <<now, upstream, cache, job, began>>

\* The body has been read; Put stamps it with the time it is written, not the
\* time upstream gave it, and a failure of Put is ignored.
Store(c) ==
    /\ pc[c] = "store"
    /\ cache' \in {[cache EXCEPT ![Key(Asked(c))] = [body |-> reply[c].body, stamp |-> now]],
                   cache}
    /\ Take(c, reply[c].body, FALSE)
    /\ reply' = [reply EXCEPT ![c] = NoReply]
    /\ UNCHANGED <<now, upstream, job, began>>

\* The loop over the types is over: fill the result, or return firstErr.
EndTypes(c) ==
    /\ pc[c] = "look"
    /\ pos[c].stage = "types"
    /\ pos[c].n > Len(TypeList(c))
    /\ IF res[c].general = None
       THEN /\ pc' = [pc EXCEPT ![c] = "failed"]
            /\ UNCHANGED pos
       ELSE /\ pos' = [pos EXCEPT ![c] = [stage |-> "sections", n |-> 1]]
            /\ UNCHANGED pc
    /\ UNCHANGED <<now, upstream, cache, job, began, reply, res>>

\* A section that is general, or that the answering type lacks, is passed over.
Skip(c) ==
    /\ pc[c] = "look"
    /\ InSections(c)
    /\ ~Wanting(c)
    /\ Advance(c, FALSE)
    /\ UNCHANGED <<now, upstream, cache, job, began, reply, res>>

\* Every section asked for has been tried: Lookup returns its result.
EndSections(c) ==
    /\ pc[c] = "look"
    /\ pos[c].stage = "sections"
    /\ pos[c].n > Len(job[c].sections)
    /\ pc' = [pc EXCEPT ![c] = "done"]
    /\ UNCHANGED <<now, upstream, cache, job, pos, began, reply, res>>

\* Some process clears the cache, removing one file at a time.
Drop(k) ==
    /\ cache[k] # None
    /\ cache' = [cache EXCEPT ![k] = None]
    /\ UNCHANGED <<now, upstream, job, pc, pos, began, reply, res>>

\* A pulse naming the indicator is published, modified or withdrawn upstream.
Publish(s, n) ==
    /\ changes < MaxChanges
    /\ n # held[s]
    /\ held' = [held EXCEPT ![s] = n]
    /\ left' = [left EXCEPT ![s][held[s]] = now]
    /\ changes' = changes + 1
    /\ UNCHANGED <<now, cache, job, pc, pos, began, reply, res>>

\* http.Client.Timeout bounds the time from upstream's answer to the last byte
\* of its body; storing it follows at once.
Tick ==
    /\ now < Horizon
    /\ \A c \in Calls : pc[c] = "store" => now - reply[c].stamp < Timeout
    /\ now' = now + 1
    /\ UNCHANGED <<upstream, cache, job, pc, pos, began, reply, res>>

Step(c) ==
    \/ CacheHit(c)
    \/ CacheMiss(c)
    \/ Serve(c)
    \/ FetchFails(c)
    \/ Store(c)
    \/ EndTypes(c)
    \/ Skip(c)
    \/ EndSections(c)

Next ==
    \/ \E c \in Calls : Begin(c) \/ Step(c)
    \/ \E k \in AllKeys : Drop(k)
    \/ \E s \in AllSlots, n \in Answers : Publish(s, n)
    \/ Tick

Spec == Init /\ [][Next]_vars

----------------------------------------------------------------------------
\* Type invariant.
TypeOK ==
    /\ now \in 0..Horizon
    /\ held \in [AllSlots -> Answers]
    /\ left \in [AllSlots -> [Answers -> (0..Horizon) \cup {None}]]
    /\ changes \in 0..MaxChanges
    /\ cache \in [AllKeys -> Entries \cup {None}]
    /\ job \in [Calls -> Jobs \cup {None}]
    /\ pc \in [Calls -> {"idle", "look", "fetch", "store", "done", "failed", "rejected"}]
    /\ pos \in [Calls -> [stage : {"types", "sections"}, n : Nat \ {0}]]
    /\ began \in [Calls -> 0..Horizon]
    /\ reply \in [Calls -> [body : Answers, stamp : 0..Horizon]]
    /\ res \in [Calls -> [general : [type : Types, count : Answers] \cup {None},
                          incomplete : BOOLEAN,
                          degraded : SUBSET (Types \cup Sections),
                          cached : BOOLEAN,
                          sections : SUBSET (Sections \X Answers),
                          firstErr : Codes \cup {NoError}]]

\* Upstream gave n for slot s at some instant from x on.
HeldSince(s, n, x) == held[s] = n \/ (left[s][n] # None /\ left[s][n] >= x)

\* Two things to ask that differ at most in what a cache entry is shared over: the
\* case of a target (only that of a URL survives Classify), and which key, at which
\* base URL, is asked with.
Alike(r, s) ==
    /\ r.section = s.section
    /\ r.type = s.type
    /\ Fold[r.ind] = Fold[s.ind]
    /\ AuthScope[r.account] = AuthScope[s.account]

\* Upstream gave n for s, or for something alike, at some instant from x on.
HeldAlike(s, n, x) == \E r \in AllSlots : Alike(r, s) /\ HeldSince(r, n, x)

\* How old a call's evidence may be when the call begins.
Slack(c) == IF job[c].refresh THEN 0 ELSE TTL + Timeout

\* What the cache holds is an answer upstream really gave for that key, at most
\* one exchange before the stamp: no failed, partial or foreign answer is ever
\* stored (cache/doc.go: degraded results are never cached; engine.go, general).
CacheIsTrue ==
    \A k \in AllKeys : cache[k] # None =>
        \E s \in AllSlots : /\ Key(s) = k
                           /\ HeldSince(s, cache[k].body, cache[k].stamp - Timeout)

\* The pulses a lookup reports were upstream's answer for the type asked about, to
\* a keyed client if this one is keyed and to an anonymous one otherwise, about the
\* target (for a URL: one that differs in case at most), no longer ago than the TTL
\* and one exchange before the call began; with --refresh, since it began
\* (engine.go, Lookup, general and cacheKey).
AnswerIsTrue ==
    \A c \in Calls : pc[c] = "done" =>
        HeldAlike(Slot(c, General, res[c].general.type), res[c].general.count, began[c] - Slack(c))

\* They were its answer for the very target asked about, whatever it was cached
\* under (cache.go, Key: "every input that changes the answer"; cache_test.go,
\* "distinct inputs must not collide").
AnswerIsOwn ==
    \A c \in Calls : pc[c] = "done" =>
        HeldSince(Slot(c, General, res[c].general.type), res[c].general.count, began[c] - Slack(c))

\* No false negative: "no pulses", not marked incomplete, means every type of the
\* target was held to have none within the same time, up to the same likeness
\* (engine.go, Lookup: a failed type is "the single worst way this tool can be
\* wrong").
CleanIsTrue ==
    \A c \in Calls :
        pc[c] = "done" /\ res[c].general.count = 0 /\ ~res[c].incomplete =>
            \A i \in 1..Len(TypeList(c)) :
                HeldAlike(Slot(c, General, TypeList(c)[i]), 0, began[c] - Slack(c))

\* A result that does not say it is cached rests on nothing older than the call,
\* and is the account's own, about the very target (engine.go, Lookup: res.Cached
\* gathers over the types).
UncachedIsCurrent ==
    \A c \in Calls : pc[c] = "done" /\ ~res[c].cached =>
        HeldSince(Slot(c, General, res[c].general.type), res[c].general.count, began[c])

\* An extra section belongs to the type that answered, and is as recent as the
\* answer, up to the same likeness (engine.go, fetchExtraSections).
SectionsAreTrue ==
    \A c \in Calls : \A x \in res[c].sections :
        HeldAlike(Slot(c, x[1], res[c].general.type), x[2], began[c] - Slack(c))

\* Every section asked for, other than the one every lookup fetches, is in the
\* result or named in Degraded when the call returns, whichever type answered
\* (engine.go, validateSections and fetchExtraSections).
SectionsAccounted ==
    \A c \in Calls : pc[c] = "done" =>
        \A m \in 1..Len(job[c].sections) : job[c].sections[m] # General =>
            \/ job[c].sections[m] \in res[c].degraded
            \/ \E n \in Answers : <<job[c].sections[m], n>> \in res[c].sections

\* A lookup without a result returns an error, so no caller reads a nil result
\* (engine.go, Lookup: return nil, firstErr).
FailureIsNamed ==
    \A c \in Calls : pc[c] = "failed" => res[c].firstErr # NoError
============================================================================
