-------------------------------- MODULE Pulse --------------------------------
(***************************************************************************)
(* A caller that pages through a pulse's indicators, or through a search,  *)
(* one call of Engine.Pulse or Engine.Search per page, while the pulse is   *)
(* revised, fetches fail, other processes store the detail too and what is  *)
(* stored grows old.  get_pulse and search_pulses keep nothing between     *)
(* calls: the caller itself knows which page comes next.                   *)
(*                                                                         *)
(* A revision is a number.  What it lists, and in which order, depends on   *)
(* where it is asked: embedded in the detail as an account sees it, on the  *)
(* keyed page endpoint, or in a search.                                     *)
(***************************************************************************)
EXTENDS Integers, Sequences, SequencesExt

CONSTANTS
    Accounts,       \* whom a client speaks for: nobody, or an API key
    AuthScope,      \* cache.AuthScope: all a cache key keeps of the account
    Lists,          \* Lists[source][revision]: what upstream lists there
    Jobs,           \* bound: [op, account, page, limit, refresh, indicators] of a walk
    LastRevision,   \* bound: the last revision of the pulse
    UpstreamPage,   \* how many upstream lists when no limit is sent
    DefaultLimit,   \* Config.DefaultLimit, for searches
    IntBits,        \* the width of int
    TTL, Timeout,   \* Config.CacheTTL, http.Client.Timeout
    Horizon,        \* bound: the last instant explored
    None

Scopes    == {AuthScope[a] : a \in Accounts}
Revisions == 0..LastRevision
Sources   == Accounts \cup {"page", "search"}
Items     == UNION {Range(Lists[s][v]) : s \in Sources, v \in Revisions}
MaxInt    == 2^(IntBits - 1) - 1

ASSUME JobsAssumption ==
    /\ Jobs \subseteq [op : {"pulse", "search"}, account : Accounts, page : Int, limit : Int,
                       refresh : BOOLEAN, indicators : BOOLEAN]
    /\ \A j \in Jobs : j.page <= MaxInt /\ j.limit <= MaxInt
ASSUME SourcesAssumption == Accounts \cap {"page", "search"} = {}
ASSUME ListsAssumption ==
    \A s \in Sources, v \in Revisions :
        /\ Lists[s][v] \in Seq(Items)
        /\ IsInjective(Lists[s][v])
        /\ Len(Lists[s][v]) <= MaxInt
ASSUME NumbersAssumption ==
    /\ {UpstreamPage, DefaultLimit, IntBits, MaxInt} \subseteq Nat \ {0}
    /\ {LastRevision, TTL, Timeout, Horizon} \subseteq Nat
ASSUME NoneAssumption ==
    /\ None \notin Nat \cup Jobs
    /\ None \notin [revision : Revisions, account : Accounts, stamp : 0..Horizon, cached : BOOLEAN]

VARIABLES
    now,       \* the clock
    revision,  \* the pulse's current revision
    left,      \* ghost: when a revision was replaced
    cache,     \* per cache key, the detail stored: [revision, account, stamp]
    job,       \* what the caller pages through, or None
    pc,        \* where its current call is
    page,      \* the page it asks for
    began,     \* ghost: when the call began
    detail,    \* the detail the call holds: [revision, account, stamp, cached]
    out,       \* what the call returns: [items, held, exact, more]
    got,       \* the items of the pages so far, in order
    origins    \* ghost: the lists those pages were cut from

upstream == <<revision, left>>
walk     == <<job, page, began, got, origins>>
vars     == <<now, upstream, cache, walk, pc, detail, out>>

\* A PulseResult before fillIndicators: no total is known.
NoOut == [items |-> <<>>, held |-> -1, exact |-> FALSE, more |-> FALSE]

Init ==
    /\ now = 0
    /\ revision = 0
    /\ left = [v \in Revisions |-> None]
    /\ cache = [s \in Scopes |-> None]
    /\ job = None
    /\ pc = "idle"
    /\ page = 0
    /\ began = 0
    /\ detail = None
    /\ out = NoOut
    /\ got = <<>>
    /\ origins = {}

----------------------------------------------------------------------------
\* int arithmetic in two's complement.
Wrap(n) == ((n + MaxInt + 1) % (2 * (MaxInt + 1))) - MaxInt - 1

\* AuthScope tells just this of a client.
HasKey == AuthScope[job.account] = "keyed"

\* A slip: an anonymous and a keyed client share an entry.
KeyShared == CHOOSE s \in Scopes : TRUE

\* cache.Key("pulse", id, AuthScope): there is one pulse, so the scope is left, and
\* every API key has the same.
Key == AuthScope[job.account]

\* A slip: an entry is taken one tick too late.
FreshTooLong == cache[Key] # None /\ now - cache[Key].stamp <= TTL + 1

\* cache.Store.Get: the entry is there and not older than the TTL.
Fresh == cache[Key] # None /\ now - cache[Key].stamp <= TTL

\* Slips: a page past the end is not caught; the page number is not used.
CutUnguarded(n, p, limit) ==
    IF limit <= 0 THEN [lo |-> 0, hi |-> n]
                  ELSE [lo |-> Wrap((p - 1) * limit),
                        hi |-> Min({Wrap(Wrap((p - 1) * limit) + limit), n})]
CutStuck(n, p, limit) == [lo |-> 0, hi |-> IF limit <= 0 THEN n ELSE Min({limit, n})]
CutFromZero(n, p, limit) ==
    LET lo == Wrap(p * limit) IN
    IF limit <= 0   THEN [lo |-> 0, hi |-> n]
    ELSE IF lo >= n THEN [lo |-> 0, hi |-> 0]
    ELSE                 [lo |-> lo, hi |-> Min({Wrap(lo + limit), n})]

\* The bounds lo:hi at which fillIndicators slices an embedded set of n.
Cut(n, p, limit) ==
    LET lo == Wrap((p - 1) * limit) IN
    IF limit <= 0   THEN [lo |-> 0, hi |-> n]
    ELSE IF lo >= n THEN [lo |-> 0, hi |-> 0]
    ELSE                 [lo |-> lo, hi |-> Min({Wrap(lo + limit), n})]

\* Pages below the first mean the first.
PageNo == Max({page, 1})

\* Upstream's page p of a list; setPaging sends no limit that is not positive,
\* and upstream then uses its own.
Served(list, p, limit) ==
    LET size == IF limit > 0 THEN limit ELSE UpstreamPage
    IN  SubSeq(list, (p - 1) * size + 1, Min({p * size, Len(list)}))

\* The call returns o, cut from the list of origin.
Return(o, origin) ==
    /\ out' = o
    /\ pc' = "done"
    /\ got' = got \o o.items
    /\ origins' = origins \cup {origin}
    /\ UNCHANGED <<now, upstream, cache, job, page, began, detail>>

\* The walk is over, and what its last call held is dropped.
Leave(how) ==
    /\ pc' = how
    /\ detail' = None
    /\ out' = NoOut
    /\ UNCHANGED <<now, upstream, cache, walk>>

----------------------------------------------------------------------------
\* A call begins.
Begin(j, p) ==
    /\ job' = j
    /\ page' = p
    /\ began' = now
    /\ detail' = None
    /\ out' = NoOut
    /\ pc' = j.op
    /\ UNCHANGED <<now, upstream, cache, got, origins>>

Start == pc = "idle" /\ \E j \in Jobs : Begin(j, j.page)

\* The caller has seen everything the last answer lets it know of.
Seen ==
    IF job.op = "search" THEN ~out.more
    ELSE IF out.exact    THEN Len(got) >= out.held \/ out.items = <<>>
    ELSE                      job.limit <= 0 \/ Len(out.items) < job.limit

\* It asks for the next page, or stops.
Proceed == pc = "done" /\ ~Seen /\ Begin(job, PageNo + 1)
Stop == pc = "done" /\ Seen /\ Leave("stopped")

\* Pulse finds the detail in the cache.
DetailHit ==
    /\ pc = "pulse"
    /\ ~job.refresh
    /\ Fresh
    /\ detail' = [revision |-> cache[Key].revision, account |-> cache[Key].account,
                  stamp |-> cache[Key].stamp, cached |-> TRUE]
    /\ pc' = "fill"
    /\ UNCHANGED <<now, upstream, cache, walk, out>>

\* It does not, or must not look, and upstream answers.
DetailServed ==
    /\ pc = "pulse"
    /\ job.refresh \/ ~Fresh
    /\ detail' = [revision |-> revision, account |-> job.account, stamp |-> now, cached |-> FALSE]
    /\ pc' = "store"
    /\ UNCHANGED <<now, upstream, cache, walk, out>>

\* The body has arrived and is stored, or Put fails and is ignored.
StoreDetail ==
    /\ pc = "store"
    /\ cache' \in {[cache EXCEPT ![Key] = [revision |-> detail.revision,
                                           account |-> detail.account, stamp |-> now]], cache}
    /\ pc' = "fill"
    /\ UNCHANGED <<now, upstream, walk, detail, out>>

\* Without a detail, or a search's answer, the call fails; a search without a key
\* is refused before a request is spent (errNeedsKey).
CallFails ==
    /\ \/ pc \in {"store", "search"}
       \/ pc = "pulse" /\ (job.refresh \/ ~Fresh)
    /\ Leave("failed")

\* No indicators were asked for, so there are no pages.
DetailOnly == pc = "fill" /\ ~job.indicators /\ Leave("stopped")

\* A slip: the total is taken from the detail at hand.
PageServedHeldStale ==
    /\ pc = "fill" /\ job.indicators /\ HasKey
    /\ Return([items |-> Served(Lists["page"][revision], PageNo, job.limit),
               held  |-> Len(Lists[detail.account][detail.revision]),
               exact |-> TRUE, more |-> FALSE],
              [source |-> "page", revision |-> revision])

\* With a key, the page endpoint answers; only it states a total.
PageServed ==
    /\ pc = "fill" /\ job.indicators /\ HasKey
    /\ Return([items |-> Served(Lists["page"][revision], PageNo, job.limit),
               held  |-> Len(Lists["page"][revision]),
               exact |-> TRUE, more |-> FALSE],
              [source |-> "page", revision |-> revision])

\* A slip: a page that fails starts the call over.
EmbeddedRetries == pc = "fill" /\ job.indicators /\ Begin(job, page)

\* Without a key, or when that endpoint fails, the embedded set is paged here;
\* a slice out of bounds panics.
Embedded ==
    LET list == Lists[detail.account][detail.revision]
        cut  == Cut(Len(list), PageNo, job.limit)
    IN  /\ pc = "fill" /\ job.indicators
        /\ IF 0 <= cut.lo /\ cut.lo <= cut.hi
           THEN Return([NoOut EXCEPT !.items = SubSeq(list, cut.lo + 1, cut.hi)],
                       [source |-> detail.account, revision |-> detail.revision])
           ELSE Leave("panic")

\* A slip: the total is what is left after this page.
SearchServedHeldLeft ==
    /\ pc = "search" /\ HasKey
    /\ Return([NoOut EXCEPT !.held = Len(Lists["search"][revision]) - PageNo * job.limit],
              [source |-> "search", revision |-> revision])

\* A search is answered; its results are never cached.
SearchServed ==
    LET list  == Lists["search"][revision]
        limit == IF job.limit <= 0 THEN DefaultLimit ELSE job.limit
    IN  /\ pc = "search" /\ HasKey
        /\ Return([items |-> Served(list, PageNo, limit), held |-> Len(list),
                   exact |-> TRUE, more |-> PageNo * limit < Len(list)],
                  [source |-> "search", revision |-> revision])

\* Revision v was the current one at some instant from x on.
CurrentSince(v, x) == v = revision \/ (left[v] # None /\ left[v] >= x)

\* Another process, of any account, stores the detail it was given up to one exchange
\* ago.
OtherStores(a, v) ==
    /\ CurrentSince(v, now - Timeout)
    /\ cache' = [cache EXCEPT ![AuthScope[a]] = [revision |-> v, account |-> a, stamp |-> now]]
    /\ UNCHANGED <<now, upstream, walk, pc, detail, out>>

\* The pulse is revised upstream.
Revise ==
    /\ revision < LastRevision
    /\ revision' = revision + 1
    /\ left' = [left EXCEPT ![revision] = now]
    /\ UNCHANGED <<now, cache, walk, pc, detail, out>>

\* http.Client.Timeout bounds the time from upstream's answer to its storing.
Tick ==
    /\ now < Horizon
    /\ pc = "store" => now - detail.stamp < Timeout
    /\ now' = now + 1
    /\ UNCHANGED <<upstream, cache, walk, pc, detail, out>>

Step ==
    \/ Start
    \/ Proceed
    \/ Stop
    \/ DetailHit
    \/ DetailServed
    \/ StoreDetail
    \/ CallFails
    \/ DetailOnly
    \/ PageServed
    \/ Embedded
    \/ SearchServed

Next ==
    \/ Step
    \/ \E a \in Accounts, v \in Revisions : OtherStores(a, v)
    \/ Revise
    \/ Tick

\* The caller goes on, and an exchange ends with an answer or by its timeout.
Fairness == WF_vars(Step)

Spec == Init /\ [][Next]_vars /\ Fairness

----------------------------------------------------------------------------
Over == {"stopped", "failed", "panic"}

Paged == pc = "done" /\ job.op = "pulse"

\* Type invariant.
TypeOK ==
    /\ now \in 0..Horizon
    /\ revision \in Revisions
    /\ left \in [Revisions -> (0..Horizon) \cup {None}]
    /\ cache \in [Scopes -> [revision : Revisions, account : Accounts, stamp : 0..Horizon]
                                \cup {None}]
    /\ job \in Jobs \cup {None}
    /\ pc \in Over \cup {"idle", "pulse", "store", "fill", "search", "done"}
    /\ page \in Int
    /\ began \in 0..Horizon
    /\ detail \in [revision : Revisions, account : Accounts,
                   stamp : 0..Horizon, cached : BOOLEAN] \cup {None}
    /\ out \in [items : Seq(Items), held : Nat \cup {-1}, exact : BOOLEAN, more : BOOLEAN]
    /\ got \in Seq(Items)
    /\ origins \in SUBSET [source : Sources, revision : Revisions]

\* indicators_held, when exact, is the length of a revision current during this
\* very call, of which the page is a part, though the detail beside it may come
\* from the cache; and that revision is never older than the detail's
\* (pulse.go, fillIndicators).
ExactIsTrue ==
    Paged /\ out.exact =>
        \E v \in Revisions :
            /\ CurrentSince(v, began)
            /\ v >= detail.revision
            /\ out.held = Len(Lists["page"][v])
            /\ Range(out.items) \subseteq Range(Lists["page"][v])

\* A page that is not exact is what the caller's account sees of a revision that was
\* current since the call began; or, when the result says it is cached, what some account
\* with a key sees, if the caller has one, and else what nobody's sees, of a revision
\* current within the TTL and one exchange before.  A caller with a key may so be handed
\* what another key was shown (pulse.go:84, cache.go:39-44).
EmbeddedIsRecent ==
    Paged /\ ~out.exact =>
        /\ IF detail.cached THEN AuthScope[detail.account] = AuthScope[job.account]
                            ELSE detail.account = job.account
        /\ CurrentSince(detail.revision, began - IF detail.cached THEN TTL + Timeout ELSE 0)

\* A walk from the first page whose pages were all cut from one list ends with the
\* whole of it, each item once and in order: keyed, anonymous, falling back on every
\* page or searching, whatever the limit (pulse.go:167 "a caller asking for page 2
\* must still be able to reach the rest of it").
WalkReachesAll ==
    pc = "stopped" /\ job.page <= 1 =>
        \A o \in origins : origins = {o} => got = Lists[o.source][o.revision]

\* The slice of the embedded set is out of bounds only when the product of page and
\* limit does not fit an int; no other page panics, past the end or below the first
\* (pulse.go:170).
PanicIsOverflow == pc = "panic" => PageNo * job.limit > MaxInt

\* A caller that goes by the answers it is given never asks for more than one page
\* past the longest list there is (mcp/usage.md, get_pulse: indicators_held "is the
\* total, so you know when to stop").
WalkIsShort ==
    job # None /\ job.page <= 1 =>
        \E s \in Sources, v \in Revisions : page <= Len(Lists[s][v]) + 1

\* Every walk comes to an end: each call returns, whatever fails (pulse.go, Pulse).
WalkEnds == <>(pc \in Over)
============================================================================
