----------------------------- MODULE PulseProofs -----------------------------
(***************************************************************************)
(* Proofs about Pulse, for any lists, jobs, accounts and width of int.      *)
(* The invariant says where evidence comes from: what is stored was current *)
(* an exchange before its stamp, what the call holds is as recent as the    *)
(* result will say, and a revision once current stays "current since" then. *)
(***************************************************************************)
EXTENDS Pulse, SequenceTheorems, TLAPS

\* Whoever asks has a job, and each place belongs to one operation.
Asking ==
    /\ pc # "idle" => job \in Jobs
    /\ pc \in {"pulse", "store", "fill"} => job.op = "pulse"
    /\ pc = "search" => job.op = "search"

\* A revision was replaced before the next one came.
Dates ==
    /\ began <= now
    /\ \A v \in Revisions : left[v] # None => v < revision /\ left[v] <= now

\* What is stored was current one exchange before its stamp at the latest.
Stored ==
    \A s \in Scopes : cache[s] # None =>
        /\ AuthScope[cache[s].account] = s
        /\ cache[s].stamp <= now
        /\ CurrentSince(cache[s].revision, cache[s].stamp - Timeout)

\* The detail is the caller's, or was stored under the caller's scope.
OwnDetail ==
    IF detail.cached THEN AuthScope[detail.account] = AuthScope[job.account]
                     ELSE detail.account = job.account

\* What the call holds is its own, and as recent as EmbeddedIsRecent says.
Holding ==
    /\ pc \in {"store", "fill"} \/ Paged =>
          /\ detail # None
          /\ OwnDetail
          /\ CurrentSince(detail.revision, began - IF detail.cached THEN TTL + Timeout ELSE 0)
    /\ pc = "store" =>
          /\ ~detail.cached
          /\ detail.stamp <= now /\ now - detail.stamp <= Timeout
          /\ CurrentSince(detail.revision, detail.stamp)

Inv == TypeOK /\ Asking /\ Dates /\ Stored /\ Holding /\ ExactIsTrue /\ PanicIsOverflow

----------------------------------------------------------------------------
(* Helpers.  *)

LEMMA MinOfTwo ==
    ASSUME NEW a \in Int, NEW b \in Int
    PROVE  Min({a, b}) = IF a <= b THEN a ELSE b
<1> DEFINE m == IF a <= b THEN a ELSE b
<1>1. m \in {a, b} /\ \A y \in {a, b} : m =< y
  OBVIOUS
<1>2. \A x \in {a, b} : (\A y \in {a, b} : x =< y) => x = m
  OBVIOUS
<1> HIDE DEF m
<1>3. Min({a, b}) = m
  BY <1>1, <1>2 DEF Min
<1> QED BY <1>3 DEF m

LEMMA MaxWithOne ==
    ASSUME NEW p \in Int
    PROVE  Max({p, 1}) = IF p >= 1 THEN p ELSE 1
<1> DEFINE m == IF p >= 1 THEN p ELSE 1
<1>1. m \in {p, 1} /\ \A y \in {p, 1} : m >= y
  OBVIOUS
<1>2. \A x \in {p, 1} : (\A y \in {p, 1} : x >= y) => x = m
  OBVIOUS
<1> HIDE DEF m
<1>3. Max({p, 1}) = m
  BY <1>1, <1>2 DEF Max
<1> QED BY <1>3 DEF m

LEMMA PageNoIsPositive ==
    ASSUME page \in Int
    PROVE  PageNo \in Nat \ {0}
  BY MaxWithOne DEF PageNo

LEMMA PartOfList ==
    ASSUME NEW S, NEW s \in Seq(S), NEW m \in Nat \ {0}, NEW n \in Int, n <= Len(s)
    PROVE  /\ SubSeq(s, m, n) \in Seq(S)
           /\ Range(SubSeq(s, m, n)) \subseteq Range(s)
<1>1. \A i \in m..n : i \in 1..Len(s) /\ s[i] \in S
  OBVIOUS
<1>2. /\ SubSeq(s, m, n) \in Seq(S)
      /\ Len(SubSeq(s, m, n)) = IF m <= n THEN n - m + 1 ELSE 0
      /\ \A i \in 1..(n - m + 1) : SubSeq(s, m, n)[i] = s[m + i - 1]
  BY <1>1, SubSeqProperties
<1> DEFINE t == SubSeq(s, m, n)
<1>3. ASSUME NEW i \in DOMAIN t
      PROVE  t[i] \in Range(s)
  <2>1. DOMAIN t = 1..Len(t) /\ Len(t) \in Nat
    BY <1>2
  <2>2. i \in 1..(n - m + 1) /\ m + i - 1 \in 1..Len(s)
    BY <1>2, <2>1
  <2> QED BY <1>2, <2>2 DEF Range
<1> QED BY <1>2, <1>3 DEF Range

LEMMA WrapKeeps ==
    ASSUME NEW n \in 0..MaxInt
    PROVE  Wrap(n) = n
<1>1. MaxInt \in Nat \ {0}
  BY NumbersAssumption
<1> DEFINE a == n + MaxInt + 1  b == 2 * (MaxInt + 1)
<1>2. a \in Nat /\ b \in Nat \ {0} /\ a < b
  BY <1>1
<1> HIDE DEF MaxInt
<1>3. a % b = a
  <2> HIDE DEF a, b
  <2> QED BY <1>2
<1> QED BY <1>1, <1>3 DEF Wrap

LEMMA WrapIsInt == ASSUME NEW n \in Int PROVE Wrap(n) \in Int
<1>1. MaxInt \in Nat \ {0}
  BY NumbersAssumption
<1> HIDE DEF MaxInt
<1> QED BY <1>1 DEF Wrap

LEMMA CutFits ==
    ASSUME NEW n \in Nat, n <= MaxInt, NEW p \in Nat \ {0}, NEW limit \in Int, p * limit <= MaxInt
    PROVE  LET cut == Cut(n, p, limit) IN 0 <= cut.lo /\ cut.lo <= cut.hi
<1>1. CASE limit <= 0
  BY <1>1 DEF Cut
<1>2. CASE limit > 0
  <2>1. (p - 1) * limit \in Nat /\ (p - 1) * limit + limit = p * limit
    BY <1>2
  <2>2. MaxInt \in Nat \ {0}
    BY NumbersAssumption
  <2> HIDE DEF MaxInt
  <2>3. Wrap((p - 1) * limit) = (p - 1) * limit /\ Wrap((p - 1) * limit + limit) = p * limit
    <3> DEFINE q == (p - 1) * limit  r == p * limit
    <3>1. q \in 0..MaxInt /\ r \in 0..MaxInt
      BY <2>1, <2>2, <1>2
    <3> HIDE DEF q, r
    <3>2. Wrap(q) = q /\ Wrap(r) = r
      BY <3>1, WrapKeeps
    <3> QED BY <2>1, <3>2 DEF q, r
  <2> DEFINE lo == Wrap((p - 1) * limit)  hi == Min({Wrap(lo + limit), n})
  <2>4. Cut(n, p, limit) = IF lo >= n THEN [lo |-> 0, hi |-> 0] ELSE [lo |-> lo, hi |-> hi]
    BY <1>2 DEF Cut
  <2>5. lo \in Nat /\ lo + limit = p * limit /\ Wrap(lo + limit) = p * limit /\ p * limit \in Int
    BY <2>1, <2>3
  <2>6. hi = IF p * limit <= n THEN p * limit ELSE n
    BY <2>5, MinOfTwo
  <2> HIDE DEF lo, hi
  <2>7. ASSUME NEW r \in Int, lo + limit = r, hi = IF r <= n THEN r ELSE n
        PROVE  lo >= n \/ lo <= hi
    BY <1>2, <2>5, <2>7
  <2>8. lo >= n \/ lo <= hi
    BY <2>5, <2>6, <2>7
  <2> QED BY <2>4, <2>5, <2>8
<1> QED BY <1>1, <1>2

\* A slice of the embedded set never ends past it.
LEMMA CutIsWithin ==
    ASSUME NEW n \in Nat, NEW p \in Nat \ {0}, NEW limit \in Int
    PROVE  Cut(n, p, limit).lo \in Int /\ Cut(n, p, limit).hi \in Int /\ Cut(n, p, limit).hi <= n
<1> DEFINE lo == Wrap((p - 1) * limit)  hi == Min({Wrap(lo + limit), n})
<1>1. lo \in Int
  <2>1. (p - 1) * limit \in Int
    OBVIOUS
  <2> QED BY <2>1, WrapIsInt
<1>2. Wrap(lo + limit) \in Int
  <2>1. lo + limit \in Int
    BY <1>1
  <2> HIDE DEF lo
  <2> QED BY <2>1, WrapIsInt
<1>3. hi \in Int /\ hi <= n
  BY <1>2, MinOfTwo
<1>4. Cut(n, p, limit) = IF limit <= 0 THEN [lo |-> 0, hi |-> n]
                         ELSE IF lo >= n THEN [lo |-> 0, hi |-> 0] ELSE [lo |-> lo, hi |-> hi]
  BY DEF Cut
<1> HIDE DEF lo, hi
<1> QED BY <1>1, <1>3, <1>4

LEMMA ServedIsPart ==
    ASSUME NEW S, NEW list \in Seq(S), NEW p \in Nat \ {0}, NEW limit \in Int
    PROVE  /\ Served(list, p, limit) \in Seq(S)
           /\ Range(Served(list, p, limit)) \subseteq Range(list)
<1> DEFINE size == IF limit > 0 THEN limit ELSE UpstreamPage
<1>1. size \in Nat \ {0}
  BY NumbersAssumption
<1>2. Served(list, p, limit) = SubSeq(list, (p - 1) * size + 1, Min({p * size, Len(list)}))
  BY DEF Served
<1> HIDE DEF size
<1>3. (p - 1) * size + 1 \in Nat \ {0} /\ p * size \in Int
  BY <1>1
<1>4. Min({p * size, Len(list)}) \in Int /\ Min({p * size, Len(list)}) <= Len(list)
  BY <1>3, MinOfTwo
<1> QED BY <1>2, <1>3, <1>4, PartOfList

\* A revision that was current since x stays so, when time goes on or upstream revises.
LEMMA CurrentStays ==
    ASSUME TypeOK, Dates, UNCHANGED upstream \/ Revise,
           NEW v \in Revisions, NEW x \in Int, x <= now, CurrentSince(v, x)
    PROVE  v = revision' \/ (left'[v] # None /\ left'[v] >= x)
<1>1. CASE UNCHANGED upstream
  BY <1>1 DEF CurrentSince, upstream
<1>2. CASE Revise
  <2>1. /\ revision \in Revisions /\ revision' = revision + 1 /\ now \in Int /\ now # None
        /\ left' = [left EXCEPT ![revision] = now] /\ DOMAIN left = Revisions
    BY <1>2, NoneAssumption DEF TypeOK, Revise
  <2>2. left'[v] = IF v = revision THEN now ELSE left[v]
    BY <2>1
  <2> QED BY <2>1, <2>2 DEF CurrentSince
<1> QED BY <1>1, <1>2

\* A revision that was ever current is not later than the present one.
LEMMA CurrentIsPast ==
    ASSUME TypeOK, Dates, NEW v \in Revisions, NEW x \in Int, CurrentSince(v, x)
    PROVE  v <= revision
  BY DEF TypeOK, Dates, CurrentSince, Revisions

LEMMA InitInv == Init => Inv
  BY NumbersAssumption, NoneAssumption
  DEF Init, Inv, TypeOK, Asking, Dates, Stored, Holding, OwnDetail, ExactIsTrue, PanicIsOverflow, Paged,
      NoOut, Over, Revisions

----------------------------------------------------------------------------
(* Steps that leave the call alone.  *)

LEMMA WorldKeeps ==
    ASSUME Inv, (\E a \in Accounts, v \in Revisions : OtherStores(a, v)) \/ Revise \/ Tick
    PROVE  Inv'
<1>0. UNCHANGED <<walk, pc, detail, out>>
  BY DEF OtherStores, Revise, Tick
<1>1. UNCHANGED upstream \/ Revise
  BY DEF OtherStores, Tick
<1>2. now' \in 0..Horizon /\ now' >= now /\ (pc = "store" => now' - detail.stamp <= Timeout)
  <2>1. now \in Nat /\ now <= Horizon /\ Horizon \in Nat /\ Timeout \in Nat
    BY NumbersAssumption DEF Inv, TypeOK
  <2>2. pc = "store" => now - detail.stamp <= Timeout /\ detail.stamp \in Int
    BY DEF Inv, TypeOK, Holding
  <2>3. CASE now' = now
    BY <2>1, <2>2, <2>3
  <2>4. CASE Tick
    BY <2>1, <2>2, <2>4 DEF Tick
  <2> QED BY <2>3, <2>4 DEF OtherStores, Revise
<1>3. TypeOK'
  <2>1. revision' \in Revisions /\ left' \in [Revisions -> (0..Horizon) \cup {None}]
    <3>1. CASE UNCHANGED upstream
      BY <3>1 DEF Inv, TypeOK, upstream
    <3>2. CASE Revise
      <4>1. /\ revision \in 0..LastRevision /\ revision < LastRevision /\ revision' = revision + 1
            /\ now \in 0..Horizon /\ left' = [left EXCEPT ![revision] = now]
            /\ left \in [Revisions -> (0..Horizon) \cup {None}]
        BY <3>2 DEF Inv, TypeOK, Revise, Revisions
      <4> QED BY <4>1, NumbersAssumption DEF Revisions
    <3> QED BY <1>1, <3>1, <3>2
  <2>2. cache' \in [Scopes -> [revision : Revisions, account : Accounts, stamp : 0..Horizon] \cup {None}]
    <3>1. CASE cache' = cache
      BY <3>1 DEF Inv, TypeOK
    <3>2. CASE \E a \in Accounts, v \in Revisions : OtherStores(a, v)
      <4>1. PICK a \in Accounts, v \in Revisions : OtherStores(a, v)
        BY <3>2
      <4>2. AuthScope[a] \in Scopes /\ now \in 0..Horizon
        BY DEF Scopes, Inv, TypeOK
      <4> QED BY <4>1, <4>2 DEF OtherStores, Inv, TypeOK
    <3> QED BY <3>1, <3>2 DEF Revise, Tick
  <2> QED BY <1>0, <1>2, <2>1, <2>2 DEF Inv, TypeOK, walk
<1>4. Asking'
  BY <1>0 DEF Inv, Asking, walk
<1>5. Dates'
  <2>1. began' <= now'
    BY <1>0, <1>2 DEF Inv, TypeOK, Dates, walk
  <2>2. ASSUME NEW v \in Revisions, left'[v] # None
        PROVE  v < revision' /\ left'[v] <= now'
    <3>1. CASE UNCHANGED upstream
      BY <1>2, <2>2, <3>1 DEF Inv, TypeOK, Dates, upstream
    <3>2. CASE Revise
      <4>1. /\ revision \in Int /\ v \in Int /\ revision' = revision + 1 /\ now \in Int /\ now' = now
            /\ left' = [left EXCEPT ![revision] = now] /\ DOMAIN left = Revisions
        BY <3>2 DEF Inv, TypeOK, Revise, Revisions
      <4>2. left'[v] = IF v = revision THEN now ELSE left[v]
        BY <4>1
      <4> QED BY <2>2, <4>1, <4>2 DEF Inv, Dates
    <3> QED BY <1>1, <3>1, <3>2
  <2> QED BY <2>1, <2>2 DEF Dates
<1>6. Stored'
  <2>1. CASE \E a \in Accounts, v \in Revisions : OtherStores(a, v)
    <3>1. PICK a \in Accounts, v \in Revisions : OtherStores(a, v)
      BY <2>1
    <3> QED BY <3>1 DEF Inv, TypeOK, Stored, OtherStores, CurrentSince, upstream
  <2>2. CASE Revise \/ Tick
    <3> SUFFICES ASSUME NEW s \in Scopes, cache[s] # None
                 PROVE  /\ AuthScope[cache[s].account] = s
                        /\ cache[s].stamp <= now'
                        /\ CurrentSince(cache[s].revision, cache[s].stamp - Timeout)'
      BY <2>2 DEF Stored, Revise, Tick
    <3>1. /\ cache[s].revision \in Revisions /\ cache[s].stamp \in 0..Horizon
          /\ cache[s].stamp <= now /\ AuthScope[cache[s].account] = s
          /\ CurrentSince(cache[s].revision, cache[s].stamp - Timeout)
      BY DEF Inv, TypeOK, Stored
    <3>2. cache[s].stamp - Timeout \in Int /\ cache[s].stamp - Timeout <= now
      BY <3>1, NumbersAssumption DEF Inv, TypeOK
    <3>3. cache' = cache
      BY <2>2 DEF Revise, Tick
    <3> QED BY <1>1, <1>2, <3>1, <3>2, <3>3, CurrentStays DEF Inv, TypeOK, CurrentSince
  <2> QED BY <2>1, <2>2
<1>7. Holding'
  <2>1. ASSUME pc \in {"store", "fill"} \/ Paged
        PROVE  /\ detail # None /\ OwnDetail
               /\ CurrentSince(detail.revision, began - IF detail.cached THEN TTL + Timeout ELSE 0)'
    <3> DEFINE x == began - IF detail.cached THEN TTL + Timeout ELSE 0
    <3>1. detail.revision \in Revisions /\ x \in Int /\ x <= now /\ CurrentSince(detail.revision, x)
      BY <2>1, NumbersAssumption DEF Inv, TypeOK, Holding, OwnDetail, Dates
    <3>2. x' = x
      BY <1>0 DEF walk
    <3> HIDE DEF x
    <3>3. CurrentSince(detail.revision, x)'
      BY <1>0, <1>1, <3>1, <3>2, CurrentStays DEF Inv, CurrentSince
    <3> QED BY <2>1, <3>3 DEF x, Inv, Holding, OwnDetail
  <2>2. ASSUME pc = "store"
        PROVE  /\ detail.stamp <= now' /\ now' - detail.stamp <= Timeout
               /\ CurrentSince(detail.revision, detail.stamp)'
    <3>1. /\ detail.revision \in Revisions /\ detail.stamp \in Int /\ detail.stamp <= now
          /\ CurrentSince(detail.revision, detail.stamp)
      BY <2>2 DEF Inv, TypeOK, Holding, OwnDetail
    <3>2. CurrentSince(detail.revision, detail.stamp)'
      BY <1>0, <1>1, <3>1, CurrentStays DEF Inv, CurrentSince
    <3> QED BY <1>2, <2>2, <3>1, <3>2 DEF Inv, TypeOK
  <2> QED BY <1>0, <2>1, <2>2 DEF Inv, Holding, OwnDetail, Paged, walk
<1>8. ExactIsTrue'
  <2> SUFFICES ASSUME Paged, out.exact PROVE ExactIsTrue'
    BY <1>0 DEF ExactIsTrue, Paged, walk
  <2>1. PICK v \in Revisions : /\ CurrentSince(v, began) /\ v >= detail.revision
                               /\ out.held = Len(Lists["page"][v])
                               /\ Range(out.items) \subseteq Range(Lists["page"][v])
    BY DEF Inv, ExactIsTrue
  <2>2. CurrentSince(v, began)'
    BY <1>0, <1>1, <2>1, CurrentStays DEF Inv, TypeOK, Dates, CurrentSince, walk
  <2> QED BY <1>0, <2>1, <2>2 DEF ExactIsTrue, walk
<1>9. PanicIsOverflow'
  BY <1>0 DEF Inv, PanicIsOverflow, PageNo, walk
<1> QED BY <1>3, <1>4, <1>5, <1>6, <1>7, <1>8, <1>9 DEF Inv

----------------------------------------------------------------------------
(* Steps of the call.  *)

\* Most steps touch neither the clock, upstream nor the cache.
LEMMA WorldStays ==
    ASSUME Inv, UNCHANGED <<now, upstream, cache>>, began' = began \/ began' = now
    PROVE  /\ Dates' /\ Stored'
           /\ \A v, x : CurrentSince(v, x) => v = revision' \/ (left'[v] # None /\ left'[v] >= x)
  BY DEF Inv, TypeOK, Dates, Stored, CurrentSince, upstream

LEMMA BeginKeeps ==
    ASSUME Inv, NEW j \in Jobs, NEW p \in Int, Begin(j, p)
    PROVE  Inv'
<1>1. j.op \in {"pulse", "search"}
  BY JobsAssumption
<1>2. UNCHANGED <<now, upstream, cache, got, origins>> /\ job' = j /\ page' = p /\ began' = now
      /\ detail' = None /\ out' = NoOut /\ pc' = j.op
  BY DEF Begin
<1>3. TypeOK'
  BY <1>1, <1>2 DEF Inv, TypeOK, NoOut, upstream
<1>4. Asking' /\ Holding' /\ ExactIsTrue' /\ PanicIsOverflow'
  BY <1>1, <1>2 DEF Asking, Holding, OwnDetail, ExactIsTrue, PanicIsOverflow, Paged
<1> QED BY <1>2, <1>3, <1>4, WorldStays DEF Inv

LEMMA LeaveKeeps ==
    ASSUME Inv, NEW how \in Over, Leave(how), pc # "idle",
           how = "panic" => PageNo * job.limit > MaxInt
    PROVE  Inv'
<1>1. UNCHANGED <<now, upstream, cache, job, page, began, got, origins>>
      /\ detail' = None /\ out' = NoOut /\ pc' = how
  BY DEF Leave, walk
<1>2. TypeOK'
  BY <1>1 DEF Inv, TypeOK, NoOut, upstream
<1>3. Asking' /\ Holding' /\ ExactIsTrue' /\ PanicIsOverflow'
  BY <1>1 DEF Inv, Asking, Holding, OwnDetail, ExactIsTrue, PanicIsOverflow, Paged, Over, PageNo
<1> QED BY <1>1, <1>2, <1>3, WorldStays DEF Inv

Results == [items : Seq(Items), held : Nat \cup {-1}, exact : BOOLEAN, more : BOOLEAN]

LEMMA ReturnKeeps ==
    ASSUME Inv, NEW o \in Results, NEW origin \in [source : Sources, revision : Revisions],
           pc \in {"fill", "search"}, Return(o, origin),
           pc = "fill" /\ o.exact =>
               \E v \in Revisions : /\ CurrentSince(v, began) /\ v >= detail.revision
                                    /\ o.held = Len(Lists["page"][v])
                                    /\ Range(o.items) \subseteq Range(Lists["page"][v])
    PROVE  Inv'
<1>1. /\ UNCHANGED <<now, upstream, cache, job, page, began, detail>>
      /\ out' = o /\ pc' = "done" /\ got' = got \o o.items /\ origins' = origins \cup {origin}
  BY DEF Return
<1>2. TypeOK'
  <2>1. o.items \in Seq(Items)
    BY DEF Results
  <2>2. got' \in Seq(Items) /\ origins' \in SUBSET [source : Sources, revision : Revisions]
    BY <1>1, <2>1 DEF Inv, TypeOK
  <2>3. out' \in [items : Seq(Items), held : Nat \cup {-1}, exact : BOOLEAN, more : BOOLEAN]
    BY <1>1 DEF Results
  <2> QED BY <1>1, <2>2, <2>3 DEF Inv, TypeOK, upstream
<1>3. Asking' /\ PanicIsOverflow'
  BY <1>1 DEF Inv, Asking, PanicIsOverflow
<1>4. pc = "fill" <=> Paged'
  <2>1. job.op = "pulse" <=> pc = "fill"
    BY DEF Inv, Asking
  <2> QED BY <1>1, <2>1 DEF Paged
<1>5. Holding'
  <2>1. \A v, x : CurrentSince(v, x)' <=> CurrentSince(v, x)
    BY <1>1 DEF CurrentSince, upstream
  <2> QED BY <1>1, <1>4, <2>1 DEF Inv, Holding, OwnDetail
<1>6. ExactIsTrue'
  <2> SUFFICES ASSUME Paged', o.exact PROVE ExactIsTrue'
    BY <1>1 DEF ExactIsTrue
  <2>1. PICK v \in Revisions : /\ CurrentSince(v, began) /\ v >= detail.revision
                               /\ o.held = Len(Lists["page"][v])
                               /\ Range(o.items) \subseteq Range(Lists["page"][v])
    BY <1>4
  <2>2. CurrentSince(v, began)'
    BY <1>1, <2>1 DEF CurrentSince, upstream
  <2> QED BY <1>1, <2>1, <2>2 DEF ExactIsTrue
<1> QED BY <1>1, <1>2, <1>3, <1>5, <1>6, WorldStays DEF Inv

LEMMA HitKeeps ==
    ASSUME Inv, DetailHit
    PROVE  Inv'
<1>1. /\ UNCHANGED <<now, upstream, cache, job, page, began, got, origins, out>>
      /\ pc = "pulse" /\ pc' = "fill" /\ Fresh
      /\ detail' = [revision |-> cache[Key].revision, account |-> cache[Key].account,
                    stamp |-> cache[Key].stamp, cached |-> TRUE]
  BY DEF DetailHit, walk
<1>2. job \in Jobs /\ job.op = "pulse" /\ Key = AuthScope[job.account] /\ Key \in Scopes
  BY <1>1, JobsAssumption DEF Inv, Asking, Key, Scopes
<1>3. /\ cache[Key] \in [revision : Revisions, account : Accounts, stamp : 0..Horizon]
      /\ cache[Key] # None /\ now - cache[Key].stamp <= TTL
  BY <1>1, <1>2 DEF Inv, TypeOK, Fresh
<1>4. TypeOK'
  <2>1. detail' \in [revision : Revisions, account : Accounts, stamp : 0..Horizon, cached : BOOLEAN]
    BY <1>1, <1>3
  <2> QED BY <1>1, <2>1 DEF Inv, TypeOK, upstream
<1>5. CurrentSince(cache[Key].revision, began - (TTL + Timeout))
  <2>1. CurrentSince(cache[Key].revision, cache[Key].stamp - Timeout)
    BY <1>2, <1>3 DEF Inv, Stored
  <2>2. cache[Key].stamp - Timeout >= began - (TTL + Timeout)
    <3>1. /\ cache[Key].stamp \in Int /\ now \in Int /\ began \in Int
          /\ TTL \in Int /\ Timeout \in Int
      BY <1>3, NumbersAssumption DEF Inv, TypeOK
    <3>2. began <= now
      BY DEF Inv, Dates
    <3> QED BY <1>3, <3>1, <3>2
  <2>3. /\ cache[Key].revision \in Revisions /\ cache[Key].stamp \in Int /\ Timeout \in Int /\ TTL \in Int
        /\ began \in Int /\ left \in [Revisions -> (0..Horizon) \cup {None}]
    BY <1>3, NumbersAssumption DEF Inv, TypeOK
  <2> QED BY <2>1, <2>2, <2>3 DEF CurrentSince
<1>6. Holding'
  <2>1. /\ detail'.revision = cache[Key].revision /\ AuthScope[detail'.account] = AuthScope[job.account] /\ detail'.cached
        /\ detail'.stamp = cache[Key].stamp
    BY <1>1, <1>2, <1>3 DEF Inv, Stored
  <2>2. detail' # None
    <3>1. detail' \in [revision : Revisions, account : Accounts, stamp : 0..Horizon, cached : BOOLEAN]
      BY <1>1, <1>3
    <3> QED BY <3>1, NoneAssumption
  <2>3. CurrentSince(detail.revision, began - (TTL + Timeout))'
    BY <1>1, <1>5, <2>1 DEF CurrentSince, upstream
  <2> QED BY <1>1, <2>1, <2>2, <2>3 DEF Holding, OwnDetail
<1>7. Asking' /\ ExactIsTrue' /\ PanicIsOverflow'
  BY <1>1, <1>2 DEF Asking, ExactIsTrue, PanicIsOverflow, Paged
<1> QED BY <1>1, <1>4, <1>6, <1>7, WorldStays DEF Inv

LEMMA ServedKeeps ==
    ASSUME Inv, DetailServed
    PROVE  Inv'
<1>1. /\ UNCHANGED <<now, upstream, cache, job, page, began, got, origins, out>>
      /\ pc = "pulse" /\ pc' = "store"
      /\ detail' = [revision |-> revision, account |-> job.account, stamp |-> now, cached |-> FALSE]
  BY DEF DetailServed, walk
<1>2. job \in Jobs /\ job.op = "pulse" /\ job.account \in Accounts
  BY <1>1, JobsAssumption DEF Inv, Asking
<1>3. TypeOK'
  BY <1>1, <1>2 DEF Inv, TypeOK, upstream
<1>4. Holding'
  <2>1. CurrentSince(detail.revision, detail.stamp)' /\ CurrentSince(detail.revision, began - 0)'
    BY <1>1 DEF CurrentSince, upstream
  <2>2. detail' # None
    <3>1. detail' \in [revision : Revisions, account : Accounts, stamp : 0..Horizon, cached : BOOLEAN]
      BY <1>3, <1>1, <1>2 DEF Inv, TypeOK
    <3> QED BY <3>1, NoneAssumption
  <2>4. detail'.account = job.account /\ ~detail'.cached /\ detail'.stamp = now
    BY <1>1
  <2>3. now - now <= Timeout /\ now <= now
    BY NumbersAssumption DEF Inv, TypeOK
  <2> QED BY <1>1, <2>1, <2>2, <2>3, <2>4 DEF Holding, OwnDetail
<1>5. Asking' /\ ExactIsTrue' /\ PanicIsOverflow'
  BY <1>1, <1>2 DEF Asking, ExactIsTrue, PanicIsOverflow, Paged
<1> QED BY <1>1, <1>3, <1>4, <1>5, WorldStays DEF Inv

LEMMA StoreKeeps ==
    ASSUME Inv, StoreDetail
    PROVE  Inv'
<1>1. /\ UNCHANGED <<now, upstream, job, page, began, got, origins, detail, out>>
      /\ pc = "store" /\ pc' = "fill"
      /\ \/ cache' = cache
         \/ cache' = [cache EXCEPT ![Key] = [revision |-> detail.revision, account |-> detail.account,
                                             stamp |-> now]]
  BY DEF StoreDetail, walk
<1>2. /\ job \in Jobs /\ job.op = "pulse" /\ Key = AuthScope[job.account] /\ Key \in Scopes
      /\ detail # None /\ detail.account = job.account
      /\ detail.stamp <= now /\ now - detail.stamp <= Timeout
      /\ CurrentSince(detail.revision, detail.stamp)
  BY <1>1, JobsAssumption DEF Inv, Asking, Holding, OwnDetail, Key, Scopes
<1>3. /\ detail.revision \in Revisions /\ detail.account \in Accounts /\ detail.stamp \in 0..Horizon
      /\ now \in 0..Horizon /\ left \in [Revisions -> (0..Horizon) \cup {None}]
      /\ cache \in [Scopes -> [revision : Revisions, account : Accounts, stamp : 0..Horizon] \cup {None}]
  BY <1>2 DEF Inv, TypeOK
<1>4. TypeOK'
  BY <1>1, <1>3 DEF Inv, TypeOK, upstream
<1>5. Stored'
  <2>1. CASE cache' = cache
    BY <1>1, <2>1, WorldStays
  <2>2. CASE cache' = [cache EXCEPT ![Key] = [revision |-> detail.revision,
                                              account |-> detail.account, stamp |-> now]]
    <3>1. \A s \in Scopes \ {Key} : cache'[s] = cache[s]
      BY <1>3, <2>2
    <3>2. cache'[Key] = [revision |-> detail.revision, account |-> detail.account, stamp |-> now]
      BY <1>2, <1>3, <2>2
    <3>3. CurrentSince(detail.revision, now - Timeout)
      <4>1. now - Timeout <= detail.stamp /\ now - Timeout \in Int
        BY <1>2, <1>3, NumbersAssumption
      <4> QED BY <1>2, <1>3, <4>1 DEF CurrentSince
    <3>4. \A v, x : CurrentSince(v, x)' <=> CurrentSince(v, x)
      BY <1>1 DEF CurrentSince, upstream
    <3>5. now <= now
      BY <1>3
    <3> SUFFICES ASSUME NEW s \in Scopes, cache'[s] # None
                 PROVE  /\ AuthScope[cache'[s].account] = s /\ cache'[s].stamp <= now
                        /\ CurrentSince(cache'[s].revision, cache'[s].stamp - Timeout)
      BY <1>1, <3>4 DEF Stored, CurrentSince, upstream
    <3> QED BY <1>2, <3>1, <3>2, <3>3, <3>5 DEF Inv, Stored
  <2> QED BY <1>1, <2>1, <2>2
<1>6. Asking' /\ ExactIsTrue' /\ PanicIsOverflow' /\ Dates'
  BY <1>1, <1>2 DEF Inv, Asking, ExactIsTrue, PanicIsOverflow, Paged, Dates, upstream
<1>7. Holding'
  BY <1>1 DEF Inv, Holding, OwnDetail, CurrentSince, upstream
<1> QED BY <1>4, <1>5, <1>6, <1>7 DEF Inv

LEMMA PageKeeps ==
    ASSUME Inv, PageServed
    PROVE  Inv'
<1> DEFINE o == [items |-> Served(Lists["page"][revision], PageNo, job.limit),
                 held  |-> Len(Lists["page"][revision]), exact |-> TRUE, more |-> FALSE]
           origin == [source |-> "page", revision |-> revision]
<1>1. pc = "fill" /\ Return(o, origin)
  BY DEF PageServed
<1>2. /\ revision \in Revisions /\ "page" \in Sources /\ Lists["page"][revision] \in Seq(Items)
      /\ job.limit \in Int /\ PageNo \in Nat \ {0}
  BY <1>1, ListsAssumption, JobsAssumption, PageNoIsPositive DEF Inv, TypeOK, Asking, Sources
<1>3. /\ Served(Lists["page"][revision], PageNo, job.limit) \in Seq(Items)
      /\ Range(o.items) \subseteq Range(Lists["page"][revision])
  BY <1>2, ServedIsPart
<1>4. o \in Results /\ origin \in [source : Sources, revision : Revisions]
  BY <1>2, <1>3 DEF Results
<1>5. revision >= detail.revision
  <2>1. /\ detail \in [revision : Revisions, account : Accounts, stamp : 0..Horizon, cached : BOOLEAN]
        /\ CurrentSince(detail.revision, began - IF detail.cached THEN TTL + Timeout ELSE 0)
    BY <1>1 DEF Inv, TypeOK, Holding, OwnDetail
  <2>2. (began - IF detail.cached THEN TTL + Timeout ELSE 0) \in Int
    BY <2>1, NumbersAssumption DEF Inv, TypeOK
  <2>3. detail.revision <= revision
    BY <2>1, <2>2, CurrentIsPast DEF Inv
  <2> QED BY <1>2, <2>1, <2>3 DEF Revisions
<1>6. CurrentSince(revision, began)
  BY DEF CurrentSince
<1>7. o.held = Len(Lists["page"][revision])
  OBVIOUS
<1> HIDE DEF o, origin
<1> QED BY <1>1, <1>2, <1>3, <1>4, <1>5, <1>6, <1>7, ReturnKeeps

LEMMA EmbeddedKeeps ==
    ASSUME Inv, Embedded
    PROVE  Inv'
<1> DEFINE list == Lists[detail.account][detail.revision]
           cut == Cut(Len(list), PageNo, job.limit)
           o == [NoOut EXCEPT !.items = SubSeq(list, cut.lo + 1, cut.hi)]
           origin == [source |-> detail.account, revision |-> detail.revision]
<1>1. pc = "fill" /\ IF 0 <= cut.lo /\ cut.lo <= cut.hi THEN Return(o, origin) ELSE Leave("panic")
  BY DEF Embedded
<1>2. /\ detail.revision \in Revisions /\ detail.account \in Accounts /\ detail.account \in Sources
      /\ job.limit \in Int /\ PageNo \in Nat \ {0}
  BY <1>1, JobsAssumption, PageNoIsPositive DEF Inv, TypeOK, Asking, Holding, OwnDetail, Sources
<1>3. list \in Seq(Items) /\ Len(list) \in Nat /\ Len(list) <= MaxInt
  BY <1>2, ListsAssumption
<1>4. cut.lo \in Int /\ cut.hi \in Int /\ cut.hi <= Len(list)
  BY <1>2, <1>3, CutIsWithin
<1> HIDE DEF list, cut
<1>5. CASE 0 <= cut.lo /\ cut.lo <= cut.hi
  <2>1. SubSeq(list, cut.lo + 1, cut.hi) \in Seq(Items)
    BY <1>3, <1>4, <1>5, PartOfList
  <2>2. o \in Results /\ ~o.exact /\ origin \in [source : Sources, revision : Revisions]
    BY <1>2, <2>1 DEF NoOut, Results
  <2> HIDE DEF o, origin
  <2> QED BY <1>1, <1>5, <2>2, ReturnKeeps
<1>6. CASE ~(0 <= cut.lo /\ cut.lo <= cut.hi)
  <2>1. PageNo * job.limit > MaxInt
    <3>1. PageNo * job.limit <= MaxInt => 0 <= cut.lo /\ cut.lo <= cut.hi
      BY <1>2, <1>3, CutFits DEF cut
    <3>2. PageNo * job.limit \in Int /\ MaxInt \in Int
      BY <1>2, NumbersAssumption
    <3> QED BY <1>6, <3>1, <3>2
  <2> QED BY <1>1, <1>6, <2>1, LeaveKeeps DEF Over
<1> QED BY <1>5, <1>6

LEMMA SearchKeeps ==
    ASSUME Inv, SearchServed
    PROVE  Inv'
<1> DEFINE list == Lists["search"][revision]
           limit == IF job.limit <= 0 THEN DefaultLimit ELSE job.limit
           o == [items |-> Served(list, PageNo, limit), held |-> Len(list),
                 exact |-> TRUE, more |-> PageNo * limit < Len(list)]
           origin == [source |-> "search", revision |-> revision]
<1>1. pc = "search" /\ Return(o, origin)
  BY DEF SearchServed
<1>2. /\ revision \in Revisions /\ "search" \in Sources /\ list \in Seq(Items) /\ Len(list) \in Nat
      /\ limit \in Int /\ PageNo \in Nat \ {0}
  <2>1. revision \in Revisions /\ "search" \in Sources
    BY <1>1 DEF Inv, TypeOK, Sources
  <2>2. list \in Seq(Items) /\ Len(list) \in Nat
    BY <2>1, ListsAssumption
  <2>3. limit \in Int
    BY <1>1, JobsAssumption, NumbersAssumption DEF Inv, Asking
  <2>4. PageNo \in Nat \ {0}
    BY PageNoIsPositive DEF Inv, TypeOK
  <2> QED BY <2>1, <2>2, <2>3, <2>4
<1>3. Served(list, PageNo, limit) \in Seq(Items)
  BY <1>2, ServedIsPart
<1>4. o \in Results /\ origin \in [source : Sources, revision : Revisions]
  BY <1>2, <1>3 DEF Results
<1> HIDE DEF o, origin
<1> QED BY <1>1, <1>4, ReturnKeeps

LEMMA NextInv == Inv /\ [Next]_vars => Inv'
<1> SUFFICES ASSUME Inv, [Next]_vars PROVE Inv'
  OBVIOUS
<1>1. CASE UNCHANGED vars
  BY <1>1 DEF Inv, TypeOK, Asking, Dates, Stored, Holding, OwnDetail, ExactIsTrue, PanicIsOverflow, Paged,
              CurrentSince, PageNo, vars, upstream, walk
<1>2. CASE Start \/ Proceed
  <2>1. CASE Start
    <3>1. PICK j \in Jobs : Begin(j, j.page)
      BY <2>1 DEF Start
    <3> QED BY <3>1, JobsAssumption, BeginKeeps
  <2>2. CASE Proceed
    <3>1. job \in Jobs /\ PageNo + 1 \in Int
      BY <2>2, PageNoIsPositive DEF Proceed, Inv, TypeOK, Asking
    <3> QED BY <2>2, <3>1, BeginKeeps DEF Proceed
  <2> QED BY <1>2, <2>1, <2>2
<1>3. CASE Stop \/ CallFails \/ DetailOnly
  <2>1. PICK how \in {"stopped", "failed"} : Leave(how) /\ pc # "idle"
    BY <1>3 DEF Stop, CallFails, DetailOnly
  <2> QED BY <2>1, LeaveKeeps DEF Over
<1> QED BY <1>1, <1>2, <1>3, HitKeeps, ServedKeeps, StoreKeeps, PageKeeps, EmbeddedKeeps, SearchKeeps,
           WorldKeeps DEF Next, Step

LEMMA SpecInv == Spec => []Inv
  BY InitInv, NextInv, PTL DEF Spec

----------------------------------------------------------------------------
\* An exact total is that of a revision current during the call (pulse.go,
\* fillIndicators).
THEOREM ExactHolds == Spec => []ExactIsTrue
<1>1. Inv => ExactIsTrue
  BY DEF Inv
<1> QED BY SpecInv, <1>1, PTL

\* A page of the embedded set is recent, and the account's own unless it is cached: then
\* it is that of an account of the same scope, for any key any other's (pulse.go:84).
THEOREM EmbeddedHolds == Spec => []EmbeddedIsRecent
<1>1. Inv => EmbeddedIsRecent
  BY DEF Inv, Holding, OwnDetail, EmbeddedIsRecent
<1> QED BY SpecInv, <1>1, PTL

\* Whatever the width of int, a slice is out of bounds only if the product of page
\* and limit overflows it (pulse.go:170).
THEOREM PanicHolds == Spec => []PanicIsOverflow
<1>1. Inv => PanicIsOverflow
  BY DEF Inv
<1> QED BY SpecInv, <1>1, PTL

----------------------------------------------------------------------------
(***************************************************************************)
(* A walk from the first page to the end.  The invariant relates what the  *)
(* caller has got to the number of pages: while they all came from one     *)
(* list, it is the front of that list, of that many pages.                 *)
(***************************************************************************)
Calling == pc \in {"pulse", "store", "fill", "search"}

ListOf(o) == Lists[o.source][o.revision]

\* How many items a page cut from the list of o holds, at most.
SizeOf(o) ==
    IF job.limit > 0            THEN job.limit
    ELSE IF o.source = "page"   THEN UpstreamPage
    ELSE IF o.source = "search" THEN DefaultLimit
    ELSE                             MaxInt

FrontOf(list, n) == SubSeq(list, 1, Min({n, Len(list)}))

\* What n pages have brought.
Walked(n) ==
    /\ n = 0 <=> origins = {}
    /\ n = 0 => got = <<>>
    /\ \A o \in origins : origins = {o} => got = FrontOf(ListOf(o), n * SizeOf(o))

Unembedded == \A o \in origins : o.source \notin Accounts

\* The last page was cut from o, and the caller reads right whether to go on.
LastFrom(o) ==
    /\ ~Seen => /\ (PageNo - 1) * SizeOf(o) < Len(ListOf(o))
                /\ job.limit <= 0 => Unembedded
    /\ Seen /\ origins = {o} => PageNo * SizeOf(o) >= Len(ListOf(o))

WalkInv ==
    /\ pc = "idle" => job = None /\ origins = {} /\ got = <<>>
    /\ pc # "idle" /\ job.op = "pulse" /\ ~job.indicators => origins = {}
    /\ pc # "idle" /\ job.page <= 1 =>
          /\ \E s \in Sources, v \in Revisions : page <= Len(Lists[s][v]) + 1
          /\ Calling =>
                /\ Walked(PageNo - 1)
                /\ IF job.limit > 0 THEN (PageNo - 1) * job.limit <= 2 * MaxInt ELSE Unembedded
          /\ pc = "done" => Walked(PageNo) /\ \E o \in origins : LastFrom(o)
    /\ WalkReachesAll

----------------------------------------------------------------------------
(* Pages of one list.  *)

LEMMA PageProduct ==
    ASSUME NEW k \in Nat \ {0}, NEW size \in Nat \ {0}
    PROVE  /\ (k - 1) * size \in Nat /\ k * size \in Nat
           /\ (k - 1) * size + size = k * size
           /\ k - 1 <= (k - 1) * size /\ size <= k * size
<1>1. PICK i \in Nat : k = i + 1
  OBVIOUS
<1>2. PICK j \in Nat : size = j + 1
  OBVIOUS
<1>3. i * j \in Nat /\ i * (j + 1) = i * j + i /\ (i + 1) * (j + 1) = i * j + i + j + 1
  OBVIOUS
<1> QED BY <1>1, <1>2, <1>3

LEMMA LenOfPart ==
    ASSUME NEW S, NEW s \in Seq(S), NEW m \in Nat \ {0}, NEW n \in Int, n <= Len(s)
    PROVE  Len(SubSeq(s, m, n)) = IF m <= n THEN n - m + 1 ELSE 0
<1>1. \A i \in m..n : i \in 1..Len(s) /\ s[i] \in S
  OBVIOUS
<1> QED BY <1>1, SubSeqProperties

\* The slice after the first a items, of up to size items, continues the front.
LEMMA FrontGrows ==
    ASSUME NEW S, NEW list \in Seq(S), NEW a \in Nat, NEW size \in Nat \ {0}
    PROVE  LET slice == SubSeq(list, a + 1, Min({a + size, Len(list)}))
           IN  /\ slice \in Seq(S)
               /\ FrontOf(list, a) \o slice = FrontOf(list, a + size)
               /\ slice = <<>> <=> a >= Len(list)
               /\ Len(slice) < size => a + size >= Len(list)
<1> DEFINE n == Len(list)
           b == IF a + size <= n THEN a + size ELSE n
           slice == SubSeq(list, a + 1, b)
<1>1. n \in Nat /\ b \in Nat /\ b <= n /\ a + 1 \in Nat \ {0}
  OBVIOUS
<1>2. Min({a + size, Len(list)}) = b /\ Min({a, Len(list)}) = IF a <= n THEN a ELSE n
  BY MinOfTwo
<1>3. slice \in Seq(S) /\ Len(slice) = IF a + 1 <= b THEN b - a ELSE 0
  <2> HIDE DEF b
  <2> QED BY <1>1, PartOfList, LenOfPart
<1>4. slice = <<>> <=> Len(slice) = 0
  BY <1>3, EmptySeq
<1>5. SubSeq(list, 1, IF a <= n THEN a ELSE n) \o slice = SubSeq(list, 1, b)
  <2>1. CASE a <= n
    <3>1. a <= b /\ 1 \in 1..(n + 1) /\ a \in 0..n /\ b \in a..n
      BY <1>1, <2>1
    <3> HIDE DEF b
    <3> QED BY <2>1, <3>1, ConcatAdjacentSubSeq
  <2>2. CASE a > n
    <3>1. b = n /\ slice = <<>>
      BY <1>1, <1>3, <1>4, <2>2
    <3>2. SubSeq(list, 1, n) = list
      BY SubSeqFull
    <3> HIDE DEF slice, b
    <3> QED BY <2>2, <3>1, <3>2, ConcatEmptySeq
  <2>3. a <= n \/ a > n
    BY <1>1
  <2> QED BY <2>1, <2>2, <2>3
<1> HIDE DEF slice
<1>6. slice = <<>> <=> a >= n
  BY <1>1, <1>3, <1>4
<1>7. Len(slice) < size => a + size >= n
  BY <1>1, <1>3
<1> QED BY <1>2, <1>5, <1>6, <1>7, <1>3 DEF FrontOf, slice

\* What an empty page and a short one tell.
LEMMA PageTells ==
    ASSUME NEW S, NEW list \in Seq(S), NEW k \in Nat \ {0}, NEW size \in Nat \ {0}
    PROVE  /\ Served(list, k, size)
                  = SubSeq(list, (k - 1) * size + 1, Min({k * size, Len(list)}))
           /\ Served(list, k, size) = <<>> <=> (k - 1) * size >= Len(list)
           /\ Len(Served(list, k, size)) < size => k * size >= Len(list)
<1> DEFINE a == (k - 1) * size
<1>1. a \in Nat /\ a + size = k * size
  BY PageProduct
<1>2. Served(list, k, size) = SubSeq(list, (k - 1) * size + 1, Min({k * size, Len(list)}))
  <2>1. (IF size > 0 THEN size ELSE UpstreamPage) = size
    OBVIOUS
  <2> QED BY <2>1, Zenon DEF Served
<1>3. Served(list, k, size) = SubSeq(list, a + 1, Min({a + size, Len(list)}))
  BY <1>1, <1>2
<1> HIDE DEF a
<1>4. /\ Served(list, k, size) = <<>> <=> a >= Len(list)
      /\ Len(Served(list, k, size)) < size => a + size >= Len(list)
  BY <1>1, <1>3, FrontGrows
<1> QED BY <1>1, <1>2, <1>4 DEF a

LEMMA FrontIsWhole ==
    ASSUME NEW S, NEW list \in Seq(S), NEW n \in Nat, n >= Len(list)
    PROVE  FrontOf(list, n) = list
<1>1. Min({n, Len(list)}) = Len(list)
  BY MinOfTwo
<1> QED BY <1>1, SubSeqFull DEF FrontOf

LEMMA LenOfFront ==
    ASSUME NEW S, NEW list \in Seq(S), NEW n \in Nat, Len(FrontOf(list, n)) >= Len(list)
    PROVE  n >= Len(list)
<1>1. CASE n <= Len(list)
  <2>1. Min({n, Len(list)}) = n
    BY <1>1, MinOfTwo
  <2>2. Len(SubSeq(list, 1, n)) = n
    BY <1>1, LenOfPart
  <2> QED BY <2>1, <2>2 DEF FrontOf
<1>2. CASE n > Len(list)
  BY <1>2
<1> QED BY <1>1, <1>2

\* A product that wrapped is negative: it is never taken for another page.
LEMMA WrapShows ==
    ASSUME NEW n \in 0..(2 * MaxInt)
    PROVE  Wrap(n) = n \/ Wrap(n) < 0
<1>1. MaxInt \in Nat \ {0}
  BY NumbersAssumption
<1> DEFINE a == n + MaxInt + 1  b == 2 * (MaxInt + 1)
<1>2. a \in Nat /\ b \in Nat \ {0} /\ a < 2 * b
  BY <1>1
<1> HIDE DEF MaxInt
<1>3. a % b = IF a < b THEN a ELSE a - b
  <2> HIDE DEF a, b
  <2> QED BY <1>2
<1> QED BY <1>1, <1>2, <1>3 DEF Wrap

\* Sliced here or by upstream, a page is the same.
LEMMA CutIsServed ==
    ASSUME NEW S, NEW list \in Seq(S), Len(list) <= MaxInt,
           NEW k \in Nat \ {0}, NEW limit \in Int, limit <= MaxInt,
           IF limit > 0 THEN (k - 1) * limit <= 2 * MaxInt ELSE k = 1,
           NEW size, size = IF limit > 0 THEN limit ELSE MaxInt,
           NEW cut, cut = Cut(Len(list), k, limit), 0 <= cut.lo, cut.lo <= cut.hi
    PROVE  SubSeq(list, cut.lo + 1, cut.hi)
               = SubSeq(list, (k - 1) * size + 1, Min({k * size, Len(list)}))
<1>1. MaxInt \in Nat \ {0} /\ Len(list) \in Nat
  BY NumbersAssumption
<1>2. CASE limit <= 0
  <2>1. k = 1 /\ size = MaxInt /\ cut.lo = 0 /\ cut.hi = Len(list)
    BY <1>2 DEF Cut
  <2> HIDE DEF MaxInt
  <2>2. k * size = size /\ (k - 1) * size = 0
    BY <1>1, <2>1
  <2>3. Min({size, Len(list)}) = Len(list)
    BY <1>1, <2>1, MinOfTwo
  <2> QED BY <2>1, <2>2, <2>3
<1>3. CASE limit > 0
  <2> DEFINE a == (k - 1) * limit  b == k * limit
             lo == Wrap(a)  hi == Min({Wrap(lo + limit), Len(list)})
  <2>1. a \in 0..(2 * MaxInt) /\ b \in Nat /\ a + limit = b /\ size = limit
    <3> HIDE DEF MaxInt
    <3> QED BY <1>1, <1>3, PageProduct
  <2>2. cut = IF lo >= Len(list) THEN [lo |-> 0, hi |-> 0] ELSE [lo |-> lo, hi |-> hi]
    BY <1>3 DEF Cut
  <2>3. Wrap(a) = a \/ Wrap(a) < 0
    BY <2>1, WrapShows
  <2>4. lo \in Int
    BY <2>1, WrapIsInt
  <2>5. CASE lo >= Len(list)
    <3>1. cut.lo + 1 = 1 /\ cut.hi = 0
      BY <2>2, <2>5
    <3>2. SubSeq(list, cut.lo + 1, cut.hi) = <<>>
      BY <3>1, SubSeqEmpty
    <3>3. Min({b, Len(list)}) \in Int /\ Min({b, Len(list)}) <= Len(list)
      BY <1>1, <2>1, MinOfTwo
    <3>4. a + 1 \in Int /\ Min({b, Len(list)}) < a + 1
      <4>1. lo = a \/ lo < 0
        BY <2>3
      <4> HIDE DEF lo, a, b, MaxInt
      <4> QED BY <1>1, <2>1, <2>4, <2>5, <3>3, <4>1
    <3>5. SubSeq(list, a + 1, Min({b, Len(list)})) = <<>>
      <4> HIDE DEF a, b
      <4> QED BY <3>3, <3>4, SubSeqEmpty
    <3> QED BY <2>1, <3>2, <3>5
  <2>6. CASE lo < Len(list)
    <3>1. cut.lo = lo /\ cut.hi = hi
      <4> HIDE DEF lo, hi
      <4> QED BY <1>1, <2>2, <2>4, <2>6
    <3>2. lo = a /\ a < Len(list)
      <4>1. lo = a \/ lo < 0
        BY <2>3
      <4> HIDE DEF lo, a
      <4> QED BY <2>4, <2>6, <3>1, <4>1
    <3>3. b \in 0..(2 * MaxInt)
      <4> HIDE DEF a, b, lo, MaxInt
      <4> QED BY <1>1, <1>3, <2>1, <3>2
    <3>4. (Wrap(b) = b \/ Wrap(b) < 0) /\ Wrap(b) \in Int
      BY <3>3, WrapShows, WrapIsInt
    <3>5. hi = Min({Wrap(b), Len(list)})
      <4>1. lo + limit = b
        <5> HIDE DEF a, b, lo
        <5> QED BY <2>1, <3>2
      <4> HIDE DEF lo, b
      <4> QED BY <4>1
    <3> HIDE DEF lo, hi, a, b
    <3>6. hi = IF Wrap(b) <= Len(list) THEN Wrap(b) ELSE Len(list)
      BY <1>1, <3>4, <3>5, MinOfTwo
    <3>7. Wrap(b) >= 0
      BY <1>1, <2>4, <3>1, <3>4, <3>6
    <3>8. hi = Min({b, Len(list)})
      <4>1. Wrap(b) = b
        BY <3>4, <3>7
      <4> QED BY <3>5, <4>1
    <3>9. SubSeq(list, cut.lo + 1, cut.hi) = SubSeq(list, a + 1, Min({b, Len(list)}))
      BY <3>1, <3>2, <3>8
    <3> QED BY <2>1, <3>9 DEF a, b
  <2>7. lo >= Len(list) \/ lo < Len(list)
    <3> HIDE DEF lo
    <3> QED BY <1>1, <2>4
  <2> HIDE DEF lo
  <2> QED BY <2>5, <2>6, <2>7
<1>4. limit <= 0 \/ limit > 0
  OBVIOUS
<1> QED BY <1>2, <1>3, <1>4

----------------------------------------------------------------------------
(* The steps.  *)

LEMMA InitWalk == Init => WalkInv
  BY DEF Init, WalkInv, WalkReachesAll

\* A step that keeps the walk, and stays among the places of one call, keeps this.
LEMMA WalkStays ==
    ASSUME WalkInv, UNCHANGED <<walk, out>>, pc # "idle" => pc' # "idle",
           pc' = pc \/ (Calling /\ Calling') \/ (pc # "idle" /\ pc' \in {"failed", "panic"})
    PROVE  WalkInv'
<1>1. UNCHANGED <<job, page, got, origins, out>>
  BY DEF walk
<1>2. \A n : Walked(n)' <=> Walked(n)
  BY <1>1 DEF Walked, SizeOf, ListOf
<1>3. \A o : LastFrom(o)' <=> LastFrom(o)
  BY <1>1 DEF LastFrom, Seen, Unembedded, SizeOf, ListOf, PageNo
<1>4. (Unembedded' <=> Unembedded) /\ PageNo' = PageNo
  BY <1>1 DEF Unembedded, PageNo
<1>5. CASE pc' = pc
  BY <1>1, <1>2, <1>3, <1>4, <1>5 DEF WalkInv, Calling, WalkReachesAll
<1>6. CASE Calling /\ Calling'
  BY <1>1, <1>2, <1>4, <1>6 DEF WalkInv, Calling, WalkReachesAll
<1>7. CASE pc # "idle" /\ pc' \in {"failed", "panic"}
  BY <1>1, <1>7 DEF WalkInv, Calling, WalkReachesAll
<1> QED BY <1>5, <1>6, <1>7

\* What a call that walks knows of itself.
LEMMA WalkTypes ==
    ASSUME Inv, pc # "idle"
    PROVE  /\ job \in Jobs /\ job.limit \in Int /\ job.limit <= MaxInt /\ job.page \in Int
           /\ page \in Int /\ PageNo \in Nat \ {0} /\ job # None
           /\ \A o \in [source : Sources, revision : Revisions] :
                 /\ SizeOf(o) \in Nat \ {0}
                 /\ ListOf(o) \in Seq(Items) /\ Len(ListOf(o)) \in Nat /\ Len(ListOf(o)) <= MaxInt
<1>1. /\ job \in Jobs /\ job.limit \in Int /\ job.limit <= MaxInt /\ job.page \in Int
      /\ page \in Int /\ job # None
  BY JobsAssumption, NoneAssumption DEF Inv, TypeOK, Asking
<1>2. ASSUME NEW o \in [source : Sources, revision : Revisions]
      PROVE  /\ SizeOf(o) \in Nat \ {0}
             /\ ListOf(o) \in Seq(Items) /\ Len(ListOf(o)) \in Nat /\ Len(ListOf(o)) <= MaxInt
  <2>1. SizeOf(o) \in Nat \ {0}
    <3>1. {UpstreamPage, DefaultLimit, MaxInt} \subseteq Nat \ {0}
      BY NumbersAssumption
    <3> HIDE DEF MaxInt
    <3> QED BY <1>1, <3>1 DEF SizeOf
  <2>2. ListOf(o) \in Seq(Items) /\ Len(ListOf(o)) <= MaxInt
    BY ListsAssumption DEF ListOf
  <2> QED BY <2>1, <2>2
<1> QED BY <1>1, <1>2, PageNoIsPositive

LEMMA StartKeeps ==
    ASSUME WalkInv, Inv, Start
    PROVE  WalkInv'
<1>1. PICK j \in Jobs : Begin(j, j.page)
  BY DEF Start
<1>2. /\ pc' = j.op /\ job' = j /\ page' = j.page /\ origins' = {} /\ got' = <<>>
      /\ j.op \in {"pulse", "search"} /\ j.page \in Int /\ j.limit \in Int
  BY <1>1, JobsAssumption DEF Begin, Start, WalkInv
<1>3. j.page <= 1 => PageNo' = 1
  BY <1>2, MaxWithOne DEF PageNo
<1>4. "page" \in Sources /\ 0 \in Revisions /\ Len(Lists["page"][0]) \in Nat
  BY ListsAssumption, NumbersAssumption DEF Sources, Revisions
<1>5. Walked(0)'
  BY <1>2 DEF Walked
<1>6. Unembedded'
  BY <1>2 DEF Unembedded
<1>7. (1 - 1) * j.limit <= 2 * MaxInt
  <2>1. MaxInt \in Nat
    BY NumbersAssumption
  <2> HIDE DEF MaxInt
  <2> QED BY <1>2, <2>1
<1>8. ASSUME j.page <= 1
      PROVE  /\ \E s \in Sources, v \in Revisions : j.page <= Len(Lists[s][v]) + 1
             /\ Walked(PageNo - 1)'
             /\ IF j.limit > 0 THEN (PageNo' - 1) * j.limit <= 2 * MaxInt ELSE Unembedded'
  <2>1. j.page <= Len(Lists["page"][0]) + 1
    BY <1>2, <1>4, <1>8
  <2>2. PageNo' - 1 = 0
    BY <1>3, <1>8
  <2>3. Walked(PageNo - 1)'
    BY <1>2, <2>2 DEF Walked
  <2> QED BY <1>3, <1>4, <1>6, <1>7, <1>8, <2>1, <2>3
<1> QED BY <1>2, <1>8 DEF WalkInv, WalkReachesAll

LEMMA ProceedKeeps ==
    ASSUME WalkInv, Inv, Proceed
    PROVE  WalkInv'
<1>1. /\ pc = "done" /\ ~Seen /\ UNCHANGED <<job, origins, got>>
      /\ pc' = job.op /\ job.op \in {"pulse", "search"} /\ page' = PageNo + 1
  <2>1. job \in Jobs
    BY DEF Proceed, Inv, Asking
  <2> QED BY <2>1, JobsAssumption DEF Proceed, Begin
<1>2. PageNo \in Nat \ {0} /\ job.limit \in Int /\ job.limit <= MaxInt
  BY <1>1, WalkTypes
<1>3. PageNo' = PageNo + 1
  <2> DEFINE p == PageNo + 1
  <2>1. p \in Int /\ p >= 1 /\ page' = p
    BY <1>1, <1>2
  <2> HIDE DEF p
  <2>2. Max({p, 1}) = p
    BY <2>1, MaxWithOne
  <2> QED BY <2>1, <2>2 DEF PageNo, p
<1>4. ASSUME job.page <= 1
      PROVE  /\ \E s \in Sources, v \in Revisions : PageNo + 1 <= Len(Lists[s][v]) + 1
             /\ Walked(PageNo)
             /\ IF job.limit > 0 THEN PageNo * job.limit <= 2 * MaxInt ELSE Unembedded
  <2>1. Walked(PageNo) /\ \E o \in origins : LastFrom(o)
    BY <1>1, <1>4 DEF WalkInv
  <2>2. PICK o \in origins : LastFrom(o)
    BY <2>1
  <2> DEFINE a == (PageNo - 1) * SizeOf(o)
  <2>3. a < Len(ListOf(o)) /\ (job.limit <= 0 => Unembedded)
    BY <1>1, <2>2 DEF LastFrom
  <2>4. o \in [source : Sources, revision : Revisions]
    BY DEF Inv, TypeOK
  <2>5. SizeOf(o) \in Nat \ {0} /\ Len(ListOf(o)) \in Nat /\ Len(ListOf(o)) <= MaxInt
    BY <1>1, <2>4, WalkTypes
  <2>6. a \in Nat /\ PageNo - 1 <= a /\ a + SizeOf(o) = PageNo * SizeOf(o)
    BY <1>2, <2>5, PageProduct
  <2>7. MaxInt \in Nat
    BY NumbersAssumption
  <2> HIDE DEF a, MaxInt
  <2>8. PageNo + 1 <= Len(ListOf(o)) + 1
    BY <1>2, <2>3, <2>5, <2>6
  <2>9. job.limit > 0 => PageNo * job.limit <= 2 * MaxInt
    <3>1. job.limit > 0 => SizeOf(o) = job.limit
      BY DEF SizeOf
    <3>2. PageNo * SizeOf(o) <= MaxInt + SizeOf(o)
      BY <2>3, <2>5, <2>6, <2>7
    <3>3. ASSUME job.limit > 0 PROVE PageNo * SizeOf(o) <= 2 * MaxInt
      <4>1. SizeOf(o) <= MaxInt
        BY <1>2, <3>1, <3>3
      <4>2. a + SizeOf(o) <= 2 * MaxInt
        BY <2>3, <2>5, <2>6, <2>7, <4>1
      <4> QED BY <2>6, <4>2
    <3> QED BY <3>1, <3>3
  <2>10. ~(job.limit > 0) => Unembedded
    BY <1>2, <2>3
  <2> QED BY <2>1, <2>4, <2>8, <2>9, <2>10 DEF ListOf
<1>6. Walked(PageNo - 1)' <=> Walked(PageNo)
  <2>1. PageNo' - 1 = PageNo
    BY <1>2, <1>3
  <2> QED BY <1>1, <2>1 DEF Walked, SizeOf, ListOf
<1>7. (Unembedded' <=> Unembedded) /\ PageNo' - 1 = PageNo
  BY <1>1, <1>2, <1>3 DEF Unembedded
<1> QED BY <1>1, <1>4, <1>6, <1>7 DEF WalkInv, WalkReachesAll

LEMMA StopKeeps ==
    ASSUME WalkInv, Inv, Stop
    PROVE  WalkInv'
<1>1. pc = "done" /\ Seen /\ pc' = "stopped" /\ UNCHANGED <<job, page, origins, got>>
  BY DEF Stop, Leave, walk
<1>2. ASSUME job.page <= 1, NEW o \in origins, origins = {o}
      PROVE  got = ListOf(o)
  <2>1. Walked(PageNo) /\ \E x \in origins : LastFrom(x)
    BY <1>1, <1>2 DEF WalkInv
  <2> DEFINE n == PageNo * SizeOf(o)
  <2>2. got = FrontOf(ListOf(o), n) /\ n >= Len(ListOf(o))
    BY <1>1, <1>2, <2>1 DEF Walked, LastFrom
  <2>3. o \in [source : Sources, revision : Revisions]
    BY DEF Inv, TypeOK
  <2>4. ListOf(o) \in Seq(Items) /\ PageNo \in Nat \ {0} /\ SizeOf(o) \in Nat \ {0}
    BY <1>1, <2>3, WalkTypes
  <2>5. n \in Nat
    BY <2>4
  <2> HIDE DEF n
  <2> QED BY <2>2, <2>4, <2>5, FrontIsWhole
<1>3. WalkReachesAll'
  BY <1>1, <1>2 DEF WalkReachesAll, ListOf
<1> QED BY <1>1, <1>3 DEF WalkInv, Calling

\* What an answer cut from the list of origin adds.
LEMMA ReturnWalks ==
    ASSUME WalkInv, Inv, job.page <= 1, Calling,
           NEW o \in Results, NEW origin \in [source : Sources, revision : Revisions],
           Return(o, origin),
           origins \subseteq {origin} =>
               o.items = Served(ListOf(origin), PageNo, SizeOf(origin))
    PROVE  Walked(PageNo)'
<1>1. /\ UNCHANGED <<job, page>> /\ got' = got \o o.items /\ origins' = origins \cup {origin}
  BY DEF Return
<1>2. Walked(PageNo - 1) /\ PageNo \in Nat \ {0} /\ PageNo' = PageNo
  BY <1>1, WalkTypes DEF WalkInv, Calling, PageNo
<1>3. SizeOf(origin) \in Nat \ {0} /\ ListOf(origin) \in Seq(Items)
  BY WalkTypes DEF Calling
<1>4. ASSUME NEW x \in origins', origins' = {x}
      PROVE  got' = FrontOf(ListOf(x), PageNo * SizeOf(x))
  <2>1. x = origin /\ origins \subseteq {origin}
    BY <1>1, <1>4
  <2> DEFINE list == ListOf(origin)  size == SizeOf(origin)  a == (PageNo - 1) * size
             slice == SubSeq(list, a + 1, Min({a + size, Len(list)}))
  <2>2. a \in Nat /\ a + size = PageNo * size
    BY <1>2, <1>3, PageProduct
  <2>3. o.items = slice
    <3>1. o.items = Served(list, PageNo, size)
      BY <2>1
    <3>2. Served(list, PageNo, size) = SubSeq(list, a + 1, Min({PageNo * size, Len(list)}))
      BY <1>2, <1>3, PageTells
    <3> QED BY <2>2, <3>1, <3>2
  <2>4. FrontOf(list, a) \o slice = FrontOf(list, a + size)
    <3>1. list \in Seq(Items) /\ size \in Nat \ {0}
      BY <1>3
    <3> HIDE DEF list, size, a
    <3> QED BY <2>2, <3>1, FrontGrows, ZenonT(60)
  <2>5. got = FrontOf(list, a)
    <3>1. CASE origins = {origin}
      BY <1>2, <3>1 DEF Walked
    <3>2. CASE origins = {}
      <4>1. got = <<>> /\ PageNo - 1 = 0
        BY <1>2, <3>2 DEF Walked
      <4>2. a = 0
        BY <1>3, <4>1
      <4>3. Min({0, Len(list)}) = 0
        BY <1>3, MinOfTwo
      <4>4. SubSeq(list, 1, 0) = <<>>
        BY SubSeqEmpty
      <4> QED BY <4>1, <4>2, <4>3, <4>4 DEF FrontOf
    <3>3. origins = {origin} \/ origins = {}
      BY <2>1
    <3> QED BY <3>1, <3>2, <3>3
  <2>6. got' = FrontOf(list, PageNo * size)
    BY <1>1, <2>2, <2>3, <2>4, <2>5
  <2> QED BY <2>1, <2>6
<1>5. \A x : SizeOf(x)' = SizeOf(x) /\ ListOf(x)' = ListOf(x)
  BY <1>1 DEF SizeOf, ListOf
<1>6. PageNo # 0 /\ origins' # {}
  BY <1>1, <1>2
<1> QED BY <1>2, <1>4, <1>5, <1>6 DEF Walked

\* The step ends the call, and what the caller reads in it is right.
LEMMA ReturnKeepsWalk ==
    ASSUME WalkInv, Inv, Calling, NEW o, NEW origin, Return(o, origin),
           job.op = "pulse" => job.indicators,
           job.page <= 1 => Walked(PageNo)' /\ LastFrom(origin)'
    PROVE  WalkInv'
<1>1. UNCHANGED <<job, page>> /\ pc' = "done" /\ origin \in origins'
  BY DEF Return
<1> QED BY <1>1 DEF WalkInv, Calling, WalkReachesAll

LEMMA PageWalks ==
    ASSUME WalkInv, Inv, PageServed
    PROVE  WalkInv'
<1>0. PICK v \in Revisions : v = revision
  BY DEF Inv, TypeOK
<1> DEFINE list == Lists["page"][v]
           o == [items |-> Served(list, PageNo, job.limit), held |-> Len(list),
                 exact |-> TRUE, more |-> FALSE]
           origin == [source |-> "page", revision |-> v]
<1>1. pc = "fill" /\ job.indicators /\ Return(o, origin)
  BY <1>0 DEF PageServed
<1>2. Calling /\ job.op = "pulse"
  BY <1>1 DEF Inv, Asking, Calling
<1>3. origin \in [source : Sources, revision : Revisions] /\ origin.source \notin Accounts
  BY SourcesAssumption DEF Sources
<1>4. ListOf(origin) = list /\ origin.source = "page"
  BY DEF ListOf
<1> DEFINE size == SizeOf(origin)
<1>5. /\ list \in Seq(Items) /\ Len(list) \in Nat /\ size \in Nat \ {0}
      /\ PageNo \in Nat \ {0} /\ job.limit \in Int
  BY <1>1, <1>3, <1>4, WalkTypes
<1>6. size = IF job.limit > 0 THEN job.limit ELSE UpstreamPage
  BY <1>4 DEF SizeOf
<1>7. o.items = Served(list, PageNo, size)
  <2>1. Served(list, PageNo, job.limit)
            = SubSeq(list, (PageNo - 1) * size + 1, Min({PageNo * size, Len(list)}))
    <3> HIDE DEF size, list
    <3> QED BY <1>6, Zenon DEF Served
  <2> HIDE DEF list, size
  <2> QED BY <1>5, <2>1, PageTells
<1>8. o \in Results
  <2>1. o.items \in Seq(Items)
    BY <1>5, ServedIsPart
  <2> QED BY <1>5, <2>1 DEF Results
<1>9. o.exact /\ o.held = Len(list)
  OBVIOUS
<1> HIDE DEF o, size
<1>10. ASSUME job.page <= 1
       PROVE  Walked(PageNo)' /\ LastFrom(origin)'
  <2>1. Walked(PageNo)'
    <3> HIDE DEF list, origin
    <3> QED BY <1>1, <1>2, <1>3, <1>4, <1>7, <1>8, <1>10, ReturnWalks DEF size
  <2> HIDE DEF list, origin
  <2>2. /\ UNCHANGED <<job, page>> /\ out' = o /\ got' = got \o o.items
        /\ origins' = origins \cup {origin} /\ PageNo' = PageNo
    BY <1>1 DEF Return, PageNo
  <2>3. SizeOf(origin)' = size /\ ListOf(origin)' = list
    BY <1>4, <2>2 DEF SizeOf, ListOf, size
  <2>4. Seen' <=> Len(got') >= Len(list) \/ o.items = <<>>
    BY <1>2, <1>9, <2>2 DEF Seen
  <2>5. o.items = <<>> <=> (PageNo - 1) * size >= Len(list)
    BY <1>5, <1>7, PageTells
  <2>6. (PageNo - 1) * size \in Nat /\ PageNo * size \in Nat /\ (PageNo - 1) * size <= PageNo * size
    BY <1>5, PageProduct
  <2>7. job.limit <= 0 => Unembedded'
    <3>1. job.limit <= 0 => Unembedded
      BY <1>1, <1>2, <1>5, <1>10 DEF WalkInv
    <3> QED BY <1>3, <2>2, <3>1 DEF Unembedded
  <2>8. ASSUME ~Seen' PROVE (PageNo - 1) * size < Len(list)
    BY <1>5, <2>4, <2>5, <2>6, <2>8
  <2>9. ASSUME Seen', origins' = {origin} PROVE PageNo * size >= Len(list)
    <3>1. got' = FrontOf(list, PageNo * size)
      BY <2>1, <2>2, <2>3, <2>9 DEF Walked
    <3>2. CASE Len(got') >= Len(list)
      BY <1>5, <2>6, <3>1, <3>2, LenOfFront
    <3>3. CASE o.items = <<>>
      BY <1>5, <2>5, <2>6, <3>3
    <3> QED BY <2>4, <2>9, <3>2, <3>3
  <2> QED BY <2>1, <2>2, <2>3, <2>7, <2>8, <2>9 DEF LastFrom
<1> HIDE DEF origin
<1> QED BY <1>1, <1>2, <1>10, ReturnKeepsWalk

LEMMA SearchWalks ==
    ASSUME WalkInv, Inv, SearchServed
    PROVE  WalkInv'
<1>0. PICK v \in Revisions : v = revision
  BY DEF Inv, TypeOK
<1> DEFINE list == Lists["search"][v]
           limit == IF job.limit <= 0 THEN DefaultLimit ELSE job.limit
           o == [items |-> Served(list, PageNo, limit), held |-> Len(list),
                 exact |-> TRUE, more |-> PageNo * limit < Len(list)]
           origin == [source |-> "search", revision |-> v]
<1>1. pc = "search" /\ Return(o, origin)
  BY <1>0 DEF SearchServed
<1>2. Calling /\ job.op = "search"
  BY <1>1 DEF Inv, Asking, Calling
<1>3. origin \in [source : Sources, revision : Revisions] /\ origin.source \notin Accounts
  BY SourcesAssumption DEF Sources
<1>4. ListOf(origin) = list /\ origin.source = "search"
  BY DEF ListOf
<1> DEFINE size == SizeOf(origin)
<1>5. /\ list \in Seq(Items) /\ Len(list) \in Nat /\ size \in Nat \ {0}
      /\ PageNo \in Nat \ {0} /\ job.limit \in Int
  BY <1>1, <1>3, <1>4, WalkTypes
<1>6. size = limit
  BY <1>4, <1>5 DEF SizeOf
<1>7. o.items = Served(list, PageNo, size) /\ (o.more <=> PageNo * size < Len(list))
  BY <1>6
<1>8. o \in Results
  <2>1. o.items \in Seq(Items)
    <3> HIDE DEF o, list, size
    <3> QED BY <1>5, <1>7, ServedIsPart
  <2> QED BY <1>5, <2>1 DEF Results
<1> HIDE DEF o, size
<1>9. ASSUME job.page <= 1
      PROVE  Walked(PageNo)' /\ LastFrom(origin)'
  <2>1. Walked(PageNo)'
    <3> HIDE DEF list, origin
    <3> QED BY <1>1, <1>2, <1>3, <1>4, <1>7, <1>8, <1>9, ReturnWalks DEF size
  <2> HIDE DEF list, origin
  <2>2. /\ UNCHANGED <<job, page>> /\ out' = o /\ origins' = origins \cup {origin}
        /\ PageNo' = PageNo
    BY <1>1 DEF Return, PageNo
  <2>3. SizeOf(origin)' = size /\ ListOf(origin)' = list
    BY <1>4, <2>2 DEF SizeOf, ListOf, size
  <2>4. Seen' <=> ~(PageNo * size < Len(list))
    BY <1>2, <1>7, <2>2 DEF Seen
  <2>5. (PageNo - 1) * size \in Nat /\ PageNo * size \in Nat /\ (PageNo - 1) * size <= PageNo * size
    BY <1>5, PageProduct
  <2>6. job.limit <= 0 => Unembedded'
    <3>1. job.limit <= 0 => Unembedded
      BY <1>1, <1>2, <1>5, <1>9 DEF WalkInv
    <3> QED BY <1>3, <2>2, <3>1 DEF Unembedded
  <2>7. Seen' => PageNo * size >= Len(list)
    BY <1>5, <2>4, <2>5
  <2>8. ~Seen' => (PageNo - 1) * size < Len(list)
    BY <1>5, <2>4, <2>5
  <2> QED BY <2>1, <2>2, <2>3, <2>6, <2>7, <2>8 DEF LastFrom
<1> HIDE DEF origin
<1> QED BY <1>1, <1>2, <1>9, ReturnKeepsWalk

LEMMA EmbeddedWalks ==
    ASSUME WalkInv, Inv, Embedded
    PROVE  WalkInv'
<1>1. /\ pc = "fill" /\ Calling /\ job.op = "pulse" /\ job.indicators
      /\ detail.revision \in Revisions /\ detail.account \in Accounts
  BY JobsAssumption DEF Embedded, Inv, TypeOK, Asking, Holding, OwnDetail, Calling
<1>2. PICK v \in Revisions, s \in Accounts : v = detail.revision /\ s = detail.account
  BY <1>1
<1> DEFINE list == Lists[s][v]
           cut == Cut(Len(list), PageNo, job.limit)
           o == [NoOut EXCEPT !.items = SubSeq(list, cut.lo + 1, cut.hi)]
           origin == [source |-> s, revision |-> v]
<1>3. IF 0 <= cut.lo /\ cut.lo <= cut.hi THEN Return(o, origin) ELSE Leave("panic")
  BY <1>2 DEF Embedded
<1>4. CASE ~(0 <= cut.lo /\ cut.lo <= cut.hi)
  <2>1. Leave("panic")
    BY <1>3, <1>4
  <2>2. UNCHANGED <<job, page, got, origins>> /\ pc' = "panic"
    BY <2>1 DEF Leave, walk
  <2> QED BY <1>1, <2>2 DEF WalkInv, Calling, WalkReachesAll
<1>5. CASE 0 <= cut.lo /\ cut.lo <= cut.hi
  <2>1. Return(o, origin)
    BY <1>3, <1>5
  <2>2. /\ origin \in [source : Sources, revision : Revisions] /\ origin.source \in Accounts
        /\ origin.source # "page" /\ origin.source # "search"
    BY SourcesAssumption DEF Sources
  <2>3. ListOf(origin) = list
    BY DEF ListOf
  <2> DEFINE size == SizeOf(origin)
  <2>4. /\ list \in Seq(Items) /\ Len(list) \in Nat /\ Len(list) <= MaxInt /\ size \in Nat \ {0}
        /\ PageNo \in Nat \ {0} /\ job.limit \in Int /\ job.limit <= MaxInt
    BY <1>1, <2>2, <2>3, WalkTypes
  <2>5. size = IF job.limit > 0 THEN job.limit ELSE MaxInt
    BY <2>2 DEF SizeOf
  <2>6. o \in Results /\ ~o.exact /\ o.items = SubSeq(list, cut.lo + 1, cut.hi)
    <3>1. cut.lo \in Int /\ cut.hi \in Int /\ cut.hi <= Len(list)
      BY <2>4, CutIsWithin
    <3> HIDE DEF cut, list
    <3>2. SubSeq(list, cut.lo + 1, cut.hi) \in Seq(Items)
      BY <1>5, <2>4, <3>1, PartOfList
    <3> QED BY <3>2 DEF NoOut, Results
  <2> HIDE DEF o, size, MaxInt
  <2>7. ASSUME job.page <= 1
        PROVE  Walked(PageNo)' /\ LastFrom(origin)'
    <3>1. /\ Walked(PageNo - 1)
          /\ IF job.limit > 0 THEN (PageNo - 1) * job.limit <= 2 * MaxInt ELSE Unembedded
      BY <1>1, <2>7 DEF WalkInv
    <3>2. ASSUME IF job.limit > 0 THEN (PageNo - 1) * job.limit <= 2 * MaxInt ELSE PageNo = 1
          PROVE  o.items = Served(list, PageNo, size)
      <4>1. SubSeq(list, cut.lo + 1, cut.hi)
                = SubSeq(list, (PageNo - 1) * size + 1, Min({PageNo * size, Len(list)}))
        <5> DEFINE k == PageNo  limit == job.limit
        <5>1. /\ k \in Nat \ {0} /\ limit \in Int /\ limit <= MaxInt
              /\ IF limit > 0 THEN (k - 1) * limit <= 2 * MaxInt ELSE k = 1
              /\ size = IF limit > 0 THEN limit ELSE MaxInt
              /\ cut = Cut(Len(list), k, limit)
          BY <2>4, <2>5, <3>2
        <5> HIDE DEF k, limit, list, cut
        <5>2. SubSeq(list, cut.lo + 1, cut.hi)
                  = SubSeq(list, (k - 1) * size + 1, Min({k * size, Len(list)}))
          <6>1. list \in Seq(Items) /\ Len(list) <= MaxInt
            BY <2>4
          <6>2. 0 <= cut.lo /\ cut.lo <= cut.hi
            BY <1>5
          <6>3. ASSUME NEW c, c = Cut(Len(list), k, limit), 0 <= c.lo, c.lo <= c.hi
                PROVE  SubSeq(list, c.lo + 1, c.hi)
                           = SubSeq(list, (k - 1) * size + 1, Min({k * size, Len(list)}))
            BY <5>1, <6>1, <6>3, CutIsServed, ZenonT(60)
          <6> QED BY <5>1, <6>2, <6>3
        <5> QED BY <5>2 DEF k
      <4> HIDE DEF list, cut
      <4> QED BY <2>4, <2>6, <4>1, PageTells
    <3>3. origins \subseteq {origin} => o.items = Served(list, PageNo, size)
      <4>1. ASSUME origins \subseteq {origin}, ~(job.limit > 0) PROVE PageNo = 1
        <5>1. origins = {}
          BY <2>2, <3>1, <4>1 DEF Unembedded
        <5>2. PageNo - 1 = 0
          BY <3>1, <5>1 DEF Walked
        <5> QED BY <2>4, <5>2
      <4> HIDE DEF list, cut, origin
      <4> QED BY <3>1, <3>2, <4>1
    <3>4. Walked(PageNo)'
      <4> HIDE DEF list, origin
      <4> QED BY <1>1, <2>1, <2>2, <2>3, <2>6, <2>7, <3>3, ReturnWalks DEF size
    <3> HIDE DEF list, origin, cut
    <3>5. /\ UNCHANGED <<job, page>> /\ out' = o /\ origins' = origins \cup {origin}
          /\ PageNo' = PageNo
      BY <2>1 DEF Return, PageNo
    <3>6. SizeOf(origin)' = size /\ ListOf(origin)' = list
      BY <2>3, <3>5 DEF SizeOf, ListOf, size
    <3>7. Seen' <=> job.limit <= 0 \/ Len(o.items) < job.limit
      BY <1>1, <2>6, <3>5 DEF Seen
    <3>8. /\ (PageNo - 1) * size \in Nat /\ PageNo * size \in Nat
          /\ (PageNo - 1) * size <= PageNo * size /\ size <= PageNo * size
      BY <2>4, PageProduct
    <3>9. ASSUME ~Seen' PROVE (PageNo - 1) * size < Len(list) /\ job.limit > 0
      <4>1. job.limit > 0 /\ Len(o.items) >= job.limit
        <5>1. o.items \in Seq(Items)
          BY <2>6 DEF Results
        <5>2. Len(o.items) \in Nat
          BY <5>1
        <5> QED BY <2>4, <3>7, <3>9, <5>2
      <4>2. o.items = Served(list, PageNo, size)
        BY <3>1, <3>2, <4>1
      <4>3. o.items # <<>>
        BY <2>4, <4>1
      <4>4. ~((PageNo - 1) * size >= Len(list))
        BY <2>4, <4>2, <4>3, PageTells
      <4> QED BY <2>4, <3>8, <4>1, <4>4
    <3>10. ASSUME Seen', origins' = {origin} PROVE PageNo * size >= Len(list)
      <4>1. o.items = Served(list, PageNo, size)
        BY <3>3, <3>5, <3>10
      <4>2. CASE job.limit > 0
        <5>1. Len(o.items) < size
          BY <2>4, <2>5, <3>7, <3>10, <4>2
        <5> QED BY <2>4, <4>1, <5>1, PageTells
      <4>3. CASE job.limit <= 0
        BY <2>4, <2>5, <3>8, <4>3
      <4> QED BY <2>4, <4>2, <4>3
    <3>11. ~Seen' => ~(job.limit <= 0)
      BY <2>4, <3>9
    <3> QED BY <3>4, <3>5, <3>6, <3>9, <3>10, <3>11 DEF LastFrom
  <2> HIDE DEF origin
  <2> QED BY <1>1, <2>1, <2>7, ReturnKeepsWalk
<1> QED BY <1>4, <1>5

LEMMA NextWalk == WalkInv /\ Inv /\ [Next]_vars => WalkInv'
<1> SUFFICES ASSUME WalkInv, Inv, [Next]_vars PROVE WalkInv'
  OBVIOUS
<1>1. CASE UNCHANGED vars \/ Revise \/ Tick \/ \E a \in Accounts, v \in Revisions : OtherStores(a, v)
  <2>1. UNCHANGED <<walk, out, pc>>
    BY <1>1 DEF vars, Revise, Tick, OtherStores
  <2> QED BY <2>1, WalkStays
<1>2. CASE DetailHit \/ DetailServed \/ StoreDetail
  <2>1. UNCHANGED <<walk, out>> /\ Calling /\ Calling' /\ pc' # "idle"
    BY <1>2 DEF DetailHit, DetailServed, StoreDetail, Calling
  <2> QED BY <2>1, WalkStays
<1>3. CASE CallFails
  <2>1. UNCHANGED <<job, page, got, origins>> /\ pc # "idle" /\ pc' = "failed"
    BY <1>3 DEF CallFails, Leave, walk
  <2> QED BY <2>1 DEF WalkInv, Calling, WalkReachesAll
<1>4. CASE DetailOnly
  <2>1. /\ UNCHANGED <<job, page, got, origins>> /\ pc = "fill" /\ pc' = "stopped"
        /\ job.op = "pulse" /\ ~job.indicators
    BY <1>4 DEF DetailOnly, Leave, walk, Inv, Asking
  <2> QED BY <2>1 DEF WalkInv, Calling, WalkReachesAll
<1> QED BY <1>1, <1>2, <1>3, <1>4, StartKeeps, ProceedKeeps, StopKeeps, PageWalks, SearchWalks,
           EmbeddedWalks DEF Next, Step

LEMMA SpecWalk == Spec => [](Inv /\ WalkInv)
<1>1. Init => Inv /\ WalkInv
  BY InitInv, InitWalk
<1>2. Inv /\ WalkInv /\ [Next]_vars => (Inv /\ WalkInv)'
  BY NextInv, NextWalk
<1> QED BY <1>1, <1>2, PTL DEF Spec

\* Whatever the lists, the limit and the page size, a walk from the first page over
\* one list ends with the whole of it, in order (pulse.go:167).
THEOREM WalkReaches == Spec => []WalkReachesAll
<1>1. WalkInv => WalkReachesAll
  BY DEF WalkInv
<1> QED BY SpecWalk, <1>1, PTL

\* No walk from the first page asks for more than one page past the longest list
\* (mcp/usage.md, get_pulse).
THEOREM WalkStaysShort == Spec => []WalkIsShort
<1>1. Inv /\ WalkInv => WalkIsShort
  <2>1. ASSUME Inv, WalkInv, job # None, job.page <= 1
        PROVE  \E s \in Sources, v \in Revisions : page <= Len(Lists[s][v]) + 1
    BY <2>1 DEF WalkInv
  <2> QED BY <2>1 DEF WalkIsShort
<1> QED BY SpecWalk, <1>1, PTL
=============================================================================
