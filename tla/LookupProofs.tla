---------------------------- MODULE LookupProofs ----------------------------
(***************************************************************************)
(* Proofs about Lookup, for any targets, types, sections, number of calls, *)
(* TTL and timeout.  The inductive invariant says what each call already   *)
(* knows to be true of upstream:                                           *)
(*   Started   where the call is agrees with its position and its job;     *)
(*   Fetched   the reply in hand was upstream's answer within the timeout; *)
(*   Chosen    the chosen answer was upstream's, recently enough;          *)
(*   Swept     every type already passed was empty, or failed, or the      *)
(*             chosen answer is not empty;                                 *)
(*   Extras    the sections collected were upstream's, recently enough.    *)
(* What came through the cache is known only up to what a key folds        *)
(* together (HeldAlike): the case of a target, and which API key is asked  *)
(* with.  Where that is nothing, it is known of the slot itself (Alone).   *)
(* It rests on HeldStays: what upstream has once said stays said.          *)
(***************************************************************************)
EXTENDS Lookup, TLAPS

Busy(c) == pc[c] \in {"look", "fetch", "store", "done", "failed"}

Started(c) ==
    /\ began[c] <= now
    /\ pc[c] = "idle" => res[c] = NoResult /\ pos[c] = [stage |-> "types", n |-> 1]
    /\ Busy(c) => job[c] \in Jobs /\ Accepts(job[c])
    /\ pc[c] = "rejected" => res[c] = NoResult
    /\ pc[c] \in {"fetch", "store"} => Wanting(c)
    /\ pc[c] = "done" => pos[c].stage = "sections"
    /\ pc[c] = "failed" => /\ pos[c].stage = "types"
                           /\ pos[c].n > Len(TypeList(c))
                           /\ res[c].general = None
    /\ pos[c].stage = "sections" => Busy(c) /\ res[c].general # None
    /\ (pos[c].stage = "types" /\ pos[c].n > 1 /\ res[c].general = None)
          => res[c].firstErr # NoError

Fetched(c) ==
    pc[c] = "store" =>
        /\ reply[c].stamp <= now
        /\ now - reply[c].stamp <= Timeout
        /\ began[c] <= reply[c].stamp
        /\ HeldSince(Asked(c), reply[c].body, reply[c].stamp)

Chosen(c) ==
    res[c].general # None =>
        /\ Busy(c)
        /\ \E i \in 1..Len(TypeList(c)) : TypeList(c)[i] = res[c].general.type
        /\ HeldAlike(Slot(c, General, res[c].general.type), res[c].general.count,
                     began[c] - Slack(c))
        /\ ~res[c].cached =>
              HeldSince(Slot(c, General, res[c].general.type), res[c].general.count, began[c])

Swept(c) ==
    Busy(c) =>
        \A i \in 1..Len(TypeList(c)) :
            \/ pos[c].stage = "types" /\ i >= pos[c].n
            \/ res[c].general # None /\ res[c].general.count > 0
            \/ res[c].incomplete
            \/ HeldAlike(Slot(c, General, TypeList(c)[i]), 0, began[c] - Slack(c))

Extras(c) ==
    /\ pos[c].stage = "types" => res[c].sections = {}
    /\ \A x \in res[c].sections :
          /\ Extra(c, x[1])
          /\ HeldAlike(Slot(c, x[1], res[c].general.type), x[2], began[c] - Slack(c))

CallInv(c) == Started(c) /\ Fetched(c) /\ Chosen(c) /\ Swept(c) /\ Extras(c)

CacheInv == CacheIsTrue /\ \A k \in AllKeys : cache[k] # None => cache[k].stamp <= now

IInv == TypeOK /\ CacheInv /\ \A c \in Calls : CallInv(c)

----------------------------------------------------------------------------
\* A key built from something upstream can be asked is a key of the cache.
LEMMA KeyInKeys == \A s \in AllSlots : Key(s) \in AllKeys
  BY FoldAssumption DEF AllSlots, AllKeys, Key

\* Slots of one key are alike.
LEMMA KeysAlike == \A r, s \in AllSlots : Key(r) = Key(s) => Alike(r, s)
  BY DEF Key, Alike

\* What a call asks for while its loop is at something to look up is a slot.
LEMMA AskedInSlots ==
    ASSUME TypeOK, NEW c \in Calls, Busy(c), Started(c), Chosen(c), Wanting(c)
    PROVE  Asked(c) \in AllSlots
<1> USE TypesAssumption, JobsAssumption
<1>1. /\ job[c] \in Jobs /\ job[c].ind \in Targets
      /\ TypeList(c) \in Seq(Types) /\ job[c].sections \in Seq(Sections)
      /\ job[c].account \in Accounts /\ pos[c].n \in Nat \ {0}
      /\ pos[c].stage \in {"types", "sections"}
  BY DEF Started, TypeList, TypeOK
<1>2. CASE pos[c].stage = "types"
  <2>1. pos[c].n \in 1..Len(TypeList(c))
    BY <1>1, <1>2 DEF Wanting, InTypes, InSections
  <2>2. TypeList(c)[pos[c].n] \in Types
    BY <1>1, <2>1
  <2> QED BY <1>1, <1>2, <2>1, <2>2 DEF Asked, Slot, AllSlots, Has, TypeList
<1>3. CASE pos[c].stage = "sections"
  <2>1. /\ pos[c].n \in 1..Len(job[c].sections)
        /\ <<res[c].general.type, job[c].sections[pos[c].n]>> \in HasSection
    BY <1>1, <1>3 DEF Wanting, InTypes, InSections, Extra
  <2>2. \E i \in 1..Len(TypeList(c)) : TypeList(c)[i] = res[c].general.type
    BY <1>3 DEF Started, Chosen
  <2>3. job[c].sections[pos[c].n] \in Sections /\ res[c].general.type \in Types
    BY <1>1, <2>1, <2>2
  <2> QED BY <1>1, <1>3, <2>1, <2>2, <2>3 DEF Asked, Slot, AllSlots, Has, TypeList
<1> QED BY <1>1, <1>2, <1>3

\* The slot of the answer a call has chosen, and of each type of its target.
LEMMA TypeSlots ==
    ASSUME TypeOK, NEW c \in Calls, job[c] \in Jobs,
           NEW i \in 1..Len(TypeList(c))
    PROVE  Slot(c, General, TypeList(c)[i]) \in AllSlots
<1> USE TypesAssumption, JobsAssumption
<1>1. /\ job[c].ind \in Targets /\ TypeList(c) \in Seq(Types) /\ job[c].account \in Accounts
  BY DEF TypeList
<1>2. TypeList(c)[i] \in Types
  BY <1>1
<1> QED BY <1>1, <1>2 DEF Slot, AllSlots, Has, TypeList

\* The slot of a section the chosen type has.
LEMMA ExtraSlots ==
    ASSUME TypeOK, NEW c \in Calls, job[c] \in Jobs, res[c].general # None,
           \E i \in 1..Len(TypeList(c)) : TypeList(c)[i] = res[c].general.type,
           NEW x \in Sections, Extra(c, x)
    PROVE  Slot(c, x, res[c].general.type) \in AllSlots
<1> USE TypesAssumption, JobsAssumption
<1>1. /\ job[c].ind \in Targets /\ TypeList(c) \in Seq(Types) /\ job[c].account \in Accounts
  BY DEF TypeList
<1>2. res[c].general.type \in Types
  BY <1>1
<1> QED BY <1>1, <1>2 DEF Slot, AllSlots, Has, Extra, TypeList

\* What upstream gave for a slot at or after x it still gave at or after x.
LEMMA HeldStays ==
    ASSUME TypeOK, [Next]_vars
    PROVE  \A s \in AllSlots, n \in Answers, x \in Int :
               x <= now /\ HeldSince(s, n, x) => HeldSince(s, n, x)'
<1> SUFFICES ASSUME NEW s \in AllSlots, NEW n \in Answers, NEW x \in Int,
                    x <= now, HeldSince(s, n, x)
             PROVE  held'[s] = n \/ (left'[s][n] # None /\ left'[s][n] >= x)
  BY DEF HeldSince
<1>1. CASE \E t \in AllSlots, m \in Answers : Publish(t, m)
  <2> PICK t \in AllSlots, m \in Answers : Publish(t, m)
    BY <1>1
  <2>1. /\ now \in Nat /\ now # None
        /\ held' = [held EXCEPT ![t] = m]
        /\ left' = [left EXCEPT ![t] = [left[t] EXCEPT ![held[t]] = now]]
        /\ held \in [AllSlots -> Answers]
        /\ left \in [AllSlots -> [Answers -> (0..Horizon) \cup {None}]]
    BY NumbersAssumption, NoneAssumption DEF Publish, TypeOK
  <2>2. CASE s # t
    BY <2>1, <2>2 DEF HeldSince
  <2>3. CASE s = t /\ held[s] = n
    <3>1. left'[s][n] = now
      BY <2>1, <2>3
    <3> QED BY <3>1, <2>1
  <2>4. CASE s = t /\ held[s] # n
    <3>1. left'[s][n] = left[s][n]
      BY <2>1, <2>4
    <3> QED BY <3>1, <2>4 DEF HeldSince
  <2> QED BY <2>2, <2>3, <2>4
<1>2. CASE UNCHANGED <<held, left>>
  BY <1>2 DEF HeldSince
<1>3. UNCHANGED <<held, left>> \/ \E t \in AllSlots, m \in Answers : Publish(t, m)
  BY DEF Next, vars, upstream, Begin, Step, CacheHit, CacheMiss, Serve, FetchFails,
         Store, EndTypes, Skip, EndSections, Drop, Tick
<1> QED BY <1>1, <1>2, <1>3

LEMMA HeldAlikeStays ==
    ASSUME TypeOK, [Next]_vars
    PROVE  \A s \in AllSlots, n \in Answers, x \in Int :
               x <= now /\ HeldAlike(s, n, x) => HeldAlike(s, n, x)'
<1> SUFFICES ASSUME NEW s \in AllSlots, NEW n \in Answers, NEW x \in Int,
                    x <= now, HeldAlike(s, n, x)
             PROVE  \E r \in AllSlots : Alike(r, s) /\ HeldSince(r, n, x)'
  BY DEF HeldAlike
<1> PICK r \in AllSlots : Alike(r, s) /\ HeldSince(r, n, x)
  BY DEF HeldAlike
<1> QED BY HeldStays

\* A step that leaves a call's own state alone leaves what it knows true.
LEMMA Frame ==
    ASSUME TypeOK, [Next]_vars, NEW c \in Calls, CallInv(c),
           job'[c] = job[c], pc'[c] = pc[c], pos'[c] = pos[c],
           began'[c] = began[c], reply'[c] = reply[c], res'[c] = res[c],
           now' \in Nat, now <= now',
           pc[c] = "store" => now' - reply[c].stamp <= Timeout
    PROVE  CallInv(c)'
<1> USE NumbersAssumption
<1>1. /\ now \in Nat /\ began[c] \in Nat
      /\ job[c] \in Jobs => Slack(c) \in Nat
      /\ reply[c].stamp \in Nat /\ reply[c].body \in Answers
  BY JobsAssumption DEF TypeOK, Slack
<1>2. \A s \in AllSlots, n \in Answers, x \in Int :
          /\ x <= now /\ HeldSince(s, n, x) => HeldSince(s, n, x)'
          /\ x <= now /\ HeldAlike(s, n, x) => HeldAlike(s, n, x)'
  BY HeldStays, HeldAlikeStays
<1>3. /\ TypeList(c)' = TypeList(c) /\ Slack(c)' = Slack(c)
      /\ Wanting(c)' = Wanting(c) /\ Asked(c)' = Asked(c) /\ Busy(c)' = Busy(c)
      /\ \A a, b : Slot(c, a, b)' = Slot(c, a, b)
      /\ \A a : Extra(c, a)' = Extra(c, a)
  BY DEF TypeList, Slack, Wanting, InTypes, InSections, Extra, Asked, Slot, Busy
<1>4. Started(c)'
  BY <1>1, <1>3 DEF CallInv, Started, TypeOK
<1>5. Fetched(c)'
  <2> SUFFICES ASSUME pc[c] = "store" PROVE Fetched(c)'
    BY DEF Fetched
  <2>1. Asked(c) \in AllSlots
    BY AskedInSlots DEF CallInv, Started, Busy
  <2>2. /\ reply[c].stamp <= now /\ began[c] <= reply[c].stamp
        /\ HeldSince(Asked(c), reply[c].body, reply[c].stamp)
    BY DEF CallInv, Fetched
  <2>3. HeldSince(Asked(c), reply[c].body, reply[c].stamp)'
    BY <1>1, <1>2, <1>3, <2>1, <2>2 DEF HeldSince
  <2>4. reply'[c].stamp <= now' /\ now' - reply'[c].stamp <= Timeout /\ began'[c] <= reply'[c].stamp
    BY <1>1, <2>2
  <2> QED BY <2>3, <2>4 DEF Fetched
<1>6. Chosen(c)'
  <2> SUFFICES ASSUME res[c].general # None PROVE Chosen(c)'
    BY DEF Chosen
  <2> DEFINE s == Slot(c, General, res[c].general.type)
  <2>1. /\ Busy(c) /\ job[c] \in Jobs /\ Slack(c) \in Nat
        /\ \E i \in 1..Len(TypeList(c)) : TypeList(c)[i] = res[c].general.type
    BY <1>1 DEF CallInv, Started, Chosen
  <2>2. s \in AllSlots
    BY <2>1, TypeSlots
  <2>3. res[c].general.count \in Answers
    BY DEF TypeOK
  <2> HIDE DEF s
  <2>4. /\ began[c] - Slack(c) \in Int /\ began[c] - Slack(c) <= now
        /\ began[c] \in Int /\ began[c] <= now
    BY <1>1, <2>1 DEF CallInv, Started
  <2>5. /\ HeldAlike(s, res[c].general.count, began[c] - Slack(c))
        /\ ~res[c].cached => HeldSince(s, res[c].general.count, began[c])
    BY DEF CallInv, Chosen, s
  <2>6. s' = s
    BY <1>3 DEF s
  <2>7. HeldAlike(s, res[c].general.count, began[c] - Slack(c))'
    BY <1>2, <1>3, <2>2, <2>3, <2>4, <2>5, <2>6 DEF HeldAlike, HeldSince
  <2>8. ~res[c].cached => HeldSince(s, res[c].general.count, began[c])'
    BY <1>2, <1>3, <2>2, <2>3, <2>4, <2>5, <2>6 DEF HeldAlike, HeldSince
  <2> USE DEF s
  <2> QED BY <1>3, <2>1, <2>7, <2>8 DEF Chosen, HeldAlike, HeldSince
<1>7. Swept(c)'
  <2> SUFFICES ASSUME Busy(c), NEW i \in 1..Len(TypeList(c)),
                      HeldAlike(Slot(c, General, TypeList(c)[i]), 0, began[c] - Slack(c))
               PROVE  HeldAlike(Slot(c, General, TypeList(c)[i]), 0, began[c] - Slack(c))'
    BY <1>3 DEF CallInv, Swept, HeldAlike, HeldSince
  <2>1. Slot(c, General, TypeList(c)[i]) \in AllSlots /\ Slack(c) \in Nat
    BY <1>1, TypeSlots DEF CallInv, Started
  <2>2. 0 \in Answers
    BY DEF Answers
  <2>3. /\ began[c] - Slack(c) \in Int /\ began[c] - Slack(c) <= now
        /\ began'[c] - Slack(c)' = began[c] - Slack(c)
    BY <1>1, <1>3, <2>1 DEF CallInv, Started
  <2> PICK r \in AllSlots : r = Slot(c, General, TypeList(c)[i])
    BY <2>1
  <2> PICK x \in Int : x = began[c] - Slack(c)
    BY <2>3
  <2>4. HeldAlike(r, 0, x)'
    BY <1>2, <2>2, <2>3
  <2> QED BY <1>3, <2>3, <2>4 DEF HeldAlike, HeldSince
<1>8. Extras(c)'
  <2>1. pos'[c].stage = "types" => res'[c].sections = {}
    BY DEF CallInv, Extras
  <2>2. ASSUME NEW x \in res[c].sections
        PROVE  HeldAlike(Slot(c, x[1], res[c].general.type), x[2], began[c] - Slack(c))'
    <3>1. x \in Sections \X Answers /\ x[1] \in Sections /\ x[2] \in Answers
      BY DEF TypeOK
    <3>2. /\ Extra(c, x[1]) /\ pos[c].stage = "sections" /\ Busy(c) /\ job[c] \in Jobs
          /\ res[c].general # None
      BY <2>2 DEF CallInv, Extras, Started, TypeOK
    <3>3. Slot(c, x[1], res[c].general.type) \in AllSlots /\ Slack(c) \in Nat
      BY <1>1, <3>1, <3>2, ExtraSlots DEF CallInv, Chosen
    <3>4. HeldAlike(Slot(c, x[1], res[c].general.type), x[2], began[c] - Slack(c))
      BY <2>2 DEF CallInv, Extras
    <3>5. began[c] - Slack(c) \in Int /\ began[c] - Slack(c) <= now
      BY <1>1, <3>3 DEF CallInv, Started
    <3>6. HeldAlike(Slot(c, x[1], res[c].general.type), x[2], began[c] - Slack(c))'
      BY <1>2, <1>3, <3>1, <3>3, <3>4, <3>5 DEF HeldAlike, HeldSince
    <3> QED BY <3>6
  <2> QED BY <1>3, <2>1, <2>2 DEF CallInv, Extras, HeldAlike, HeldSince
<1> QED BY <1>4, <1>5, <1>6, <1>7, <1>8 DEF CallInv

\* The facts about a call that the lemmas on its steps start from.
LEMMA CallFacts ==
    ASSUME TypeOK, NEW c \in Calls, CallInv(c), Busy(c)
    PROVE  /\ job[c] \in Jobs /\ TypeList(c) \in Seq(Types) /\ Len(TypeList(c)) \in Nat \ {0}
           /\ now \in Nat /\ began[c] \in Nat /\ began[c] <= now /\ Slack(c) \in Nat
           /\ pos[c].n \in Nat \ {0} /\ pos[c].stage \in {"types", "sections"}
           /\ pos[c] = [stage |-> pos[c].stage, n |-> pos[c].n]
           /\ job[c].sections \in Seq(Sections)
<1>1. /\ job[c] \in Jobs /\ job[c].ind \in Targets /\ TypesOf[job[c].ind] # <<>>
      /\ TypesOf[job[c].ind] \in Seq(Types) /\ job[c].sections \in Seq(Sections)
  BY JobsAssumption, TypesAssumption DEF CallInv, Started, Accepts
<1>2. Len(TypeList(c)) \in Nat \ {0} /\ TypeList(c) \in Seq(Types)
  BY <1>1 DEF TypeList
<1>3. now \in Nat /\ began[c] \in Nat /\ began[c] <= now /\ Slack(c) \in Nat
  BY NumbersAssumption DEF TypeOK, Slack, CallInv, Started
<1>4. pos[c] \in [stage : {"types", "sections"}, n : Nat \ {0}]
  BY DEF TypeOK
<1> QED BY <1>1, <1>2, <1>3, <1>4

\* An answer taken for a type: what was upstream's recently enough becomes what
\* the call knows.
LEMMA TakeType ==
    ASSUME TypeOK, NEW c \in Calls, CallInv(c), pc[c] \in {"look", "store"},
           Wanting(c), pos[c].stage = "types",
           NEW n \in Answers, NEW b \in BOOLEAN, Take(c, n, b),
           UNCHANGED <<now, held, left, job, began>>,
           HeldAlike(Asked(c), n, began[c] - Slack(c)),
           b = FALSE => HeldSince(Asked(c), n, began[c])
    PROVE  CallInv(c)'
<1> DEFINE L == Len(TypeList(c))
<1> PICK t : t = TypeList(c)[pos[c].n]
  OBVIOUS
<1>1. /\ job[c] \in Jobs /\ TypeList(c) \in Seq(Types) /\ L \in Nat \ {0}
      /\ began[c] <= now
      /\ pos[c].n \in Nat \ {0} /\ pos[c].n \in 1..L
  <2>1. Busy(c)
    BY DEF Busy
  <2>2. /\ job[c] \in Jobs /\ TypeList(c) \in Seq(Types) /\ L \in Nat \ {0}
        /\ began[c] <= now /\ pos[c].n \in Nat \ {0}
    BY <2>1, CallFacts
  <2>3. pos[c].n <= L
    BY DEF Wanting, InTypes, InSections
  <2> QED BY <2>2, <2>3
<1>2. Asked(c) = Slot(c, General, t) /\ Asked(c).type = t
  BY DEF Asked, Slot
<1>3. /\ pc'[c] = "look" /\ pos'[c].stage = "types"
      /\ pos'[c].n = IF n > 0 THEN L + 1 ELSE pos[c].n + 1
  BY DEF Take, Advance, TypeOK
<1>4. /\ res'[c].general = IF res[c].general = None \/ n > res[c].general.count
                           THEN [type |-> t, count |-> n] ELSE res[c].general
      /\ res'[c].cached = (res[c].cached \/ b)
      /\ res'[c].incomplete = res[c].incomplete
      /\ res'[c].sections = res[c].sections
      /\ res'[c].firstErr = res[c].firstErr
  BY <1>2 DEF Take, Answered, TypeOK
<1>5. /\ TypeList(c)' = TypeList(c) /\ Slack(c)' = Slack(c) /\ Busy(c)'
      /\ \A a, d : Slot(c, a, d)' = Slot(c, a, d)
      /\ \A s, m, x : HeldAlike(s, m, x)' <=> HeldAlike(s, m, x)
      /\ \A s, m, x : HeldSince(s, m, x)' <=> HeldSince(s, m, x)
      /\ now' = now /\ began'[c] = began[c] /\ job'[c] = job[c]
  BY <1>3 DEF TypeList, Slack, Busy, Slot, HeldAlike, HeldSince
<1>6. [type |-> t, count |-> n] # None /\ res'[c].general # None
  <2>1. t \in Types
    BY <1>1
  <2> QED BY <2>1, <1>4, NoneAssumption
<1>7. Started(c)'
  <2>1. job[c] \in Jobs /\ Accepts(job[c])
    BY DEF CallInv, Started, Busy
  <2>2. Accepts(job[c])'
    BY <2>1, <1>5 DEF Accepts, Has
  <2> QED BY <1>1, <1>3, <1>5, <1>6, <2>1, <2>2 DEF Started
<1>8. Fetched(c)'
  BY <1>3 DEF Fetched
<1>9. Chosen(c)'
  <2>1. CASE res[c].general = None \/ n > res[c].general.count
    <3>1. res'[c].general.type = t /\ res'[c].general.count = n
      BY <2>1, <1>4
    <3>2. HeldAlike(Slot(c, General, t), n, began[c] - Slack(c))'
      BY <1>2, <1>5 DEF HeldAlike, HeldSince
    <3>3. ~res'[c].cached => HeldSince(Slot(c, General, t), n, began[c])'
      BY <1>2, <1>4, <1>5 DEF HeldAlike, HeldSince
    <3> QED BY <1>1, <1>5, <3>1, <3>2, <3>3 DEF Chosen, HeldAlike, HeldSince
  <2>2. CASE ~(res[c].general = None \/ n > res[c].general.count)
    <3>1. res'[c].general = res[c].general
      BY <2>2, <1>4
    <3>2. ~res'[c].cached => ~res[c].cached
      BY <1>4
    <3> QED BY <1>5, <2>2, <3>1, <3>2 DEF CallInv, Chosen, HeldAlike, HeldSince
  <2> QED BY <2>1, <2>2
<1>10. Swept(c)'
  <2> SUFFICES ASSUME NEW i \in 1..L,
                      i < pos'[c].n, ~(res'[c].general.count > 0), ~res'[c].incomplete
               PROVE  HeldAlike(Slot(c, General, TypeList(c)[i]), 0, began[c] - Slack(c))
    BY <1>3, <1>5, <1>6, <1>1 DEF Swept, HeldAlike, HeldSince
  <2>1. n \in Nat /\ n = 0
    <3>1. n \in Nat /\ (res[c].general # None => res[c].general.count \in Nat)
      BY NumbersAssumption DEF Answers, TypeOK
    <3> QED BY <3>1, <1>4
  <2>2. CASE i = pos[c].n
    BY <2>1, <2>2, <1>2
  <2>3. CASE i # pos[c].n
    <3>1. i < pos[c].n
      BY <2>1, <2>3, <1>1, <1>3
    <3>2. res[c].general # None => ~(res[c].general.count > 0)
      BY <2>1, <1>4, NumbersAssumption DEF Answers, TypeOK
    <3>3. ~res[c].incomplete /\ Busy(c)
      BY <1>4 DEF Busy
    <3> QED BY <1>1, <3>1, <3>2, <3>3 DEF CallInv, Swept
  <2> QED BY <2>2, <2>3
<1>11. Extras(c)'
  BY <1>3, <1>4 DEF CallInv, Extras
<1> QED BY <1>7, <1>8, <1>9, <1>10, <1>11 DEF CallInv

\* An answer taken for an extra section of the chosen type.
LEMMA TakeSection ==
    ASSUME TypeOK, NEW c \in Calls, CallInv(c), pc[c] \in {"look", "store"},
           Wanting(c), pos[c].stage = "sections",
           NEW n \in Answers, NEW b \in BOOLEAN, Take(c, n, b),
           UNCHANGED <<now, held, left, job, began>>,
           HeldAlike(Asked(c), n, began[c] - Slack(c))
    PROVE  CallInv(c)'
<1> PICK x : x = job[c].sections[pos[c].n]
  OBVIOUS
<1>1. /\ Asked(c) = Slot(c, x, res[c].general.type) /\ Asked(c).section = x
      /\ Extra(c, x)
  BY DEF Asked, Slot, Wanting, InTypes
<1>2. /\ pc'[c] = "look" /\ pos'[c].stage = "sections"
  BY DEF Take, Advance, TypeOK
<1>3. /\ res'[c].general = res[c].general
      /\ res'[c].cached = res[c].cached
      /\ res'[c].incomplete = res[c].incomplete
      /\ res'[c].sections = res[c].sections \cup {<<x, n>>}
      /\ res'[c].firstErr = res[c].firstErr
  BY <1>1 DEF Take, Answered, TypeOK
<1>4. /\ TypeList(c)' = TypeList(c) /\ Slack(c)' = Slack(c) /\ Busy(c)' /\ Busy(c)
      /\ \A a, d : Slot(c, a, d)' = Slot(c, a, d)
      /\ \A a : Extra(c, a)' = Extra(c, a)
      /\ now' = now /\ began'[c] = began[c] /\ job'[c] = job[c]
  BY <1>2, <1>3 DEF TypeList, Slack, Busy, Slot, Extra
<1>5. Started(c)'
  <2>1. job[c] \in Jobs /\ Accepts(job[c]) /\ res[c].general # None /\ began[c] <= now
    BY <1>4 DEF CallInv, Started
  <2>2. Accepts(job[c])'
    BY <2>1, <1>4 DEF Accepts, Has
  <2> QED BY <1>2, <1>3, <1>4, <2>1, <2>2 DEF Started
<1>6. Fetched(c)'
  BY <1>2 DEF Fetched
<1>7. Chosen(c)'
  BY <1>3, <1>4 DEF CallInv, Chosen, HeldAlike, HeldSince
<1>8. Swept(c)'
  BY <1>2, <1>3, <1>4 DEF CallInv, Swept, HeldAlike, HeldSince
<1>9. Extras(c)'
  <2> SUFFICES ASSUME NEW y \in res'[c].sections
               PROVE  /\ Extra(c, y[1])
                      /\ HeldAlike(Slot(c, y[1], res[c].general.type), y[2], began[c] - Slack(c))
    BY <1>2, <1>3, <1>4 DEF Extras, HeldAlike, HeldSince
  <2>1. CASE y \in res[c].sections
    BY <2>1 DEF CallInv, Extras
  <2>2. CASE y = <<x, n>>
    BY <2>2, <1>1
  <2> QED BY <2>1, <2>2, <1>3
<1> QED BY <1>5, <1>6, <1>7, <1>8, <1>9 DEF CallInv

\* A failed fetch is remembered: the type counts as failed, the section as missing.
LEMMA FailKeeps ==
    ASSUME TypeOK, NEW c \in Calls, CallInv(c), FetchFails(c)
    PROVE  CallInv(c)'
<1>1. PICK code \in Codes : res' = [res EXCEPT ![c] = Failed(c, code)]
  BY DEF FetchFails
<1>2. /\ Busy(c) /\ pc[c] \in {"fetch", "store"}
      /\ UNCHANGED <<now, held, left, cache, job, began>>
  BY DEF FetchFails, Busy, upstream
<1>3. /\ pc'[c] = "look" /\ pos'[c].stage = pos[c].stage
      /\ pos'[c].n = pos[c].n + 1
  BY DEF FetchFails, Advance, TypeOK
<1>4. /\ res'[c].general = res[c].general
      /\ res'[c].cached = res[c].cached
      /\ res'[c].sections = res[c].sections
      /\ pos[c].stage = "types" => res'[c].incomplete = TRUE /\ res'[c].firstErr # NoError
      /\ pos[c].stage # "types" => res'[c].incomplete = res[c].incomplete
  <2>1. code # NoError
    BY NoneAssumption
  <2>2. res'[c] = Failed(c, code)
    BY <1>1 DEF TypeOK
  <2>3. CASE pos[c].stage = "types"
    BY <2>1, <2>2, <2>3 DEF Failed, TypeOK
  <2>4. CASE pos[c].stage # "types"
    BY <2>2, <2>4 DEF Failed, TypeOK
  <2> QED BY <2>3, <2>4
<1>5. /\ TypeList(c)' = TypeList(c) /\ Slack(c)' = Slack(c) /\ Busy(c)'
      /\ \A a, d : Slot(c, a, d)' = Slot(c, a, d)
      /\ \A a : Extra(c, a)' = Extra(c, a)
      /\ now' = now /\ began'[c] = began[c] /\ job'[c] = job[c]
  BY <1>2, <1>3, <1>4 DEF TypeList, Slack, Busy, Slot, Extra
<1>6. Started(c)'
  <2>1. /\ job[c] \in Jobs /\ Accepts(job[c]) /\ began[c] <= now
        /\ pos[c].stage = "sections" => res[c].general # None
    BY <1>2 DEF CallInv, Started
  <2>2. Accepts(job[c])'
    BY <2>1, <1>5 DEF Accepts, Has
  <2> QED BY <1>3, <1>4, <1>5, <2>1, <2>2 DEF Started
<1>7. Fetched(c)'
  BY <1>3 DEF Fetched
<1>8. Chosen(c)'
  BY <1>2, <1>4, <1>5 DEF CallInv, Chosen, HeldAlike, HeldSince
<1>9. Swept(c)'
  <2>1. CASE pos[c].stage = "types"
    BY <2>1, <1>4 DEF Swept
  <2>2. CASE pos[c].stage # "types"
    BY <2>2, <1>2, <1>3, <1>4, <1>5 DEF CallInv, Swept, HeldAlike, HeldSince
  <2> QED BY <2>1, <2>2
<1>10. Extras(c)'
  BY <1>2, <1>3, <1>4, <1>5 DEF CallInv, Extras, HeldAlike, HeldSince
<1> QED BY <1>6, <1>7, <1>8, <1>9, <1>10 DEF CallInv

\* Serving puts upstream's answer of this instant in the call's hands.
LEMMA ServeKeeps ==
    ASSUME TypeOK, NEW c \in Calls, CallInv(c), Serve(c)
    PROVE  CallInv(c)'
<1>1. /\ Busy(c) /\ pc[c] = "fetch" /\ Wanting(c)
      /\ UNCHANGED <<now, held, left, cache, job, began, pos, res>>
  BY DEF Serve, Busy, upstream, CallInv, Started
<1>2. /\ pc'[c] = "store"
      /\ reply'[c].body = held[Asked(c)] /\ reply'[c].stamp = now
  BY DEF Serve, TypeOK
<1>3. /\ TypeList(c)' = TypeList(c) /\ Slack(c)' = Slack(c) /\ Busy(c)'
      /\ Wanting(c)' = Wanting(c) /\ Asked(c)' = Asked(c)
      /\ \A a, d : Slot(c, a, d)' = Slot(c, a, d)
      /\ \A a : Extra(c, a)' = Extra(c, a)
  BY <1>1, <1>2 DEF TypeList, Slack, Busy, Slot, Extra, Wanting, InTypes, InSections, Asked
<1>4. Started(c)'
  BY <1>1, <1>2, <1>3 DEF CallInv, Started, Accepts, Has
<1>5. Fetched(c)'
  <2>1. began[c] <= now /\ now \in Nat
    BY DEF CallInv, Started, TypeOK
  <2>2. HeldSince(Asked(c), reply[c].body, reply[c].stamp)'
    BY <1>1, <1>2, <1>3 DEF HeldSince
  <2>3. /\ reply'[c].stamp <= now' /\ now' - reply'[c].stamp <= Timeout
        /\ began'[c] <= reply'[c].stamp
    BY <1>1, <1>2, <2>1, NumbersAssumption
  <2> QED BY <1>1, <1>2, <2>1, <2>2, <2>3 DEF Fetched
<1>6. Chosen(c)'
  BY <1>1, <1>2, <1>3 DEF CallInv, Chosen, HeldAlike, HeldSince
<1>7. Swept(c)'
  BY <1>1, <1>2, <1>3 DEF CallInv, Swept, HeldAlike, HeldSince
<1>8. Extras(c)'
  BY <1>1, <1>2, <1>3 DEF CallInv, Extras, HeldAlike, HeldSince
<1> QED BY <1>4, <1>5, <1>6, <1>7, <1>8 DEF CallInv

\* The steps that only move the call along.
LEMMA MoveKeeps ==
    ASSUME TypeOK, NEW c \in Calls, CallInv(c),
           CacheMiss(c) \/ EndTypes(c) \/ Skip(c) \/ EndSections(c)
    PROVE  CallInv(c)'
<1>1. /\ Busy(c) /\ pc[c] = "look"
      /\ UNCHANGED <<now, held, left, cache, job, began, reply, res>>
  BY DEF CacheMiss, EndTypes, Skip, EndSections, Busy, upstream
<1>2. /\ pc'[c] \in {"look", "fetch", "done", "failed"}
      /\ pc'[c] = "fetch" => Wanting(c) /\ pos' = pos
      /\ pc'[c] = "done" => pos'[c].stage = "sections"
      /\ pc'[c] = "failed" => /\ pos' = pos /\ pos[c].stage = "types"
                              /\ pos[c].n > Len(TypeList(c)) /\ res[c].general = None
      /\ pos'[c].stage = "types" => pos'[c] = pos[c] /\ pos[c].stage = "types"
      /\ pos'[c].stage = "sections" => \/ pos[c].stage = "sections"
                                       \/ /\ pos[c].n > Len(TypeList(c))
                                          /\ res[c].general # None
      /\ pos'[c].stage \in {"types", "sections"}
  BY DEF CacheMiss, EndTypes, Skip, EndSections, Advance, TypeOK, InSections
<1>3. /\ TypeList(c)' = TypeList(c) /\ Slack(c)' = Slack(c) /\ Busy(c)'
      /\ pos' = pos => Wanting(c)' = Wanting(c)
      /\ \A a, d : Slot(c, a, d)' = Slot(c, a, d)
      /\ \A a : Extra(c, a)' = Extra(c, a)
  BY <1>1, <1>2 DEF TypeList, Slack, Busy, Slot, Extra, Wanting, InTypes, InSections
<1>4. Started(c)'
  <2>1. /\ job[c] \in Jobs /\ Accepts(job[c]) /\ began[c] <= now
        /\ pos[c].stage = "sections" => res[c].general # None
        /\ (pos[c].stage = "types" /\ pos[c].n > 1 /\ res[c].general = None)
              => res[c].firstErr # NoError
    BY <1>1 DEF CallInv, Started
  <2>2. Accepts(job[c])'
    BY <2>1, <1>1 DEF Accepts, Has
  <2> QED BY <1>1, <1>2, <1>3, <2>1, <2>2 DEF Started
<1>5. Fetched(c)'
  BY <1>2 DEF Fetched
<1>6. Chosen(c)' /\ Extras(c)'
  BY <1>1, <1>2, <1>3 DEF CallInv, Chosen, Extras, HeldAlike, HeldSince
<1>7. Swept(c)'
  <2> SUFFICES ASSUME NEW i \in 1..Len(TypeList(c)), ~(pos'[c].stage = "types" /\ i >= pos'[c].n),
                      ~(res[c].general # None /\ res[c].general.count > 0), ~res[c].incomplete
               PROVE  HeldAlike(Slot(c, General, TypeList(c)[i]), 0, began[c] - Slack(c))
    BY <1>1, <1>3 DEF Swept, HeldAlike, HeldSince
  <2>1. ~(pos[c].stage = "types" /\ i >= pos[c].n)
    <3>1. Len(TypeList(c)) \in Nat /\ pos[c].n \in Nat
      BY <1>1, CallFacts
    <3> QED BY <3>1, <1>2
  <2> QED BY <1>1, <2>1 DEF CallInv, Swept
<1> QED BY <1>4, <1>5, <1>6, <1>7 DEF CallInv

\* The arguments of a new call, before it has asked anything.
LEMMA BeginKeeps ==
    ASSUME TypeOK, NEW c \in Calls, CallInv(c), Begin(c)
    PROVE  CallInv(c)'
<1>1. PICK j \in Jobs : /\ job' = [job EXCEPT ![c] = j]
                        /\ pc' = [pc EXCEPT ![c] = IF Accepts(j) THEN "look" ELSE "rejected"]
  BY DEF Begin
<1>2. /\ job'[c] = j /\ pc'[c] \in {"look", "rejected"}
      /\ pc'[c] = "look" => Accepts(j)
      /\ began'[c] = now /\ now' = now /\ now \in Nat
      /\ res'[c] = NoResult /\ pos'[c] = [stage |-> "types", n |-> 1]
  BY <1>1 DEF Begin, CallInv, Started, TypeOK
<1>3. Started(c)'
  BY <1>2 DEF Started, Busy, NoResult, Accepts, Has
<1>4. Fetched(c)' /\ Chosen(c)' /\ Swept(c)' /\ Extras(c)'
  BY <1>2 DEF Fetched, Chosen, Swept, Extras, NoResult
<1> QED BY <1>3, <1>4 DEF CallInv

\* Evidence from x on is evidence from any earlier instant on.
LEMMA HeldEarlier ==
    ASSUME TypeOK, NEW s \in AllSlots, NEW n \in Answers, NEW x \in Int, NEW y \in Int,
           y <= x, HeldSince(s, n, x)
    PROVE  HeldSince(s, n, y)
<1>1. left[s][n] # None => left[s][n] \in Nat
  BY DEF TypeOK
<1> QED BY <1>1 DEF HeldSince

LEMMA HeldAlikeEarlier ==
    ASSUME TypeOK, NEW s \in AllSlots, NEW n \in Answers, NEW x \in Int, NEW y \in Int,
           y <= x, HeldAlike(s, n, x)
    PROVE  HeldAlike(s, n, y)
<1> PICK r \in AllSlots : Alike(r, s) /\ HeldSince(r, n, x)
  BY DEF HeldAlike
<1>1. HeldSince(r, n, y)
  BY HeldEarlier
<1> QED BY <1>1 DEF HeldAlike

\* A hit answers with what upstream said at most TTL and one exchange ago.
LEMMA HitKeeps ==
    ASSUME TypeOK, CacheInv, NEW c \in Calls, CallInv(c), CacheHit(c)
    PROVE  CallInv(c)'
<1> DEFINE k == Key(Asked(c))
<1>1. /\ Busy(c) /\ pc[c] = "look" /\ Wanting(c) /\ ~job[c].refresh
      /\ cache[k] # None /\ now - cache[k].stamp <= TTL
      /\ Take(c, cache[k].body, TRUE)
      /\ UNCHANGED <<now, held, left, job, began, reply>>
  BY DEF CacheHit, Busy, Fresh, upstream
<1>2. Asked(c) \in AllSlots /\ k \in AllKeys
  BY <1>1, AskedInSlots, KeyInKeys DEF CallInv
<1>3. cache[k].body \in Answers /\ cache[k].stamp \in Nat
  BY <1>1, <1>2 DEF TypeOK, Entries
<1>4. HeldAlike(Asked(c), cache[k].body, cache[k].stamp - Timeout)
  BY <1>1, <1>2, KeysAlike DEF CacheInv, CacheIsTrue, HeldAlike
<1>5. /\ began[c] \in Nat /\ began[c] <= now /\ now \in Nat /\ Slack(c) = TTL + Timeout
      /\ pos[c].stage \in {"types", "sections"}
  BY <1>1, CallFacts DEF Slack
<1>6. HeldAlike(Asked(c), cache[k].body, began[c] - Slack(c))
  BY <1>1, <1>2, <1>3, <1>4, <1>5, HeldAlikeEarlier, NumbersAssumption
<1>7. CASE pos[c].stage = "types"
  BY <1>1, <1>3, <1>6, <1>7, TakeType
<1>8. CASE pos[c].stage = "sections"
  BY <1>1, <1>3, <1>6, <1>8, TakeSection
<1> QED BY <1>5, <1>7, <1>8

\* A stored reply is taken as upstream's answer since the call began.
LEMMA StoreKeeps ==
    ASSUME TypeOK, NEW c \in Calls, CallInv(c), Store(c)
    PROVE  CallInv(c)'
<1>1. /\ Busy(c) /\ pc[c] = "store" /\ Wanting(c)
      /\ Take(c, reply[c].body, FALSE)
      /\ UNCHANGED <<now, held, left, job, began>>
  BY DEF Store, Busy, upstream, CallInv, Started
<1>2. /\ Asked(c) \in AllSlots
      /\ reply[c].body \in Answers /\ reply[c].stamp \in Nat
      /\ began[c] <= reply[c].stamp
      /\ HeldSince(Asked(c), reply[c].body, reply[c].stamp)
  BY <1>1, AskedInSlots DEF CallInv, Fetched, TypeOK
<1>3. /\ began[c] \in Nat /\ Slack(c) \in Nat /\ pos[c].stage \in {"types", "sections"}
  BY <1>1, CallFacts
<1>4. /\ HeldSince(Asked(c), reply[c].body, began[c])
      /\ HeldAlike(Asked(c), reply[c].body, began[c] - Slack(c))
  <2>1. /\ HeldSince(Asked(c), reply[c].body, began[c])
        /\ HeldSince(Asked(c), reply[c].body, began[c] - Slack(c))
    BY <1>2, <1>3, HeldEarlier
  <2> QED BY <1>2, <2>1 DEF HeldAlike, Alike
<1>5. CASE pos[c].stage = "types"
  BY <1>1, <1>2, <1>4, <1>5, TakeType
<1>6. CASE pos[c].stage = "sections"
  BY <1>1, <1>2, <1>4, <1>6, TakeSection
<1> QED BY <1>3, <1>5, <1>6

\* Nothing is stored but a reply in hand, stamped within the timeout.
LEMMA CacheKeeps ==
    ASSUME TypeOK, CacheInv, \A c \in Calls : CallInv(c), [Next]_vars, now' \in Nat, now <= now'
    PROVE  CacheInv'
<1> SUFFICES ASSUME NEW k \in AllKeys, cache'[k] # None
             PROVE  /\ cache'[k].stamp <= now'
                    /\ \E s \in AllSlots : /\ Key(s) = k
                                          /\ HeldSince(s, cache[k].body, cache[k].stamp - Timeout)'
  BY DEF CacheInv, CacheIsTrue, HeldSince
<1> USE NumbersAssumption
<1>1. now \in Nat
  BY DEF TypeOK
<1>2. CASE cache'[k] = cache[k]
  <2> PICK s \in AllSlots : /\ Key(s) = k
                            /\ HeldSince(s, cache[k].body, cache[k].stamp - Timeout)
    BY <1>2 DEF CacheInv, CacheIsTrue
  <2>1. /\ cache[k].body \in Answers /\ cache[k].stamp \in Nat /\ cache[k].stamp <= now
    BY <1>2 DEF CacheInv, TypeOK, Entries
  <2> PICK x \in Int : x = cache[k].stamp - Timeout
    BY <2>1
  <2> PICK n \in Answers : n = cache[k].body
    BY <2>1
  <2>2. HeldSince(s, n, x)'
    BY <2>1, <1>1, HeldStays
  <2> QED BY <1>1, <1>2, <2>1, <2>2 DEF HeldSince
<1>3. CASE cache'[k] # cache[k]
  <2>1. PICK c \in Calls : Store(c) /\ cache' = [cache EXCEPT ![Key(Asked(c))] =
                                                 [body |-> reply[c].body, stamp |-> now]]
    BY <1>3 DEF Next, vars, upstream, Begin, Step, CacheHit, CacheMiss, Serve, FetchFails,
                Store, EndTypes, Skip, EndSections, Drop, Publish, Tick, TypeOK
  <2>2. /\ k = Key(Asked(c)) /\ cache'[k] = [body |-> reply[c].body, stamp |-> now]
    BY <1>3, <2>1 DEF TypeOK
  <2>3. Asked(c) \in AllSlots
    BY <2>1, AskedInSlots DEF CallInv, Started, Store, Busy
  <2>4. /\ reply[c].body \in Answers /\ reply[c].stamp \in Nat
        /\ now - Timeout <= reply[c].stamp
        /\ HeldSince(Asked(c), reply[c].body, reply[c].stamp)
    BY <1>1, <2>1 DEF CallInv, Fetched, Store, TypeOK
  <2>5. HeldSince(Asked(c), reply[c].body, now - Timeout)
    BY <1>1, <2>3, <2>4, HeldEarlier
  <2>6. UNCHANGED <<now, held, left>>
    BY <2>1 DEF Store, upstream
  <2> PICK s \in AllSlots : s = Asked(c)
    BY <2>3
  <2> QED BY <1>1, <2>2, <2>5, <2>6 DEF HeldSince
<1> QED BY <1>2, <1>3

ResultType ==
    [general : [type : Types, count : Answers] \cup {None}, incomplete : BOOLEAN,
     degraded : SUBSET (Types \cup Sections), cached : BOOLEAN,
     sections : SUBSET (Sections \X Answers), firstErr : Codes \cup {NoError}]

\* What an answer or a failure for a slot makes of a result is a result.
LEMMA ResultTyped ==
    ASSUME TypeOK, NEW c \in Calls, Asked(c) \in AllSlots
    PROVE  /\ \A n \in Answers : Answered(c, n, TRUE) \in ResultType
           /\ \A n \in Answers : Answered(c, n, FALSE) \in ResultType
           /\ \A code \in Codes : Failed(c, code) \in ResultType
<1>1. /\ res[c] \in ResultType /\ Asked(c).type \in Types /\ Asked(c).section \in Sections
  BY DEF TypeOK, ResultType, AllSlots
<1>2. ASSUME NEW n \in Answers, NEW b \in BOOLEAN PROVE Answered(c, n, b) \in ResultType
  <2>1. CASE pos[c].stage = "types"
    BY <1>1, <2>1 DEF Answered, ResultType
  <2>2. CASE pos[c].stage # "types"
    BY <1>1, <2>2 DEF Answered, ResultType
  <2> QED BY <2>1, <2>2
<1>3. ASSUME NEW code \in Codes PROVE Failed(c, code) \in ResultType
  <2>1. CASE pos[c].stage = "types"
    BY <1>1, <2>1 DEF Failed, ResultType
  <2>2. CASE pos[c].stage # "types"
    BY <1>1, <2>2 DEF Failed, ResultType
  <2> QED BY <2>1, <2>2
<1> QED BY <1>2, <1>3

LEMMA NoReplyTyped == NoReply \in [body : Answers, stamp : 0..Horizon]
  BY NumbersAssumption DEF NoReply, Answers

LEMMA TypeKeeps ==
    ASSUME IInv, [Next]_vars
    PROVE  TypeOK' /\ now' \in Nat /\ now <= now'
<1> USE NumbersAssumption
<1>1. TypeOK /\ now \in Nat
  BY DEF IInv, TypeOK
<1>2. ASSUME NEW c \in Calls, Step(c) PROVE TypeOK' /\ now' = now
  <2>1. CallInv(c) /\ now \in 0..Horizon
    BY <1>1 DEF IInv, TypeOK
  <2>2. ASSUME Wanting(c), Busy(c) PROVE Asked(c) \in AllSlots /\ Key(Asked(c)) \in AllKeys
    BY <1>1, <2>1, <2>2, AskedInSlots, KeyInKeys DEF CallInv
  <2>3. ASSUME NEW b \in BOOLEAN, Advance(c, b), Busy(c)
        PROVE  /\ pos' \in [Calls -> [stage : {"types", "sections"}, n : Nat \ {0}]]
               /\ pc' \in [Calls -> {"idle", "look", "fetch", "store", "done", "failed", "rejected"}]
    <3>1. pos[c].n + 1 \in Nat \ {0} /\ Len(TypeList(c)) + 1 \in Nat \ {0}
      <4>1. pos[c].n \in Nat \ {0} /\ Len(TypeList(c)) \in Nat \ {0}
        BY <1>1, <2>1, <2>3, CallFacts
      <4> QED BY <4>1
    <3>2. pos \in [Calls -> [stage : {"types", "sections"}, n : Nat \ {0}]]
      BY <1>1 DEF TypeOK
    <3>3. \E k \in Nat \ {0} : pos' = [pos EXCEPT ![c] = [pos[c] EXCEPT !.n = k]]
      BY <2>3, <3>1, <3>2 DEF Advance
    <3>4. pos' \in [Calls -> [stage : {"types", "sections"}, n : Nat \ {0}]]
      BY <3>2, <3>3
    <3>5. pc' \in [Calls -> {"idle", "look", "fetch", "store", "done", "failed", "rejected"}]
      BY <1>1, <2>3 DEF Advance, TypeOK
    <3> QED BY <3>4, <3>5
  <2>4. ASSUME NEW n \in Answers, NEW b \in BOOLEAN, Take(c, n, b), Asked(c) \in AllSlots, Busy(c)
        PROVE  /\ pos' \in [Calls -> [stage : {"types", "sections"}, n : Nat \ {0}]]
               /\ pc' \in [Calls -> {"idle", "look", "fetch", "store", "done", "failed", "rejected"}]
               /\ res' \in [Calls -> ResultType]
    <3>1. Advance(c, pos[c].stage = "types" /\ n > 0)
          /\ res' = [res EXCEPT ![c] = Answered(c, n, b)]
      BY <2>4 DEF Take
    <3>4. (pos[c].stage = "types" /\ n > 0) \in BOOLEAN
      OBVIOUS
    <3>2. Answered(c, n, b) \in ResultType
      BY <1>1, <2>4, ResultTyped
    <3>3. res' \in [Calls -> ResultType]
      BY <1>1, <3>1, <3>2 DEF TypeOK, ResultType
    <3> QED BY <2>3, <2>4, <3>1, <3>3, <3>4
  <2>5. CASE CacheHit(c)
    <3>1. /\ Busy(c) /\ Asked(c) \in AllSlots /\ cache[Key(Asked(c))].body \in Answers
      BY <1>1, <2>2, <2>5 DEF CacheHit, Busy, Fresh, TypeOK, Entries
    <3> QED BY <1>1, <2>4, <2>5, <3>1 DEF CacheHit, upstream, TypeOK, ResultType
  <2>6. CASE CacheMiss(c)
    BY <1>1, <2>6 DEF CacheMiss, upstream, TypeOK
  <2>7. CASE Serve(c)
    <3>1. Asked(c) \in AllSlots
      BY <2>1, <2>2, <2>7 DEF Serve, CallInv, Started, Busy
    <3>2. held[Asked(c)] \in Answers
      BY <1>1, <3>1 DEF TypeOK
    <3> QED BY <1>1, <2>7, <3>2 DEF Serve, upstream, TypeOK
  <2>8. CASE FetchFails(c)
    <3>1. Busy(c) /\ Asked(c) \in AllSlots
      BY <2>1, <2>2, <2>8 DEF FetchFails, CallInv, Started, Busy
    <3>2. res' \in [Calls -> ResultType]
      <4>1. PICK code \in Codes : res' = [res EXCEPT ![c] = Failed(c, code)]
        BY <2>8 DEF FetchFails
      <4>2. Failed(c, code) \in ResultType
        BY <1>1, <3>1, ResultTyped
      <4> QED BY <1>1, <4>1, <4>2 DEF TypeOK, ResultType
    <3>3. Advance(c, FALSE)
      BY <2>8 DEF FetchFails
    <3>4. reply' \in [Calls -> [body : Answers, stamp : 0..Horizon]]
      BY <1>1, <2>8, NoReplyTyped DEF FetchFails, TypeOK
    <3>5. UNCHANGED <<now, held, left, changes, cache, job, began>>
      BY <2>8 DEF FetchFails, upstream
    <3> QED BY <1>1, <2>3, <3>1, <3>2, <3>3, <3>4, <3>5 DEF TypeOK, ResultType
  <2>9. CASE Store(c)
    <3>1. Busy(c) /\ Asked(c) \in AllSlots /\ Key(Asked(c)) \in AllKeys
      BY <2>1, <2>2, <2>9 DEF Store, CallInv, Started, Busy
    <3>2. reply[c].body \in Answers /\ now \in 0..Horizon
      BY <1>1, <2>1 DEF TypeOK
    <3>3. cache' \in [AllKeys -> Entries \cup {None}]
      <4>1. [body |-> reply[c].body, stamp |-> now] \in Entries
        BY <3>2 DEF Entries
      <4> QED BY <1>1, <2>9, <3>1, <4>1 DEF Store, TypeOK
    <3>4. Take(c, reply[c].body, FALSE)
      BY <2>9 DEF Store
    <3>5. reply' \in [Calls -> [body : Answers, stamp : 0..Horizon]]
      BY <1>1, <2>9, NoReplyTyped DEF Store, TypeOK
    <3>6. UNCHANGED <<now, held, left, changes, job, began>>
      BY <2>9 DEF Store, upstream
    <3> QED BY <1>1, <2>4, <3>1, <3>2, <3>3, <3>4, <3>5, <3>6 DEF TypeOK, ResultType
  <2>10. CASE EndTypes(c)
    <3>1. /\ pc' \in [Calls -> {"idle", "look", "fetch", "store", "done", "failed", "rejected"}]
          /\ pos' \in [Calls -> [stage : {"types", "sections"}, n : Nat \ {0}]]
      <4>1. CASE res[c].general = None
        BY <1>1, <2>10, <4>1 DEF EndTypes, TypeOK
      <4>2. CASE res[c].general # None
        <5>1. /\ pos' = [pos EXCEPT ![c] = [stage |-> "sections", n |-> 1]] /\ pc' = pc
          BY <2>10, <4>2 DEF EndTypes
        <5>2. [stage |-> "sections", n |-> 1] \in [stage : {"types", "sections"}, n : Nat \ {0}]
          OBVIOUS
        <5> QED BY <1>1, <5>1, <5>2 DEF TypeOK
      <4> QED BY <4>1, <4>2
    <3> QED BY <1>1, <2>10, <3>1 DEF EndTypes, upstream, TypeOK
  <2>11. CASE Skip(c)
    <3>1. Busy(c) /\ Advance(c, FALSE)
      BY <2>11 DEF Skip, Busy
    <3> QED BY <1>1, <2>3, <2>11, <3>1 DEF Skip, upstream, TypeOK
  <2>12. CASE EndSections(c)
    BY <1>1, <2>12 DEF EndSections, upstream, TypeOK
  <2> QED BY <1>2, <2>5, <2>6, <2>7, <2>8, <2>9, <2>10, <2>11, <2>12 DEF Step
<1>3. ASSUME NEW c \in Calls, Begin(c) PROVE TypeOK' /\ now' = now
  BY <1>1, <1>3 DEF Begin, upstream, TypeOK
<1>4. ASSUME NEW k \in AllKeys, Drop(k) PROVE TypeOK' /\ now' = now
  BY <1>1, <1>4 DEF Drop, upstream, TypeOK
<1>5. ASSUME NEW s \in AllSlots, NEW n \in Answers, Publish(s, n) PROVE TypeOK' /\ now' = now
  BY <1>1, <1>5 DEF Publish, TypeOK
<1>6. CASE Tick
  BY <1>1, <1>6 DEF Tick, upstream, TypeOK
<1>7. CASE UNCHANGED vars
  BY <1>1, <1>7 DEF vars, TypeOK
<1> QED BY <1>1, <1>2, <1>3, <1>4, <1>5, <1>6, <1>7 DEF Next, Tick

----------------------------------------------------------------------------
LEMMA InitIInv == Init => IInv
<1> SUFFICES ASSUME Init PROVE IInv
  OBVIOUS
<1>1. TypeOK
  BY NumbersAssumption, HeldAssumption DEF Init, TypeOK, NoResult, NoReply, Answers
<1>2. CacheInv
  BY DEF Init, CacheInv, CacheIsTrue
<1>3. ASSUME NEW c \in Calls PROVE CallInv(c)
  <2>1. /\ pc[c] = "idle" /\ pos[c] = [stage |-> "types", n |-> 1] /\ res[c] = NoResult
        /\ began[c] = 0 /\ now = 0
    BY DEF Init
  <2> QED BY <2>1 DEF CallInv, Started, Fetched, Chosen, Swept, Extras, Busy, NoResult
<1> QED BY <1>1, <1>2, <1>3 DEF IInv

LEMMA NextIInv ==
    ASSUME IInv, [Next]_vars
    PROVE  IInv'
<1>1. TypeOK' /\ now' \in Nat /\ now <= now'
  BY TypeKeeps
<1>2. TypeOK /\ CacheInv /\ \A c \in Calls : CallInv(c)
  BY DEF IInv
<1>3. CacheInv'
  BY <1>1, <1>2, CacheKeeps
<1>4. ASSUME NEW c \in Calls PROVE CallInv(c)'
  <2>1. CASE Begin(c)
    BY <1>2, <2>1, BeginKeeps
  <2>2. CASE Step(c)
    BY <1>2, <2>2, HitKeeps, ServeKeeps, FailKeeps, StoreKeeps, MoveKeeps DEF Step
  <2>3. CASE ~Begin(c) /\ ~Step(c)
    <3>1. /\ job'[c] = job[c] /\ pc'[c] = pc[c] /\ pos'[c] = pos[c]
          /\ began'[c] = began[c] /\ reply'[c] = reply[c] /\ res'[c] = res[c]
      <4>1. ASSUME NEW d \in Calls, d # c, Begin(d) \/ Step(d)
            PROVE  /\ job'[c] = job[c] /\ pc'[c] = pc[c] /\ pos'[c] = pos[c]
                   /\ began'[c] = began[c] /\ reply'[c] = reply[c] /\ res'[c] = res[c]
        BY <1>2, <4>1 DEF Begin, Step, CacheHit, CacheMiss, Serve, FetchFails, Store, EndTypes,
                          Skip, EndSections, Take, Advance, TypeOK
      <4> QED BY <2>3, <4>1 DEF Next, vars, Drop, Publish, Tick
    <3>2. pc[c] = "store" => now' - reply[c].stamp <= Timeout
      <4>1. CASE Tick
        <5>1. now \in Nat /\ reply[c].stamp \in Nat
          BY <1>2 DEF TypeOK
        <5> QED BY <4>1, <5>1, NumbersAssumption DEF Tick
      <4>2. CASE now' = now
        BY <1>2, <4>2 DEF CallInv, Fetched
      <4>3. Tick \/ now' = now
        BY DEF Next, vars, Begin, Step, CacheHit, CacheMiss, Serve, FetchFails, Store, EndTypes,
               Skip, EndSections, Drop, Publish
      <4> QED BY <4>1, <4>2, <4>3
    <3> QED BY <1>1, <1>2, <3>1, <3>2, Frame
  <2> QED BY <2>1, <2>2, <2>3
<1> QED BY <1>1, <1>3, <1>4 DEF IInv

\* What each call knows stays true, whatever spellings the cache folds together.
THEOREM SpecIInv == Spec => []IInv
<1>1. IInv /\ [Next]_vars => IInv'
  BY NextIInv
<1> QED BY InitIInv, <1>1, PTL DEF Spec

----------------------------------------------------------------------------
\* Type correctness of the calls and of the cache they share (engine.go, Lookup).
THEOREM TypeCorrect == Spec => []TypeOK
<1>1. IInv => TypeOK
  BY DEF IInv
<1> QED BY <1>1, SpecIInv, PTL

\* Only real answers are ever cached, and their stamps are at most one exchange
\* late (engine.go, general).
THEOREM CacheHolds == Spec => []CacheIsTrue
<1>1. IInv => CacheIsTrue
  BY DEF IInv, CacheInv
<1> QED BY <1>1, SpecIInv, PTL

\* What is not said to be cached was true since the call began (engine.go, Lookup).
THEOREM UncachedHolds == Spec => []UncachedIsCurrent
<1>1. IInv => UncachedIsCurrent
  BY DEF IInv, CallInv, Started, Chosen, UncachedIsCurrent, Busy
<1> QED BY <1>1, SpecIInv, PTL

\* What a lookup reports was true, recently enough, of the target or of one the
\* cache cannot tell from it, whatever other processes did to the cache meanwhile
\* (engine.go, Lookup).
THEOREM AnswerHolds == Spec => []AnswerIsTrue
<1>1. IInv => AnswerIsTrue
  BY DEF IInv, CallInv, Started, Chosen, AnswerIsTrue, Busy
<1> QED BY <1>1, SpecIInv, PTL

\* A complete "no pulses" is never a false negative, up to the same likeness
\* (engine.go, Lookup).
THEOREM CleanHolds == Spec => []CleanIsTrue
<1>1. IInv => CleanIsTrue
  <2> SUFFICES ASSUME IInv, NEW c \in Calls, pc[c] = "done", res[c].general.count = 0,
                      ~res[c].incomplete, NEW i \in 1..Len(TypeList(c))
               PROVE  HeldAlike(Slot(c, General, TypeList(c)[i]), 0, began[c] - Slack(c))
    BY DEF CleanIsTrue
  <2>1. CallInv(c) /\ Busy(c) /\ pos[c].stage = "sections"
    BY DEF IInv, CallInv, Started, Busy
  <2> QED BY <2>1 DEF CallInv, Swept
<1> QED BY <1>1, SpecIInv, PTL

\* The extra sections of a result were true of the answering type, up to the same
\* likeness (engine.go, fetchExtraSections).
THEOREM SectionsHold == Spec => []SectionsAreTrue
<1>1. IInv => SectionsAreTrue
  BY DEF IInv, CallInv, Extras, SectionsAreTrue
<1> QED BY <1>1, SpecIInv, PTL

\* A target and an account that share a cache entry with no other: one that is not a
\* URL (no two of those differ in case only), asked about without a key, or with the
\* only key the cache directory is used with.
Alone(i, a) ==
    /\ \A j \in Targets : Fold[j] = Fold[i] => j = i
    /\ \A b \in Accounts : AuthScope[b] = AuthScope[a] => b = a

LEMMA AloneHeld ==
    ASSUME NEW s \in AllSlots, Alone(s.ind, s.account), NEW n, NEW x, HeldAlike(s, n, x)
    PROVE  HeldSince(s, n, x)
<1> PICK r \in AllSlots : Alike(r, s) /\ HeldSince(r, n, x)
  BY DEF HeldAlike
<1>1. /\ r.section = s.section /\ r.type = s.type
      /\ Fold[r.ind] = Fold[s.ind] /\ AuthScope[r.account] = AuthScope[s.account]
  BY DEF Alike
<1>2. r.ind = s.ind /\ r.account = s.account
  BY <1>1 DEF Alone, AllSlots
<1>3. r = s
  BY <1>1, <1>2 DEF AllSlots
<1> QED BY <1>3

\* For a call about such a target and account the likeness is no loss: its pulses were
\* upstream's answer to this very question, a complete "no pulses" was true of every
\* type, and its sections are its own (cache.go, Key; engine.go, Lookup).
AloneIsAnswered ==
    \A c \in Calls : pc[c] = "done" /\ Alone(job[c].ind, job[c].account) =>
        /\ HeldSince(Slot(c, General, res[c].general.type), res[c].general.count,
                     began[c] - Slack(c))
        /\ res[c].general.count = 0 /\ ~res[c].incomplete =>
              \A i \in 1..Len(TypeList(c)) :
                  HeldSince(Slot(c, General, TypeList(c)[i]), 0, began[c] - Slack(c))
        /\ \A x \in res[c].sections :
              HeldSince(Slot(c, x[1], res[c].general.type), x[2], began[c] - Slack(c))

THEOREM AloneHolds == Spec => []AloneIsAnswered
<1>1. IInv => AloneIsAnswered
  <2> SUFFICES ASSUME IInv, NEW c \in Calls, pc[c] = "done", Alone(job[c].ind, job[c].account)
               PROVE  /\ HeldSince(Slot(c, General, res[c].general.type), res[c].general.count,
                                   began[c] - Slack(c))
                      /\ res[c].general.count = 0 /\ ~res[c].incomplete =>
                            \A i \in 1..Len(TypeList(c)) :
                                HeldSince(Slot(c, General, TypeList(c)[i]), 0, began[c] - Slack(c))
                      /\ \A x \in res[c].sections :
                            HeldSince(Slot(c, x[1], res[c].general.type), x[2], began[c] - Slack(c))
    BY DEF AloneIsAnswered
  <2>1. /\ TypeOK /\ CallInv(c) /\ job[c] \in Jobs /\ Busy(c)
        /\ pos[c].stage = "sections" /\ res[c].general # None
    BY DEF IInv, CallInv, Started, Busy
  <2>2. \A a, b : Slot(c, a, b).ind = job[c].ind /\ Slot(c, a, b).account = job[c].account
    BY DEF Slot
  <2>3. HeldSince(Slot(c, General, res[c].general.type), res[c].general.count,
                  began[c] - Slack(c))
    <3>1. /\ \E i \in 1..Len(TypeList(c)) : TypeList(c)[i] = res[c].general.type
          /\ HeldAlike(Slot(c, General, res[c].general.type), res[c].general.count,
                       began[c] - Slack(c))
      BY <2>1 DEF CallInv, Chosen
    <3>2. Slot(c, General, res[c].general.type) \in AllSlots
      BY <2>1, <3>1, TypeSlots
    <3> QED BY <2>2, <3>1, <3>2, AloneHeld
  <2>4. ASSUME res[c].general.count = 0, ~res[c].incomplete, NEW i \in 1..Len(TypeList(c))
        PROVE  HeldSince(Slot(c, General, TypeList(c)[i]), 0, began[c] - Slack(c))
    <3>1. HeldAlike(Slot(c, General, TypeList(c)[i]), 0, began[c] - Slack(c))
      BY <2>1, <2>4 DEF CallInv, Swept
    <3>2. Slot(c, General, TypeList(c)[i]) \in AllSlots
      BY <2>1, TypeSlots
    <3> QED BY <2>2, <3>1, <3>2, AloneHeld
  <2>5. ASSUME NEW x \in res[c].sections
        PROVE  HeldSince(Slot(c, x[1], res[c].general.type), x[2], began[c] - Slack(c))
    <3>1. /\ Extra(c, x[1])
          /\ HeldAlike(Slot(c, x[1], res[c].general.type), x[2], began[c] - Slack(c))
      BY <2>1 DEF CallInv, Extras
    <3>2. x[1] \in Sections
      BY <2>1 DEF TypeOK
    <3>3. Slot(c, x[1], res[c].general.type) \in AllSlots
      BY <2>1, <3>1, <3>2, ExtraSlots DEF CallInv, Chosen
    <3> QED BY <2>2, <3>1, <3>3, AloneHeld
  <2> QED BY <2>3, <2>4, <2>5
<1> QED BY <1>1, SpecIInv, PTL

\* A lookup that has no result has an error (engine.go, Lookup).
THEOREM FailureHolds == Spec => []FailureIsNamed
<1>1. IInv => FailureIsNamed
  <2> SUFFICES ASSUME IInv, NEW c \in Calls, pc[c] = "failed"
               PROVE  res[c].firstErr # NoError
    BY DEF FailureIsNamed
  <2>1. Busy(c) /\ CallInv(c) /\ TypeOK
    BY DEF IInv, Busy
  <2>2. pos[c].n > 1
    <3>1. Len(TypeList(c)) \in Nat \ {0} /\ pos[c].n \in Nat
      BY <2>1, CallFacts
    <3> QED BY <2>1, <3>1 DEF CallInv, Started
  <2> QED BY <2>1, <2>2 DEF CallInv, Started
<1> QED BY <1>1, SpecIInv, PTL

----------------------------------------------------------------------------
(* No section is dropped: every extra section the loop has passed is          *)
(* collected or named in Degraded.                                            *)

Collected(c, section) ==
    \/ section \in res[c].degraded
    \/ \E n \in Answers : <<section, n>> \in res[c].sections

Passed(c) ==
    /\ pos[c].stage = "sections" =>
          \A m \in 1..Len(job[c].sections) :
              m < pos[c].n /\ job[c].sections[m] # General => Collected(c, job[c].sections[m])
    /\ pc[c] = "done" => pos[c].n > Len(job[c].sections)

\* What validateSections accepts for some type of a target, the type that answered
\* offers as well: the types of one target offer the same sections.
LEMMA AnsweringTypeHas ==
    ASSUME TypeOK, NEW c \in Calls, CallInv(c), Busy(c), res[c].general # None,
           NEW m \in 1..Len(job[c].sections), job[c].sections[m] # General
    PROVE  Extra(c, job[c].sections[m])
<1>1. /\ job[c] \in Jobs /\ job[c].ind \in Targets /\ Accepts(job[c])
      /\ job[c].sections \in Seq(Sections)
  BY JobsAssumption DEF CallInv, Started
<1>2. PICK a \in 1..Len(TypesOf[job[c].ind]) : TypesOf[job[c].ind][a] = res[c].general.type
  BY DEF CallInv, Chosen, TypeList
<1>3. PICK b \in 1..Len(TypesOf[job[c].ind]) : Has(TypesOf[job[c].ind][b], job[c].sections[m])
  BY <1>1 DEF Accepts
<1>4. <<TypesOf[job[c].ind][b], job[c].sections[m]>> \in HasSection
  BY <1>3 DEF Has
<1>5. job[c].sections[m] \in Sections
  BY <1>1
<1> QED BY <1>1, <1>2, <1>4, <1>5, SectionsAssumption DEF Extra

\* One round of the loop over the sections keeps Passed when the section of this
\* round is collected, or is not one to collect.
LEMMA RoundKeeps ==
    ASSUME TypeOK, NEW c \in Calls, CallInv(c), Passed(c),
           pos[c].stage = "sections", pos'[c].stage = "sections",
           pos'[c].n = pos[c].n + 1, pc'[c] # "done", job'[c] = job[c],
           res'[c].general = res[c].general,
           res[c].degraded \subseteq res'[c].degraded,
           res[c].sections \subseteq res'[c].sections,
           job[c].sections[pos[c].n] = General
             \/ job[c].sections[pos[c].n] \in res'[c].degraded
             \/ \E n \in Answers : <<job[c].sections[pos[c].n], n>> \in res'[c].sections
    PROVE  Passed(c)'
<1>2. \A s : Collected(c, s) => Collected(c, s)'
  BY DEF Collected
<1>3. pos[c].n \in Nat
  BY DEF TypeOK
<1> SUFFICES ASSUME NEW m \in 1..Len(job[c].sections), m < pos[c].n + 1,
                    job[c].sections[m] # General
             PROVE  Collected(c, job[c].sections[m])'
  BY DEF Passed
<1>4. m \in Nat /\ (m < pos[c].n \/ m = pos[c].n)
  <2>1. Busy(c)
    BY DEF CallInv, Started
  <2>2. job[c].sections \in Seq(Sections)
    BY <2>1, CallFacts
  <2> QED BY <1>3, <2>2
<1>5. CASE m < pos[c].n
  BY <1>2, <1>5 DEF Passed
<1>6. CASE m = pos[c].n
  BY <1>6 DEF Collected
<1> QED BY <1>4, <1>5, <1>6

\* An answer for a section collects it.
LEMMA TakePasses ==
    ASSUME TypeOK, NEW c \in Calls, CallInv(c), Passed(c), Wanting(c),
           NEW n \in Answers, NEW b \in BOOLEAN, Take(c, n, b), job' = job
    PROVE  Passed(c)'
<1>1. pc'[c] = "look" /\ pos'[c].stage = pos[c].stage
  BY DEF Take, Advance, TypeOK
<1>2. CASE pos[c].stage = "types"
  BY <1>1, <1>2 DEF Passed
<1>3. CASE pos[c].stage = "sections"
  <2>1. pos'[c].n = pos[c].n + 1
    BY <1>3 DEF Take, Advance, TypeOK
  <2>2. Asked(c).section = job[c].sections[pos[c].n]
    BY <1>3 DEF Asked, Slot
  <2>3. res'[c] = [res[c] EXCEPT !.sections = @ \cup {<<Asked(c).section, n>>}]
    BY <1>3 DEF Take, Answered, TypeOK
  <2>4. /\ res'[c].general = res[c].general /\ res'[c].degraded = res[c].degraded
        /\ res'[c].sections = res[c].sections \cup {<<job[c].sections[pos[c].n], n>>}
    BY <2>2, <2>3 DEF TypeOK
  <2> QED BY <1>1, <1>3, <2>1, <2>4, RoundKeeps
<1> QED BY <1>2, <1>3 DEF TypeOK

LEMMA PassedKeeps ==
    ASSUME IInv, [Next]_vars, NEW c \in Calls, Passed(c)
    PROVE  Passed(c)'
<1>1. TypeOK /\ CallInv(c)
  BY DEF IInv
<1>2. CASE Begin(c)
  <2>1. pc[c] = "idle" /\ pos' = pos /\ pc'[c] # "done" /\ pos[c].stage = "types"
    BY <1>1, <1>2 DEF Begin, CallInv, Started, TypeOK
  <2> QED BY <2>1 DEF Passed
<1>3. ASSUME pc[c] \in {"fetch", "store"} PROVE Wanting(c) /\ Busy(c)
  BY <1>1, <1>3 DEF CallInv, Started, Busy
<1>4. CASE CacheHit(c)
  <2>1. Asked(c) \in AllSlots
    BY <1>1, <1>4, AskedInSlots DEF CacheHit, CallInv, Busy
  <2>2. cache[Key(Asked(c))].body \in Answers
    BY <1>1, <1>4, <2>1, KeyInKeys DEF CacheHit, Fresh, TypeOK, Entries
  <2> QED BY <1>1, <1>4, <2>2, TakePasses DEF CacheHit
<1>5. CASE Store(c)
  <2>1. Wanting(c) /\ reply[c].body \in Answers
    BY <1>1, <1>3, <1>5 DEF Store, TypeOK
  <2> QED BY <1>1, <1>5, <2>1, TakePasses DEF Store
<1>6. CASE FetchFails(c)
  <2>1. PICK code \in Codes : res' = [res EXCEPT ![c] = Failed(c, code)]
    BY <1>6 DEF FetchFails
  <2>2. pc'[c] = "look" /\ pos'[c].stage = pos[c].stage /\ job' = job
    BY <1>1, <1>6 DEF FetchFails, Advance, TypeOK
  <2>3. CASE pos[c].stage = "types"
    BY <2>2, <2>3 DEF Passed
  <2>4. CASE pos[c].stage = "sections"
    <3>1. pos'[c].n = pos[c].n + 1
      BY <1>1, <1>6, <2>4 DEF FetchFails, Advance, TypeOK
    <3>2. Asked(c).section = job[c].sections[pos[c].n]
      BY <2>4 DEF Asked, Slot
    <3>3. res'[c] = [res[c] EXCEPT !.degraded = @ \cup {Asked(c).section}]
      BY <1>1, <2>1, <2>4 DEF Failed, TypeOK
    <3>4. /\ res'[c].general = res[c].general /\ res'[c].sections = res[c].sections
          /\ res'[c].degraded = res[c].degraded \cup {job[c].sections[pos[c].n]}
      BY <1>1, <3>2, <3>3 DEF TypeOK
    <3> QED BY <1>1, <2>2, <2>4, <3>1, <3>4, RoundKeeps
  <2> QED BY <1>1, <2>3, <2>4 DEF TypeOK
<1>7. CASE Skip(c)
  <2>1. /\ pos[c].stage = "sections" /\ pos'[c].stage = "sections"
        /\ pos'[c].n = pos[c].n + 1 /\ pc'[c] = "look" /\ res' = res /\ job' = job
    BY <1>1, <1>7 DEF Skip, InSections, Advance, TypeOK
  <2>2. job[c].sections[pos[c].n] = General
    <3>1. /\ Busy(c) /\ ~Extra(c, job[c].sections[pos[c].n]) /\ res[c].general # None
          /\ pos[c].n <= Len(job[c].sections)
      BY <1>1, <1>7, <2>1 DEF Skip, Wanting, InSections, Busy, CallInv, Started
    <3>2. pos[c].n \in 1..Len(job[c].sections)
      <4>1. pos[c].n \in Nat \ {0} /\ job[c].sections \in Seq(Sections)
        BY <1>1, <3>1, CallFacts
      <4> QED BY <3>1, <4>1
    <3> QED BY <1>1, <3>1, <3>2, AnsweringTypeHas
  <2> QED BY <1>1, <2>1, <2>2, RoundKeeps
<1>8. CASE EndTypes(c)
  <2>1. Busy(c) /\ job' = job /\ res' = res
    BY <1>8 DEF EndTypes, Busy
  <2>2. CASE res[c].general = None
    BY <1>1, <1>8, <2>2 DEF EndTypes, Passed, TypeOK
  <2>3. CASE res[c].general # None
    <3>1. pos'[c].n = 1 /\ pc'[c] # "done"
      BY <1>1, <1>8, <2>3 DEF EndTypes, TypeOK
    <3>2. job[c].sections \in Seq(Sections)
      BY <1>1, <2>1, CallFacts
    <3>3. \A m \in 1..Len(job[c].sections) : ~(m < 1)
      BY <3>2
    <3> QED BY <2>1, <3>1, <3>3 DEF Passed
  <2> QED BY <2>2, <2>3
<1>9. CASE EndSections(c)
  <2>1. /\ UNCHANGED <<pos, job, res>> /\ pos[c].n > Len(job[c].sections)
    BY <1>9 DEF EndSections
  <2> QED BY <2>1 DEF Passed, Extra, Collected
<1>10. CASE CacheMiss(c) \/ Serve(c)
  <2>1. /\ UNCHANGED <<pos, job, res>> /\ pc'[c] # "done"
    BY <1>1, <1>10 DEF CacheMiss, Serve, TypeOK
  <2> QED BY <2>1 DEF Passed, Extra, Collected
<1>11. CASE ~Begin(c) /\ ~Step(c)
  <2>1. job'[c] = job[c] /\ pc'[c] = pc[c] /\ pos'[c] = pos[c] /\ res'[c] = res[c]
    <3>1. ASSUME NEW d \in Calls, d # c, Begin(d) \/ Step(d)
          PROVE  job'[c] = job[c] /\ pc'[c] = pc[c] /\ pos'[c] = pos[c] /\ res'[c] = res[c]
      BY <1>1, <3>1 DEF Begin, Step, CacheHit, CacheMiss, Serve, FetchFails, Store, EndTypes,
                        Skip, EndSections, Take, Advance, TypeOK
    <3> QED BY <1>11, <3>1 DEF Next, vars, Drop, Publish, Tick
  <2> QED BY <2>1 DEF Passed, Extra, Collected
<1> QED BY <1>2, <1>4, <1>5, <1>6, <1>7, <1>8, <1>9, <1>10, <1>11 DEF Step

\* No extra section that was asked for is dropped silently, the types of a target
\* offering the same ones (engine.go, fetchExtraSections; indicator.go,
\* sectionsByType).
THEOREM SectionsAccountedHolds == Spec => []SectionsAccounted
<1> DEFINE Inv == IInv /\ \A c \in Calls : Passed(c)
<1>1. Init => Inv
  <2>1. Init => \A c \in Calls : Passed(c)
    <3> SUFFICES ASSUME Init, NEW c \in Calls PROVE Passed(c)
      OBVIOUS
    <3>1. pos[c] = [stage |-> "types", n |-> 1] /\ pc[c] = "idle"
      BY DEF Init
    <3> QED BY <3>1 DEF Passed
  <2> QED BY <2>1, InitIInv
<1>2. Inv /\ [Next]_vars => Inv'
  BY NextIInv, PassedKeeps
<1>3. Inv => SectionsAccounted
  <2> SUFFICES ASSUME Inv, NEW c \in Calls, pc[c] = "done",
                      NEW m \in 1..Len(job[c].sections), job[c].sections[m] # General
               PROVE  Collected(c, job[c].sections[m])
    BY DEF SectionsAccounted, Collected
  <2>1. TypeOK /\ CallInv(c) /\ Passed(c) /\ Busy(c)
    BY DEF IInv, Busy
  <2>2. pos[c].stage = "sections" /\ pos[c].n > Len(job[c].sections)
    BY <2>1 DEF CallInv, Started, Passed
  <2>3. job[c].sections \in Seq(Sections) /\ pos[c].n \in Nat
    BY <2>1, CallFacts
  <2>4. m < pos[c].n
    BY <2>2, <2>3
  <2> QED BY <2>1, <2>2, <2>4 DEF Passed
<1> QED BY <1>1, <1>2, <1>3, PTL DEF Spec
============================================================================
