----------------------------- MODULE CacheStore -----------------------------
(***************************************************************************)
(* The file operations of cache.Store, by processes that share one cache   *)
(* directory: Put through a temporary file and a rename, Get of one file,  *)
(* Clear of the files it listed.  Any process may be killed between two    *)
(* operations, and the machine may go down; neither files nor the          *)
(* directory are ever fsynced, so what was written may then be gone, and a *)
(* rename or a removal that had taken effect may be undone.                *)
(*                                                                         *)
(* A call is made at most once, so the temporary file of a Put, and the    *)
(* inode that a rename puts under the key, go by the name of the call.     *)
(***************************************************************************)
EXTENDS Integers, FiniteSets

CONSTANTS Puts, Gets, Clears,  \* the calls
          Keys,                \* file names ending in .json
          None,                \* no file, nothing read yet
          Miss,                \* what a Get returns without a record
          TTL,
          Horizon,             \* bound: the last instant explored
          Outages              \* bound: how often the machine goes down

Calls == Puts \cup Gets \cup Clears

ASSUME CallsAssumption ==
    /\ Puts \cap Gets = {} /\ Puts \cap Clears = {} /\ Gets \cap Clears = {}
    /\ None \notin Puts
ASSUME KeysAssumption == IsFiniteSet(Keys)
ASSUME NumbersAssumption == TTL \in Nat /\ Horizon \in Nat /\ Outages \in Nat
ASSUME NoneAssumption == None \notin [body : Puts, stamp : 0..Horizon]

VARIABLES
    now,      \* the clock
    key,      \* the key a Put or Get is called with
    at,       \* the "now" argument it is called with
    pc,       \* how far a call has come
    dir,      \* the inode under each key, or None
    temps,    \* the temporary files in the directory
    data,     \* what is in a Put's inode: "none", "part" or "whole"
    open,     \* the inode a Get has opened
    got,      \* the record a Get returns, or Miss
    listed,   \* the keys ReadDir gave a Clear that it has still to remove
    removed,  \* the count a Clear returns
    outages,  \* how often the machine has gone down
    past,     \* ghost: the inodes (or None) each key has had since the machine
              \* last came up
    entries,  \* ghost: the entries the machine last came up with, and those created
              \* under a free key since
    present   \* ghost: the inodes under the keys when a Clear listed them

vars == <<now, key, at, pc, dir, temps, data, open, got, listed, removed, outages, past, entries, present>>

\* The record in a Put's inode.
Record(p) == [body |-> p, stamp |-> at[p]]

InProgress(c) == pc[c] \notin {"idle", "returned", "errored", "littered", "died"}

GoTo(c, place) == pc' = [pc EXCEPT ![c] = place]

Init ==
    /\ now = 0
    /\ key \in [Puts \cup Gets -> Keys]
    /\ at = [c \in Puts \cup Gets |-> 0]
    /\ pc = [c \in Calls |-> "idle"]
    /\ dir = [k \in Keys |-> None]
    /\ temps = {}
    /\ data = [p \in Puts |-> "none"]
    /\ open = [g \in Gets |-> None]
    /\ got = [g \in Gets |-> None]
    /\ listed = [c \in Clears |-> {}]
    /\ removed = [c \in Clears |-> 0]
    /\ outages = 0
    /\ past = [k \in Keys |-> {None}]
    /\ entries = 0
    /\ present = [c \in Clears |-> {}]

----------------------------------------------------------------------------
\* A process calls Put, Get or Clear; for a Put or Get it reads the clock.
Call(c) ==
    /\ pc[c] = "idle"
    /\ GoTo(c, "called")
    /\ at' = IF c \in Clears THEN at ELSE [at EXCEPT ![c] = now]
    /\ UNCHANGED <<now, key, dir, temps, data, open, got, listed, removed, outages, past, entries, present>>

\* MkdirAll and os.CreateTemp.
CreateTemp(p) ==
    /\ pc[p] = "called"
    /\ temps' = temps \cup {p}
    /\ data' = [data EXCEPT ![p] = "part"]
    /\ GoTo(p, "created")
    /\ UNCHANGED <<now, key, at, dir, open, got, listed, removed, outages, past, entries, present>>

\* MkdirAll, Marshal or CreateTemp fails.
PutFailsEarly(p) ==
    /\ pc[p] = "called"
    /\ GoTo(p, "errored")
    /\ UNCHANGED <<now, key, at, dir, temps, data, open, got, listed, removed, outages, past, entries, present>>

\* A slip: the error of a short Write is dropped.
WriteUnchecked(p) ==
    /\ pc[p] = "created"
    /\ data' \in {data, [data EXCEPT ![p] = "whole"]}
    /\ GoTo(p, "written")
    /\ UNCHANGED <<now, key, at, dir, temps, open, got, listed, removed, outages, past, entries, present>>

\* tmp.Write and tmp.Close.
Write(p) ==
    /\ pc[p] = "created"
    /\ data' = [data EXCEPT ![p] = "whole"]
    /\ GoTo(p, "written")
    /\ UNCHANGED <<now, key, at, dir, temps, open, got, listed, removed, outages, past, entries, present>>

\* tmp.Write or tmp.Close fails (a full disk), or os.Rename does.
WriteFails(p) ==
    /\ pc[p] \in {"created", "written"}
    /\ GoTo(p, "cleaning")
    /\ UNCHANGED <<now, key, at, dir, temps, data, open, got, listed, removed, outages, past, entries, present>>

\* os.Rename: the temporary file takes the place of whatever is under the key.
Rename(p) ==
    /\ pc[p] = "written"
    /\ dir' = [dir EXCEPT ![key[p]] = p]
    /\ past' = [past EXCEPT ![key[p]] = @ \cup {p}]
    /\ temps' = temps \ {p}
    /\ entries' = IF dir[key[p]] = None THEN entries + 1 ELSE entries
    /\ GoTo(p, "renamed")
    /\ UNCHANGED <<now, key, at, data, open, got, listed, removed, outages, present>>

\* The deferred os.Remove finds the temporary file gone, and Put returns.
PutReturns(p) ==
    /\ pc[p] = "renamed"
    /\ GoTo(p, "returned")
    /\ UNCHANGED <<now, key, at, dir, temps, data, open, got, listed, removed, outages, past, entries, present>>

\* A slip: the temporary file is removed only when Put succeeds.
CleanUpSkipped(p) ==
    /\ pc[p] = "cleaning"
    /\ GoTo(p, "errored")
    /\ UNCHANGED <<now, key, at, dir, temps, data, open, got, listed, removed, outages, past, entries, present>>

\* The deferred os.Remove takes the temporary file away, and Put returns its error.
CleanUp(p) ==
    /\ pc[p] = "cleaning"
    /\ temps' = temps \ {p}
    /\ GoTo(p, "errored")
    /\ UNCHANGED <<now, key, at, dir, data, open, got, listed, removed, outages, past, entries, present>>

\* It cannot, and nobody hears of it: Put returns its error and leaves the file.
CleanUpFails(p) ==
    /\ pc[p] = "cleaning"
    /\ GoTo(p, "littered")
    /\ UNCHANGED <<now, key, at, dir, temps, data, open, got, listed, removed, outages, past, entries, present>>

\* os.ReadFile opens what is under the key now.
Open(g) ==
    /\ pc[g] = "called"
    /\ open' = [open EXCEPT ![g] = dir[key[g]]]
    /\ GoTo(g, "opened")
    /\ UNCHANGED <<now, key, at, dir, temps, data, got, listed, removed, outages, past, entries, present>>

\* A slip in Get: a record of any age is returned.
ReadingAnyAge(g) ==
    IF open[g] # None /\ data[open[g]] = "whole" THEN Record(open[g]) ELSE Miss

\* What Get makes of the inode it opened: a record that does not parse, or is too
\* old for the caller's now, is a miss.
Reading(g) ==
    IF /\ open[g] # None
       /\ data[open[g]] = "whole"
       /\ at[g] - at[open[g]] <= TTL
    THEN Record(open[g])
    ELSE Miss

Read(g) ==
    /\ pc[g] = "opened"
    /\ got' = [got EXCEPT ![g] = Reading(g)]
    /\ GoTo(g, "returned")
    /\ UNCHANGED <<now, key, at, dir, temps, data, open, listed, removed, outages, past, entries, present>>

\* Clear: os.ReadDir lists the directory (nothing, when it does not exist).
ReadDir(c) ==
    /\ pc[c] = "called"
    /\ listed' = [listed EXCEPT ![c] = {k \in Keys : dir[k] # None}]
    /\ present' = [present EXCEPT ![c] = {dir[k] : k \in Keys} \ {None}]
    /\ GoTo(c, "removing")
    /\ UNCHANGED <<now, key, at, dir, temps, data, open, got, removed, outages, past, entries>>

\* os.ReadDir fails, and Clear removes nothing.
ReadDirFails(c) ==
    /\ pc[c] = "called"
    /\ GoTo(c, "errored")
    /\ UNCHANGED <<now, key, at, dir, temps, data, open, got, listed, removed, outages, past, entries, present>>

\* A slip: a file that is already gone counts as removed.
RemoveTolerant(c, k) ==
    /\ pc[c] = "removing"
    /\ k \in listed[c]
    /\ dir' = [dir EXCEPT ![k] = None]
    /\ past' = [past EXCEPT ![k] = @ \cup {None}]
    /\ listed' = [listed EXCEPT ![c] = @ \ {k}]
    /\ removed' = [removed EXCEPT ![c] = @ + 1]
    /\ UNCHANGED <<now, key, at, pc, temps, data, open, got, outages, entries, present>>

\* os.Remove of one listed file, in ReadDir's order of names (any order here).
Remove(c, k) ==
    /\ pc[c] = "removing"
    /\ k \in listed[c]
    /\ dir[k] # None
    /\ dir' = [dir EXCEPT ![k] = None]
    /\ past' = [past EXCEPT ![k] = @ \cup {None}]
    /\ listed' = [listed EXCEPT ![c] = @ \ {k}]
    /\ removed' = [removed EXCEPT ![c] = @ + 1]
    /\ UNCHANGED <<now, key, at, pc, temps, data, open, got, outages, entries, present>>

\* A slip: a file that cannot be removed is passed over.
RemoveFailsSkips(c) ==
    /\ pc[c] = "removing"
    /\ \E k \in listed[c] : listed' = [listed EXCEPT ![c] = @ \ {k}]
    /\ UNCHANGED <<now, key, at, pc, dir, temps, data, open, got, removed, outages, past, entries, present>>

\* os.Remove fails, since another Clear was there first or for a reason of its own:
\* Clear returns what it counted so far, with the error.
RemoveFails(c) ==
    /\ pc[c] = "removing"
    /\ listed[c] # {}
    /\ GoTo(c, "errored")
    /\ UNCHANGED <<now, key, at, dir, temps, data, open, got, listed, removed, outages, past, entries, present>>

ClearReturns(c) ==
    /\ pc[c] = "removing"
    /\ listed[c] = {}
    /\ GoTo(c, "returned")
    /\ UNCHANGED <<now, key, at, dir, temps, data, open, got, listed, removed, outages, past, entries, present>>

\* The process making the call is killed.
Kill(c) ==
    /\ InProgress(c)
    /\ GoTo(c, "died")
    /\ UNCHANGED <<now, key, at, dir, temps, data, open, got, listed, removed, outages, past, entries, present>>

\* The machine goes down, and comes up with what had reached the disk: under each key
\* any of the inodes it had since the last time, or none if it was free at some time;
\* any of the temporary files created, renamed or removed since or not; and an inode
\* whose name is there may have lost its data (a temporary file may have, too, but nobody
\* will read it).  Every call in progress dies, and what the processes knew is gone.
Outage ==
    /\ outages < Outages
    /\ outages' = outages + 1
    /\ pc' = [c \in Calls |-> IF InProgress(c) THEN "died" ELSE pc[c]]
    /\ \E names \in [Keys -> Puts \cup {None}], files \in SUBSET {p \in Puts : data[p] # "none"},
          torn \in SUBSET {p \in Puts : data[p] = "whole"} :
          LET named == {names[k] : k \in Keys} IN
          /\ \A k \in Keys : names[k] \in past[k]
          /\ files \cap named = {}
          /\ torn \subseteq named
          /\ dir' = names
          /\ temps' = files
          /\ past' = [k \in Keys |-> {names[k]}]
          /\ data' = [p \in Puts |-> IF p \in torn THEN "part"
                                     ELSE IF p \in files \cup named THEN data[p]
                                     ELSE "none"]
          /\ entries' = Cardinality({k \in Keys : names[k] # None})
    /\ open' = [g \in Gets |-> None]
    /\ listed' = [c \in Clears |-> {}]
    /\ removed' = [c \in Clears |-> 0]
    /\ present' = [c \in Clears |-> {}]
    /\ UNCHANGED <<now, key, at, got>>

Tick ==
    /\ now < Horizon
    /\ now' = now + 1
    /\ UNCHANGED <<key, at, pc, dir, temps, data, open, got, listed, removed, outages, past, entries, present>>

PutStep(p) ==
    \/ CreateTemp(p) \/ PutFailsEarly(p) \/ Write(p) \/ WriteFails(p)
    \/ Rename(p) \/ PutReturns(p) \/ CleanUp(p) \/ CleanUpFails(p)

GetStep(g) == Open(g) \/ Read(g)

ClearStep(c) ==
    \/ ReadDir(c) \/ ReadDirFails(c)
    \/ \E k \in Keys : Remove(c, k)
    \/ RemoveFails(c) \/ ClearReturns(c)

Next ==
    \/ \E p \in Puts : PutStep(p)
    \/ \E g \in Gets : GetStep(g)
    \/ \E c \in Clears : ClearStep(c)
    \/ \E c \in Calls : Call(c) \/ Kill(c)
    \/ Outage
    \/ Tick

Spec == Init /\ [][Next]_vars

----------------------------------------------------------------------------
\* Type invariant.
TypeOK ==
    /\ now \in 0..Horizon
    /\ key \in [Puts \cup Gets -> Keys]
    /\ at \in [Puts \cup Gets -> 0..Horizon]
    /\ pc \in [Calls -> {"idle", "called", "created", "written", "renamed", "cleaning",
                         "opened", "removing", "returned", "errored", "littered", "died"}]
    /\ dir \in [Keys -> Puts \cup {None}]
    /\ temps \subseteq Puts
    /\ data \in [Puts -> {"none", "part", "whole"}]
    /\ open \in [Gets -> Puts \cup {None}]
    /\ got \in [Gets -> [body : Puts, stamp : 0..Horizon] \cup {None, Miss}]
    /\ listed \in [Clears -> SUBSET Keys]
    /\ removed \in [Clears -> Nat]
    /\ outages \in 0..Outages
    /\ past \in [Keys -> SUBSET (Puts \cup {None})]
    /\ entries \in Nat
    /\ present \in [Clears -> SUBSET Puts]

\* Short of an outage, every name that ends in .json has a whole record: not while
\* it is written, not after a failed write, not after a kill (cache.go:98, "a crash
\* never leaves a truncated entry").
NamesAreWhole ==
    outages = 0 => \A k \in Keys : dir[k] # None => data[dir[k]] = "whole"

\* Short of an outage, a temporary file is left behind only by a Put that died or that
\* could not remove it: no Put that returned in order has left one, and Clear never
\* takes such a file away (cache.go, writeAtomic).
TempsAreOwned ==
    outages = 0 => \A p \in temps : pc[p] \in {"created", "written", "cleaning", "littered", "died"}

\* The entries in the directory, and a mark for each removal a Clear has counted.
Occupied == {k \in Keys : dir[k] # None}
Marks    == UNION {{c} \X (1..removed[c]) : c \in Clears}

\* No entry is counted as removed twice, and none disappears uncounted, however Puts
\* and Clears overlap: since the machine last came up, what it came up with and what was
\* created is there or in exactly one Clear's count (cache.go, Clear: "returning the
\* number removed").  The counts are added up by counting their marks.
RemovalsAddUp == entries = Cardinality(Occupied) + Cardinality(Marks)

\* A Clear that returns no error has removed every entry that was there when it
\* listed the directory; until the machine goes down, only later Puts leave entries
\* (cache.go, Clear: "removes every cached entry").
ClearIsThorough ==
    \A c \in Clears : pc[c] = "returned" =>
        \A k \in Keys : dir[k] \notin present[c]

----------------------------------------------------------------------------
\* The record an inode stands for: without a whole record it stands for none.
Standing(p) == IF p # None /\ data[p] = "whole" THEN Record(p) ELSE None

\* The map the directory stands for, and what each key has stood for.
MapOf  == [k \in Keys |-> Standing(dir[k])]
PastOf == [k \in Keys |-> {Standing(p) : p \in past[k]}]

Phase(place) ==
    CASE place \in {"called", "created", "written", "cleaning", "removing"} -> "called"
      [] place \in {"renamed", "opened"} -> "effected"
      [] place = "littered" -> "errored"
      [] OTHER -> place

PhaseOf == [c \in Calls |-> Phase(pc[c])]

GotOf == [g \in Gets |-> IF pc[g] = "opened" THEN Reading(g) ELSE got[g]]

Map ==
    INSTANCE CacheMap WITH map <- MapOf, past <- PastOf, phase <- PhaseOf, got <- GotOf

\* The directory implements the map: each Put takes effect at its rename and each
\* Get at its open, whole or not at all, whichever calls overlap or die; and after an
\* outage a key has a record it had before, or none (cache.go, writeAtomic and Get).
ImplementsMap == Map!MapSpec
============================================================================
