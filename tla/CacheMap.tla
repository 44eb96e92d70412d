------------------------------ MODULE CacheMap ------------------------------
(***************************************************************************)
(* What the cache directory promises the processes that share it: a map    *)
(* from keys to whole records.  A Put takes effect at one instant between  *)
(* its call and its return, or not at all if it returns an error or dies;  *)
(* a Get returns what the map holds at one instant of the call, unless it  *)
(* is too old for the caller; a Clear only takes entries away.  When the   *)
(* machine goes down, each key falls back to a record it had before, or to *)
(* none: a replaced or a cleared record may return, but no other, and no   *)
(* part of one.                                                            *)
(***************************************************************************)
EXTENDS Integers

CONSTANTS Puts, Gets, Clears,  \* the calls, each made at most once
          Keys,                \* cache file names
          None,                \* no record, no answer yet
          Miss,                \* what a Get returns without a record
          TTL, Horizon

VARIABLES map,      \* the record under each key, or None
          past,     \* what each key has held since the machine last came up
          key,      \* the key a Put or Get was called with
          at,       \* the "now" it was called with
          phase,    \* idle, called, effected, returned, errored or died
          got       \* what a Get is to return: a record, Miss, or None

mapVars == <<map, past, key, at, phase, got>>

Calls == Puts \cup Gets \cup Clears

\* The result a Put writes is its own, so the Put itself stands for it.
Record(p) == [body |-> p, stamp |-> at[p]]

Records == [body : Puts, stamp : 0..Horizon]

Seen(r, now) == IF r # None /\ now - r.stamp <= TTL THEN r ELSE Miss

MapInit ==
    /\ map = [k \in Keys |-> None]
    /\ past = [k \in Keys |-> {None}]
    /\ key \in [Puts \cup Gets -> Keys]
    /\ at = [c \in Puts \cup Gets |-> 0]
    /\ phase = [c \in Calls |-> "idle"]
    /\ got = [g \in Gets |-> None]

Call(c) ==
    /\ phase[c] = "idle"
    /\ phase' = [phase EXCEPT ![c] = "called"]
    /\ IF c \in Clears THEN UNCHANGED at ELSE \E t \in 0..Horizon : at' = [at EXCEPT ![c] = t]
    /\ UNCHANGED <<map, past, key, got>>

PutTakesEffect(p) ==
    /\ phase[p] = "called"
    /\ map' = [map EXCEPT ![key[p]] = Record(p)]
    /\ past' = [past EXCEPT ![key[p]] = @ \cup {Record(p)}]
    /\ phase' = [phase EXCEPT ![p] = "effected"]
    /\ UNCHANGED <<key, at, got>>

GetTakesEffect(g) ==
    /\ phase[g] = "called"
    /\ got' = [got EXCEPT ![g] = Seen(map[key[g]], at[g])]
    /\ phase' = [phase EXCEPT ![g] = "effected"]
    /\ UNCHANGED <<map, past, key, at>>

\* One of the removals of a Clear.
Removal(c, k) ==
    /\ phase[c] = "called"
    /\ map[k] # None
    /\ map' = [map EXCEPT ![k] = None]
    /\ past' = [past EXCEPT ![k] = @ \cup {None}]
    /\ UNCHANGED <<key, at, phase, got>>

\* A Put or Get that took effect succeeds.
Succeed(c) ==
    /\ phase[c] = IF c \in Clears THEN "called" ELSE "effected"
    /\ phase' = [phase EXCEPT ![c] = "returned"]
    /\ UNCHANGED <<map, past, key, at, got>>

\* A Put or a Clear returns an error; a Put that does has had no effect.
Fail(c) ==
    /\ c \notin Gets
    /\ phase[c] = "called"
    /\ phase' = [phase EXCEPT ![c] = "errored"]
    /\ UNCHANGED <<map, past, key, at, got>>

\* The process dies; a Put it was making took effect or never will.
Die(c) ==
    /\ phase[c] \in {"called", "effected"}
    /\ phase' = [phase EXCEPT ![c] = "died"]
    /\ got' = [g \in Gets |-> IF g = c THEN None ELSE got[g]]
    /\ UNCHANGED <<map, past, key, at>>

\* The machine goes down: the calls in progress die, and each key is left with one of
\* the records it has held, or with none.
Outage ==
    /\ phase' = [c \in Calls |-> IF phase[c] \in {"called", "effected"} THEN "died" ELSE phase[c]]
    /\ got' = [g \in Gets |-> IF phase[g] = "effected" THEN None ELSE got[g]]
    /\ \E left \in [Keys -> Records \cup {None}] :
          /\ \A k \in Keys : left[k] \in past[k] \cup {None}
          /\ map' = left
          /\ past' = [k \in Keys |-> {left[k]}]
    /\ UNCHANGED <<key, at>>

MapNext ==
    \/ \E c \in Calls : Call(c) \/ Succeed(c) \/ Fail(c) \/ Die(c)
    \/ \E p \in Puts : PutTakesEffect(p)
    \/ \E g \in Gets : GetTakesEffect(g)
    \/ \E c \in Clears, k \in Keys : Removal(c, k)
    \/ Outage

MapSpec == MapInit /\ [][MapNext]_mapVars
============================================================================
