-------------------------- MODULE CacheStoreProofs --------------------------
(***************************************************************************)
(* Proofs about CacheStore, for any numbers of Puts, Gets and Clears, any  *)
(* keys, any TTL and any number of outages.  The invariant says which      *)
(* inodes can be under a key, now or after an outage, open or on a Clear's *)
(* list: only those whose Put has renamed, so that no step of another Put  *)
(* can change what a name or an open file holds.  From it follow the properties of the directory, *)
(* and that each of its steps is a step of CacheMap or leaves the map as   *)
(* it is.                                                                  *)
(***************************************************************************)
EXTENDS CacheStore, FiniteSetTheorems, TLAPS

\* The Put has given its file its name, and will not touch it again.
Named(p) == p \in Puts /\ pc[p] \in {"renamed", "returned", "died"}

Places ==
    /\ \A p \in Puts : pc[p] \in {"idle", "called", "created", "written", "renamed", "cleaning",
                                  "returned", "errored", "littered", "died"}
    /\ \A g \in Gets : pc[g] \in {"idle", "called", "opened", "returned", "died"}
    /\ \A c \in Clears : pc[c] \in {"idle", "called", "removing", "returned", "errored", "died"}

Files ==
    /\ \A k \in Keys : dir[k] \in past[k]
    /\ \A k \in Keys : \A p \in past[k] : p # None => Named(p)
    /\ \A g \in Gets : open[g] # None => Named(open[g])
    /\ \A c \in Clears : \A p \in present[c] : Named(p)
    /\ \A p \in Puts : pc[p] = "written" => data[p] = "whole"

Answers == \A g \in Gets : pc[g] # "returned" => got[g] = None

Sweeps ==
    \A c \in Clears : pc[c] = "removing" =>
        \A k \in Keys : dir[k] \in present[c] => k \in listed[c]

Inv ==
    /\ TypeOK /\ Places /\ Files /\ Answers /\ Sweeps
    /\ NamesAreWhole /\ TempsAreOwned /\ ClearIsThorough

----------------------------------------------------------------------------
LEMMA InitInv == Init => Inv
<1> SUFFICES ASSUME Init PROVE Inv
  OBVIOUS
<1>1. TypeOK
  BY NumbersAssumption DEF Init, TypeOK
<1>2. Places /\ Files /\ Answers /\ Sweeps
  BY DEF Init, Places, Files, Answers, Sweeps, Calls
<1>3. NamesAreWhole /\ TempsAreOwned /\ ClearIsThorough
  BY DEF Init, NamesAreWhole, TempsAreOwned, ClearIsThorough, Calls
<1> QED BY <1>1, <1>2, <1>3 DEF Inv

LEMMA CallKeeps ==
    ASSUME Inv, NEW c \in Calls, Call(c)
    PROVE  Inv'
<1> USE DEF GoTo
<1>1. TypeOK'
  BY CallsAssumption DEF Inv, TypeOK, Call, Calls
<1>2. Places'
  BY CallsAssumption DEF Inv, TypeOK, Places, Call, Calls
<1>3. Files' /\ Answers' /\ Sweeps'
  BY CallsAssumption DEF Inv, TypeOK, Files, Answers, Sweeps, Call, Calls, Named
<1>4. NamesAreWhole' /\ TempsAreOwned' /\ ClearIsThorough'
  BY CallsAssumption DEF Inv, TypeOK, NamesAreWhole, TempsAreOwned, ClearIsThorough, Call, Calls
<1> QED BY <1>1, <1>2, <1>3, <1>4 DEF Inv

LEMMA PutKeeps ==
    ASSUME Inv, NEW p \in Puts, PutStep(p)
    PROVE  Inv'
<1> USE DEF GoTo
<1>1. TypeOK'
  BY CallsAssumption DEF Inv, TypeOK, Calls, PutStep, CreateTemp, PutFailsEarly, Write, WriteFails,
                         Rename, PutReturns, CleanUp, CleanUpFails
<1>2. Places'
  BY CallsAssumption DEF Inv, TypeOK, Places, Calls, PutStep, CreateTemp, PutFailsEarly, Write,
                         WriteFails, Rename, PutReturns, CleanUp, CleanUpFails
<1>3. Files'
  <2>1. \A q : Named(q) => Named(q)'
    BY CallsAssumption DEF Inv, TypeOK, Named, Calls, PutStep, CreateTemp, PutFailsEarly, Write,
                           WriteFails, Rename, PutReturns, CleanUp, CleanUpFails
  <2>2. UNCHANGED <<open, present>>
    BY DEF PutStep, CreateTemp, PutFailsEarly, Write, WriteFails, Rename, PutReturns, CleanUp,
           CleanUpFails
  <2>3. ASSUME NEW k \in Keys
        PROVE  dir'[k] \in past'[k] /\ \A q \in past'[k] : q # None => Named(q)'
    <3>1. CASE Rename(p)
      <4>1. Named(p)'
        BY <3>1, CallsAssumption DEF Inv, TypeOK, Named, Calls, Rename
      <4>2. /\ dir'[k] = IF k = key[p] THEN p ELSE dir[k]
            /\ past'[k] = IF k = key[p] THEN past[k] \cup {p} ELSE past[k]
        BY <3>1 DEF Inv, TypeOK, Rename
      <4>3. dir[k] \in past[k] /\ \A q \in past[k] : q # None => Named(q)
        BY DEF Inv, Files
      <4> QED BY <2>1, <4>1, <4>2, <4>3
    <3>2. CASE ~Rename(p)
      <4>1. UNCHANGED <<dir, past>>
        BY <3>2 DEF PutStep, CreateTemp, PutFailsEarly, Write, WriteFails, PutReturns, CleanUp,
                    CleanUpFails
      <4> QED BY <2>1, <4>1 DEF Inv, Files
    <3> QED BY <3>1, <3>2
  <2>4. \A q \in Puts : pc'[q] = "written" => data'[q] = "whole"
    BY CallsAssumption DEF Inv, TypeOK, Files, Calls, PutStep, CreateTemp, PutFailsEarly, Write,
                           WriteFails, Rename, PutReturns, CleanUp, CleanUpFails
  <2> QED BY <2>1, <2>2, <2>3, <2>4 DEF Inv, Files
<1>4. Answers'
  BY CallsAssumption DEF Inv, TypeOK, Answers, Calls, PutStep, CreateTemp, PutFailsEarly, Write,
                         WriteFails, Rename, PutReturns, CleanUp, CleanUpFails
<1>5. Sweeps' /\ ClearIsThorough'
  <2>1. UNCHANGED <<present, listed, outages>> /\ \A c \in Clears : pc'[c] = pc[c]
    BY CallsAssumption DEF Inv, TypeOK, Calls, PutStep, CreateTemp, PutFailsEarly, Write, WriteFails,
                           Rename, PutReturns, CleanUp, CleanUpFails
  <2>2. ASSUME NEW c \in Clears, NEW k \in Keys, dir'[k] \in present[c]
        PROVE  dir[k] \in present[c]
    <3>1. CASE Rename(p)
      <4>1. p \notin present[c]
        BY <3>1 DEF Inv, Files, Named, Rename
      <4>2. dir'[k] \in {p, dir[k]}
        BY <3>1 DEF Inv, TypeOK, Rename
      <4> QED BY <2>2, <4>1, <4>2
    <3>2. CASE ~Rename(p)
      <4>1. dir' = dir
        BY <3>2 DEF PutStep, CreateTemp, PutFailsEarly, Write, WriteFails, PutReturns, CleanUp,
                    CleanUpFails
      <4> QED BY <2>2, <4>1
    <3> QED BY <3>1, <3>2
  <2> QED BY <2>1, <2>2 DEF Inv, Sweeps, ClearIsThorough
<1>6. NamesAreWhole'
  BY CallsAssumption DEF Inv, TypeOK, Files, Named, NamesAreWhole, Calls, PutStep, CreateTemp,
                         PutFailsEarly, Write, WriteFails, Rename, PutReturns, CleanUp, CleanUpFails
<1>7. TempsAreOwned'
  BY CallsAssumption DEF Inv, TypeOK, TempsAreOwned, Calls, PutStep, CreateTemp, PutFailsEarly,
                         Write, WriteFails, Rename, PutReturns, CleanUp, CleanUpFails
<1> QED BY <1>1, <1>2, <1>3, <1>4, <1>5, <1>6, <1>7 DEF Inv

LEMMA GetKeeps ==
    ASSUME Inv, NEW g \in Gets, GetStep(g)
    PROVE  Inv'
<1> USE DEF GoTo
<1>1. TypeOK'
  <2>1. CASE Open(g)
    BY <2>1, CallsAssumption DEF Inv, TypeOK, Calls, Open
  <2>2. CASE Read(g)
    <3>1. Reading(g) \in [body : Puts, stamp : 0..Horizon] \cup {None, Miss}
      BY DEF Inv, TypeOK, Files, Named, Reading, Record
    <3> QED BY <2>2, <3>1, CallsAssumption DEF Inv, TypeOK, Calls, Read
  <2> QED BY <2>1, <2>2 DEF GetStep
<1>2. Places'
  BY CallsAssumption DEF Inv, TypeOK, Places, Calls, GetStep, Open, Read
<1>3. Files' /\ Answers' /\ Sweeps'
  BY CallsAssumption DEF Inv, TypeOK, Files, Named, Answers, Sweeps, Calls, GetStep, Open, Read
<1>4. NamesAreWhole' /\ TempsAreOwned' /\ ClearIsThorough'
  BY CallsAssumption DEF Inv, TypeOK, NamesAreWhole, TempsAreOwned, ClearIsThorough, Calls, GetStep,
                         Open, Read
<1> QED BY <1>1, <1>2, <1>3, <1>4 DEF Inv

LEMMA ClearKeeps ==
    ASSUME Inv, NEW c \in Clears, ClearStep(c)
    PROVE  Inv'
<1> USE DEF GoTo
<1>1. TypeOK'
  BY CallsAssumption DEF Inv, TypeOK, Calls, ClearStep, ReadDir, ReadDirFails, Remove, RemoveFails,
                         ClearReturns
<1>2. Places'
  BY CallsAssumption DEF Inv, TypeOK, Places, Calls, ClearStep, ReadDir, ReadDirFails, Remove,
                         RemoveFails, ClearReturns
<1>3. Files' /\ Answers'
  <2>1. CASE \E k \in Keys : Remove(c, k)
    <3>1. PICK k \in Keys : Remove(c, k)
      BY <2>1
    <3>2. \A j \in Keys : /\ dir'[j] = IF j = k THEN None ELSE dir[j]
                          /\ past'[j] = IF j = k THEN past[j] \cup {None} ELSE past[j]
      BY <3>1 DEF Inv, TypeOK, Remove
    <3>3. UNCHANGED <<pc, open, got, present, data>>
      BY <3>1 DEF Remove
    <3>4. \A p : Named(p)' <=> Named(p)
      BY <3>3 DEF Named
    <3>5. ASSUME NEW j \in Keys
          PROVE  dir'[j] \in past'[j] /\ \A p \in past'[j] : p # None => Named(p)'
      <4>1. CASE j = k
        <5>1. dir'[j] = None /\ past'[j] = past[j] \cup {None}
          BY <3>2, <4>1
        <5> QED BY <3>4, <5>1 DEF Inv, Files
      <4>2. CASE j # k
        BY <3>2, <3>4, <4>2 DEF Inv, Files
      <4> QED BY <4>1, <4>2
    <3>6. Files'
      BY <3>3, <3>4, <3>5 DEF Inv, Files
    <3> QED BY <3>3, <3>6 DEF Inv, Answers
  <2>2. CASE ReadDir(c) \/ ReadDirFails(c) \/ RemoveFails(c) \/ ClearReturns(c)
    <3>1. /\ UNCHANGED <<dir, past, open, got, data>>
          /\ \A q \in Puts \cup Gets : pc'[q] = pc[q]
      BY <2>2, CallsAssumption DEF Inv, TypeOK, Calls, ReadDir, ReadDirFails, RemoveFails, ClearReturns
    <3>2. \A q : Named(q)' <=> Named(q)
      BY <3>1 DEF Named
    <3>3. ASSUME NEW d \in Clears PROVE \A q \in present'[d] : Named(q)'
      <4>1. CASE ReadDir(c)
        BY <3>2, <4>1 DEF Inv, TypeOK, Files, ReadDir
      <4>2. CASE ~ReadDir(c)
        BY <2>2, <3>2, <4>2 DEF Inv, Files, ReadDirFails, RemoveFails, ClearReturns
      <4> QED BY <4>1, <4>2
    <3>4. Files'
      BY <3>1, <3>2, <3>3 DEF Inv, Files
    <3> QED BY <3>1, <3>4 DEF Inv, Answers
  <2> QED BY <2>1, <2>2 DEF ClearStep
<1>4. Sweeps' /\ ClearIsThorough'
  BY CallsAssumption DEF Inv, TypeOK, Sweeps, ClearIsThorough, Calls, ClearStep, ReadDir,
                         ReadDirFails, Remove, RemoveFails, ClearReturns
<1>5. NamesAreWhole' /\ TempsAreOwned'
  BY CallsAssumption DEF Inv, TypeOK, NamesAreWhole, TempsAreOwned, Calls, ClearStep, ReadDir,
                         ReadDirFails, Remove, RemoveFails, ClearReturns
<1> QED BY <1>1, <1>2, <1>3, <1>4, <1>5 DEF Inv

\* What an outage leaves of the names is finite, as the names are.
LEMMA OutageEntries ==
    ASSUME NEW names
    PROVE  /\ IsFiniteSet({k \in Keys : names[k] # None})
           /\ Cardinality({k \in Keys : names[k] # None}) \in Nat
<1>1. IsFiniteSet({k \in Keys : names[k] # None})
  BY KeysAssumption, FS_Subset
<1> QED BY <1>1, FS_CardinalityType

\* What an outage may leave on the disk.
Left(names, files, torn) ==
    /\ \A k \in Keys : names[k] \in past[k]
    /\ dir' = names
    /\ temps' = files
    /\ past' = [k \in Keys |-> {names[k]}]
    /\ data' = [p \in Puts |-> IF p \in torn THEN "part"
                               ELSE IF p \in files \cup {names[k] : k \in Keys} THEN data[p]
                               ELSE "none"]
    /\ entries' = Cardinality({k \in Keys : names[k] # None})

LEMMA OutageLeaves ==
    ASSUME Outage
    PROVE  \E names \in [Keys -> Puts \cup {None}], files \in SUBSET Puts, torn \in SUBSET Puts :
              Left(names, files, torn)
  BY DEF Outage, Left

LEMMA OutageKeeps == Inv /\ Outage => Inv'
<1> SUFFICES ASSUME Inv, Outage PROVE Inv'
  OBVIOUS
<1>1. PICK names \in [Keys -> Puts \cup {None}], files \in SUBSET Puts, torn \in SUBSET Puts :
          Left(names, files, torn)
  BY OutageLeaves
<1> USE DEF Left
<1>2. /\ outages' = outages + 1 /\ outages < Outages
      /\ pc' = [c \in Calls |-> IF InProgress(c) THEN "died" ELSE pc[c]]
      /\ open' = [g \in Gets |-> None]
      /\ listed' = [c \in Clears |-> {}]
      /\ removed' = [c \in Clears |-> 0]
      /\ present' = [c \in Clears |-> {}]
      /\ UNCHANGED <<now, key, at, got>>
  BY DEF Outage
<1>3. TypeOK'
  <2>1. entries' \in Nat
    BY <1>1, OutageEntries
  <2>2. data' \in [Puts -> {"none", "part", "whole"}]
    BY <1>1 DEF Inv, TypeOK
  <2>3. past' \in [Keys -> SUBSET (Puts \cup {None})]
    BY <1>1
  <2>4. outages' \in 0..Outages
    BY <1>2, NumbersAssumption DEF Inv, TypeOK
  <2>5. pc' \in [Calls -> {"idle", "called", "created", "written", "renamed", "cleaning",
                         "opened", "removing", "returned", "errored", "littered", "died"}]
    BY <1>2 DEF Inv, TypeOK
  <2>6. dir' \in [Keys -> Puts \cup {None}] /\ temps' \subseteq Puts
    BY <1>1
  <2> QED BY <1>2, <2>1, <2>2, <2>3, <2>4, <2>5, <2>6 DEF Inv, TypeOK
<1>4. Places'
  BY <1>2, CallsAssumption DEF Inv, TypeOK, Places, Calls, InProgress
<1>5. Files'
  <2>1. \A p : Named(p) => Named(p)'
    BY <1>2 DEF Named, Calls, InProgress
  <2>2. ASSUME NEW k \in Keys
        PROVE  dir'[k] \in past'[k] /\ \A p \in past'[k] : p # None => Named(p)'
    BY <1>1, <2>1 DEF Inv, Files
  <2>3. \A p \in Puts : pc'[p] # "written"
    BY <1>2 DEF Inv, TypeOK, Calls, InProgress
  <2>4. \A g \in Gets : open'[g] = None
    BY <1>2
  <2>5. \A c \in Clears : present'[c] = {}
    BY <1>2
  <2> QED BY <2>2, <2>3, <2>4, <2>5 DEF Files
<1>6. Answers' /\ Sweeps' /\ ClearIsThorough'
  BY <1>2, CallsAssumption DEF Inv, TypeOK, Places, Answers, Sweeps, ClearIsThorough, Calls, InProgress
<1>7. NamesAreWhole' /\ TempsAreOwned'
  <2>1. outages' # 0
    BY <1>2 DEF Inv, TypeOK
  <2> QED BY <2>1 DEF NamesAreWhole, TempsAreOwned
<1> QED BY <1>3, <1>4, <1>5, <1>6, <1>7 DEF Inv

\* Kills and the passing of time.
LEMMA KillKeeps ==
    ASSUME Inv, (\E c \in Calls : Kill(c)) \/ Tick
    PROVE  Inv'
<1> USE DEF GoTo, InProgress
<1>1. TypeOK'
  BY CallsAssumption, NumbersAssumption DEF Inv, TypeOK, Calls, Kill, Tick
<1>2. Places'
  BY CallsAssumption DEF Inv, TypeOK, Places, Calls, Kill, Tick
<1>3. Files' /\ Answers' /\ Sweeps'
  BY CallsAssumption DEF Inv, TypeOK, Places, Files, Named, Answers, Sweeps, Calls, Kill, Tick
<1>4. NamesAreWhole' /\ TempsAreOwned' /\ ClearIsThorough'
  BY CallsAssumption, NumbersAssumption
     DEF Inv, TypeOK, NamesAreWhole, TempsAreOwned, ClearIsThorough, Calls, Kill, Tick
<1> QED BY <1>1, <1>2, <1>3, <1>4 DEF Inv

LEMMA NextInv == Inv /\ [Next]_vars => Inv'
<1>1. Inv /\ UNCHANGED vars => Inv'
  BY DEF vars, Inv, TypeOK, Places, Files, Named, Answers, Sweeps, NamesAreWhole, TempsAreOwned,
         ClearIsThorough
<1> QED BY <1>1, CallKeeps, PutKeeps, GetKeeps, ClearKeeps, OutageKeeps, KillKeeps DEF Next

LEMMA SpecInv == Spec => []Inv
  BY InitInv, NextInv, PTL DEF Spec

----------------------------------------------------------------------------
\* Type correctness of the directory and of the calls (cache.go).
THEOREM TypeCorrect == Spec => []TypeOK
<1>1. Inv => TypeOK
  BY DEF Inv
<1> QED BY SpecInv, <1>1, PTL

\* Short of an outage, no reader can ever find a torn entry (cache.go, writeAtomic).
THEOREM NamesHold == Spec => []NamesAreWhole
<1>1. Inv => NamesAreWhole
  BY DEF Inv
<1> QED BY SpecInv, <1>1, PTL

\* Short of an outage, only a Put that died, or that could not remove it, leaves a
\* temporary file behind (cache.go, writeAtomic).
THEOREM TempsHold == Spec => []TempsAreOwned
<1>1. Inv => TempsAreOwned
  BY DEF Inv
<1> QED BY SpecInv, <1>1, PTL

\* A Clear without an error leaves nothing that it found (cache.go, Clear).
THEOREM ClearHolds == Spec => []ClearIsThorough
<1>1. Inv => ClearIsThorough
  BY DEF Inv
<1> QED BY SpecInv, <1>1, PTL

----------------------------------------------------------------------------
\* The sum of RemovalsAddUp, and that both sets can be counted.
Counts == IsFiniteSet(Occupied) /\ IsFiniteSet(Marks) /\ RemovalsAddUp

LEMMA CountsInit == Init => Counts
<1> SUFFICES ASSUME Init PROVE Counts
  OBVIOUS
<1>1. Occupied = {} /\ Marks = {} /\ entries = 0
  BY DEF Init, Occupied, Marks
<1> QED BY <1>1, FS_EmptySet DEF Counts, RemovalsAddUp

\* What leaves the directory and the counts alone leaves the sum alone.
LEMMA CountsStay ==
    ASSUME Counts, UNCHANGED <<dir, removed, entries>>
    PROVE  Counts'
<1>1. Occupied' = Occupied /\ Marks' = Marks
  BY DEF Occupied, Marks
<1> QED BY <1>1 DEF Counts, RemovalsAddUp

\* A rename adds an entry, and is counted, just when nothing was under the key.
LEMMA RenameCounts ==
    ASSUME TypeOK, Counts, NEW p \in Puts, Rename(p)
    PROVE  Counts'
<1>1. PICK k \in Keys : k = key[p]
  BY DEF TypeOK
<1>2. Occupied' = Occupied \cup {k} /\ Marks' = Marks
  BY <1>1, CallsAssumption DEF TypeOK, Rename, Occupied, Marks
<1>3. entries' = IF k \in Occupied THEN entries ELSE entries + 1
  BY <1>1 DEF Rename, Occupied
<1>4. /\ IsFiniteSet(Occupied \cup {k})
      /\ Cardinality(Occupied \cup {k}) =
            IF k \in Occupied THEN Cardinality(Occupied) ELSE Cardinality(Occupied) + 1
  BY FS_AddElement DEF Counts
<1>5. Cardinality(Occupied) \in Nat /\ Cardinality(Marks) \in Nat
  BY FS_CardinalityType DEF Counts
<1> QED BY <1>2, <1>3, <1>4, <1>5 DEF Counts, RemovalsAddUp

\* A removal takes away one entry and makes one mark.
LEMMA RemoveCounts ==
    ASSUME TypeOK, Counts, NEW c \in Clears, NEW k \in Keys, Remove(c, k)
    PROVE  Counts'
<1>1. PICK r \in Nat : r = removed[c]
  BY DEF TypeOK
<1>2. Occupied' = Occupied \ {k} /\ k \in Occupied
  BY DEF TypeOK, Remove, Occupied
<1>3. Marks' = Marks \cup {<<c, r + 1>>}
  <2>1. \A m : m \in Marks' <=> \E d \in Clears : \E i \in 1..removed'[d] : m = <<d, i>>
    BY DEF Marks
  <2>2. \A m : m \in Marks <=> \E d \in Clears : \E i \in 1..removed[d] : m = <<d, i>>
    BY DEF Marks
  <2>3. \A d \in Clears : 1..removed'[d] = IF d = c THEN 1..(r + 1) ELSE 1..removed[d]
    BY <1>1 DEF TypeOK, Remove
  <2>4. 1..(r + 1) = (1..r) \cup {r + 1}
    BY <1>1
  <2>5. ASSUME NEW m \in Marks' PROVE m \in Marks \cup {<<c, r + 1>>}
    <3>1. PICK d \in Clears, i \in Int : i \in 1..removed'[d] /\ m = <<d, i>>
      BY <2>1
    <3>2. (d = c /\ i = r + 1) \/ i \in 1..removed[d]
      BY <1>1, <2>3, <2>4, <3>1
    <3> QED BY <2>2, <3>1, <3>2
  <2>6. ASSUME NEW m \in Marks PROVE m \in Marks'
    <3>1. PICK d \in Clears, i \in Int : i \in 1..removed[d] /\ m = <<d, i>>
      BY <2>2
    <3>2. i \in 1..removed'[d]
      BY <1>1, <2>3, <2>4, <3>1
    <3> QED BY <2>1, <3>1, <3>2
  <2>7. <<c, r + 1>> \in Marks'
    <3>1. 1..removed'[c] = 1..(r + 1)
      BY <2>3
    <3>2. r + 1 \in 1..(r + 1)
      BY <1>1
    <3> QED BY <2>1, <3>1, <3>2
  <2> QED BY <2>5, <2>6, <2>7
<1>4. <<c, r + 1>> \notin Marks
  BY <1>1 DEF Marks
<1>5. /\ IsFiniteSet(Occupied \ {k})
      /\ Cardinality(Occupied \ {k}) = Cardinality(Occupied) - 1
  BY <1>2, FS_RemoveElement DEF Counts
<1>6. /\ IsFiniteSet(Marks \cup {<<c, r + 1>>})
      /\ Cardinality(Marks \cup {<<c, r + 1>>}) = Cardinality(Marks) + 1
  BY <1>4, FS_AddElement DEF Counts
<1>7. Cardinality(Occupied) \in Nat /\ Cardinality(Marks) \in Nat
  BY FS_CardinalityType DEF Counts
<1> QED BY <1>2, <1>3, <1>5, <1>6, <1>7 DEF Remove, Counts, RemovalsAddUp

\* After an outage the count starts again, from the entries that are left.
LEMMA OutageCounts == Outage => Counts'
<1> SUFFICES ASSUME Outage PROVE Counts'
  OBVIOUS
<1>1. PICK names \in [Keys -> Puts \cup {None}] :
          dir' = names /\ entries' = Cardinality({k \in Keys : names[k] # None})
  BY DEF Outage
<1>2. Occupied' = {k \in Keys : names[k] # None}
  BY <1>1 DEF Occupied
<1>3. Marks' = {}
  BY DEF Outage, Marks
<1>4. IsFiniteSet(Occupied') /\ Cardinality(Occupied') \in Nat
  BY <1>2, OutageEntries
<1> QED BY <1>1, <1>2, <1>3, <1>4, FS_EmptySet DEF Counts, RemovalsAddUp

LEMMA NextCounts == Inv /\ Counts /\ [Next]_vars => Counts'
<1> SUFFICES ASSUME Inv, Counts, [Next]_vars PROVE Counts'
  OBVIOUS
<1>1. ASSUME NEW p \in Puts, PutStep(p) PROVE Counts'
  BY <1>1, RenameCounts, CountsStay DEF Inv, PutStep, CreateTemp, PutFailsEarly, Write, WriteFails,
                                        PutReturns, CleanUp, CleanUpFails
<1>2. ASSUME NEW g \in Gets, GetStep(g) PROVE Counts'
  BY <1>2, CountsStay DEF GetStep, Open, Read
<1>3. ASSUME NEW c \in Clears, ClearStep(c) PROVE Counts'
  BY <1>3, RemoveCounts, CountsStay DEF Inv, ClearStep, ReadDir, ReadDirFails, RemoveFails,
                                        ClearReturns
<1>4. ASSUME NEW c \in Calls, Call(c) \/ Kill(c) PROVE Counts'
  BY <1>4, CountsStay DEF Call, Kill
<1>5. CASE Tick \/ UNCHANGED vars
  BY <1>5, CountsStay DEF Tick, vars
<1>6. CASE Outage
  BY <1>6, OutageCounts
<1> QED BY <1>1, <1>2, <1>3, <1>4, <1>5, <1>6 DEF Next

\* However Puts and Clears overlap, and whichever of them dies, every entry there was
\* when the machine came up, or created since, is there or in exactly one Clear's count
\* (cache.go, Clear).
THEOREM RemovalsHold == Spec => []RemovalsAddUp
<1>1. Counts => RemovalsAddUp
  BY DEF Counts
<1> QED BY SpecInv, CountsInit, NextCounts, <1>1, PTL DEF Spec

----------------------------------------------------------------------------
(* The refinement.  The mapped state is MapOf, PastOf, key, at, PhaseOf, GotOf. *)

mapped == <<MapOf, PastOf, key, at, PhaseOf, GotOf>>

\* A record is not None, so the map tells an entry from no entry.
LEMMA RecordIsSome ==
    ASSUME TypeOK, NEW p \in Puts
    PROVE  Record(p) # None
  BY NoneAssumption DEF TypeOK, Record

\* Steps that touch neither the names, nor a named or open inode, keep the map and
\* what may become of it.
LEMMA StandingStays ==
    ASSUME Inv, \A p \in Puts : Named(p) => data'[p] = data[p] /\ at'[p] = at[p],
           NEW k \in Keys, NEW p \in past[k]
    PROVE  Standing(p)' = Standing(p)
<1>1. p # None => p \in Puts /\ data'[p] = data[p] /\ at'[p] = at[p]
  BY DEF Inv, Files, Named
<1> QED BY <1>1 DEF Standing, Record

LEMMA MapStays ==
    ASSUME Inv, UNCHANGED <<dir, past>>,
           \A p \in Puts : Named(p) => data'[p] = data[p] /\ at'[p] = at[p]
    PROVE  MapOf' = MapOf /\ PastOf' = PastOf
<1>1. \A k \in Keys : \A p \in past[k] : Standing(p)' = Standing(p)
  BY StandingStays
<1>2. \A k \in Keys : dir[k] \in past[k]
  BY DEF Inv, Files
<1>3. MapOf' = MapOf
  <2>1. ASSUME NEW k \in Keys PROVE Standing(dir[k])' = Standing(dir[k])
    <3>1. PICK p \in past[k] : p = dir[k]
      BY <1>2
    <3>2. Standing(dir[k])' = Standing(p)'
      BY <3>1 DEF Standing, Record
    <3> QED BY <1>1, <3>1, <3>2
  <2> QED BY <2>1 DEF MapOf
<1>4. PastOf' = PastOf
  <2>1. ASSUME NEW k \in Keys PROVE {Standing(p)' : p \in past[k]} = {Standing(p) : p \in past[k]}
    BY <1>1
  <2> QED BY <2>1 DEF PastOf
<1> QED BY <1>3, <1>4

LEMMA GotStays ==
    ASSUME Inv, UNCHANGED <<got, open>>,
           \A p \in Puts : Named(p) => data'[p] = data[p] /\ at'[p] = at[p],
           \A g \in Gets : /\ at'[g] = at[g] \/ pc[g] # "opened"
                           /\ pc'[g] = "opened" <=> pc[g] = "opened"
    PROVE  GotOf' = GotOf
<1>1. \A g \in Gets : pc[g] = "opened" => Reading(g)' = Reading(g)
  BY DEF Inv, Files, Named, Reading, Record
<1> QED BY <1>1 DEF GotOf

\* A call moves from one place to another: so does its phase.
LEMMA PhaseMoves ==
    ASSUME TypeOK, NEW c \in Calls, NEW place, GoTo(c, place)
    PROVE  PhaseOf' = [PhaseOf EXCEPT ![c] = Phase(place)]
<1>1. pc' = [pc EXCEPT ![c] = place] /\ DOMAIN pc = Calls
  BY DEF GoTo, TypeOK
<1>2. \A d \in Calls : pc'[d] = IF d = c THEN place ELSE pc[d]
  BY <1>1
<1> QED BY <1>2 DEF PhaseOf

LEMMA CallMaps ==
    ASSUME Inv, NEW c \in Calls, Call(c)
    PROVE  Map!MapNext
<1>1. PhaseOf[c] = "idle" /\ PhaseOf' = [PhaseOf EXCEPT ![c] = "called"]
  <2>1. GoTo(c, "called") /\ pc[c] = "idle"
    BY DEF Call
  <2> QED BY <2>1, PhaseMoves DEF Inv, PhaseOf, Phase
<1>2. \A p \in Puts : Named(p) => p # c
  BY DEF Call, Named
<1>3. MapOf' = MapOf /\ PastOf' = PastOf
  BY <1>2, CallsAssumption, MapStays DEF Call, Inv, TypeOK
<1>4. GotOf' = GotOf
  <2>1. \A g \in Gets : pc'[g] = "opened" <=> pc[g] = "opened"
    BY DEF Call, GoTo, Inv, TypeOK, Calls
  <2>2. \A g \in Gets : at'[g] = at[g] \/ pc[g] # "opened"
    BY DEF Call, Inv, TypeOK
  <2>3. \A p \in Puts : Named(p) => data'[p] = data[p] /\ at'[p] = at[p]
    BY <1>2 DEF Call, Inv, TypeOK
  <2> QED BY <2>1, <2>2, <2>3, GotStays DEF Call
<1>5. IF c \in Clears THEN UNCHANGED at ELSE \E t \in 0..Horizon : at' = [at EXCEPT ![c] = t]
  BY DEF Call, Inv, TypeOK
<1>6. Map!Call(c)
  BY <1>1, <1>3, <1>4, <1>5 DEF Map!Call, Call
<1> QED BY <1>6 DEF Map!MapNext, Map!Calls, Calls

LEMMA PutMaps ==
    ASSUME Inv, NEW p \in Puts, PutStep(p)
    PROVE  Map!MapNext \/ UNCHANGED mapped
<1>0. /\ p \in Calls /\ p \notin Clears /\ p \notin Gets /\ TypeOK
      /\ UNCHANGED <<key, at, open, got>>
      /\ \A g \in Gets : g # p /\ pc'[g] = pc[g]
  BY CallsAssumption DEF Calls, Inv, TypeOK, GoTo, PutStep, CreateTemp, PutFailsEarly, Write,
                         WriteFails, Rename, PutReturns, CleanUp, CleanUpFails
<1>1. \A q \in Puts : Named(q) => data'[q] = data[q]
  BY <1>0 DEF TypeOK, Named, PutStep, CreateTemp, PutFailsEarly, Write, WriteFails, Rename,
              PutReturns, CleanUp, CleanUpFails
<1>2. GotOf' = GotOf
  BY <1>0, <1>1, GotStays
<1>3. CASE CreateTemp(p) \/ Write(p) \/ WriteFails(p)
  <2>1. PICK place \in {"created", "written", "cleaning"} : GoTo(p, place)
    BY <1>3 DEF CreateTemp, Write, WriteFails
  <2>2. PhaseOf[p] = "called"
    BY <1>0, <1>3 DEF CreateTemp, Write, WriteFails, PhaseOf, Phase
  <2>3. Phase(place) = "called"
    BY DEF Phase
  <2>4. PhaseOf' = PhaseOf
    <3>1. PhaseOf' = [PhaseOf EXCEPT ![p] = "called"]
      BY <1>0, <2>1, <2>3, PhaseMoves
    <3> QED BY <2>2, <3>1 DEF PhaseOf
  <2>5. MapOf' = MapOf /\ PastOf' = PastOf
    BY <1>0, <1>1, <1>3, MapStays DEF CreateTemp, Write, WriteFails
  <2> QED BY <1>0, <1>2, <2>4, <2>5 DEF mapped
<1>4. CASE PutFailsEarly(p) \/ CleanUp(p) \/ CleanUpFails(p)
  <2>1. /\ GoTo(p, "errored") \/ GoTo(p, "littered")
        /\ pc[p] \in {"called", "cleaning"}
        /\ UNCHANGED <<dir, past>>
    BY <1>4 DEF PutFailsEarly, CleanUp, CleanUpFails
  <2>2. PhaseOf[p] = "called" /\ PhaseOf' = [PhaseOf EXCEPT ![p] = "errored"]
    <3>1. Phase("errored") = "errored" /\ Phase("littered") = "errored"
      BY DEF Phase
    <3>2. PhaseOf' = [PhaseOf EXCEPT ![p] = "errored"]
      BY <1>0, <2>1, <3>1, PhaseMoves
    <3> QED BY <1>0, <2>1, <3>2 DEF PhaseOf, Phase
  <2>3. MapOf' = MapOf /\ PastOf' = PastOf
    BY <1>0, <1>1, <2>1, MapStays
  <2>4. Map!Fail(p)
    BY <1>0, <1>2, <2>2, <2>3 DEF Map!Fail
  <2> QED BY <1>0, <2>4 DEF Map!MapNext, Map!Calls, Calls
<1>5. CASE Rename(p)
  <2>1. /\ GoTo(p, "renamed") /\ pc[p] = "written" /\ data' = data
        /\ dir' = [dir EXCEPT ![key[p]] = p]
        /\ past' = [past EXCEPT ![key[p]] = @ \cup {p}]
    BY <1>5 DEF Rename
  <2>2. PhaseOf[p] = "called" /\ PhaseOf' = [PhaseOf EXCEPT ![p] = "effected"]
    BY <1>0, <2>1, PhaseMoves DEF PhaseOf, Phase
  <2>3. Standing(p) = Record(p) /\ key[p] \in Keys
    BY <1>0, <2>1, CallsAssumption DEF Inv, Files, TypeOK, Standing
  <2>4. \A q : Standing(q)' = Standing(q)
    BY <1>0, <2>1 DEF Standing, Record
  <2>5. MapOf' = [MapOf EXCEPT ![key[p]] = Record(p)]
    <3>1. \A k \in Keys : dir'[k] = IF k = key[p] THEN p ELSE dir[k]
      BY <1>0, <2>1 DEF TypeOK
    <3>2. ASSUME NEW k \in Keys
          PROVE  Standing(dir[k])' = IF k = key[p] THEN Record(p) ELSE Standing(dir[k])
      <4>1. PICK q : q = dir'[k]
        OBVIOUS
      <4>2. Standing(dir[k])' = Standing(q)'
        BY <4>1 DEF Standing, Record
      <4> QED BY <2>3, <2>4, <3>1, <4>1, <4>2
    <3> QED BY <3>2 DEF MapOf
  <2>6. PastOf' = [PastOf EXCEPT ![key[p]] = @ \cup {Record(p)}]
    <3>1. \A k \in Keys : past'[k] = IF k = key[p] THEN past[k] \cup {p} ELSE past[k]
      BY <1>0, <2>1 DEF TypeOK
    <3>2. ASSUME NEW k \in Keys
          PROVE  {Standing(q)' : q \in past'[k]}
                    = IF k = key[p] THEN {Standing(q) : q \in past[k]} \cup {Record(p)}
                                    ELSE {Standing(q) : q \in past[k]}
      <4>1. {Standing(q)' : q \in past'[k]} = {Standing(q) : q \in past'[k]}
        BY <2>4
      <4>2. CASE k = key[p]
        <5>1. past'[k] = past[k] \cup {p}
          BY <3>1, <4>2
        <5> QED BY <2>3, <4>1, <4>2, <5>1
      <4> QED BY <3>1, <4>1, <4>2
    <3> QED BY <3>2 DEF PastOf
  <2>7. Map!Record(p) = Record(p)
    BY DEF Map!Record, Record
  <2>8. Map!PutTakesEffect(p)
    BY <1>0, <1>2, <2>2, <2>5, <2>6, <2>7 DEF Map!PutTakesEffect
  <2> QED BY <2>8 DEF Map!MapNext
<1>6. CASE PutReturns(p)
  <2>1. GoTo(p, "returned") /\ pc[p] = "renamed" /\ UNCHANGED <<dir, past>>
    BY <1>6 DEF PutReturns
  <2>2. PhaseOf[p] = "effected" /\ PhaseOf' = [PhaseOf EXCEPT ![p] = "returned"]
    BY <1>0, <2>1, PhaseMoves DEF PhaseOf, Phase
  <2>3. MapOf' = MapOf /\ PastOf' = PastOf
    BY <1>0, <1>1, <2>1, MapStays
  <2>4. Map!Succeed(p)
    BY <1>0, <1>2, <2>2, <2>3 DEF Map!Succeed
  <2> QED BY <1>0, <2>4 DEF Map!MapNext, Map!Calls, Calls
<1> QED BY <1>3, <1>4, <1>5, <1>6 DEF PutStep

LEMMA GetMaps ==
    ASSUME Inv, NEW g \in Gets, GetStep(g)
    PROVE  Map!MapNext
<1>0. /\ g \in Calls /\ g \notin Clears /\ TypeOK /\ UNCHANGED <<key, at, data, dir, past>>
  BY CallsAssumption DEF Calls, Inv, GetStep, Open, Read
<1>1. MapOf' = MapOf /\ PastOf' = PastOf
  BY <1>0, MapStays
<1>2. \A q : Record(q)' = Record(q)
  BY <1>0 DEF Record
<1>3. CASE Open(g)
  <2>1. /\ GoTo(g, "opened") /\ pc[g] = "called" /\ got' = got
        /\ open' = [open EXCEPT ![g] = dir[key[g]]]
    BY <1>3 DEF Open
  <2>2. PhaseOf[g] = "called" /\ PhaseOf' = [PhaseOf EXCEPT ![g] = "effected"]
    BY <1>0, <2>1, PhaseMoves DEF PhaseOf, Phase
  <2>3. Reading(g)' = Map!Seen(MapOf[key[g]], at[g])
    <3>1. open'[g] = dir[key[g]] /\ key[g] \in Keys
      BY <1>0, <2>1 DEF TypeOK
    <3>2. CASE dir[key[g]] # None /\ data[dir[key[g]]] = "whole"
      <4>1. dir[key[g]] \in Puts /\ MapOf[key[g]] = Record(dir[key[g]])
        BY <1>0, <3>1, <3>2 DEF TypeOK, MapOf, Standing
      <4>2. MapOf[key[g]] # None /\ MapOf[key[g]].stamp = at[dir[key[g]]]
        BY <1>0, <4>1, RecordIsSome DEF Record
      <4> QED BY <1>0, <1>2, <3>1, <3>2, <4>1, <4>2 DEF Reading, Map!Seen
    <3>3. CASE ~(dir[key[g]] # None /\ data[dir[key[g]]] = "whole")
      <4>1. MapOf[key[g]] = None
        BY <3>1, <3>3 DEF MapOf, Standing
      <4> QED BY <1>0, <3>1, <3>3, <4>1 DEF Reading, Map!Seen
    <3> QED BY <3>2, <3>3
  <2>4. GotOf' = [GotOf EXCEPT ![g] = Map!Seen(MapOf[key[g]], at[g])]
    <3>1. pc'[g] = "opened" /\ \A h \in Gets : h # g => pc'[h] = pc[h] /\ open'[h] = open[h]
      BY <1>0, <2>1 DEF GoTo, TypeOK, Calls
    <3>2. \A h \in Gets : h # g => Reading(h)' = Reading(h)
      BY <1>0, <1>2, <3>1 DEF Reading
    <3> QED BY <2>1, <2>3, <3>1, <3>2 DEF GotOf
  <2>5. Map!GetTakesEffect(g)
    BY <1>0, <1>1, <2>2, <2>4 DEF Map!GetTakesEffect
  <2> QED BY <2>5 DEF Map!MapNext
<1>4. CASE Read(g)
  <2>1. /\ GoTo(g, "returned") /\ pc[g] = "opened" /\ open' = open
        /\ got' = [got EXCEPT ![g] = Reading(g)]
    BY <1>4 DEF Read
  <2>2. PhaseOf[g] = "effected" /\ PhaseOf' = [PhaseOf EXCEPT ![g] = "returned"]
    BY <1>0, <2>1, PhaseMoves DEF PhaseOf, Phase
  <2>3. GotOf' = GotOf
    <3>1. /\ pc'[g] = "returned" /\ got'[g] = Reading(g)
          /\ \A h \in Gets : h # g => pc'[h] = pc[h] /\ got'[h] = got[h]
      BY <1>0, <2>1 DEF GoTo, TypeOK, Calls
    <3>2. \A h \in Gets : Reading(h)' = Reading(h)
      BY <1>0, <1>2, <2>1 DEF Reading
    <3> QED BY <2>1, <3>1, <3>2 DEF GotOf
  <2>4. Map!Succeed(g)
    BY <1>0, <1>1, <2>2, <2>3 DEF Map!Succeed
  <2> QED BY <1>0, <2>4 DEF Map!MapNext, Map!Calls, Calls
<1> QED BY <1>3, <1>4 DEF GetStep

LEMMA ClearMaps ==
    ASSUME Inv, NEW c \in Clears, ClearStep(c)
    PROVE  Map!MapNext \/ UNCHANGED mapped
<1>0. /\ c \in Calls /\ c \notin Gets /\ TypeOK /\ UNCHANGED <<key, at, data, open, got>>
      /\ \A g \in Gets : pc'[g] = pc[g]
  BY CallsAssumption DEF Calls, Inv, TypeOK, GoTo, ClearStep, ReadDir, ReadDirFails, Remove,
                         RemoveFails, ClearReturns
<1>1. GotOf' = GotOf
  BY <1>0, GotStays
<1>2. CASE ReadDir(c)
  <2>1. GoTo(c, "removing") /\ pc[c] = "called" /\ UNCHANGED <<dir, past>>
    BY <1>2 DEF ReadDir
  <2>2. PhaseOf' = PhaseOf
    <3>1. PhaseOf' = [PhaseOf EXCEPT ![c] = "called"] /\ PhaseOf[c] = "called"
      BY <1>0, <2>1, PhaseMoves DEF PhaseOf, Phase
    <3> QED BY <3>1 DEF PhaseOf
  <2>3. MapOf' = MapOf /\ PastOf' = PastOf
    BY <1>0, <2>1, MapStays
  <2> QED BY <1>0, <1>1, <2>2, <2>3 DEF mapped
<1>3. CASE ReadDirFails(c) \/ RemoveFails(c)
  <2>1. GoTo(c, "errored") /\ pc[c] \in {"called", "removing"} /\ UNCHANGED <<dir, past>>
    BY <1>3 DEF ReadDirFails, RemoveFails
  <2>2. PhaseOf[c] = "called" /\ PhaseOf' = [PhaseOf EXCEPT ![c] = "errored"]
    BY <1>0, <2>1, PhaseMoves DEF PhaseOf, Phase
  <2>3. MapOf' = MapOf /\ PastOf' = PastOf
    BY <1>0, <2>1, MapStays
  <2>4. Map!Fail(c)
    BY <1>0, <1>1, <2>2, <2>3 DEF Map!Fail
  <2> QED BY <1>0, <2>4 DEF Map!MapNext, Map!Calls, Calls
<1>4. CASE ClearReturns(c)
  <2>1. GoTo(c, "returned") /\ pc[c] = "removing" /\ UNCHANGED <<dir, past>>
    BY <1>4 DEF ClearReturns
  <2>2. PhaseOf[c] = "called" /\ PhaseOf' = [PhaseOf EXCEPT ![c] = "returned"]
    BY <1>0, <2>1, PhaseMoves DEF PhaseOf, Phase
  <2>3. MapOf' = MapOf /\ PastOf' = PastOf
    BY <1>0, <2>1, MapStays
  <2>4. Map!Succeed(c)
    BY <1>0, <1>1, <2>2, <2>3 DEF Map!Succeed
  <2> QED BY <1>0, <2>4 DEF Map!MapNext, Map!Calls, Calls
<1>5. ASSUME NEW k \in Keys, Remove(c, k) PROVE Map!MapNext \/ UNCHANGED mapped
  <2>1. /\ pc' = pc /\ pc[c] = "removing"
        /\ dir' = [dir EXCEPT ![k] = None]
        /\ past' = [past EXCEPT ![k] = @ \cup {None}]
    BY <1>5 DEF Remove
  <2>2. PhaseOf' = PhaseOf /\ PhaseOf[c] = "called"
    BY <1>0, <2>1 DEF PhaseOf, Phase
  <2>3. Standing(None) = None /\ \A q : Standing(q)' = Standing(q)
    BY <1>0 DEF Standing, Record
  <2>4. MapOf' = [MapOf EXCEPT ![k] = None]
    <3>1. \A j \in Keys : dir'[j] = IF j = k THEN None ELSE dir[j]
      BY <1>0, <2>1 DEF TypeOK
    <3>2. ASSUME NEW j \in Keys
          PROVE  Standing(dir[j])' = IF j = k THEN None ELSE Standing(dir[j])
      <4>1. PICK q : q = dir'[j]
        OBVIOUS
      <4>2. Standing(dir[j])' = Standing(q)'
        BY <4>1 DEF Standing, Record
      <4> QED BY <2>3, <3>1, <4>1, <4>2
    <3> QED BY <3>2 DEF MapOf
  <2>5. PastOf' = [PastOf EXCEPT ![k] = @ \cup {None}]
    <3>1. \A j \in Keys : past'[j] = IF j = k THEN past[j] \cup {None} ELSE past[j]
      BY <1>0, <2>1 DEF TypeOK
    <3>2. ASSUME NEW j \in Keys
          PROVE  {Standing(q)' : q \in past'[j]}
                    = IF j = k THEN {Standing(q) : q \in past[j]} \cup {None}
                               ELSE {Standing(q) : q \in past[j]}
      BY <2>3, <3>1
    <3> QED BY <3>2 DEF PastOf
  <2>6. CASE MapOf[k] # None
    <3>1. Map!Removal(c, k)
      BY <1>0, <1>1, <2>2, <2>4, <2>5, <2>6 DEF Map!Removal
    <3> QED BY <3>1 DEF Map!MapNext
  <2>7. CASE MapOf[k] = None
    <3>1. MapOf' = MapOf
      BY <2>4, <2>7 DEF MapOf
    <3>2. None \in PastOf[k]
      <4>1. Standing(dir[k]) = None /\ dir[k] \in past[k]
        BY <2>7 DEF MapOf, Inv, Files
      <4> QED BY <4>1 DEF PastOf
    <3>3. PastOf' = PastOf
      BY <2>5, <3>2 DEF PastOf
    <3> QED BY <1>0, <1>1, <2>2, <3>1, <3>3 DEF mapped
  <2> QED BY <2>6, <2>7
<1> QED BY <1>2, <1>3, <1>4, <1>5 DEF ClearStep

LEMMA FaultMaps ==
    ASSUME Inv, (\E c \in Calls : Kill(c)) \/ Outage \/ Tick
    PROVE  Map!MapNext \/ UNCHANGED mapped
<1>0. TypeOK /\ Places /\ Answers /\ UNCHANGED <<key, at, got>>
  BY DEF Inv, Kill, Outage, Tick
<1>1. ASSUME NEW c \in Calls, Kill(c) PROVE Map!MapNext
  <2>1. GoTo(c, "died") /\ InProgress(c) /\ UNCHANGED <<data, dir, past, open>>
    BY <1>1 DEF Kill
  <2>2. PhaseOf[c] \in {"called", "effected"} /\ PhaseOf' = [PhaseOf EXCEPT ![c] = "died"]
    <3>1. pc[c] \in {"called", "created", "written", "renamed", "cleaning", "opened", "removing"}
      BY <1>0, <2>1 DEF InProgress, TypeOK
    <3> QED BY <1>0, <2>1, <3>1, PhaseMoves DEF PhaseOf, Phase
  <2>3. MapOf' = MapOf /\ PastOf' = PastOf
    BY <1>0, <2>1, MapStays
  <2>4. GotOf' = [g \in Gets |-> IF g = c THEN None ELSE GotOf[g]]
    <3>1. \A g \in Gets : pc'[g] = IF g = c THEN "died" ELSE pc[g]
      BY <1>0, <2>1 DEF GoTo, TypeOK, Calls
    <3>2. c \in Gets => got'[c] = None
      BY <1>0, <2>1 DEF Answers, InProgress
    <3>3. \A g \in Gets : Reading(g)' = Reading(g)
      BY <1>0, <2>1 DEF Reading, Record
    <3> QED BY <1>0, <3>1, <3>2, <3>3 DEF GotOf
  <2>5. Map!Die(c)
    BY <1>0, <2>2, <2>3, <2>4 DEF Map!Die
  <2> QED BY <2>5 DEF Map!MapNext, Map!Calls, Calls
<1>2. CASE Outage
  <2>1. PICK names \in [Keys -> Puts \cup {None}], files \in SUBSET Puts, torn \in SUBSET Puts :
            Left(names, files, torn)
    BY <1>2, OutageLeaves
  <2> USE DEF Left
  <2>2. \A c \in Calls : pc'[c] = IF InProgress(c) THEN "died" ELSE pc[c]
    BY <1>2 DEF Outage
  <2>3. PhaseOf' = [c \in Calls |-> IF PhaseOf[c] \in {"called", "effected"} THEN "died" ELSE PhaseOf[c]]
    <3>1. ASSUME NEW c \in Calls
          PROVE  PhaseOf'[c] = IF PhaseOf[c] \in {"called", "effected"} THEN "died" ELSE PhaseOf[c]
      <4>1. PhaseOf[c] = Phase(pc[c]) /\ PhaseOf'[c] = Phase(pc'[c])
        BY DEF PhaseOf
      <4>2. CASE InProgress(c)
        <5>1. pc[c] \in {"called", "created", "written", "renamed", "cleaning", "opened", "removing"}
          BY <1>0, <4>2 DEF InProgress, TypeOK
        <5> QED BY <2>2, <4>1, <4>2, <5>1 DEF Phase
      <4>3. CASE ~InProgress(c)
        <5>1. pc[c] \in {"idle", "returned", "errored", "littered", "died"}
          BY <4>3 DEF InProgress
        <5> QED BY <2>2, <4>1, <4>3, <5>1 DEF Phase
      <4> QED BY <4>2, <4>3
    <3> QED BY <3>1 DEF PhaseOf
  <2>4. GotOf' = [g \in Gets |-> IF PhaseOf[g] = "effected" THEN None ELSE GotOf[g]]
    <3>1. ASSUME NEW g \in Gets
          PROVE  GotOf'[g] = IF PhaseOf[g] = "effected" THEN None ELSE GotOf[g]
      <4>1. /\ g \in Calls /\ pc[g] \in {"idle", "called", "opened", "returned", "died"}
            /\ PhaseOf[g] = "effected" <=> pc[g] = "opened"
        BY <1>0 DEF Places, PhaseOf, Phase, Calls
      <4>2. pc'[g] # "opened" /\ GotOf'[g] = got[g]
        BY <1>0, <2>2, <4>1 DEF InProgress, GotOf
      <4> QED BY <1>0, <4>1, <4>2 DEF GotOf, Answers
    <3> QED BY <3>1 DEF GotOf
  <2>5. \A k \in Keys : MapOf'[k] \in (PastOf[k] \cup {None}) \cap (Map!Records \cup {None})
    <3> TAKE k \in Keys
    <3>1. PICK q \in past[k] : q = names[k]
      BY <2>1
    <3>2. MapOf'[k] = Standing(q)'
      BY <2>1, <3>1 DEF MapOf, Standing, Record
    <3>3. Standing(q)' \in {Standing(q), None}
      <4>1. q # None => q \in Puts /\ data'[q] \in {data[q], "part"}
        BY <1>0, <2>1, <3>1 DEF TypeOK
      <4> QED BY <1>0, <4>1 DEF Standing, Record
    <3>4. Standing(q) \in PastOf[k] /\ Standing(q) \in Map!Records \cup {None}
      BY <1>0 DEF PastOf, Standing, Record, Map!Records, TypeOK
    <3> QED BY <3>2, <3>3, <3>4
  <2>6. PastOf' = [k \in Keys |-> {MapOf'[k]}]
    <3>1. ASSUME NEW k \in Keys PROVE {Standing(q)' : q \in past'[k]} = {MapOf'[k]}
      <4>1. PICK n : n = names[k]
        OBVIOUS
      <4>2. past'[k] = {n} /\ MapOf'[k] = Standing(n)'
        BY <2>1, <4>1 DEF MapOf, Standing, Record
      <4> QED BY <4>2
    <3> QED BY <3>1 DEF PastOf
  <2>7. \E left \in [Keys -> Map!Records \cup {None}] :
           /\ \A k \in Keys : left[k] \in PastOf[k] \cup {None}
           /\ MapOf' = left
           /\ PastOf' = [k \in Keys |-> {left[k]}]
    <3>1. PICK left : left = MapOf'
      OBVIOUS
    <3>2. left = [k \in Keys |-> left[k]]
      BY <3>1 DEF MapOf
    <3>3. left \in [Keys -> Map!Records \cup {None}]
      BY <2>5, <3>1, <3>2
    <3> QED BY <2>5, <2>6, <3>1, <3>3
  <2>8. Map!Outage
    BY <1>0, <2>3, <2>4, <2>7 DEF Map!Outage, Map!Calls, Calls
  <2> QED BY <2>8 DEF Map!MapNext
<1>3. CASE Tick
  <2>1. UNCHANGED <<pc, data, dir, past, open>>
    BY <1>3 DEF Tick
  <2> QED BY <1>0, <2>1, MapStays, GotStays DEF mapped, PhaseOf
<1> QED BY <1>1, <1>2, <1>3

\* The files implement the map: whatever calls overlap or are killed, and when an outage
\* undoes what was never synced, which the map allows for as well (cache.go, writeAtomic).
THEOREM Refinement == Spec => ImplementsMap
<1>1. Init => Map!MapInit
  <2> SUFFICES ASSUME Init PROVE Map!MapInit
    OBVIOUS
  <2>1. MapOf = [k \in Keys |-> None] /\ PastOf = [k \in Keys |-> {None}]
    BY DEF Init, MapOf, PastOf, Standing
  <2>2. PhaseOf = [c \in Map!Calls |-> "idle"]
    BY DEF Init, PhaseOf, Phase, Map!Calls, Calls
  <2>3. GotOf = [g \in Gets |-> None]
    BY DEF Init, GotOf, Calls
  <2> QED BY <2>1, <2>2, <2>3 DEF Init, Map!MapInit
<1>2. Inv /\ [Next]_vars => [Map!MapNext]_(Map!mapVars)
  <2> SUFFICES ASSUME Inv, [Next]_vars PROVE Map!MapNext \/ UNCHANGED mapped
    BY DEF Map!mapVars, mapped
  <2>1. CASE UNCHANGED vars
    BY <2>1 DEF vars, mapped, MapOf, PastOf, Standing, PhaseOf, GotOf, Reading, Record
  <2> QED BY <2>1, CallMaps, PutMaps, GetMaps, ClearMaps, FaultMaps DEF Next
<1>3. Spec => Map!MapInit /\ [][Map!MapNext]_(Map!mapVars)
  BY <1>1, <1>2, SpecInv, PTL DEF Spec
<1> QED BY <1>3 DEF ImplementsMap, Map!MapSpec
=============================================================================
