--------------------------- MODULE LimiterProofs ---------------------------
(***************************************************************************)
(* Proofs about Limiter, for every budget, window and timeout.  The parts  *)
(* of the inductive invariant are:                                         *)
(*   Stamps     the slice is ordered, not in the future, and what prune    *)
(*              cut off has left the window;                               *)
(*   Sleeper    a sleeper waits for the oldest live stamp of a full slice, *)
(*              so the prune after the sleep makes room;                   *)
(*   Exchange   the request on the wire is the last one stamped, and it is *)
(*              not older than the HTTP timeout;                           *)
(*   Arrivals   upstream sees a request between its stamp and the next     *)
(*              one, at most one timeout late.                             *)
(***************************************************************************)
EXTENDS Limiter, FiniteSetTheorems, TLAPS

Stamps ==
    /\ \A i, j \in 1..Len(taken) : i <= j => taken[i] <= taken[j]
    /\ \A i \in 1..Len(taken) : taken[i] <= now
    /\ \A i \in 1..lo : now - taken[i] >= Window

Sleeper ==
    pc = "sleeping" => /\ Len(taken) - lo >= Max
                       /\ wake = taken[lo + 1] + Window

Exchange ==
    /\ pc \in {"sending", "awaiting"} =>
          Len(taken) > 0 /\ now - taken[Len(taken)] <= Timeout
    /\ Len(arrived) = IF pc = "sending" THEN Len(taken) - 1 ELSE Len(taken)

Arrivals ==
    \A k \in 1..Len(arrived) : arrived[k] # Lost =>
        /\ taken[k] <= arrived[k]
        /\ arrived[k] <= taken[k] + Timeout
        /\ arrived[k] <= now
        /\ k < Len(taken) => arrived[k] <= taken[k + 1]

IInv ==
    /\ TypeOK
    /\ Stamps
    /\ LocalCeiling
    /\ WithinBudget
    /\ Sleeper
    /\ Exchange
    /\ Arrivals

USE DEF Lost

----------------------------------------------------------------------------
\* Appending to a sequence keeps its elements and adds one at the end.
LEMMA AppendIndex ==
    ASSUME NEW S, NEW s \in Seq(S), NEW e \in S
    PROVE  /\ Append(s, e) \in Seq(S)
           /\ Len(Append(s, e)) = Len(s) + 1
           /\ \A i \in 1..Len(s) : Append(s, e)[i] = s[i]
           /\ Append(s, e)[Len(s) + 1] = e
  OBVIOUS

\* A request is admitted at c when everything cut off has left the window and
\* fewer than Max stamps stay: both ways through take come down to this.
LEMMA AdmitPreserves ==
    ASSUME IInv, NEW c \in lo..Len(taken), PrunedTo(c, now), Admit(c),
           Len(taken) - c < Max, pc \in {"idle", "sleeping"},
           UNCHANGED <<now, wake, arrived>>
    PROVE  IInv'
<1> USE MaxAssumption, WindowAssumption, TimeoutAssumption
<1>1. /\ now \in Nat /\ taken \in Seq(Nat) /\ lo \in Nat /\ Len(taken) \in Nat
      /\ taken' = Append(taken, now) /\ lo' = c /\ pc' = "sending"
      /\ now' = now /\ wake' = wake /\ arrived' = arrived
  BY HorizonAssumption DEF IInv, TypeOK, Admit
<1>2. /\ taken' \in Seq(Nat)
      /\ Len(taken') = Len(taken) + 1
      /\ \A i \in 1..Len(taken) : taken'[i] = taken[i]
      /\ taken'[Len(taken) + 1] = now
  BY <1>1, AppendIndex
<1>3. \A i \in 1..c : now - taken[i] >= Window
  BY <1>1 DEF IInv, Stamps, PrunedTo
<1>4. \A i \in 1..Len(taken) : taken[i] \in Nat /\ taken[i] <= now
  BY <1>1 DEF IInv, Stamps
<1>5. TypeOK'
  BY <1>1, <1>2 DEF IInv, TypeOK, Phases
<1>6. Stamps'
  <2>1. \A i, j \in 1..Len(taken') : i <= j => taken'[i] <= taken'[j]
    BY <1>1, <1>2, <1>4 DEF IInv, Stamps
  <2>2. \A i \in 1..Len(taken') : taken'[i] <= now'
    BY <1>1, <1>2, <1>4
  <2>3. \A i \in 1..lo' : now' - taken'[i] >= Window
    BY <1>1, <1>2, <1>3
  <2> QED BY <2>1, <2>2, <2>3 DEF Stamps
<1>7. LocalCeiling'
  <2> SUFFICES ASSUME NEW i \in 1..Len(taken'), i + Max <= Len(taken')
               PROVE  taken'[i + Max] - taken'[i] >= Window
    BY DEF LocalCeiling
  <2>1. CASE i + Max <= Len(taken)
    BY <2>1, <1>1, <1>2 DEF IInv, LocalCeiling
  <2>2. CASE i + Max = Len(taken) + 1
    <3>1. i \in 1..c
      BY <2>2, <1>1
    <3> QED BY <3>1, <2>2, <1>1, <1>2, <1>3
  <2>3. i + Max <= Len(taken) \/ i + Max = Len(taken) + 1
    <3>1. i \in Nat /\ i + Max <= Len(taken) + 1 /\ Len(taken) \in Nat
      BY <1>1, <1>2
    <3> QED BY <3>1
  <2> QED BY <2>1, <2>2, <2>3
<1>8. WithinBudget'
  BY <1>1, <1>2 DEF WithinBudget, Requests
<1>9. Sleeper'
  BY <1>1 DEF Sleeper
<1>10. Exchange'
  BY <1>1, <1>2 DEF IInv, Exchange
<1>11. Arrivals'
  <2>1. Len(arrived) = Len(taken)
    BY DEF IInv, Exchange
  <2> SUFFICES ASSUME NEW k \in 1..Len(arrived), arrived[k] # Lost
               PROVE  /\ taken'[k] <= arrived[k]
                      /\ arrived[k] <= taken'[k] + Timeout
                      /\ arrived[k] <= now
                      /\ k < Len(taken') => arrived[k] <= taken'[k + 1]
    BY <1>1 DEF Arrivals
  <2>2. /\ taken[k] <= arrived[k] /\ arrived[k] <= taken[k] + Timeout
        /\ arrived[k] <= now
        /\ k < Len(taken) => arrived[k] <= taken[k + 1]
    BY DEF IInv, Arrivals
  <2>3. CASE k < Len(taken)
    BY <2>1, <2>2, <2>3, <1>1, <1>2
  <2>4. CASE k = Len(taken)
    BY <2>1, <2>2, <2>4, <1>1, <1>2
  <2> QED BY <2>1, <2>3, <2>4, <1>1
<1> QED BY <1>5, <1>6, <1>7, <1>8, <1>9, <1>10, <1>11 DEF IInv

\* After the sleep the oldest live stamp is a window old, so prune cuts it.
LEMMA WakeMakesRoom ==
    ASSUME IInv, pc = "sleeping", now >= wake,
           NEW c \in lo..Len(taken), PrunedTo(c, now)
    PROVE  Len(taken) - c < Max
<1>1. /\ now \in Nat /\ lo \in Nat /\ Len(taken) \in Nat /\ taken \in Seq(Nat)
      /\ Len(taken) - lo = Max /\ wake = taken[lo + 1] + Window
  BY MaxAssumption, HorizonAssumption
     DEF IInv, TypeOK, WithinBudget, Requests, Sleeper
<1>2. taken[lo + 1] \in Nat
  BY <1>1, MaxAssumption
<1>3. c # lo
  <2> SUFFICES ASSUME c = lo PROVE FALSE
    OBVIOUS
  <2>1. now - taken[lo + 1] < Window
    BY <1>1, MaxAssumption DEF PrunedTo
  <2> QED BY <2>1, <1>1, <1>2, WindowAssumption
<1> QED BY <1>1, <1>3

----------------------------------------------------------------------------
LEMMA InitIInv == Init => IInv
<1> SUFFICES ASSUME Init PROVE IInv
  OBVIOUS
<1> USE HorizonAssumption, MaxAssumption
<1>1. /\ taken = <<>> /\ arrived = <<>> /\ now = 0 /\ lo = 0 /\ wake = 0 /\ pc = "idle"
      /\ taken \in Seq(Nat) /\ arrived \in Seq(Nat \cup {Lost})
      /\ Len(taken) = 0 /\ Len(arrived) = 0
  BY DEF Init
<1>2. TypeOK /\ Stamps
  BY <1>1 DEF TypeOK, Phases, Stamps
<1>3. LocalCeiling /\ WithinBudget
  BY <1>1 DEF LocalCeiling, WithinBudget, Requests
<1>4. Sleeper /\ Exchange /\ Arrivals
  BY <1>1 DEF Sleeper, Exchange, Arrivals
<1> QED BY <1>2, <1>3, <1>4 DEF IInv

LEMMA NextIInv == IInv /\ [Next]_vars => IInv'
<1> SUFFICES ASSUME IInv, [Next]_vars PROVE IInv'
  OBVIOUS
<1> USE MaxAssumption, WindowAssumption, TimeoutAssumption, HorizonAssumption
<1>0. /\ now \in Nat /\ now \in 0..Horizon /\ taken \in Seq(Nat) /\ lo \in Nat
      /\ Len(taken) \in Nat /\ lo \in 0..Len(taken) /\ arrived \in Seq(Nat \cup {Lost})
      /\ wake \in Nat /\ pc \in Phases
      /\ \A i \in 1..Len(taken) : taken[i] \in Nat
  BY DEF IInv, TypeOK
<1>1. CASE TakeNow
  BY <1>1, AdmitPreserves DEF TakeNow
<1>2. CASE TakeWait
  <2> PICK c \in lo..Len(taken) : /\ PrunedTo(c, now) /\ Len(taken) - c >= Max
                                  /\ lo' = c /\ wake' = FirstFree(c)
    BY <1>2 DEF TakeWait
  <2>1. pc = "idle" /\ pc' = "sleeping" /\ UNCHANGED <<now, taken, arrived>>
    BY <1>2 DEF TakeWait
  <2>2. TypeOK'
    <3>1. c \in 0..Len(taken) /\ c + 1 \in 1..Len(taken)
      BY <1>0
    <3>2. taken[c + 1] + Window \in Nat
      BY <1>0, <3>1
    <3> QED BY <2>1, <1>0, <3>1, <3>2 DEF IInv, TypeOK, Phases, FirstFree
  <2>3. Stamps'
    BY <2>1, <1>0 DEF IInv, Stamps, PrunedTo
  <2>4. LocalCeiling' /\ WithinBudget'
    BY <2>1, <1>0 DEF IInv, LocalCeiling, WithinBudget, Requests
  <2>5. Sleeper' /\ Exchange' /\ Arrivals'
    BY <2>1, <1>0 DEF IInv, Sleeper, Exchange, Arrivals, FirstFree
  <2> QED BY <2>2, <2>3, <2>4, <2>5 DEF IInv
<1>3. CASE Wake
  <2> PICK c \in lo..Len(taken) : PrunedTo(c, now) /\ Admit(c)
    BY <1>3 DEF Wake
  <2>1. pc = "sleeping" /\ now >= wake /\ UNCHANGED <<now, wake, arrived>>
    BY <1>3 DEF Wake
  <2>2. Len(taken) - c < Max
    BY <2>1, WakeMakesRoom
  <2> QED BY <2>1, <2>2, AdmitPreserves
<1>4. CASE Send \/ SendFails
  <2> PICK a \in {now, Lost} : arrived' = Append(arrived, a)
    BY <1>4 DEF Send, SendFails
  <2>1. /\ pc = "sending" /\ pc' \in {"awaiting", "idle"}
        /\ a = Lost => pc' \in Phases
        /\ pc' = "idle" \/ pc' = "awaiting"
        /\ UNCHANGED <<now, taken, lo, wake>>
    BY <1>4 DEF Send, SendFails, Phases
  <2>2. /\ Len(arrived) = Len(taken) - 1
        /\ arrived' \in Seq(Nat \cup {Lost})
        /\ Len(arrived') = Len(taken)
        /\ \A k \in 1..Len(arrived) : arrived'[k] = arrived[k]
        /\ arrived'[Len(taken)] = a
    <3>1. a \in Nat \cup {Lost} /\ Len(arrived) = Len(taken) - 1
      BY <2>1, <1>0 DEF IInv, Exchange
    <3> QED BY <3>1, <1>0, AppendIndex
  <2>3. TypeOK' /\ Stamps' /\ LocalCeiling' /\ WithinBudget' /\ Sleeper'
    BY <2>1, <2>2, <1>0
       DEF IInv, TypeOK, Phases, Stamps, LocalCeiling, WithinBudget, Requests, Sleeper
  <2>4. Exchange'
    BY <2>1, <2>2, <1>0 DEF IInv, Exchange
  <2>5. Arrivals'
    <3> SUFFICES ASSUME NEW k \in 1..Len(taken), arrived'[k] # Lost
                 PROVE  /\ taken[k] <= arrived'[k]
                        /\ arrived'[k] <= taken[k] + Timeout
                        /\ arrived'[k] <= now
                        /\ k < Len(taken) => arrived'[k] <= taken[k + 1]
      BY <2>1, <2>2 DEF Arrivals
    <3>1. CASE k < Len(taken)
      <4>1. k \in 1..Len(arrived) /\ arrived'[k] = arrived[k]
        BY <3>1, <2>2, <1>0
      <4> QED BY <3>1, <4>1 DEF IInv, Arrivals
    <3>2. CASE k = Len(taken)
      <4>1. arrived'[k] = now /\ taken[k] \in Nat
        BY <3>2, <2>2, <1>0
      <4>2. taken[k] <= now /\ now - taken[k] <= Timeout
        BY <3>2, <2>1, <1>0 DEF IInv, Stamps, Exchange
      <4>3. now <= taken[k] + Timeout
        BY <4>1, <4>2, <1>0
      <4> QED BY <3>2, <4>1, <4>2, <4>3, <1>0
    <3>3. k < Len(taken) \/ k = Len(taken)
      BY <1>0
    <3> QED BY <3>1, <3>2, <3>3
  <2> QED BY <2>3, <2>4, <2>5 DEF IInv
<1>5. CASE Return
  <2>1. pc = "awaiting" /\ pc' = "idle" /\ UNCHANGED <<now, taken, lo, wake, arrived>>
    BY <1>5 DEF Return
  <2>2. TypeOK' /\ Stamps' /\ LocalCeiling' /\ WithinBudget'
    BY <2>1 DEF IInv, TypeOK, Phases, Stamps, LocalCeiling, WithinBudget, Requests
  <2>3. Sleeper' /\ Exchange' /\ Arrivals'
    BY <2>1 DEF IInv, Sleeper, Exchange, Arrivals
  <2> QED BY <2>2, <2>3 DEF IInv
<1>6. CASE Tick
  <2>1. now < Horizon /\ now' = now + 1 /\ ExchangeMayLast
        /\ UNCHANGED <<taken, lo, pc, wake, arrived>>
    BY <1>6 DEF Tick
  <2>2. TypeOK'
    BY <2>1, <1>0 DEF IInv, TypeOK
  <2>3. Stamps'
    <3>1. ASSUME NEW i \in 1..Len(taken) PROVE taken[i] <= now'
      <4>1. taken[i] \in Nat /\ taken[i] <= now
        BY <1>0 DEF IInv, Stamps
      <4> QED BY <4>1, <2>1, <1>0
    <3>2. ASSUME NEW i \in 1..lo PROVE now' - taken[i] >= Window
      <4>1. i \in 1..Len(taken)
        BY <1>0
      <4>2. taken[i] \in Nat /\ now - taken[i] >= Window
        BY <4>1, <1>0 DEF IInv, Stamps
      <4> QED BY <4>2, <2>1, <1>0
    <3> QED BY <2>1, <3>1, <3>2 DEF IInv, Stamps
  <2>4. LocalCeiling' /\ WithinBudget' /\ Sleeper'
    BY <2>1 DEF IInv, LocalCeiling, WithinBudget, Requests, Sleeper
  <2>5. Exchange'
    BY <2>1, <1>0 DEF IInv, Exchange, ExchangeMayLast
  <2>6. Arrivals'
    BY <2>1, <1>0 DEF IInv, Arrivals, TypeOK
  <2> QED BY <2>2, <2>3, <2>4, <2>5, <2>6 DEF IInv
<1>7. CASE UNCHANGED vars
  BY <1>7 DEF vars, IInv, TypeOK, Stamps, LocalCeiling, WithinBudget, Requests,
              Sleeper, Exchange, Arrivals
<1> QED BY <1>1, <1>2, <1>3, <1>4, <1>5, <1>6, <1>7 DEF Next

THEOREM SpecIInv == Spec => []IInv
  BY InitIInv, NextIInv, PTL DEF Spec

----------------------------------------------------------------------------
LEMMA UpstreamFromIInv == IInv => UpstreamSlack /\ UpstreamWithinTimeout
<1> SUFFICES ASSUME IInv PROVE UpstreamSlack /\ UpstreamWithinTimeout
  OBVIOUS
<1> USE MaxAssumption, WindowAssumption, TimeoutAssumption
<1>1. /\ Len(taken) \in Nat /\ Len(arrived) \in Nat
      /\ Len(arrived) <= Len(taken) /\ Len(taken) <= Len(arrived) + 1
      /\ \A i \in 1..Len(taken) : taken[i] \in Nat
      /\ \A i \in 1..Len(arrived) : arrived[i] # Lost => arrived[i] \in Nat
  <2>1. /\ taken \in Seq(Nat) /\ arrived \in Seq(Nat \cup {Lost})
        /\ Len(arrived) = Len(taken) \/ Len(arrived) = Len(taken) - 1
    BY DEF IInv, TypeOK, Exchange
  <2> QED BY <2>1
<1>2. \A i, j \in 1..Len(taken) : i + Max <= j => taken[j] - taken[i] >= Window
  <2> SUFFICES ASSUME NEW i \in 1..Len(taken), NEW j \in 1..Len(taken), i + Max <= j
               PROVE  taken[j] - taken[i] >= Window
    OBVIOUS
  <2>1. i + Max \in 1..Len(taken)
    BY <1>1
  <2>2. taken[i + Max] - taken[i] >= Window
    BY <2>1 DEF IInv, LocalCeiling
  <2>3. taken[i + Max] <= taken[j]
    BY <2>1 DEF IInv, Stamps
  <2> QED BY <2>1, <2>2, <2>3, <1>1
<1>3. ASSUME NEW i \in 1..Len(arrived), NEW j \in 1..Len(arrived),
             Arrived(i), Arrived(j), j > i + Max
      PROVE  arrived[j] - arrived[i] >= Window
  <2>1. arrived[i] <= taken[i + 1] /\ taken[j] <= arrived[j]
    BY <1>1, <1>3 DEF IInv, Arrivals, Arrived
  <2>2. taken[j] - taken[i + 1] >= Window
    BY <1>1, <1>2, <1>3
  <2>3. /\ i + 1 \in 1..Len(taken) /\ j \in 1..Len(taken)
        /\ arrived[i] \in Nat /\ arrived[j] \in Nat
    BY <1>1, <1>3 DEF Arrived
  <2>4. taken[i + 1] \in Nat /\ taken[j] \in Nat
    BY <1>1, <2>3
  <2> QED BY <2>1, <2>2, <2>3, <2>4
<1>4. ASSUME NEW i \in 1..Len(arrived), NEW j \in 1..Len(arrived),
             Arrived(i), Arrived(j), j >= i + Max
      PROVE  arrived[j] - arrived[i] >= Window - Timeout
  <2>1. arrived[i] <= taken[i] + Timeout /\ taken[j] <= arrived[j]
    BY <1>1, <1>4 DEF IInv, Arrivals, Arrived
  <2>2. taken[j] - taken[i] >= Window
    BY <1>1, <1>2, <1>4
  <2>3. /\ taken[i] \in Nat /\ taken[j] \in Nat
        /\ arrived[i] \in Nat /\ arrived[j] \in Nat
    BY <1>1, <1>4 DEF Arrived
  <2> QED BY <2>1, <2>2, <2>3
<1> QED BY <1>3, <1>4 DEF UpstreamSlack, UpstreamWithinTimeout

\* Type correctness of the limiter's slice and of the request in progress
\* (client.go, limiter).
THEOREM TypeCorrect == Spec => []TypeOK
  BY SpecIInv, PTL DEF IInv

\* No window of any length starts more than Max requests (client.go, take).
THEOREM CeilingHolds == Spec => []LocalCeiling
  BY SpecIInv, PTL DEF IInv

\* The untested append after the sleep never overfills the slice (client.go,
\* take: the length is not looked at again).
THEOREM BudgetHolds == Spec => []WithinBudget
  BY SpecIInv, PTL DEF IInv

\* Upstream never counts more than one request over the budget (client.go, get:
\* pace, then Do).
THEOREM UpstreamSeesOneMore == Spec => []UpstreamSlack
  BY SpecIInv, UpstreamFromIInv, PTL

\* A burst reaches upstream at most one HTTP timeout closer together than it
\* was stamped (client.go, get and New).
THEOREM LatenessIsBounded == Spec => []UpstreamWithinTimeout
  BY SpecIInv, UpstreamFromIInv, PTL

\* A sleep that take starts is positive and no longer than a window (client.go,
\* take: wait > 0).
THEOREM SleepsAreBounded == Spec => SleepIsBounded
<1>1. IInv /\ [Next]_vars =>
        [pc' = "sleeping" => pc = "sleeping" \/ (wake' > now /\ wake' <= now + Window)]_vars
  <2> SUFFICES ASSUME IInv, Next, pc' = "sleeping", pc # "sleeping"
               PROVE  wake' > now /\ wake' <= now + Window
    OBVIOUS
  <2>1. TakeWait
    BY DEF Next, TakeNow, Wake, Send, SendFails, Return, Tick, Admit
  <2> PICK c \in lo..Len(taken) : /\ PrunedTo(c, now) /\ Len(taken) - c >= Max
                                  /\ wake' = taken[c + 1] + Window
    BY <2>1 DEF TakeWait, FirstFree
  <2>2. c < Len(taken) /\ c + 1 \in 1..Len(taken)
    BY MaxAssumption DEF IInv, TypeOK
  <2>3. now \in Nat /\ taken[c + 1] \in Nat /\ taken[c + 1] <= now
    BY <2>2, HorizonAssumption DEF IInv, TypeOK, Stamps
  <2> QED BY <2>2, <2>3, WindowAssumption DEF PrunedTo
<1> QED BY <1>1, SpecIInv, PTL DEF Spec, SleepIsBounded

----------------------------------------------------------------------------
\* The requests of the current window are the end of the slice.
LEMMA TailSize ==
    ASSUME NEW c \in Nat, NEW n \in Nat, c <= n
    PROVE  IsFiniteSet((c + 1)..n) /\ Cardinality((c + 1)..n) = n - c
<1>1. IsFiniteSet((c + 1)..n) /\ Cardinality((c + 1)..n) = IF c + 1 > n THEN 0 ELSE n - (c + 1) + 1
  BY FS_Interval
<1> QED BY <1>1

\* The abstract module counts with an instance of Cardinality of its own.
LEMMA SlotsCount == Slots!Cardinality(Slots!Current) = Cardinality(Slots!Current)
  BY Zenon DEF Slots!Cardinality, Cardinality

LEMMA CurrentIsTail ==
    ASSUME IInv, NEW c \in lo..Len(taken), PrunedTo(c, now)
    PROVE  /\ Slots!Current = (c + 1)..Len(taken)
           /\ Cardinality(Slots!Current) = Len(taken) - c
<1>1. /\ now \in Nat /\ lo \in Nat /\ Len(taken) \in Nat /\ c \in Nat /\ c <= Len(taken)
      /\ \A i \in 1..Len(taken) : taken[i] \in Nat
  BY HorizonAssumption DEF IInv, TypeOK
<1>2. ASSUME NEW i \in 1..Len(taken), i <= c PROVE now - taken[i] >= Window
  BY <1>1, <1>2 DEF IInv, Stamps, PrunedTo
<1>3. ASSUME NEW i \in 1..Len(taken), i > c PROVE now - taken[i] < Window
  <2>1. c < Len(taken) /\ c + 1 \in 1..Len(taken) /\ c + 1 <= i
    BY <1>1, <1>3
  <2>2. now - taken[c + 1] < Window /\ taken[c + 1] <= taken[i]
    BY <2>1 DEF IInv, Stamps, PrunedTo
  <2> QED BY <1>1, <2>1, <2>2, WindowAssumption
<1>4. Slots!Current = (c + 1)..Len(taken)
  <2>1. \A i \in 1..Len(taken) : now - taken[i] < Window <=> i > c
    BY <1>1, <1>2, <1>3, WindowAssumption
  <2> QED BY <1>1, <2>1 DEF Slots!Current
<1>5. Cardinality((c + 1)..Len(taken)) = Len(taken) - c
  BY <1>1, TailSize
<1> QED BY <1>4, <1>5

\* Requests() counts every request of the current window, and may count some that
\* have left it since the last prune (client.go, Requests).
THEOREM RequestsHold == Spec => []RequestsCover
<1>1. IInv => RequestsCover
  <2> SUFFICES ASSUME IInv PROVE RequestsCover
    OBVIOUS
  <2>1. /\ now \in Nat /\ lo \in Nat /\ Len(taken) \in Nat /\ lo <= Len(taken)
        /\ \A i \in 1..Len(taken) : taken[i] \in Nat
    BY HorizonAssumption DEF IInv, TypeOK
  <2>2. Slots!Current \in SUBSET ((lo + 1)..Len(taken))
    <3>1. \A i \in 1..lo : ~(now - taken[i] < Window)
      BY <2>1, WindowAssumption DEF IInv, Stamps
    <3> QED BY <2>1, <3>1 DEF Slots!Current
  <2>3. /\ IsFiniteSet((lo + 1)..Len(taken))
        /\ Cardinality((lo + 1)..Len(taken)) = Len(taken) - lo
    BY <2>1, TailSize
  <2> QED BY <2>2, <2>3, FS_Subset DEF RequestsCover, Requests
<1> QED BY SpecIInv, <1>1, PTL

\* The limiter lets a request through exactly when fewer than Max started within
\* the last window, and makes it wait exactly when that is not so (client.go, take).
THEOREM Refinement == Spec => ImplementsWindow
<1> USE DEF Slots!windowVars
<1>1. Init => Slots!WindowInit
  BY DEF Init, Slots!WindowInit
<1>2. IInv /\ [Next]_vars =>
         [Slots!Start \/ Slots!Wait \/ Slots!Pass]_(Slots!windowVars)
  <2> SUFFICES ASSUME IInv, [Next]_vars
               PROVE  \/ Slots!Start \/ Slots!Wait \/ Slots!Pass
                      \/ UNCHANGED <<now, taken, pc = "sleeping">>
    OBVIOUS
  <2>0. now \in Nat /\ lo \in Nat /\ Len(taken) \in Nat
    BY HorizonAssumption DEF IInv, TypeOK
  <2>1. CASE TakeNow
    <3>1. PICK c \in lo..Len(taken) : PrunedTo(c, now) /\ Len(taken) - c < Max /\ Admit(c)
      BY <2>1 DEF TakeNow
    <3>2. Slots!Room
      <4>1. Cardinality(Slots!Current) = Len(taken) - c
        BY <3>1, CurrentIsTail
      <4> QED BY <3>1, <4>1, SlotsCount DEF Slots!Room
    <3> QED BY <2>1, <3>1, <3>2 DEF TakeNow, Admit, Slots!Start
  <2>2. CASE TakeWait
    <3>1. PICK c \in lo..Len(taken) : PrunedTo(c, now) /\ Len(taken) - c >= Max
      BY <2>2 DEF TakeWait
    <3>2. ~Slots!Room
      <4>1. Cardinality(Slots!Current) = Len(taken) - c
        BY <3>1, CurrentIsTail
      <4> QED BY <2>0, <3>1, <4>1, SlotsCount, MaxAssumption DEF Slots!Room
    <3> QED BY <2>2, <3>2 DEF TakeWait, Slots!Wait
  <2>3. CASE Wake
    <3>1. PICK c \in lo..Len(taken) : PrunedTo(c, now) /\ Admit(c)
      BY <2>3 DEF Wake
    <3>2. Slots!Room
      <4>1. Cardinality(Slots!Current) = Len(taken) - c
        BY <3>1, CurrentIsTail
      <4>2. Len(taken) - c < Max
        BY <2>3, <3>1, WakeMakesRoom DEF Wake
      <4> QED BY <4>1, <4>2, SlotsCount DEF Slots!Room
    <3> QED BY <2>3, <3>1, <3>2 DEF Wake, Admit, Slots!Start
  <2>4. CASE Send \/ SendFails \/ Return
    BY <2>4 DEF Send, SendFails, Return
  <2>5. CASE Tick
    BY <2>5 DEF Tick, Slots!Pass
  <2>6. CASE UNCHANGED vars
    BY <2>6 DEF vars
  <2> QED BY <2>1, <2>2, <2>3, <2>4, <2>5, <2>6 DEF Next
<1> QED BY <1>1, <1>2, SpecIInv, PTL DEF Spec, ImplementsWindow, Slots!WindowSpec
============================================================================
