------------------------------ MODULE McpProofs ------------------------------
(***************************************************************************)
(* Proofs about McpServer, for any frames, any length of the stream, any   *)
(* capacity of the pipes and any budget.  The invariant has three parts:   *)
(*   Answering  what is read, answered and still due agree with where      *)
(*              Serve is;                                                  *)
(*   Building   each client remembers the frame it was built for, and the  *)
(*              shared configuration has not changed;                      *)
(*   Pacing     the limiter's invariant, for the part of "taken" that      *)
(*              belongs to the client of the current call, and the ceiling *)
(*              already kept by the clients before it.                     *)
(***************************************************************************)
EXTENDS McpServer, TLAPS

Answering ==
    /\ sent \in Seq(Frames) /\ out \in Seq(Nat)
    /\ read \in 0..Len(sent)
    /\ srv \in {"reading", "calling", "writing", "exited"}
    /\ code \in {"none", "ok", "error", "panic"}
    /\ code = "none" <=> srv # "exited"
    /\ srv # "reading" /\ code # "ok" => read > 0
    /\ code = "ok" => closed /\ read = Len(sent)
    /\ RepliesInOrder

Building ==
    /\ cfgKey = HasKey
    /\ clients \in Seq([call : Nat, first : Nat, keyed : BOOLEAN])
    /\ \A k \in 1..Len(clients) : clients[k].call \in 1..Len(sent)
    /\ KeyAsAsked

\* Where the stamps of the current client begin.
Base == IF clients = <<>> THEN 0 ELSE First

Stamps ==
    /\ now \in Nat /\ taken \in Seq(Nat) /\ lo \in Base..Len(taken)
    /\ \A i, j \in 1..Len(taken) : i <= j => taken[i] <= taken[j]
    /\ \A i \in 1..Len(taken) : taken[i] <= now
    /\ \A i \in (Base + 1)..lo : now - taken[i] >= Window
    /\ Len(taken) - lo <= Max

Sleeper ==
    /\ pc \in Phases
    /\ pc # "idle" => srv = "calling"
    /\ srv = "calling" => clients # <<>>
    /\ pc = "sleeping" => Len(taken) - lo >= Max /\ wake = taken[lo + 1] + Window

Firsts ==
    /\ \A k \in 1..Len(clients) : clients[k].first \in 0..LastOf(k) /\ LastOf(k) \in 0..Len(taken)
    /\ CallCeiling

Pacing == Stamps /\ Sleeper /\ Firsts

McpInv == Answering /\ Building /\ Pacing

limiterVars == <<now, taken, lo, pc, wake>>

----------------------------------------------------------------------------
\* The parts of the invariant read only these variables.
LEMMA AnsweringFrame ==
    ASSUME Answering, UNCHANGED <<sent, out, read, srv, code>>, closed => closed'
    PROVE  Answering'
  BY DEF Answering, RepliesInOrder, Answered, Done, Due

LEMMA BuildingFrame ==
    ASSUME Building, UNCHANGED <<sent, cfgKey, clients>>
    PROVE  Building'
  BY DEF Building, KeyAsAsked

LEMMA PacingFrame ==
    ASSUME Pacing, UNCHANGED <<limiterVars, clients>>,
           srv' = "calling" => clients # <<>>,
           pc # "idle" => srv' = "calling"
    PROVE  Pacing'
<1>1. Stamps'
  BY DEF Pacing, Stamps, limiterVars, Base, First
<1>2. Sleeper'
  BY DEF Pacing, Sleeper, limiterVars
<1>3. Firsts'
  <2>1. /\ \A k : LastOf(k)' = LastOf(k)
        /\ taken' = taken /\ clients' = clients
    BY DEF LastOf, limiterVars
  <2> QED BY <2>1 DEF Pacing, Firsts, CallCeiling
<1> QED BY <1>1, <1>2, <1>3 DEF Pacing

\* An element of a sequence over S is in S.
LEMMA ElementType ==
    ASSUME NEW S, NEW s \in Seq(S), NEW i \in 1..Len(s)
    PROVE  s[i] \in S
  OBVIOUS

\* Places in the stamps of one client, out of n.
LEMMA Places ==
    ASSUME NEW n \in Nat, NEW a \in Nat
    PROVE  /\ \A z \in 0..n : \A i \in (a + 1)..z :
                i + Max <= z => i \in 1..n /\ i + Max \in 1..n
           /\ \A i \in (a + 1)..(n + 1) : i + Max <= n + 1 =>
                i \in (a + 1)..n /\ i \in 1..n /\ (i + Max <= n \/ i + Max = n + 1)
  BY MaxAssumption

\* The current client's stamps begin somewhere.
LEMMA BaseIsNat ==
    ASSUME Building
    PROVE  /\ Base \in Nat /\ Len(clients) \in Nat
           /\ clients # <<>> => Len(clients) > 0 /\ Base = clients[Len(clients)].first
<1>1. clients \in Seq([call : Nat, first : Nat, keyed : BOOLEAN])
  BY DEF Building
<1>2. CASE clients = <<>>
  BY <1>1, <1>2 DEF Base
<1>3. CASE clients # <<>>
  <2>1. Len(clients) \in 1..Len(clients)
    BY <1>1, <1>3
  <2>2. clients[Len(clients)] \in [call : Nat, first : Nat, keyed : BOOLEAN]
    BY <1>1, <2>1, ElementType
  <2>3. clients[Len(clients)].first \in Nat
    BY <2>2
  <2> QED BY <1>1, <1>3, <2>1, <2>3 DEF Base, First
<1> QED BY <1>2, <1>3

\* Appending keeps the elements and adds one at the end.
LEMMA AppendIndex ==
    ASSUME NEW S, NEW s \in Seq(S), NEW e \in S
    PROVE  /\ Append(s, e) \in Seq(S)
           /\ Len(Append(s, e)) = Len(s) + 1 /\ Len(s) \in Nat
           /\ \A i \in 1..Len(s) : Append(s, e)[i] = s[i]
           /\ Append(s, e)[Len(s) + 1] = e
           /\ Append(s, e) # <<>>
  OBVIOUS

----------------------------------------------------------------------------
\* A request admitted at c, with room for it.
LEMMA AdmitPaces ==
    ASSUME Pacing, Building, srv = "calling", NEW c \in lo..Len(taken),
           PrunedTo(c, now), Admit(c), Len(taken) - c < Max,
           UNCHANGED <<now, srv, clients>>
    PROVE  Pacing'
<1> USE MaxAssumption, WindowAssumption
<1>1. /\ now \in Nat /\ taken \in Seq(Nat) /\ lo \in Nat /\ Len(taken) \in Nat
      /\ taken' = Append(taken, now) /\ lo' = c /\ c \in Nat /\ pc' = "sending"
      /\ \A i \in 1..Len(taken) : taken[i] \in Nat /\ taken[i] <= now
      /\ clients # <<>> /\ Len(clients) \in Nat /\ Len(clients) > 0
      /\ Base \in Nat /\ Base <= lo /\ Base = clients[Len(clients)].first
  <2>1. now \in Nat /\ taken \in Seq(Nat) /\ lo \in Base..Len(taken) /\ clients # <<>>
    BY DEF Pacing, Stamps, Sleeper
  <2>2. /\ Len(clients) \in Nat /\ Len(clients) > 0
        /\ Base \in Nat /\ Base = clients[Len(clients)].first
    BY <2>1, BaseIsNat
  <2>3. lo \in Nat /\ Base <= lo /\ c \in Nat /\ Len(taken) \in Nat
    BY <2>1, <2>2
  <2>4. \A i \in 1..Len(taken) : taken[i] \in Nat /\ taken[i] <= now
    BY <2>1 DEF Pacing, Stamps
  <2>5. taken' = Append(taken, now) /\ lo' = c /\ pc' = "sending"
    BY DEF Admit
  <2> QED BY <2>1, <2>2, <2>3, <2>4, <2>5
<1>2. /\ taken' \in Seq(Nat) /\ Len(taken') = Len(taken) + 1
      /\ \A i \in 1..Len(taken) : taken'[i] = taken[i]
      /\ taken'[Len(taken) + 1] = now
  BY <1>1, AppendIndex
<1>3. \A i \in (Base + 1)..c : now - taken[i] >= Window
  BY <1>1 DEF Pacing, Stamps, PrunedTo
<1>4. Base' = Base /\ now' = now
  BY DEF Base, First
<1>5. Stamps'
  <2>1. now' \in Nat /\ lo' \in Base'..Len(taken') /\ Len(taken') - lo' <= Max
    BY <1>1, <1>2, <1>4
  <2>2. \A i, j \in 1..Len(taken') : i <= j => taken'[i] <= taken'[j]
    <3>1. \A i, j \in 1..Len(taken) : i <= j => taken[i] <= taken[j]
      BY DEF Pacing, Stamps
    <3> SUFFICES ASSUME NEW i \in 1..(Len(taken) + 1), NEW j \in 1..(Len(taken) + 1), i <= j
                 PROVE  taken'[i] <= taken'[j]
      BY <1>2
    <3>2. CASE j \in 1..Len(taken)
      <4>1. i \in 1..Len(taken)
        BY <1>1, <3>2
      <4> QED BY <1>2, <3>1, <3>2, <4>1
    <3>3. CASE j = Len(taken) + 1
      <4>1. CASE i = Len(taken) + 1
        BY <1>1, <1>2, <3>3, <4>1
      <4>2. CASE i # Len(taken) + 1
        <5>1. i \in 1..Len(taken)
          BY <1>1, <4>2
        <5> QED BY <1>1, <1>2, <3>3, <5>1
      <4> QED BY <4>1, <4>2
    <3> QED BY <1>1, <3>2, <3>3
  <2>3. \A i \in 1..Len(taken') : taken'[i] <= now'
    BY <1>1, <1>2, <1>4
  <2>4. \A i \in (Base' + 1)..lo' : now' - taken'[i] >= Window
    BY <1>1, <1>2, <1>3, <1>4
  <2> QED BY <1>2, <2>1, <2>2, <2>3, <2>4 DEF Stamps
<1>6. Sleeper'
  BY <1>1 DEF Sleeper, Phases
<1>7. Firsts'
  <2>1. ASSUME NEW k \in 1..Len(clients), k # Len(clients)
        PROVE  LastOf(k)' = LastOf(k)
    BY <2>1 DEF LastOf
  <2>2. LastOf(Len(clients)) = Len(taken) /\ LastOf(Len(clients))' = Len(taken) + 1
    BY <1>2 DEF LastOf
  <2> SUFFICES ASSUME NEW k \in 1..Len(clients)
               PROVE  /\ clients[k].first \in 0..LastOf(k)'
                      /\ LastOf(k)' \in 0..Len(taken')
                      /\ \A i \in (clients[k].first + 1)..LastOf(k)' :
                            i + Max <= LastOf(k)' => taken'[i + Max] - taken'[i] >= Window
    BY DEF Firsts, CallCeiling
  <2> PICK a, z : a = clients[k].first /\ z = LastOf(k)
    OBVIOUS
  <2>3. /\ a \in 0..z /\ z \in 0..Len(taken)
        /\ \A i \in (a + 1)..z : i + Max <= z => taken[i + Max] - taken[i] >= Window
    BY DEF Pacing, Firsts, CallCeiling
  <2>7. /\ a \in Nat /\ z \in Nat /\ a <= z /\ z <= Len(taken)
        /\ 0..Len(taken) \subseteq 0..Len(taken') /\ Len(taken') \in Nat
    BY <1>1, <1>2, <2>3
  <2>4. \A i \in (a + 1)..z : i + Max <= z => taken'[i + Max] - taken'[i] >= Window
    <3> SUFFICES ASSUME NEW i \in (a + 1)..z, i + Max <= z
                 PROVE  taken'[i + Max] - taken'[i] >= Window
      OBVIOUS
    <3>1. i \in 1..Len(taken) /\ i + Max \in 1..Len(taken)
      BY <1>1, <2>3, <2>7, Places
    <3> QED BY <1>2, <2>3, <3>1
  <2>5. CASE k # Len(clients)
    <3>1. LastOf(k)' = z
      BY <2>1, <2>5
    <3> QED BY <2>3, <2>4, <2>7, <3>1
  <2>6. CASE k = Len(clients)
    <3>1. z = Len(taken) /\ LastOf(k)' = Len(taken) + 1 /\ a = Base
      BY <1>1, <2>2, <2>6
    <3>2. ASSUME NEW i \in (a + 1)..(Len(taken) + 1), i + Max <= Len(taken) + 1
          PROVE  taken'[i + Max] - taken'[i] >= Window
      <4>1. i \in (a + 1)..z /\ (i + Max <= z \/ i + Max = Len(taken) + 1)
        BY <1>1, <2>7, <3>1, <3>2, Places
      <4>2. CASE i + Max <= z
        BY <2>4, <4>1, <4>2
      <4>3. CASE i + Max = Len(taken) + 1
        <5>1. i \in (Base + 1)..c /\ i \in 1..Len(taken)
          <6>1. i \in Nat /\ Base + 1 <= i /\ i + Max = Len(taken) + 1
            BY <1>1, <3>1, <3>2, <4>3
          <6> QED BY <1>1, <6>1, SMTT(30)
        <5>2. taken'[i + Max] = now /\ taken'[i] = taken[i]
          BY <1>2, <4>3, <5>1
        <5> QED BY <1>3, <5>1, <5>2
      <4> QED BY <4>1, <4>2, <4>3
    <3>3. a \in 0..LastOf(k)' /\ LastOf(k)' \in 0..Len(taken')
      BY <1>1, <1>2, <2>7, <3>1
    <3> QED BY <3>1, <3>2, <3>3
  <2> QED BY <2>5, <2>6
<1> QED BY <1>5, <1>6, <1>7 DEF Pacing

\* The engine's requests keep to the limiter.
LEMMA RequestPaces ==
    ASSUME McpInv, Request
    PROVE  Pacing'
<1> USE MaxAssumption, WindowAssumption
<1>1. /\ srv = "calling" /\ UNCHANGED <<srv, clients>>
      /\ Pacing /\ Building /\ clients # <<>>
  BY DEF Request, serverVars, McpInv, Pacing, Sleeper
<1>2. /\ now \in Nat /\ taken \in Seq(Nat) /\ Len(taken) \in Nat /\ lo \in Base..Len(taken)
      /\ Base \in Nat
      /\ \A i \in 1..Len(taken) : taken[i] \in Nat
  <2>1. now \in Nat /\ taken \in Seq(Nat) /\ lo \in Base..Len(taken)
    BY <1>1 DEF Pacing, Stamps
  <2> QED BY <1>1, <2>1, BaseIsNat
<1>3. CASE TakeNow
  BY <1>1, <1>3, AdmitPaces DEF TakeNow
<1>4. CASE Wake
  <2> PICK c \in lo..Len(taken) : PrunedTo(c, now) /\ Admit(c)
    BY <1>4 DEF Wake
  <2>1. /\ pc = "sleeping" /\ now >= wake /\ now' = now
        /\ Len(taken) - lo = Max /\ wake = taken[lo + 1] + Window
    BY <1>1, <1>2, <1>4 DEF Wake, Pacing, Stamps, Sleeper
  <2>2. lo + 1 \in 1..Len(taken) /\ taken[lo + 1] \in Nat
    BY <1>2, <2>1
  <2>3. c # lo
    <3> SUFFICES ASSUME c = lo PROVE FALSE
      OBVIOUS
    <3>1. now - taken[lo + 1] < Window
      BY <1>2, <2>1 DEF PrunedTo
    <3> QED BY <1>2, <2>1, <2>2, <3>1
  <2>4. Len(taken) - c < Max
    BY <1>2, <2>1, <2>3
  <2> QED BY <1>1, <2>1, <2>4, AdmitPaces
<1>5. CASE TakeWait
  <2> PICK c \in lo..Len(taken) : /\ PrunedTo(c, now) /\ Len(taken) - c >= Max
                                  /\ lo' = c /\ wake' = FirstFree(c)
    BY <1>5 DEF TakeWait
  <2>1. pc' = "sleeping" /\ UNCHANGED <<now, taken>> /\ Base' = Base
    BY <1>1, <1>5 DEF TakeWait, Base, First
  <2>2. Stamps'
    <3>1. lo' \in Base..Len(taken) /\ Len(taken) - lo' <= Max
      BY <1>1, <1>2 DEF Pacing, Stamps
    <3>2. \A i \in (Base + 1)..lo' : now - taken[i] >= Window
      BY <1>1, <1>2 DEF Pacing, Stamps, PrunedTo
    <3> QED BY <1>1, <2>1, <3>1, <3>2 DEF Pacing, Stamps
  <2>3. Sleeper'
    BY <1>1, <2>1 DEF Sleeper, Phases, FirstFree
  <2>4. Firsts'
    <3>1. \A k : LastOf(k)' = LastOf(k)
      BY <1>1, <2>1 DEF LastOf
    <3> QED BY <1>1, <2>1, <3>1 DEF Pacing, Firsts, CallCeiling
  <2> QED BY <2>2, <2>3, <2>4 DEF Pacing
<1>6. CASE Send \/ SendFails \/ Return
  <2>1. /\ UNCHANGED <<now, taken, lo, wake>> /\ pc' \in {"awaiting", "idle"}
        /\ \A k : LastOf(k)' = LastOf(k)
        /\ Base' = Base
    BY <1>1, <1>6 DEF Send, SendFails, Return, LastOf, Base, First
  <2>2. Stamps'
    BY <1>1, <2>1 DEF Pacing, Stamps
  <2>3. Sleeper'
    BY <1>1, <2>1 DEF Sleeper, Phases
  <2>4. Firsts'
    BY <1>1, <2>1 DEF Pacing, Firsts, CallCeiling
  <2> QED BY <2>2, <2>3, <2>4 DEF Pacing
<1> QED BY <1>3, <1>4, <1>5, <1>6 DEF Request

\* A new client starts with an empty slice, and ends the last one's.
LEMMA NewClientPaces ==
    ASSUME McpInv, NEW anonymous \in BOOLEAN, NewClient(anonymous),
           pc = "idle", srv' = "calling"
    PROVE  Pacing'
<1> USE MaxAssumption, WindowAssumption
<1> DEFINE new == [call |-> read + 1, first |-> Len(taken), keyed |-> cfgKey /\ ~anonymous]
<1>1. /\ clients' = Append(clients, new) /\ lo' = Len(taken)
      /\ UNCHANGED <<now, taken, pc, wake>>
      /\ now \in Nat /\ taken \in Seq(Nat) /\ Len(taken) \in Nat
  BY DEF NewClient, McpInv, Pacing, Stamps
<1>2. /\ clients \in Seq([call : Nat, first : Nat, keyed : BOOLEAN])
      /\ new \in [call : Nat, first : Nat, keyed : BOOLEAN]
  <2>1. read + 1 \in Nat
    BY DEF McpInv, Answering
  <2> QED BY <1>1, <2>1 DEF McpInv, Building
<1>3. /\ Len(clients') = Len(clients) + 1 /\ Len(clients) \in Nat
      /\ \A k \in 1..Len(clients) : clients'[k] = clients[k]
      /\ clients'[Len(clients) + 1].first = Len(taken)
      /\ clients' # <<>>
  <2> HIDE DEF new
  <2>1. clients'[Len(clients) + 1] = new
    BY <1>1, <1>2, AppendIndex
  <2>2. new.first = Len(taken)
    BY DEF new
  <2>3. Len(clients') = Len(clients) + 1 /\ Len(clients) \in Nat
    BY <1>1, <1>2, AppendIndex
  <2>4. \A k \in 1..Len(clients) : clients'[k] = clients[k]
    BY <1>1, <1>2, AppendIndex
  <2>5. clients' # <<>>
    BY <1>1, <1>2, <2>3
  <2> QED BY <2>1, <2>2, <2>3, <2>4, <2>5
<1>4. Base' = Len(taken)
  BY <1>3 DEF Base, First
<1>5. Stamps'
  BY <1>1, <1>4 DEF McpInv, Pacing, Stamps
<1>6. Sleeper'
  BY <1>1, <1>3 DEF Sleeper, Phases
<1>7. Firsts'
  <2>1. ASSUME NEW k \in 1..Len(clients) PROVE LastOf(k)' = LastOf(k)
    <3>1. CASE k = Len(clients)
      BY <1>1, <1>3, <3>1 DEF LastOf
    <3>2. CASE k # Len(clients)
      <4>1. k + 1 \in 1..Len(clients) /\ k # Len(clients')
        BY <1>3, <3>2
      <4> QED BY <1>3, <3>2, <4>1 DEF LastOf
    <3> QED BY <3>1, <3>2
  <2>2. ASSUME NEW k, k = Len(clients) + 1 PROVE LastOf(k)' = Len(taken)
    BY <1>1, <1>3, <2>2 DEF LastOf
  <2>3. CallCeiling /\ \A k \in 1..Len(clients) :
            clients[k].first \in 0..LastOf(k) /\ LastOf(k) \in 0..Len(taken)
    BY DEF McpInv, Pacing, Firsts
  <2> SUFFICES ASSUME NEW k \in 1..Len(clients')
               PROVE  /\ clients'[k].first \in 0..LastOf(k)'
                      /\ LastOf(k)' \in 0..Len(taken')
                      /\ \A i \in (clients'[k].first + 1)..LastOf(k)' :
                            i + Max <= LastOf(k)' => taken'[i + Max] - taken'[i] >= Window
    BY DEF Firsts, CallCeiling
  <2>4. CASE k \in 1..Len(clients)
    BY <1>1, <1>3, <2>1, <2>3, <2>4 DEF CallCeiling
  <2>5. CASE k = Len(clients) + 1
    BY <1>1, <1>3, <2>2, <2>5
  <2>6. k \in 1..Len(clients) \/ k = Len(clients) + 1
    BY <1>3
  <2> QED BY <2>4, <2>5, <2>6
<1> QED BY <1>5, <1>6, <1>7 DEF Pacing

----------------------------------------------------------------------------
\* Reading a frame: what it is decides whether an answer is due.
LEMMA ScanAnswers ==
    ASSUME McpInv, Scan
    PROVE  Answering'
<1> DEFINE f == sent[read + 1]
<1>1. /\ srv = "reading" /\ code = "none" /\ sent \in Seq(Frames) /\ read \in Nat /\ Len(sent) \in Nat
      /\ read < Len(sent) /\ read' = read + 1 /\ UNCHANGED <<sent, out, closed>>
      /\ read + 1 \in 1..Len(sent) /\ f \in Frames
  BY DEF McpInv, Answering, Scan, streams
<1>2. /\ \A i, j \in 1..Len(out) : i < j => out[i] < out[j]
      /\ {n \in 1..read : Due(n)} \subseteq Answered
      /\ Answered \subseteq 1..read
      /\ Done = read
  BY <1>1 DEF McpInv, Answering, RepliesInOrder, Done
<1>3. Answered' = Answered /\ \A n : Due(n)' <=> Due(n)
  BY <1>1 DEF Answered, Due
<1>4. CASE srv' \in {"calling", "writing"} /\ code' = code
  <2>1. Done' = read
    BY <1>1, <1>4 DEF Done
  <2> QED BY <1>1, <1>2, <1>3, <1>4, <2>1 DEF McpInv, Answering, RepliesInOrder
<1>5. CASE Exit("error")
  <2>1. Done' = read
    BY <1>1, <1>5 DEF Done, Exit
  <2> QED BY <1>1, <1>2, <1>3, <1>5, <2>1 DEF McpInv, Answering, RepliesInOrder, Exit
<1>6. CASE /\ ~CallsUpstream(f) /\ ~RepliesAtOnce(f) /\ f.what # "huge"
           /\ UNCHANGED <<srv, code>>
  <2>1. ~Due(read + 1)
    BY <1>1, <1>6, FramesAssumption DEF Due, CallsUpstream, RepliesAtOnce, Kinds
  <2>2. Done' = read + 1
    BY <1>1, <1>6 DEF Done
  <2>3. \A n \in 1..(read + 1) : n = read + 1 \/ n \in 1..read
    BY <1>1
  <2> QED BY <1>1, <1>2, <1>3, <1>6, <2>1, <2>2, <2>3 DEF McpInv, Answering, RepliesInOrder
<1> QED BY <1>1, <1>4, <1>5, <1>6 DEF Scan

\* The answer that is written is the one that was due next.
LEMMA ReplyAnswers ==
    ASSUME McpInv, Reply
    PROVE  Answering'
<1>1. /\ srv = "writing" /\ srv' = "reading" /\ code = "none" /\ out' = Append(out, read)
      /\ UNCHANGED <<sent, closed, read, code>> /\ sent \in Seq(Frames) /\ out \in Seq(Nat)
      /\ read \in 0..Len(sent) /\ read > 0 /\ Len(sent) \in Nat
  BY DEF McpInv, Answering, Reply
<1>2. Done = read - 1 /\ Done' = read /\ read \in Nat
  BY <1>1 DEF Done
<1>3. /\ out' \in Seq(Nat) /\ Len(out') = Len(out) + 1 /\ Len(out) \in Nat
      /\ \A i \in 1..Len(out) : out'[i] = out[i] /\ out[i] \in Nat
      /\ out'[Len(out) + 1] = read
  BY <1>1, <1>2, AppendIndex
<1>4. Answered' = Answered \cup {read}
  <2>1. \A i \in 1..Len(out') : i \in 1..Len(out) \/ i = Len(out) + 1
    BY <1>3
  <2>2. 1..Len(out) \subseteq 1..Len(out') /\ Len(out) + 1 \in 1..Len(out')
    BY <1>3
  <2> QED BY <1>3, <2>1, <2>2 DEF Answered
<1>5. /\ \A i, j \in 1..Len(out) : i < j => out[i] < out[j]
      /\ {n \in 1..(read - 1) : Due(n)} \subseteq Answered
      /\ Answered \subseteq 1..(read - 1)
  BY <1>2 DEF McpInv, Answering, RepliesInOrder
<1>6. \A i \in 1..Len(out) : out[i] < read
  <2> SUFFICES ASSUME NEW i \in 1..Len(out) PROVE out[i] < read
    OBVIOUS
  <2>1. out[i] \in 1..(read - 1)
    BY <1>5 DEF Answered
  <2> QED BY <1>2, <2>1
<1>7. \A i, j \in 1..Len(out') : i < j => out'[i] < out'[j]
  <2> SUFFICES ASSUME NEW i \in 1..Len(out'), NEW j \in 1..Len(out'), i < j
               PROVE  out'[i] < out'[j]
    OBVIOUS
  <2>1. i \in 1..Len(out) /\ (j \in 1..Len(out) \/ j = Len(out) + 1)
    BY <1>3
  <2>2. out'[i] = out[i]
    BY <1>3, <2>1
  <2>3. CASE j \in 1..Len(out)
    BY <1>3, <1>5, <2>1, <2>2, <2>3
  <2>4. CASE j = Len(out) + 1
    BY <1>3, <1>6, <2>1, <2>2, <2>4
  <2> QED BY <2>1, <2>3, <2>4
<1>8. {n \in 1..read : Due(n)'} \subseteq Answered' /\ Answered' \subseteq 1..read
  <2>1. \A n : Due(n)' <=> Due(n)
    BY <1>1 DEF Due
  <2>2. \A n \in 1..read : n \in 1..(read - 1) \/ n = read
    BY <1>1, <1>2
  <2>3. 1..(read - 1) \subseteq 1..read /\ read \in 1..read
    BY <1>1, <1>2
  <2> QED BY <1>4, <1>5, <2>1, <2>2, <2>3
<1>9. RepliesInOrder'
  BY <1>2, <1>7, <1>8 DEF RepliesInOrder
<1> QED BY <1>1, <1>3, <1>9 DEF McpInv, Answering

----------------------------------------------------------------------------
LEMMA InitMcpInv == McpInit => McpInv
<1> SUFFICES ASSUME McpInit PROVE McpInv
  OBVIOUS
<1>1. /\ sent = <<>> /\ out = <<>> /\ read = 0 /\ srv = "reading" /\ code = "none"
      /\ cfgKey = HasKey /\ clients = <<>> /\ now = 0 /\ taken = <<>> /\ lo = 0 /\ pc = "idle"
      /\ Len(sent) = 0 /\ Len(out) = 0 /\ Len(clients) = 0 /\ Len(taken) = 0
  BY DEF McpInit, Init
<1>2. Answering
  BY <1>1 DEF Answering, RepliesInOrder, Answered, Done
<1>3. Building
  BY <1>1 DEF Building, KeyAsAsked
<1>4. Pacing
  BY <1>1, MaxAssumption DEF Pacing, Stamps, Sleeper, Firsts, CallCeiling, Base, Phases
<1> QED BY <1>2, <1>3, <1>4 DEF McpInv

LEMMA NextMcpInv == McpInv /\ [McpNext]_mcpVars => McpInv'
<1> SUFFICES ASSUME McpInv, [McpNext]_mcpVars PROVE McpInv'
  OBVIOUS
<1>0. Answering /\ Building /\ Pacing
  BY DEF McpInv
<1>1. CASE ClientWrites
  <2>1. PICK f \in Frames : sent' = Append(sent, f)
    BY <1>1 DEF ClientWrites
  <2>2. /\ UNCHANGED <<limiterVars, serverVars, closed, out>> /\ srv # "exited" /\ ~closed
        /\ sent' \in Seq(Frames) /\ Len(sent') = Len(sent) + 1 /\ Len(sent) \in Nat
        /\ \A i \in 1..Len(sent) : sent'[i] = sent[i]
    BY <1>0, <1>1, <2>1, AppendIndex DEF ClientWrites, vars, limiterVars, Answering
  <2>3. Answering'
    <3>1. Done' = Done /\ Done \in Int /\ Done <= Len(sent)
      BY <1>0, <2>2 DEF Done, serverVars, Answering
    <3>2. \A n \in 1..Done : Due(n)' <=> Due(n)
      BY <2>2, <3>1 DEF Due
    <3>3. RepliesInOrder'
      BY <1>0, <2>2, <3>1, <3>2 DEF Answering, RepliesInOrder, Answered
    <3> QED BY <1>0, <2>2, <3>3 DEF Answering, serverVars
  <2>4. Building'
    <3>1. /\ UNCHANGED <<cfgKey, clients>>
          /\ \A k \in 1..Len(clients) : clients[k].call \in 1..Len(sent) /\ clients[k].call \in 1..Len(sent')
      BY <1>0, <2>2 DEF Building, serverVars
    <3>2. \A k \in 1..Len(clients) : sent'[clients[k].call] = sent[clients[k].call]
      BY <2>2, <3>1
    <3> QED BY <1>0, <3>1, <3>2 DEF Building, KeyAsAsked
  <2>5. Pacing'
    BY <1>0, <2>2, PacingFrame DEF serverVars, Pacing, Sleeper
  <2> QED BY <2>3, <2>4, <2>5 DEF McpInv
<1>2. CASE ClientCloses \/ ClientReads \/ ClientHangsUp
  <2>1. /\ UNCHANGED <<sent, out, read, srv, code, cfgKey, clients, limiterVars>>
        /\ closed => closed'
    BY <1>2 DEF ClientCloses, ClientReads, ClientHangsUp, vars, limiterVars, serverVars
  <2> QED BY <1>0, <2>1, AnsweringFrame, BuildingFrame, PacingFrame DEF McpInv, Pacing, Sleeper
<1>3. CASE Scan
  <2> DEFINE f == sent[read + 1]
  <2>1. Answering'
    BY <1>3, ScanAnswers
  <2>2. /\ srv = "reading" /\ pc = "idle" /\ sent' = sent /\ read + 1 \in 1..Len(sent) /\ read \in Nat
    BY <1>0, <1>3 DEF Scan, streams, Answering, Pacing, Sleeper
  <2>3. CASE NewClient(f.what = "anonymous") /\ srv' = "calling"
    <3>1. Pacing'
      <4>1. (f.what = "anonymous") \in BOOLEAN
        OBVIOUS
      <4> QED BY <2>2, <2>3, <4>1, NewClientPaces
    <3>2. Building'
      <4> DEFINE new == [call  |-> read + 1, first |-> Len(taken),
                         keyed |-> cfgKey /\ ~(f.what = "anonymous")]
      <4>1. clients' = Append(clients, new) /\ cfgKey' = cfgKey
        BY <2>3 DEF NewClient
      <4>2. /\ clients \in Seq([call : Nat, first : Nat, keyed : BOOLEAN])
            /\ new \in [call : Nat, first : Nat, keyed : BOOLEAN]
        BY <1>0, <2>2 DEF Building, Pacing, Stamps
      <4>3. new.call = read + 1 /\ (new.keyed <=> HasKey /\ f.what # "anonymous")
        BY <1>0 DEF Building
      <4> HIDE DEF new
      <4>4. /\ clients' \in Seq([call : Nat, first : Nat, keyed : BOOLEAN])
            /\ Len(clients') = Len(clients) + 1 /\ Len(clients) \in Nat
            /\ \A k \in 1..Len(clients) : clients'[k] = clients[k]
            /\ clients'[Len(clients) + 1] = new
        BY <4>1, <4>2, AppendIndex
      <4>5. \A k \in 1..Len(clients') : k \in 1..Len(clients) \/ k = Len(clients) + 1
        BY <4>4
      <4>6. \A k \in 1..Len(clients') : clients'[k].call \in 1..Len(sent')
        BY <1>0, <2>2, <4>3, <4>4, <4>5 DEF Building
      <4>7. KeyAsAsked'
        BY <1>0, <2>2, <4>3, <4>4, <4>5 DEF Building, KeyAsAsked
      <4> QED BY <1>0, <4>1, <4>4, <4>6, <4>7 DEF Building
    <3> QED BY <2>1, <3>1, <3>2 DEF McpInv
  <2>4. CASE UNCHANGED <<vars, cfgKey, clients>> /\ srv' # "calling"
    BY <1>0, <2>1, <2>2, <2>4, BuildingFrame, PacingFrame DEF McpInv, vars, limiterVars
  <2> QED BY <1>3, <2>2, <2>3, <2>4 DEF Scan, Exit
<1>4. CASE Eof
  <2>1. /\ UNCHANGED <<vars, streams, read, cfgKey, clients>> /\ srv = "reading" /\ code = "none"
        /\ srv' = "exited" /\ code' = "ok" /\ closed /\ read = Len(sent) /\ pc = "idle"
    BY <1>0, <1>4 DEF Eof, Exit, Pacing, Sleeper, Answering
  <2>2. Answering'
    <3>1. Done' = Done
      BY <2>1 DEF Done
    <3> QED BY <1>0, <2>1, <3>1 DEF Answering, RepliesInOrder, Answered, Due, streams
  <2> QED BY <1>0, <2>1, <2>2, BuildingFrame, PacingFrame DEF McpInv, vars, limiterVars, streams
<1>5. CASE Request
  <2>1. UNCHANGED <<streams, serverVars>>
    BY <1>5 DEF Request
  <2> QED BY <1>0, <1>5, <2>1, AnsweringFrame, BuildingFrame, RequestPaces
      DEF McpInv, streams, serverVars
<1>6. CASE ToolReturns
  <2>1. /\ UNCHANGED <<vars, streams, read, code, cfgKey, clients>> /\ srv = "calling"
        /\ srv' = "writing" /\ pc = "idle"
    BY <1>6 DEF ToolReturns
  <2>2. Answering'
    <3>1. Done' = Done
      BY <2>1 DEF Done
    <3> QED BY <1>0, <2>1, <3>1 DEF Answering, RepliesInOrder, Answered, Due, streams
  <2> QED BY <1>0, <2>1, <2>2, BuildingFrame, PacingFrame DEF McpInv, vars, limiterVars, streams
<1>7. CASE Reply
  <2>1. /\ UNCHANGED <<vars, sent, cfgKey, clients>> /\ srv = "writing"
        /\ srv' = "reading" /\ pc = "idle"
    BY <1>0, <1>7 DEF Reply, Pacing, Sleeper
  <2> QED BY <1>0, <1>7, <2>1, ReplyAnswers, BuildingFrame, PacingFrame DEF McpInv, vars, limiterVars
<1>8. CASE ReplyFails
  <2>1. /\ UNCHANGED <<vars, streams, read, cfgKey, clients>> /\ srv = "writing" /\ code = "none"
        /\ srv' = "exited" /\ code' = "error" /\ pc = "idle"
    BY <1>0, <1>8 DEF ReplyFails, Exit, Pacing, Sleeper, Answering
  <2>2. Answering'
    <3>1. Done' = Done
      BY <2>1 DEF Done
    <3> QED BY <1>0, <2>1, <3>1 DEF Answering, RepliesInOrder, Answered, Due, streams
  <2> QED BY <1>0, <2>1, <2>2, BuildingFrame, PacingFrame DEF McpInv, vars, limiterVars, streams
<1>9. CASE TimePasses
  <2>1. /\ UNCHANGED <<streams, serverVars>> /\ now' = now + 1 /\ UNCHANGED <<taken, lo, pc, wake>>
    BY <1>9 DEF TimePasses, Tick
  <2>2. Base' = Base /\ \A k : LastOf(k)' = LastOf(k)
    BY <2>1 DEF Base, First, LastOf, serverVars
  <2>3. Base \in Nat
    BY <1>0, BaseIsNat
  <2>4. Stamps'
    <3>1. /\ now \in Nat /\ taken \in Seq(Nat) /\ lo \in Base..Len(taken)
          /\ \A i \in 1..Len(taken) : taken[i] \in Nat
      BY <1>0 DEF Pacing, Stamps
    <3>2. \A i \in 1..Len(taken) : taken[i] <= now'
      BY <1>0, <2>1, <3>1 DEF Pacing, Stamps
    <3>3. \A i \in (Base + 1)..lo : now' - taken[i] >= Window
      <4> SUFFICES ASSUME NEW i \in (Base + 1)..lo PROVE now' - taken[i] >= Window
        OBVIOUS
      <4>1. i \in 1..Len(taken) /\ now - taken[i] >= Window
        BY <1>0, <2>3, <3>1 DEF Pacing, Stamps
      <4> QED BY <2>1, <3>1, <4>1, WindowAssumption
    <3> QED BY <1>0, <2>1, <2>2, <3>1, <3>2, <3>3 DEF Pacing, Stamps
  <2>5. Sleeper'
    BY <1>0, <2>1 DEF Pacing, Sleeper, serverVars
  <2>6. Firsts'
    BY <1>0, <2>1, <2>2 DEF Pacing, Firsts, CallCeiling, serverVars
  <2> QED BY <1>0, <2>1, <2>4, <2>5, <2>6, AnsweringFrame, BuildingFrame
      DEF McpInv, Pacing, streams, serverVars
<1>10. CASE UNCHANGED mcpVars
  BY <1>0, <1>10, AnsweringFrame, BuildingFrame, PacingFrame
     DEF McpInv, mcpVars, vars, streams, serverVars, limiterVars, Pacing, Sleeper
<1>11. CASE ToolPanics
  <2>1. /\ UNCHANGED <<vars, streams, read, cfgKey, clients>> /\ srv = "calling" /\ code = "none"
        /\ srv' = "exited" /\ code' = "panic" /\ pc = "idle"
    BY <1>0, <1>11 DEF ToolPanics, Exit, Answering
  <2>2. Answering'
    <3>1. Done' = Done
      BY <2>1 DEF Done
    <3> QED BY <1>0, <2>1, <3>1 DEF Answering, RepliesInOrder, Answered, Due, streams
  <2> QED BY <1>0, <2>1, <2>2, BuildingFrame, PacingFrame DEF McpInv, vars, limiterVars, streams
<1> QED BY <1>1, <1>2, <1>3, <1>4, <1>5, <1>6, <1>7, <1>8, <1>9, <1>10, <1>11
   DEF McpNext, Serve

LEMMA SpecMcpInv == McpSpec => []McpInv
  BY InitMcpInv, NextMcpInv, PTL DEF McpSpec

----------------------------------------------------------------------------
\* Whatever the stream of frames, every answer that is due, which leaves out a request for
\* a notification's method, is given once and in order (server.go, Serve and handle).
THEOREM RepliesHold == McpSpec => []RepliesInOrder
<1>1. McpInv => RepliesInOrder
  BY DEF McpInv, Answering
<1> QED BY SpecMcpInv, <1>1, PTL

\* Success means that the input was read and answered to its end (server.go, Serve).
THEOREM ExitOkHolds == McpSpec => []ExitOkIsDrained
<1>1. McpInv => ExitOkIsDrained
  BY DEF McpInv, Answering, ExitOkIsDrained, RepliesInOrder, Done
<1> QED BY SpecMcpInv, <1>1, PTL

\* No call changes whether another one uses the key (mcpcmd.go, New).
THEOREM KeyHolds == McpSpec => []KeyAsAsked
<1>1. McpInv => KeyAsAsked
  BY DEF McpInv, Building
<1> QED BY SpecMcpInv, <1>1, PTL

\* Each call keeps the request ceiling, however many came before (mcpcmd.go, New).
THEOREM CallCeilingHolds == McpSpec => []CallCeiling
<1>1. McpInv => CallCeiling
  BY DEF McpInv, Pacing, Firsts
<1> QED BY SpecMcpInv, <1>1, PTL
=============================================================================
