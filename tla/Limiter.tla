------------------------------ MODULE Limiter ------------------------------
(***************************************************************************)
(* The request pacing of one otx.Client: the sliding-window limiter that   *)
(* get() passes through (pace, limiter.take, limiter.prune) and the HTTP   *)
(* exchange that follows it.  A client is used by one goroutine, so a      *)
(* request is paced, exchanged and finished before the next is paced.      *)
(*                                                                         *)
(* Go re-slices l.times on every prune (l.times = l.times[cut:]), so the   *)
(* model keeps the backing array in "taken" and the start of the live      *)
(* slice in "lo": l.times is taken[lo+1 .. Len(taken)].  Time is counted   *)
(* in ticks of the process's monotonic clock.                              *)
(***************************************************************************)
EXTENDS Integers, Sequences, FiniteSets

CONSTANTS Max,      \* limiter.max, the request budget per window
          Window,   \* limiter.window, in ticks
          Timeout,  \* http.Client.Timeout, in ticks
          Horizon   \* the last instant that is explored

\* config.RateCeiling is positive for every configuration that validate
\* accepts, so the max <= 0 early return of take is not taken by any caller.
ASSUME MaxAssumption     == Max \in Nat \ {0}
ASSUME WindowAssumption  == Window \in Nat \ {0}
ASSUME TimeoutAssumption == Timeout \in Nat
ASSUME HorizonAssumption == Horizon \in Nat

VARIABLES now,      \* the clock
          taken,    \* the instants appended to l.times, oldest first
          lo,       \* how many of them prune has cut off
          pc,       \* where the request in progress is
          wake,     \* the instant the pending sleep is due to end
          arrived   \* ghost: when upstream saw each request, Lost if it did not

vars == <<now, taken, lo, pc, wake, arrived>>

Lost == -1

Phases == {"idle", "sleeping", "sending", "awaiting"}

\* len(l.times): what Requests() reports.
Requests == Len(taken) - lo

\* Slips in the definitions below: prune keeps everything, or drops what is still
\* in the window; the sleep has the wrong sign, ends early, or is taken twice.
PrunedToStale(c, t)   == c = lo
PrunedToTooFar(c, t)  == /\ c \in lo..Len(taken)
                         /\ c < Len(taken) => t - taken[c + 1] < Window - 1
FirstFreeBackwards(c) == taken[c + 1] - Window
FirstFreeEarly(c)     == taken[c + 1] + Window - 1
FirstFreeDoubled(c)   == taken[c + 1] + 2 * Window

\* limiter.prune(t): everything before c has left the window at t, c+1 has not.
PrunedTo(c, t) ==
    /\ c \in lo..Len(taken)
    /\ \A i \in (lo + 1)..c : t - taken[i] >= Window
    /\ c < Len(taken) => t - taken[c + 1] < Window

\* t + wait, where wait = l.window - t.Sub(l.times[0]) after a prune to c.
FirstFree(c) == taken[c + 1] + Window

Init ==
    /\ now = 0
    /\ taken = <<>>
    /\ lo = 0
    /\ pc = "idle"
    /\ wake = 0
    /\ arrived = <<>>

\* A request's start stamp goes into l.times and pace returns.
Admit(c) ==
    /\ lo' = c
    /\ taken' = Append(taken, now)
    /\ pc' = "sending"

\* A slip: <= for < in the test of the budget.
TakeNowOverfull ==
    /\ pc = "idle"
    /\ \E c \in lo..Len(taken) :
          /\ PrunedTo(c, now)
          /\ Len(taken) - c <= Max
          /\ Admit(c)
    /\ UNCHANGED <<now, wake, arrived>>

\* take finds room after the first prune.
TakeNow ==
    /\ pc = "idle"
    /\ \E c \in lo..Len(taken) :
          /\ PrunedTo(c, now)
          /\ Len(taken) - c < Max
          /\ Admit(c)
    /\ UNCHANGED <<now, wake, arrived>>

\* take finds the budget spent and sleeps until the oldest request leaves.
TakeWait ==
    /\ pc = "idle"
    /\ \E c \in lo..Len(taken) :
          /\ PrunedTo(c, now)
          /\ Len(taken) - c >= Max
          /\ lo' = c
          /\ wake' = FirstFree(c)
    /\ pc' = "sleeping"
    /\ UNCHANGED <<now, taken, arrived>>

\* time.Sleep returns at or after its due time; take reads the clock again,
\* prunes once more and appends without testing the length again.
Wake ==
    /\ pc = "sleeping"
    /\ now >= wake
    /\ \E c \in lo..Len(taken) : PrunedTo(c, now) /\ Admit(c)
    /\ UNCHANGED <<now, wake, arrived>>

\* c.HTTP.Do puts the request on the wire and upstream sees it.
Send ==
    /\ pc = "sending"
    /\ arrived' = Append(arrived, now)
    /\ pc' = "awaiting"
    /\ UNCHANGED <<now, taken, lo, wake>>

\* c.HTTP.Do fails before upstream sees anything (connection refused, DNS,
\* timeout while connecting): network_error, and the stamp stays in l.times.
SendFails ==
    /\ pc = "sending"
    /\ arrived' = Append(arrived, Lost)
    /\ pc' = "idle"
    /\ UNCHANGED <<now, taken, lo, wake>>

\* get returns, with a body or with an error after the request was sent.
Return ==
    /\ pc = "awaiting"
    /\ pc' = "idle"
    /\ UNCHANGED <<now, taken, lo, wake, arrived>>

\* A slip: a client whose timeout covers the connection and not the body.
ExchangeMayLastLonger ==
    pc \in {"sending", "awaiting"} => now - taken[Len(taken)] <= Timeout

\* http.Client.Timeout bounds Do and the reading of the body; pace itself takes
\* no time beyond its sleep.
ExchangeMayLast ==
    pc \in {"sending", "awaiting"} => now - taken[Len(taken)] < Timeout

Tick ==
    /\ now < Horizon
    /\ ExchangeMayLast
    /\ now' = now + 1
    /\ UNCHANGED <<taken, lo, pc, wake, arrived>>

Next == TakeNow \/ TakeWait \/ Wake \/ Send \/ SendFails \/ Return \/ Tick

\* Nobody is obliged to start another request; a started one is carried on, and
\* time passes.
Fairness ==
    /\ WF_vars(Wake)
    /\ WF_vars(Send \/ SendFails)
    /\ WF_vars(Return)
    /\ WF_vars(Tick)

Spec == Init /\ [][Next]_vars

FairSpec == Spec /\ Fairness

----------------------------------------------------------------------------
\* Type invariant.
TypeOK ==
    /\ now \in 0..Horizon
    /\ taken \in Seq(Nat)
    /\ lo \in 0..Len(taken)
    /\ pc \in Phases
    /\ wake \in Nat
    /\ arrived \in Seq(Nat \cup {Lost})

\* The limiter never lets more than Max starts into one window: whatever the
\* sleeps overshoot, the stamp Max places later is a whole window later.
\* (client.go, take: the second prune is trusted to have made room.)
LocalCeiling ==
    \A i \in 1..Len(taken) :
        i + Max <= Len(taken) => taken[i + Max] - taken[i] >= Window

\* The slice take appends to never outgrows the budget, so the one retry after
\* the sleep is enough and Requests() never reports more than the budget.
WithinBudget == Requests <= Max

Arrived(i) == i \in 1..Len(arrived) /\ arrived[i] # Lost

\* What upstream sees is at most one request over the budget in any window,
\* because a request can reach upstream late by the length of its exchange but
\* never after the next request was stamped.
UpstreamSlack ==
    \A i, j \in 1..Len(arrived) :
        (Arrived(i) /\ Arrived(j) /\ j > i + Max) => arrived[j] - arrived[i] >= Window

\* The lateness is bounded by the HTTP timeout: Max requests later is a window
\* less at most one exchange.
UpstreamWithinTimeout ==
    \A i, j \in 1..Len(arrived) :
        (Arrived(i) /\ Arrived(j) /\ j >= i + Max)
            => arrived[j] - arrived[i] >= Window - Timeout

\* A sleeping request is released: with a whole window left to explore, it is
\* admitted and goes to the wire.
SleepEnds ==
    (pc = "sleeping" /\ now + Window <= Horizon) ~> (pc = "sending")

\* take never sleeps past the moment the budget frees up.
SleepIsBounded ==
    [][pc' = "sleeping" => pc = "sleeping" \/ (wake' > now /\ wake' <= now + Window)]_vars

----------------------------------------------------------------------------
Slots == INSTANCE SlidingWindow WITH starts <- taken, waiting <- (pc = "sleeping")

\* Counting the slice is counting the window: take lets a request through exactly
\* when the window has room and sleeps exactly when it has none, though it prunes
\* only now and then and never looks at the length again after its sleep
\* (client.go, take and prune).
ImplementsWindow == Slots!WindowSpec

\* Requests() never leaves out a request of the current window, however long ago
\* the slice was pruned (client.go, Requests: "how many requests the client has
\* made inside the current rate window").
RequestsCover == Cardinality(Slots!Current) <= Requests
============================================================================
