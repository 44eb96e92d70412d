--------------------------- MODULE SlidingWindow ---------------------------
(***************************************************************************)
(* What a limiter of one client promises: a request starts only when fewer *)
(* than Max others started within the last Window ticks, and it waits only *)
(* when that is not so.                                                    *)
(***************************************************************************)
EXTENDS Integers, Sequences, FiniteSets

CONSTANTS Max, Window

VARIABLES now,     \* the clock
          starts,  \* when each request started
          waiting  \* whether the next one waits

windowVars == <<now, starts, waiting>>

\* The requests that started within the last Window ticks.
Current == {i \in 1..Len(starts) : now - starts[i] < Window}

Room == Cardinality(Current) < Max

WindowInit == now = 0 /\ starts = <<>> /\ ~waiting

Start ==
    /\ Room
    /\ starts' = Append(starts, now)
    /\ ~waiting'
    /\ UNCHANGED now

Wait ==
    /\ ~waiting /\ ~Room
    /\ waiting'
    /\ UNCHANGED <<now, starts>>

Pass == now' = now + 1 /\ UNCHANGED <<starts, waiting>>

WindowSpec == WindowInit /\ [][Start \/ Wait \/ Pass]_windowVars
============================================================================
