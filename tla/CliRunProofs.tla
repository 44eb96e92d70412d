---------------------------- MODULE CliRunProofs ----------------------------
(***************************************************************************)
(* Proofs about CliRun, for any number of targets.  The invariant CliInv   *)
(* says what the flags of the loop stand for: they tell exactly which      *)
(* outcomes the targets dealt with so far have had, and those outcomes no  *)
(* longer change.  That CliRun is a run of Lookup (RunIsLookup) brings     *)
(* over what is proved there.                                              *)
(***************************************************************************)
EXTENDS CliRun, LookupProofs

Over(c) == pc[c] \in {"rejected", "failed", "done"}

Dealt(c) == c \in Calls /\ c <= upto

\* Each call has a place and a result of its own.
Shaped == DOMAIN pc = Calls /\ DOMAIN res = Calls

FlagsTell ==
    /\ badInput <=> \E c \in Calls : Dealt(c) /\ Mistaken(c)
    /\ upstreamFailed <=> \E c \in Calls : Dealt(c) /\ (Unanswered(c) \/ Unverified(c))

CliInv ==
    /\ Shaped
    /\ upto \in 0..Last
    /\ badInput \in BOOLEAN /\ upstreamFailed \in BOOLEAN
    /\ exit \in {Running, 0, 1, 2}
    /\ \A c \in Calls : Dealt(c) => Over(c)
    /\ jsonOut \in BOOLEAN
    /\ printed \subseteq {c \in Calls : Dealt(c) /\ pc[c] = "done"}
    /\ jsonOut => printed = {c \in Calls : Dealt(c) /\ pc[c] = "done"}
    /\ exit = Running => FlagsTell
    /\ exit \in {0, 1} => upto = Last
    /\ ExitCodeTells

----------------------------------------------------------------------------
\* A call that is looking disturbs no other call, and is not over.
LEMMA LookingIsLocal ==
    ASSUME Shaped, NEW c \in Calls, Begin(c) \/ Step(c)
    PROVE  /\ Shaped'
           /\ ~Over(c)
           /\ \A d \in Calls \ {c} : pc'[d] = pc[d] /\ res'[d] = res[d]
<1>1. CASE Begin(c)
  BY <1>1 DEF Begin, Shaped, Over
<1>2. CASE CacheHit(c)
  BY <1>2 DEF CacheHit, Take, Advance, Shaped, Over
<1>3. CASE CacheMiss(c)
  BY <1>3 DEF CacheMiss, Shaped, Over
<1>4. CASE Serve(c)
  BY <1>4 DEF Serve, Shaped, Over
<1>5. CASE FetchFails(c)
  <2>1. PICK code \in Codes : res' = [res EXCEPT ![c] = Failed(c, code)]
    BY <1>5 DEF FetchFails
  <2> QED BY <1>5, <2>1 DEF FetchFails, Advance, Shaped, Over
<1>6. CASE Store(c)
  BY <1>6 DEF Store, Take, Advance, Shaped, Over
<1>7. CASE EndTypes(c)
  BY <1>7 DEF EndTypes, Shaped, Over
<1>8. CASE Skip(c)
  BY <1>8 DEF Skip, Advance, Shaped, Over
<1>9. CASE EndSections(c)
  BY <1>9 DEF EndSections, Shaped, Over
<1> QED BY <1>1, <1>2, <1>3, <1>4, <1>5, <1>6, <1>7, <1>8, <1>9 DEF Step

LEMMA InitCliInv == CliInit => CliInv
<1> SUFFICES ASSUME CliInit PROVE CliInv
  OBVIOUS
<1>1. /\ upto = 0 /\ badInput = FALSE /\ upstreamFailed = FALSE /\ printed = {}
      /\ exit = Running /\ exit \notin {0, 1, 2}
  BY DEF CliInit, Running
<1>5. Shaped
  BY DEF CliInit, Init, Shaped
<1>2. \A c \in Calls : ~Dealt(c)
  BY <1>1, LastAssumption DEF Dealt
<1>3. FlagsTell
  BY <1>1, <1>2 DEF FlagsTell
<1>4. ExitCodeTells
  BY <1>1 DEF ExitCodeTells
<1>6. printed = {c \in Calls : Dealt(c) /\ pc[c] = "done"} /\ jsonOut \in BOOLEAN
  BY <1>1, <1>2 DEF CliInit
<1>7. badInput \in BOOLEAN /\ upstreamFailed \in BOOLEAN
  BY <1>1
<1>8. upto \in 0..Last /\ \A c \in Calls : Dealt(c) => Over(c)
  BY <1>1, <1>2, LastAssumption
<1> QED BY <1>1, <1>3, <1>4, <1>5, <1>6, <1>7, <1>8 DEF CliInv

\* What does not touch the run's own state, nor the calls dealt with, keeps CliInv.
LEMMA OutcomesStay ==
    ASSUME CliInv, Shaped', UNCHANGED cli,
           exit # Running => UNCHANGED <<pc, res>>,
           \A d \in Calls : Dealt(d) => pc'[d] = pc[d] /\ res'[d] = res[d]
    PROVE  CliInv'
<1>1. CASE exit = Running
  <2>1. exit' = Running /\ exit' \notin {0, 1, 2}
    BY <1>1 DEF cli, Running
  <2>2. \A c \in Calls : /\ Dealt(c)' <=> Dealt(c)
                         /\ Dealt(c) => /\ Mistaken(c)' <=> Mistaken(c)
                                        /\ Unanswered(c)' <=> Unanswered(c)
                                        /\ Unverified(c)' <=> Unverified(c)
                                        /\ Over(c)' <=> Over(c)
    BY DEF cli, Dealt, Mistaken, Unanswered, Unverified, Over
  <2>3. FlagsTell'
    BY <1>1, <2>2 DEF CliInv, FlagsTell, cli
  <2>4. {c \in Calls : Dealt(c)' /\ pc'[c] = "done"} = {c \in Calls : Dealt(c) /\ pc[c] = "done"}
    BY <2>2
  <2>5. ExitCodeTells'
    BY <2>1 DEF ExitCodeTells
  <2> QED BY <2>1, <2>2, <2>3, <2>4, <2>5 DEF CliInv, cli
<1>2. CASE exit # Running
  BY <1>2 DEF CliInv, cli, FlagsTell, Dealt, Over, Mistaken, Unanswered, Unverified,
              ExitCodeTells, Shaped, Running
<1> QED BY <1>1, <1>2

\* The loop moves to the next target, having added its outcome to the flags.
LEMMA OutcomeAdded ==
    ASSUME CliInv, NEW c \in Calls, Current(c), Over(c), UNCHANGED <<pc, res, exit, jsonOut>>,
           upto' = c,
           badInput' = (badInput \/ Mistaken(c)),
           upstreamFailed' = (upstreamFailed \/ Unanswered(c) \/ Unverified(c)),
           \/ pc[c] = "done" /\ printed' = printed \cup {c}
           \/ (pc[c] # "done" \/ ~jsonOut) /\ printed' = printed
    PROVE  CliInv'
<1>1. /\ exit = Running /\ exit' = Running /\ c = upto + 1 /\ upto \in 0..Last
      /\ c \in 1..Last /\ upto' \in 0..Last
      /\ exit' \notin {0, 1, 2}
  BY LastAssumption DEF Current, CliInv, Running
<1>2. \A d \in Calls : Dealt(d)' <=> (Dealt(d) \/ d = c)
  BY <1>1, LastAssumption DEF Dealt
<1>3. \A d \in Calls : /\ Mistaken(d)' <=> Mistaken(d)
                       /\ Unanswered(d)' <=> Unanswered(d)
                       /\ Unverified(d)' <=> Unverified(d)
                       /\ Over(d)' <=> Over(d)
  BY DEF Mistaken, Unanswered, Unverified, Over
<1>4. FlagsTell'
  <2>1. badInput' <=> \E d \in Calls : Dealt(d)' /\ Mistaken(d)'
    BY <1>1, <1>2, <1>3 DEF CliInv, FlagsTell
  <2>2. upstreamFailed' <=> \E d \in Calls : Dealt(d)' /\ (Unanswered(d)' \/ Unverified(d)')
    BY <1>1, <1>2, <1>3 DEF CliInv, FlagsTell
  <2> QED BY <2>1, <2>2 DEF FlagsTell
<1>5. /\ printed' \subseteq {d \in Calls : Dealt(d)' /\ pc'[d] = "done"}
      /\ jsonOut' => printed' = {d \in Calls : Dealt(d)' /\ pc'[d] = "done"}
  BY <1>2 DEF CliInv
<1>6. ExitCodeTells'
  BY <1>1 DEF ExitCodeTells
<1> QED BY <1>1, <1>2, <1>3, <1>4, <1>5, <1>6 DEF CliInv, Shaped

LEMMA NextCliInv == CliInv /\ [CliNext]_cliVars => CliInv'
<1> SUFFICES ASSUME CliInv, [CliNext]_cliVars PROVE CliInv'
  OBVIOUS
<1>1. CASE Looking
  <2>1. PICK c \in Calls : Current(c) /\ (Begin(c) \/ Step(c))
    BY <1>1 DEF Looking
  <2>2. Shaped' /\ \A d \in Calls \ {c} : pc'[d] = pc[d] /\ res'[d] = res[d]
    BY <2>1, LookingIsLocal DEF CliInv
  <2>3. \A d \in Calls : Dealt(d) => d # c
    BY <2>1, LastAssumption DEF Current, Dealt, CliInv
  <2>4. UNCHANGED cli /\ exit = Running
    BY <1>1, <2>1 DEF Looking, Current
  <2> QED BY <2>2, <2>3, <2>4, OutcomesStay
<1>2. CASE World
  <2>1. UNCHANGED <<pc, res, cli>>
    BY <1>2 DEF World, Drop, Publish, Tick
  <2> QED BY <2>1, OutcomesStay DEF CliInv, Shaped
<1>3. ASSUME NEW c \in Calls, ReportError(c) PROVE CliInv'
  <2>1. /\ Current(c) /\ Over(c) /\ pc[c] # "done" /\ UNCHANGED <<pc, res, exit, jsonOut>>
        /\ upto' = c /\ printed' = printed
    BY <1>3 DEF ReportError, Over, vars
  <2>2. /\ badInput' = (badInput \/ Mistaken(c))
        /\ upstreamFailed' = (upstreamFailed \/ Unanswered(c) \/ Unverified(c))
    BY <1>3 DEF ReportError, Mistaken, Unanswered, Unverified
  <2> QED BY <2>1, <2>2, OutcomeAdded
<1>4. ASSUME NEW c \in Calls, PrintResult(c) PROVE CliInv'
  <2>1. /\ Current(c) /\ Over(c) /\ pc[c] = "done" /\ UNCHANGED <<pc, res, exit, jsonOut, badInput>>
        /\ upto' = c /\ (printed' = printed \cup {c} \/ (~jsonOut /\ printed' = printed))
        /\ upstreamFailed' = (upstreamFailed \/ res[c].incomplete)
    BY <1>4 DEF PrintResult, Over, vars
  <2>2. badInput' = (badInput \/ Mistaken(c))
    BY <2>1 DEF Mistaken, CliInv
  <2>3. upstreamFailed' = (upstreamFailed \/ Unanswered(c) \/ Unverified(c))
    BY <2>1 DEF Unanswered, Unverified
  <2>4. \/ pc[c] = "done" /\ printed' = printed \cup {c}
        \/ (pc[c] # "done" \/ ~jsonOut) /\ printed' = printed
    BY <2>1
  <2>5. UNCHANGED <<pc, res, exit, jsonOut>> /\ upto' = c /\ Current(c) /\ Over(c)
    BY <2>1
  <2> QED BY <2>2, <2>3, <2>4, <2>5, OutcomeAdded
<1>5. ASSUME NEW c \in Calls, PrintFails(c) PROVE CliInv'
  <2>1. /\ c = upto + 1 /\ upto \in 0..Last /\ c \in 1..Last /\ pc[c] = "done"
        /\ UNCHANGED <<pc, res, jsonOut, upto, badInput, printed>> /\ exit' = 2
        /\ upstreamFailed' \in BOOLEAN
    BY <1>5, LastAssumption DEF PrintFails, Current, CliInv, vars
  <2>2. c \notin printed
    BY <2>1 DEF CliInv, Dealt
  <2>3. ExitCodeTells'
    BY <2>1, <2>2, LastAssumption DEF ExitCodeTells
  <2> QED BY <2>1, <2>3 DEF CliInv, Shaped, Dealt, Over, Running
<1>6. CASE Exit
  <2>1. /\ exit = Running /\ upto = Last /\ exit' = Code /\ Code \in {0, 1, 2}
        /\ UNCHANGED <<pc, res, jsonOut, upto, badInput, upstreamFailed, printed>>
    BY <1>6 DEF Exit, Code, vars
  <2>2. \A c \in Calls : Dealt(c)
    BY <2>1, LastAssumption DEF Dealt
  <2>3. /\ badInput <=> \E c \in Calls : Mistaken(c)
        /\ upstreamFailed <=> \E c \in Calls : Unanswered(c) \/ Unverified(c)
    BY <2>1, <2>2 DEF CliInv, FlagsTell
  <2>4. ExitCodeTells'
    <3>1. \A c \in Calls : /\ Mistaken(c)' <=> Mistaken(c)
                           /\ Unanswered(c)' <=> Unanswered(c)
                           /\ Unverified(c)' <=> Unverified(c)
      BY <2>1 DEF Mistaken, Unanswered, Unverified
    <3> QED BY <2>1, <2>3, <3>1 DEF ExitCodeTells, Code
  <2> QED BY <2>1, <2>4 DEF CliInv, Shaped, Dealt, Over, Running
<1>7. CASE UNCHANGED cliVars
  BY <1>7, OutcomesStay DEF cliVars, cli, vars, CliInv, Shaped
<1> QED BY <1>1, <1>2, <1>3, <1>4, <1>5, <1>6, <1>7 DEF CliNext

----------------------------------------------------------------------------
\* The exit code tells which outcomes the targets of a run had, in whatever order
\* they came (lookup.go, runLookup).
THEOREM ExitCodeHolds == CliSpec => []ExitCodeTells
<1>1. CliInv => ExitCodeTells
  BY DEF CliInv
<1> QED BY InitCliInv, NextCliInv, <1>1, PTL DEF CliSpec

\* A run of the command is a run of Lookup: what is proved of Lookup holds in it
\* (lookup.go, runLookup calls eng.Lookup).
THEOREM RunIsLookup == CliSpec => Spec
<1>1. CliInit => Init
  BY DEF CliInit
<1>2. [CliNext]_cliVars => [Next]_vars
  BY DEF CliNext, Looking, World, ReportError, PrintResult, PrintFails, Exit, Next, cliVars, cli
<1> QED BY <1>1, <1>2, PTL DEF CliSpec, Spec

LEMMA OkIsComplete ==
    ASSUME CliInv, exit = 0, NEW c \in Calls
    PROVE  pc[c] = "done" /\ ~res[c].incomplete /\ (jsonOut => c \in printed)
<1>1. Dealt(c)
  BY LastAssumption DEF CliInv, Dealt
<1>2. ~Mistaken(c) /\ ~Unanswered(c) /\ ~Unverified(c)
  BY DEF CliInv, ExitCodeTells
<1>3. pc[c] = "done" /\ ~res[c].incomplete
  BY <1>1, <1>2 DEF CliInv, Over, Mistaken, Unanswered, Unverified
<1> QED BY <1>1, <1>3 DEF CliInv

\* Exit 0 means that every target was answered, that each one answered without pulses
\* really had none, up to what the cache folds together, and that with --json each
\* answer was written (lookup.go, runLookup).
THEOREM ExitOkHolds == CliSpec => []ExitOkIsVerified
<1>1. CliInv /\ CleanIsTrue => ExitOkIsVerified
  BY OkIsComplete DEF CleanIsTrue, ExitOkIsVerified, EmptySince
<1> QED BY InitCliInv, NextCliInv, <1>1, RunIsLookup, CleanHolds, PTL DEF CliSpec

\* For a target and a client that share no cache entry with another, it really had
\* none (lookup.go, runLookup; cache.go, Key).
ExitOkIsVerifiedAlone ==
    exit = 0 => \A c \in Calls :
        res[c].general.count = 0 /\ Alone(job[c].ind, job[c].account) =>
            \A i \in 1..Len(TypeList(c)) :
                HeldSince(Slot(c, General, TypeList(c)[i]), 0, began[c] - Slack(c))

THEOREM ExitOkAloneHolds == CliSpec => []ExitOkIsVerifiedAlone
<1>1. CliInv /\ AloneIsAnswered => ExitOkIsVerifiedAlone
  BY OkIsComplete DEF AloneIsAnswered, ExitOkIsVerifiedAlone
<1> QED BY InitCliInv, NextCliInv, <1>1, RunIsLookup, AloneHolds, PTL DEF CliSpec
=============================================================================
