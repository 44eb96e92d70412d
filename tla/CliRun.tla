------------------------------- MODULE CliRun -------------------------------
(***************************************************************************)
(* One run of "otx-lookup lookup": runLookup looks its targets up one      *)
(* after another through one engine, prints what it gets and folds the     *)
(* outcomes into an exit code.  Calls of Lookup are the targets, 1..Last,  *)
(* in the order given; the cache and upstream go on changing meanwhile.    *)
(***************************************************************************)
EXTENDS Lookup

CONSTANTS Last,      \* the number of targets
          BadRequest \* the code of a target upstream calls malformed

ASSUME LastAssumption == Last \in Nat \ {0} /\ Calls = 1..Last
\* A run asks with one key, at one base URL.
ASSUME ClientAssumption == \A i, j \in Jobs : i.account = j.account

VARIABLES jsonOut,         \* --json
          upto,            \* how many targets are dealt with
          badInput,
          upstreamFailed,
          printed,         \* the targets whose whole result reached stdout
          exit             \* the exit code, or Running

Running == -1

cli == <<jsonOut, upto, badInput, upstreamFailed, printed, exit>>
cliVars == <<vars, cli>>

CliInit ==
    /\ Init
    /\ jsonOut \in BOOLEAN
    /\ upto = 0
    /\ badInput = FALSE
    /\ upstreamFailed = FALSE
    /\ printed = {}
    /\ exit = Running

\* The target of this round of the loop.
Current(c) == exit = Running /\ c = upto + 1

\* eng.Lookup runs for the current target.
Looking ==
    /\ \E c \in Calls : Current(c) /\ (Begin(c) \/ Step(c))
    /\ UNCHANGED cli

\* The rest of the world moves, for as long as the run lasts.
World ==
    /\ exit = Running
    /\ \/ \E k \in AllKeys : Drop(k)
       \/ \E s \in AllSlots, n \in Answers : Publish(s, n)
       \/ Tick
    /\ UNCHANGED cli

\* Slips: after an error the next target is passed over; the loop does not move on.
ReportErrorSkips(c) ==
    /\ Current(c)
    /\ pc[c] \in {"rejected", "failed"}
    /\ badInput' = TRUE
    /\ upto' = c + 1
    /\ UNCHANGED <<vars, jsonOut, upstreamFailed, printed, exit>>
ReportErrorRetries(c) ==
    /\ Current(c)
    /\ pc[c] \in {"rejected", "failed"}
    /\ upstreamFailed' = TRUE
    /\ UNCHANGED <<vars, jsonOut, upto, badInput, printed, exit>>

\* Lookup returned an error: the code decides whose mistake it was.  An error
\* of Classify or validateSections has no code.
ReportError(c) ==
    /\ Current(c)
    /\ pc[c] \in {"rejected", "failed"}
    /\ LET mistake == pc[c] = "rejected" \/ res[c].firstErr = BadRequest IN
          /\ badInput' = (badInput \/ mistake)
          /\ upstreamFailed' = (upstreamFailed \/ ~mistake)
    /\ upto' = c
    /\ UNCHANGED <<vars, jsonOut, printed, exit>>

\* A slip: an incomplete result is printed and forgotten.
PrintForgets(c) ==
    /\ Current(c)
    /\ pc[c] = "done"
    /\ printed' = printed \cup {c}
    /\ upto' = c
    /\ UNCHANGED <<vars, jsonOut, upstreamFailed, badInput, exit>>

\* A result is printed; an incomplete one spoils the exit code.  renderText does not
\* look at what its writes return: on a full disk the text, or the end of it, is
\* lost and the loop goes on.
PrintResult(c) ==
    /\ Current(c)
    /\ pc[c] = "done"
    /\ upstreamFailed' = (upstreamFailed \/ res[c].incomplete)
    /\ \/ printed' = printed \cup {c}
       \/ ~jsonOut /\ UNCHANGED printed
    /\ upto' = c
    /\ UNCHANGED <<vars, jsonOut, badInput, exit>>

\* writeJSON reports a full disk: the targets left are not looked up.  (Writing to a
\* closed pipe kills the process: Go raises SIGPIPE for stdout.)
PrintFails(c) ==
    /\ jsonOut
    /\ Current(c)
    /\ pc[c] = "done"
    /\ upstreamFailed' = (upstreamFailed \/ res[c].incomplete)
    /\ exit' = 2
    /\ UNCHANGED <<vars, jsonOut, upto, badInput, printed>>

\* A slip: an upstream failure wins over a mistake in the input.
CodeUpstreamFirst == IF upstreamFailed THEN 1 ELSE IF badInput THEN 2 ELSE 0

\* The switch at the end of runLookup.
Code == IF badInput THEN 2 ELSE IF upstreamFailed THEN 1 ELSE 0

Exit ==
    /\ exit = Running
    /\ upto = Last
    /\ exit' = Code
    /\ UNCHANGED <<vars, jsonOut, upto, badInput, upstreamFailed, printed>>

CliNext ==
    \/ Looking
    \/ World
    \/ \E c \in Calls : ReportError(c) \/ PrintResult(c) \/ PrintFails(c)
    \/ Exit

\* The loop goes on; every exchange ends by http.Client.Timeout.
Going == Looking \/ (\E c \in Calls : ReportError(c) \/ PrintResult(c) \/ PrintFails(c)) \/ Exit

CliSpec == CliInit /\ [][CliNext]_cliVars

CliFairSpec == CliSpec /\ WF_cliVars(Going)

----------------------------------------------------------------------------
\* Type invariant.
CliTypeOK ==
    /\ TypeOK
    /\ jsonOut \in BOOLEAN
    /\ upto \in 0..Last
    /\ badInput \in BOOLEAN /\ upstreamFailed \in BOOLEAN
    /\ printed \subseteq Calls
    /\ exit \in {Running, 0, 1, 2}

EmptySince(c) ==
    \A i \in 1..Len(TypeList(c)) :
        HeldAlike(Slot(c, General, TypeList(c)[i]), 0, began[c] - Slack(c))

\* Exit 0 can be scripted on: every target has a result, and one without pulses was
\* really held by upstream to have none, for every type of the target (up to what
\* the cache folds together, see Alike); with --json each result was also written
\* (lookup.go, runLookup: a caller "would otherwise treat an unverified no-pulses as
\* a clean verdict").
ExitOkIsVerified ==
    exit = 0 => \A c \in Calls :
        /\ pc[c] = "done"
        /\ res[c].general.count = 0 => EmptySince(c)
        /\ jsonOut => c \in printed

Mistaken(c) == pc[c] = "rejected" \/ (pc[c] = "failed" /\ res[c].firstErr = BadRequest)
Unanswered(c) == pc[c] = "failed" /\ res[c].firstErr # BadRequest
Unverified(c) == pc[c] = "done" /\ res[c].incomplete

\* The codes tell the cases apart whatever the order of the targets: 2 whenever
\* one of them was the operator's mistake (or a result was lost), 1 for upstream
\* alone, 0 otherwise (app.go, exit codes; lookup.go, "it wins when both happen").
ExitCodeTells ==
    /\ exit = 0 => \A c \in Calls : ~Mistaken(c) /\ ~Unanswered(c) /\ ~Unverified(c)
    /\ exit = 1 => /\ \A c \in Calls : ~Mistaken(c)
                   /\ \E c \in Calls : Unanswered(c) \/ Unverified(c)
    /\ exit = 2 => \/ \E c \in Calls : Mistaken(c)
                   \/ upto < Last /\ pc[upto + 1] = "done" /\ (upto + 1) \notin printed

\* A run ends, whatever upstream does (lookup.go, runLookup).
RunEnds == <>(exit # Running)
============================================================================
