------------------------------ MODULE MCCliRun ------------------------------
(* Model-checking instances of CliRun. *)
EXTENDS CliRun

CONSTANTS u, v, host, dom, anon

\* A name with two types, and a target Classify rejects.
MCTypesOf == [i \in Targets |-> IF i = u THEN <<host, dom>> ELSE <<>>]

MCFold == [i \in Targets |-> i]
MCAuthScope == [a \in Accounts |-> "anon"]

\* Both types of a name have the extra section.
MCHasSection == Types \X (Sections \ {General})

\* The options are those of the run, so each target is given the same sections.
MCJobs ==
    {[ind |-> i, account |-> anon, refresh |-> FALSE, sections |-> <<General, "whois">>] :
        i \in Targets}

\* At first the name has pulses as a domain only; the section differs with the type,
\* so that one of the wrong type shows.
MCHeldFirst == {[s \in AllSlots |-> IF s.type = host THEN 0 ELSE 1]}
============================================================================
