------------------------------ MODULE MCLookup ------------------------------
(* Model-checking instances of Lookup. *)
EXTENDS Lookup, TLC

CONSTANTS c1, c2, u, v, host, dom, anon, key

\* A name that may be a hostname or a domain.
MCTypesOf == [i \in Targets |-> <<host, dom>>]

MCFold == [i \in Targets |-> i]
MCAuthScope == [a \in Accounts |-> IF a = anon THEN "anon" ELSE "keyed"]

Job(i, a, r) == [ind |-> i, account |-> a, refresh |-> r, sections |-> <<>>]

\* With and without --refresh, with and without a key; --sections may name the section
\* that every lookup fetches anyway.
MCJobs ==
    {Job(u, anon, FALSE), [Job(u, anon, TRUE) EXCEPT !.sections = <<General>>], Job(u, key, FALSE)}

\* Upstream tells the two accounts different things: nothing to one and pulses to
\* the other, or pulses to each under another type.
MCHeldFirst ==
    {[s \in AllSlots |-> IF s.account = anon THEN 0 ELSE 1],
     [s \in AllSlots |-> IF s.account = anon THEN 1 ELSE 0],
     [s \in AllSlots |-> IF (s.account = anon) = (s.type = dom) THEN 1 ELSE 0]}

\* Two URLs that differ only in case: one type, one spelling in the cache key.
MCUrlTypesOf == [i \in Targets |-> <<host>>]
MCUrlFold == [i \in Targets |-> u]
MCUrlHeldFirst == [AllSlots -> Answers]
MCUrlJobs == {Job(u, anon, FALSE), Job(v, anon, FALSE)}

Symmetry == Permutations({c1, c2})
============================================================================
