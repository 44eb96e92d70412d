------------------------------ MODULE MCReport ------------------------------
(* A model-checking instance of Report. *)
EXTENDS Report, TLC

\* No cap, the default and the smallest cap.
MCTops == {-1, 0, 1}

Plain(v)  == [text |-> v, padded |-> FALSE]
Padded(v) == [text |-> v, padded |-> TRUE]
Tag(t)    == [display |-> t, id |-> Plain(0)]

Pulse(name, created, modified, families, tags) ==
    [name |-> name, created |-> created, modified |-> modified,
     names |-> "families" :> families @@ "tags" :> tags]

\* A tag listed twice, once with spaces; a family without a display name and one
\* whose display name is blank; dates that cannot be read, and dates that are equal.
MCPool ==
    {Pulse(1, 1, 2, <<[display |-> Plain(0), id |-> Plain(2)]>>,
                    <<Tag(Plain(1)), Tag(Padded(1)), Tag(Plain(2))>>),
     Pulse(2, 2, 2, <<[display |-> Padded(0), id |-> Plain(1)]>>, <<Tag(Plain(2))>>),
     Pulse(3, 0, 3, <<[display |-> Plain(1), id |-> Plain(2)]>>, <<Tag(Plain(3)), Tag(Plain(0))>>),
     Pulse(4, 3, 0, <<>>, <<Tag(Plain(3)), Tag(Plain(1))>>)}
============================================================================
