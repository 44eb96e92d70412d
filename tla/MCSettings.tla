----------------------------- MODULE MCSettings -----------------------------
(* A model-checking instance of Settings. *)
EXTENDS Settings, TLC

MCSection ==
    "key" :> "api" @@ "limit" :> "query" @@ "timeout" :> "network" @@ "max_per_hour" :> "ratelimit"

\* Keys by number; limits and budgets around the least that is allowed; in tenths of a
\* nanosecond, a timeout of 0, one too short to keep, a short one and one that does
\* not fit.
MCWords ==
    "key" :> {1, 2} @@ "sdk_key" :> {3} @@ "limit" :> {Bad, 0, 1} @@ "max_per_hour" :> {Bad, -1, 1}
        @@ "timeout" :> {Bad, NaN, 0, 5, 20, 90}

\* Three sections, each with a pair or more, one of them left empty.
MCLines ==
    [is : {"header"}, of : {"api", "query", "network"}]
        \cup [is : {"pair"}, of : {"key"}, says : {1}]
        \cup [is : {"pair"}, of : {"limit"}, says : {Bad, 0}]
        \cup [is : {"pair"}, of : {"timeout"}, says : {NaN, 0, 5, 20, None}]
        \cup {Broken}

\* Beside the tool's own key, one variable is set.
MCEnvironments ==
    {[Unset EXCEPT !["key"] = k, ![v] = w] :
        <<k, v, w>> \in {<<k, v, w>> \in {2, None} \X Variables \X (UNION {Words[v] : v \in Variables} \cup {None}) :
                            v # "key" /\ w \in Words[v] \cup {None}}}

MCTimeoutFlags == {-4, 0, 4}

MCDefault == "key" :> 0 @@ "limit" :> 2 @@ "timeout" :> 3 @@ "max_per_hour" :> 0
============================================================================
