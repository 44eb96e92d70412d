------------------------------ MODULE MCPulse ------------------------------
(* A model-checking instance of Pulse. *)
EXTENDS Pulse, TLC

MCAuthScope == [a \in Accounts |-> IF a = "nobody" THEN "anon" ELSE "keyed"]

\* The second revision drops an indicator and adds two; a key also sees a private
\* indicator, each its own; the page endpoint lists the newest first.
MCLists == [s \in Sources |->
    CASE s = "nobody" -> (0 :> <<1>> @@ 1 :> <<2, 3>>)
      [] s = "key1"   -> (0 :> <<1, 9>> @@ 1 :> <<2, 3, 9>>)
      [] s = "key2"   -> (0 :> <<1, 8>> @@ 1 :> <<2, 3, 8>>)
      [] s = "page"   -> (0 :> <<9, 1>> @@ 1 :> <<9, 3, 2>>)
      [] s = "search" -> (0 :> <<5, 6>> @@ 1 :> <<7, 5, 6>>)]

\* The walks are nobody's and the first key's; the second key only stores details.
\* Page 5 of 2 needs the product 8, one more than a 4-bit int holds; page 0 means 1.
MCPages == {<<0, 2>>, <<1, 1>>, <<1, -1>>, <<5, 2>>}

MCJobs ==
    {j \in [op : {"pulse", "search"}, account : {"nobody", "key1"}, page : {0, 1, 5},
            limit : {-1, 1, 2}, refresh : BOOLEAN, indicators : BOOLEAN] :
        /\ <<j.page, j.limit>> \in MCPages
        /\ j.op = "search" => ~j.refresh /\ j.indicators
        /\ ~j.indicators => j.limit = -1
        /\ j.refresh => j.limit = 1}
============================================================================
