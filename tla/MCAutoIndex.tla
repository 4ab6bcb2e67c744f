----------------------------- MODULE MCAutoIndex -----------------------------
(***************************************************************************)
(* A tree r with subdirectories a and c, and b inside a: a nested level    *)
(* and two siblings, so os.walk has two depth-first orders.                *)
(***************************************************************************)
EXTENDS AutoIndex

MCParent == [d \in {"a", "b", "c"} |-> IF d = "b" THEN "a" ELSE "r"]

(* Name lengths at the edges of limit_filename_length: "a/" of 50 is     *)
(* kept, "b/" of 51 and the file name of 51 are cut, "c/" is far longer.   *)
MCNameLen == ("r" :> 1) @@ ("a" :> 49) @@ ("b" :> 50) @@ ("c" :> 120)
             @@ ("x.qcow2" :> 51)

(* Trees with and without index pages left by an earlier run.              *)
MCInitTrees ==
    { {<<"a", "x.qcow2">>, <<"b", "x.qcow2">>},
      {<<"r", "index.html">>, <<"b", "index.html">>, <<"b", "x.qcow2">>} }

=============================================================================
