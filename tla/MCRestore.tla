------------------------------ MODULE MCRestore ------------------------------
(***************************************************************************)
(* A directory with a file of two chunks in it, a directory in that with a *)
(* small file that shares a chunk, a link, and an entry without extents.   *)
(***************************************************************************)
EXTENDS Restore, TLC

SmallOrder == <<"d", "d/big", "d/e", "d/e/small", "link", "lost">>

SmallKind ==
    ("d" :> "dir") @@ ("d/e" :> "dir") @@ ("link" :> "symlink") @@ [p \in Paths |-> "file"]

SmallDir ==
    ("d/big" :> "d") @@ ("d/e" :> "d") @@ ("d/e/small" :> "d/e") @@ [p \in Paths |-> Top]

SmallExtents == ("d/big" :> <<2, 3>>) @@ ("lost" :> <<>>) @@ [p \in Paths |-> <<1>>]

SmallPrefix ==
    ("d" :> {"d", "d/big", "d/e", "d/e/small"}) @@ ("d/e" :> {"d/e", "d/e/small"})
        @@ [p \in Paths |-> {p}]

SmallSize == (3 :> 2) @@ [n \in Names |-> 1]
=============================================================================
