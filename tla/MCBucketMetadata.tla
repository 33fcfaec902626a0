--------------------------- MODULE MCBucketMetadata ---------------------------
(***************************************************************************)
(* A daemon with two handlers, and two buckets: both new, or both in use   *)
(* with passwords of their own.                                            *)
(***************************************************************************)
EXTENDS BucketMetadata

OneHost == [p \in Procs |-> "m1"]

SmallChoices == {<<"b1", "w1">>, <<"b2", "w1">>, <<"b2", "w2">>}

SmallChanges == {<<"w1", "w2">>, <<"w2", "w1">>}

SmallFiles == {[m \in Machines |-> [bucket |-> "b1", password |-> "w1"]]}

SmallBuckets == {[b \in Buckets |-> None],
                 [b \in Buckets |-> IF b = "b1" THEN [password |-> "w1", key |-> 1]
                                                ELSE [password |-> "w2", key |-> 2]]}
=============================================================================
