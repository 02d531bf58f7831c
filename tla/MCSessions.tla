----------------------------- MODULE MCSessions -----------------------------
(* Instances of Sessions for TLC.                                          *)
EXTENDS Sessions

\* Every thread may name every key, or a key of its own.
AllKeys == [t \in Threads |-> Keys]
OwnKeys == [t \in Threads |-> IF t = "t1" THEN {"k1"} ELSE Keys \ {"k1"}]

\* What the contents are, by key.
Mixed == [k \in Keys |-> CASE k = "k1" -> "faust"
                           [] k = "k2" -> "foreign"
                           [] k = "k3" -> "archive"
                           [] k = "k4" -> "nested"
                           [] OTHER -> "empty"]
Programs == [k \in Keys |-> "faust"]
Foreign == [k \in Keys |-> "foreign"]

=============================================================================
