--------------------------- MODULE MCStropheParser ---------------------------
(* StropheParser for TLC: two buckets, the last one for two of the three keys.  *)
EXTENDS MioXml

MCBucket == [key \in {"k1", "k2", "k3"} |-> IF key = "k1" THEN 1 ELSE 2]
MCAttributes == {<<<<"k1", "v">>, <<"k2", "v">>, <<"k3", "v">>>>}
MCSettings == {<<"k3", "w">>}
===============================================================================
