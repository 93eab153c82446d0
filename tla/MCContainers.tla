---------------------------- MODULE MCContainers ----------------------------
(* Two keys that share a bucket of a small table, one of them empty keys.   *)
EXTENDS Containers

MCKeys == {<< >>, <<1>>, <<2>>}
MCTexts == {<<3>>, <<4, 4>>}
MCLines == {<< >>, <<<<4>>, <<3, 3>>>>}
MCHashOf == (<<1>> :> 5) @@ (<<2>> :> 9) @@ (<< >> :> 0)
=============================================================================
