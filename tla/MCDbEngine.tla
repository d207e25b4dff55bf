----------------------------- MODULE MCDbEngine -----------------------------
(* Two threads, two records; one value has two secondary keys, one none.   *)
EXTENDS DbEngine

MCSkeys == <<<<1>>, <<1, 2>>, <<>>>>

=============================================================================
