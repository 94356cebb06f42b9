----------------------------- MODULE MCGeaStart -----------------------------
(* The libraries TLC lets the reader find. *)
EXTENDS GeaStart

MCModules == {<<"a">>, <<"a", "a">>}
=============================================================================
