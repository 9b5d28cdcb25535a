---------------------------- MODULE MCRoutingKey ----------------------------
(* Words of one and of two characters over two letters. *)
EXTENDS RoutingKey

ShortAndLongWords == {<<"a">>, <<"b">>, <<"a", "b">>}
=============================================================================
