---------------------------- MODULE MCSnSession ----------------------------
(* Two numbers whose digits are the keys 1 (jump) and 3 (check).           *)
EXTENDS SnSession, TLC
CONSTANTS sn1, sn3
MCReadBody == <<"F", "R">>
MCWriteBody == <<"F", "W">>
MCText == sn1 :> <<"S", "N", "-", "1">> @@ sn3 :> <<"S", "N", "-", "3">>
=============================================================================
