------------------------------ MODULE MCTerminals ------------------------------
(***************************************************************************)
(* Instance for TLC: a session whose name begins with that of the          *)
(* bootstrap session, and one apart.                                       *)
(***************************************************************************)
EXTENDS Terminals, TLC

MCBootstrap == <<"relay-bootstrap">>

MCNames == {MCBootstrap, <<"relay-bootstrap", "-2">>, <<"agent">>}

MCBadName == <<"bad name!">>

CallSymmetry == Permutations(Calls)
=============================================================================
