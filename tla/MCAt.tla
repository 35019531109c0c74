-------------------------------- MODULE MCAt --------------------------------
(* Model-checking instance of the reading of an answer to an AT command. *)
EXTENDS At

ModemLines == {<<>>, <<"x">>}
=============================================================================
