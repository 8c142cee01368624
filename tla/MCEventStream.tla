---------------------------- MODULE MCEventStream ----------------------------
(* A model-checking instance of EventStream: payloads of one piece, of two,  *)
(* and one longer than the scanner's buffer.                                 *)
EXTENDS EventStream

ShortAndLong == {<<"a">>, <<"b", "c">>, <<"d", "e", "f", "g">>}
=============================================================================
