------------------------------- MODULE MCCbCmds -------------------------------
(* The lists of server tags of the requests that are checked. *)
EXTENDS CbCmds

MCTagLists == {<<>>, <<"all">>, <<"kea">>, <<"any">>, <<Malformed>>, <<"kea", "kea2">>}
=============================================================================
