--------------------------- MODULE MCSaslClientIo ---------------------------
(***************************************************************************)
(* The SASL io for TLC: lists of the server without and with the mechanism *)
(* of the client, one with an item that is not a symbol, and credentials   *)
(* as short and as long as saslplain_create accepts them.                  *)
(***************************************************************************)
EXTENDS SaslClientIo

Lists == {<<>>, <<"EXTERNAL", "PLAIN">>, <<"undecodable", "EXTERNAL">>}

ShortAndLong == {<<0, 1, 1>>, <<255, 255, 255>>}
=============================================================================
