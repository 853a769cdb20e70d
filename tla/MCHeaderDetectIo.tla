-------------------------- MODULE MCHeaderDetectIo --------------------------
(***************************************************************************)
(* Two tables of two protocols, of which the first has an io of its own.   *)
(* The headers of the first table differ in their last byte.  Those of the *)
(* second differ before it, as those of SASL and of AMQP do:               *)
(* 'A','M','Q','P',3,1,0,0 and 'A','M','Q','P',0,1,0,0.                    *)
(***************************************************************************)
EXTENDS HeaderDetectIo

LastByteDiffers == << [bytes |-> <<1, 3>>, io |-> TRUE], [bytes |-> <<1, 0>>, io |-> FALSE] >>

SaslAndAmqp == << [bytes |-> <<1, 3, 1>>, io |-> TRUE], [bytes |-> <<1, 0, 1>>, io |-> FALSE] >>
=============================================================================
