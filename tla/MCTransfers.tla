----------------------------- MODULE MCTransfers -----------------------------
(* Payloads for model checking Transfers; the numbers are in the cfg. *)
EXTENDS Transfers

\* One frame; and two, with chunks that end inside the first frame, across its
\* end and with the second, and an empty chunk.
MCPayloads == {<< <<1>> >>, << <<1>>, <<>>, <<2, 3>>, <<4>> >>}

\* Messages of up to three chunks of up to three bytes.
Chunks == {<<>>, <<1>>, <<1, 2>>, <<1, 2, 3>>}

ASSUME SplitsChecked ==
    \A a, b, c \in Chunks :
        \A payload \in {<<>>, <<a>>, <<a, b>>, <<a, b, c>>} :
            Splits(transfer_frames(payload), payload)
=============================================================================
