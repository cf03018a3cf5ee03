-------------------------- MODULE MCStatusListCwt --------------------------
(* Three indices of four bits: the second byte is half padding.  Two        *)
(* digest streams, one that starts with a draw nextInt() skips; statuses    *)
(* Valid and an application's own (12).                                     *)
EXTENDS StatusListCwt

MCHashes ==
    LET digests(d) == [c \in 0 .. 2 |-> d[c + 1]] IN
    {digests(<< <<1, 1>>, <<2, 0>>, <<0, 1>> >>),
     digests(<< <<6, 0>>, <<1, 1>>, <<2, 2>> >>)}
=============================================================================
