---------------------- MODULE MCStatusListIndexFf1 ----------------------
(* Values of three bits (u = 1, v = 2) over a list of five indices, the     *)
(* smallest that needs three bits, so that some calls walk once, some two   *)
(* to four times; two rounds and a dozen round functions.                     *)
EXTENDS StatusListIndexFf1

MCMacValues == {1, 2}
MCRoundMacs ==
    {[r \in 0 .. Rounds - 1 |-> [x \in 0 .. RadixV - 1 |->
        IF x \in (IF r = 0 THEN S ELSE T) THEN 1 ELSE 2]] :
            S \in {{}, {0}, {1, 2}}, T \in {{}, {0}, {0, 3}, {1, 2}}}
MCCiphers == {CipherOf(m) : m \in MCRoundMacs}
============================================================================
