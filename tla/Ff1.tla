-------------------------------- MODULE Ff1 --------------------------------
(***************************************************************************)
(* ff1Encrypt of @owf/token-status-list (NIST SP 800-38G FF1): ten Feistel *)
(* rounds over the two halves (a, b) of a value.                           *)
(*                                                                         *)
(* Every block that is encrypted is an await on the caller's encryptBlock, *)
(* so any number of encryptions under one key interleave round by round,   *)
(* and any of them may reject.  The round function, a CBC-MAC over AES of  *)
(* the round number and b, is abstracted to an arbitrary function: nothing *)
(* FF1 promises here depends on what AES returns, only on all calls        *)
(* getting the same answer for the same block.                             *)
(***************************************************************************)
EXTENDS Integers, Sequences

CONSTANTS
    RadixU,         \* radix^u, the number of values of the first half
    RadixV,         \* radix^v, the number of values of the second half
    Rounds,         \* 10 in the code; even
    MacValues,      \* what a round's CBC-MAC may be, as a number
    RoundMacs,      \* the round functions considered
    Encryptions     \* the calls of ff1Encrypt that may be under way

ASSUME RadixAssumption ==
    RadixU \in Nat \ {0} /\ RadixV \in Nat \ {0} /\ RadixU <= RadixV
ASSUME RoundsAssumption == Rounds \in Nat /\ Rounds % 2 = 0
ASSUME MacAssumption ==
    /\ MacValues \subseteq Nat
    /\ RoundMacs \subseteq [0 .. Rounds - 1 -> [0 .. RadixV - 1 -> MacValues]]

Ff1Values == 0 .. RadixU * RadixV - 1

VARIABLES
    mac,        \* y as a function of the round and of b
    plain,      \* plain[e]: the value call e encrypts
    round,      \* round[e]: the loop counter of call e, -1 when it is not running
    halves      \* halves[e][r]: <<a, b>> of call e before its round r (the code
                \* keeps the last pair only; the earlier ones are history)

ff1Vars == <<mac, plain, round, halves>>

Running(e) == round[e] >= 0
Ready(e)   == round[e] = Rounds
Output(e)  == halves[e][Rounds][1] * RadixV + halves[e][Rounds][2]

HalfA(r) == IF r % 2 = 0 THEN 0 .. RadixU - 1 ELSE 0 .. RadixV - 1
HalfB(r) == IF r % 2 = 0 THEN 0 .. RadixV - 1 ELSE 0 .. RadixU - 1

\* The halves of a running call swap their sizes with every round.
Ff1TypeOK ==
    /\ mac \in RoundMacs
    /\ plain \in [Encryptions -> Ff1Values]
    /\ round \in [Encryptions -> -1 .. Rounds]
    /\ halves \in [Encryptions -> [0 .. Rounds -> Nat \X Nat]]
    /\ \A e \in Encryptions : \A r \in 0 .. Rounds :
          r <= round[e] => halves[e][r] \in HalfA(r) \X HalfB(r)

NoHalves == [r \in 0 .. Rounds |-> <<0, 0>>]

Ff1Init ==
    /\ mac \in RoundMacs
    /\ plain = [e \in Encryptions |-> 0]
    /\ round = [e \in Encryptions |-> -1]
    /\ halves = [e \in Encryptions |-> NoHalves]

\* ff1Encrypt up to its first round: a value of the domain is split in two.
Begin(e, x) ==
    /\ x \in Ff1Values
    /\ plain' = [plain EXCEPT ![e] = x]
    /\ round' = [round EXCEPT ![e] = 0]
    /\ halves' = [halves EXCEPT ![e] = [NoHalves EXCEPT ![0] = <<x \div RadixV, x % RadixV>>]]
    /\ UNCHANGED mac

\* Mutant: the moduli of the even and the odd rounds are swapped.
RoundResultSwappedModuli(r, h) ==
    <<h[2], (h[1] + mac[r][h[2]]) % (IF r % 2 = 0 THEN RadixV ELSE RadixU)>>

\* What round r makes of the halves h = <<a, b>>: b moves to the front, and a
\* with the round's MAC added takes its place.
RoundResult(r, h) ==
    <<h[2], (h[1] + mac[r][h[2]]) % (IF r % 2 = 0 THEN RadixU ELSE RadixV)>>

\* One turn of the round loop: the MAC of the round number and b resolves.
Round(e) ==
    /\ Running(e) /\ ~Ready(e)
    /\ halves' = [halves EXCEPT ![e][round[e] + 1] = RoundResult(round[e], halves[e][round[e]])]
    /\ round' = [round EXCEPT ![e] = @ + 1]
    /\ UNCHANGED <<mac, plain>>

\* Calls end: with the result taken by the caller, with a rejection (an
\* encryptBlock that fails or returns a block of another size), or with the
\* process.
End(E) ==
    /\ round' = [e \in Encryptions |-> IF e \in E THEN -1 ELSE round[e]]
    /\ halves' = [e \in Encryptions |-> IF e \in E THEN NoHalves ELSE halves[e]]
    /\ UNCHANGED <<mac, plain>>

Ff1Next ==
    \/ \E e \in Encryptions : \/ \E x \in Ff1Values : Begin(e, x)
                              \/ Round(e)
    \/ \E E \in SUBSET Encryptions : End(E)

Ff1Spec == Ff1Init /\ [][Ff1Next]_ff1Vars

-----------------------------------------------------------------------------
\* FF1 is a permutation of its domain: however the rounds of two encryptions
\* interleave, their results are in the domain (`return a * radixV + b`), and
\* are the same when the values are and only then.
Permutes ==
    \A e, f \in Encryptions :
        Ready(e) /\ Ready(f) =>
            /\ Output(e) \in Ff1Values
            /\ Output(e) = Output(f) <=> plain[e] = plain[f]

-----------------------------------------------------------------------------
(***************************************************************************)
(* The inductive invariant behind Permutes.  Two calls are seldom in the   *)
(* same round, so they are compared at every round both have reached: each *)
(* pair of halves is the round's result for the one before it, and no      *)
(* round has merged two values or told equal ones apart.                   *)
(***************************************************************************)
Traces ==
    \A e \in Encryptions : Running(e) =>
        /\ halves[e][0] = <<plain[e] \div RadixV, plain[e] % RadixV>>
        /\ \A r \in 0 .. Rounds - 1 :
              r < round[e] => halves[e][r + 1] = RoundResult(r, halves[e][r])

NeverMerge ==
    \A e, f \in Encryptions : \A r \in 0 .. Rounds :
        r <= round[e] /\ r <= round[f] =>
            (halves[e][r] = halves[f][r] <=> plain[e] = plain[f])
=============================================================================
