------------------------ MODULE StatusListIndexFf1 -------------------------
(***************************************************************************)
(* The Feistel index allocator running on FF1 itself.  What the allocator  *)
(* of StatusListIndexFeistel does in one step, ff1Encrypt of a value, is   *)
(* here a call of Ff1 with an await in every round: the rounds of the      *)
(* concurrent calls of next() interleave, encryptBlock may reject in any   *)
(* of them, and a restart loses them all.                                  *)
(*                                                                         *)
(* The variable cipher of the allocator becomes a history variable: the    *)
(* permutation that the round functions chosen in the initial state amount *)
(* to.  No step here reads it; that every behaviour is one of the          *)
(* allocator over this cipher is the refinement to check.                  *)
(***************************************************************************)
EXTENDS StatusListIndexFeistel, Ff1

ASSUME DomainIsFf1s == Domain = RadixU * RadixV /\ Encryptions = Calls

allVars == <<vars, ff1Vars>>

\* The halves that ff1Encrypt of x passes through with round functions m, from
\* the split of x to the result of the last round.
TraceOf(m, x) ==
    LET t[r \in 0 .. Rounds] ==
            IF r = 0 THEN <<x \div RadixV, x % RadixV>>
            ELSE <<t[r - 1][2], (t[r - 1][1] + m[r - 1][t[r - 1][2]])
                                  % (IF r % 2 = 1 THEN RadixU ELSE RadixV)>>
    IN  t

\* ff1Encrypt with round functions m, run to its end without an await.
CipherOf(m) ==
    [x \in Values |-> TraceOf(m, x)[Rounds][1] * RadixV + TraceOf(m, x)[Rounds][2]]

WalkInit ==
    /\ Ff1Init
    /\ Init
    /\ cipher = CipherOf(mac)

\* next() up to its first await.
NextCalled(c) == Claim(c) /\ Begin(c, position)

\* A block is encrypted and ff1Encrypt goes on to its next round.
BlockEncrypted(c) == Round(c) /\ UNCHANGED vars

\* Mutant: the loop condition is off by one and refuses the last index.
EncryptedRefusingLast(c) ==
    /\ pc[c] = "walking" /\ Ready(c)
    /\ value' = [value EXCEPT ![c] = Output(c)]
    /\ walked' = [walked EXCEPT ![c] = @ \cup {Output(c)}]
    /\ IF Output(c) >= Length - 1
       THEN Begin(c, Output(c)) /\ UNCHANGED pc
       ELSE End({c}) /\ pc' = [pc EXCEPT ![c] = "returned"]
    /\ UNCHANGED <<cipher, position, saved, claimed>>

\* Mutant: a result outside the list is walked on from the claimed position.
EncryptedFromClaim(c) ==
    /\ pc[c] = "walking" /\ Ready(c)
    /\ value' = [value EXCEPT ![c] = IF Output(c) >= Length THEN claimed[c] ELSE Output(c)]
    /\ walked' = [walked EXCEPT ![c] = @ \cup {Output(c)}]
    /\ IF Output(c) >= Length
       THEN Begin(c, claimed[c]) /\ UNCHANGED pc
       ELSE End({c}) /\ pc' = [pc EXCEPT ![c] = "returned"]
    /\ UNCHANGED <<cipher, position, saved, claimed>>

(***************************************************************************)
(* ff1Encrypt resolves: next() returns an index of the list, and encrypts  *)
(* a value outside it again.                                               *)
(***************************************************************************)
Encrypted(c) ==
    /\ pc[c] = "walking" /\ Ready(c)
    /\ value' = [value EXCEPT ![c] = Output(c)]
    /\ walked' = [walked EXCEPT ![c] = @ \cup {Output(c)}]
    /\ IF Output(c) >= Length
       THEN Begin(c, Output(c)) /\ UNCHANGED pc
       ELSE End({c}) /\ pc' = [pc EXCEPT ![c] = "returned"]
    /\ UNCHANGED <<cipher, position, saved, claimed>>

\* encryptBlock rejects, or returns a block of the wrong size, in some round.
BlockRejected(c) == ~Ready(c) /\ EncryptBlockRejects(c) /\ End({c})

Stopped == Restart /\ End(Calls)

WalkNext ==
    \/ \E c \in Calls :
          \/ NextCalled(c)
          \/ BlockEncrypted(c)
          \/ Encrypted(c)
          \/ BlockRejected(c)
          \/ (Exhausted(c) \/ Issue(c)) /\ UNCHANGED ff1Vars
    \/ Stopped

WalkSpec == WalkInit /\ [][WalkNext]_allVars

\* The caller's encryptBlock settles and the promise jobs are run.
FairWalkSpec ==
    WalkSpec /\ \A c \in Calls : WF_allVars(BlockEncrypted(c) \/ Encrypted(c))

-----------------------------------------------------------------------------
\* The allocator over real FF1 rounds implements the allocator over an
\* arbitrary permutation: whatever the interleaving, next() observes its
\* encryptions as if each had been one atomic application of one permutation.
AtomicPermutation == Spec

-----------------------------------------------------------------------------
(***************************************************************************)
(* The invariant behind AtomicPermutation: the history variable is the     *)
(* cipher of the round functions in use, and a call that is walking has    *)
(* one encryption under way, of the value it holds.                        *)
(***************************************************************************)
Tracked ==
    /\ cipher = CipherOf(mac)
    /\ \A c \in Calls : pc[c] = "walking" => Running(c) /\ plain[c] = value[c]
=============================================================================
