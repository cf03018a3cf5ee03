---------------------- MODULE StatusListIndexFeistel -----------------------
(***************************************************************************)
(* FeistelStatusListIndexAllocator of @owf/token-status-list: every index  *)
(* of a status list is handed out at most once, by encrypting a claimed    *)
(* position with FF1 until the result falls within the list (cycle         *)
(* walking).                                                               *)
(*                                                                         *)
(* FF1 (ff1.ts) is abstracted to what the allocator relies on: under one   *)
(* key and tweak it is a permutation of [0, 2^bits), chosen once, and one  *)
(* step applies it (StatusListIndexFf1 takes that step apart).  Every      *)
(* ff1Encrypt call is an await, so the calls of next() interleave; the     *)
(* caller's encryptBlock may reject in the middle of one; and the process  *)
(* may stop and restore the allocator from the state it last stored.       *)
(***************************************************************************)
EXTENDS Integers, FiniteSets

CONSTANTS
    Length,     \* number of indices in the status list
    Domain,     \* size of FF1's domain, the power of two that holds Length
    Calls,      \* the calls of next() made by the application
    Ciphers     \* the permutations FF1 may be under the key and the tweak

ASSUME LengthAssumption == Length \in Nat \ {0}
ASSUME DomainAssumption == Domain \in Nat /\ Length <= Domain

Indices == 0 .. Length - 1
Values  == 0 .. Domain - 1

ASSUME CipherAssumption ==
    \A f \in Ciphers :
        /\ f \in [Values -> Values]
        /\ \A x, y \in Values : f[x] = f[y] => x = y

VARIABLES
    cipher,     \* ff1Encrypt under the allocator's key and tweak
    position,   \* this.position of the live allocator
    saved,      \* position in the state the caller stored last
    pc,         \* pc[c]: where call c of next() is
    claimed,    \* claimed[c]: the position call c took
    value,      \* value[c]: the local `value` of call c
    walked      \* history: what ff1Encrypt returned to call c so far

vars == <<cipher, position, saved, pc, claimed, value, walked>>

TypeOK ==
    /\ cipher \in Ciphers
    /\ position \in 0 .. Length
    /\ saved \in 0 .. Length
    /\ pc \in [Calls -> {"idle", "walking", "returned", "issued", "failed"}]
    /\ claimed \in [Calls -> Indices]
    /\ value \in [Calls -> Values]
    /\ walked \in [Calls -> SUBSET Values]

Init ==
    /\ cipher \in Ciphers
    /\ position = 0
    /\ saved = 0
    /\ pc = [c \in Calls |-> "idle"]
    /\ claimed = [c \in Calls |-> 0]
    /\ value = [c \in Calls |-> 0]
    /\ walked = [c \in Calls |-> {}]

\* Mutant: the position is read before the await and advanced after it.
ClaimWithoutAdvance(c) ==
    /\ pc[c] = "idle"
    /\ position < Length
    /\ claimed' = [claimed EXCEPT ![c] = position]
    /\ value' = [value EXCEPT ![c] = position]
    /\ pc' = [pc EXCEPT ![c] = "walking"]
    /\ UNCHANGED <<cipher, position, saved, walked>>

(***************************************************************************)
(* next() up to its first await: the position is claimed synchronously.    *)
(***************************************************************************)
Claim(c) ==
    /\ pc[c] = "idle"
    /\ position < Length
    /\ position' = position + 1
    /\ claimed' = [claimed EXCEPT ![c] = position]
    /\ value' = [value EXCEPT ![c] = position]
    /\ pc' = [pc EXCEPT ![c] = "walking"]
    /\ UNCHANGED <<cipher, saved, walked>>

\* next() on an exhausted list throws before it touches the state.
Exhausted(c) ==
    /\ pc[c] = "idle"
    /\ position >= Length
    /\ pc' = [pc EXCEPT ![c] = "failed"]
    /\ UNCHANGED <<cipher, position, saved, claimed, value, walked>>

(***************************************************************************)
(* One turn of the do/while: ff1Encrypt resolves; the call returns when    *)
(* the value is an index of the list and encrypts it again otherwise.      *)
(***************************************************************************)
Encrypt(c) ==
    /\ pc[c] = "walking"
    /\ LET v == cipher[value[c]] IN
       /\ value' = [value EXCEPT ![c] = v]
       /\ walked' = [walked EXCEPT ![c] = @ \cup {v}]
       /\ pc' = [pc EXCEPT ![c] = IF v >= Length THEN "walking" ELSE "returned"]
    /\ UNCHANGED <<cipher, position, saved, claimed>>

\* encryptBlock rejects: next() rejects and the claimed position is skipped.
EncryptBlockRejects(c) ==
    /\ pc[c] = "walking"
    /\ pc' = [pc EXCEPT ![c] = "failed"]
    /\ UNCHANGED <<cipher, position, saved, claimed, value, walked>>

(***************************************************************************)
(* The caller issues the token that carries the index and stores           *)
(* getState() in the same transaction, as the README asks of it.           *)
(***************************************************************************)
Issue(c) ==
    /\ pc[c] = "returned"
    /\ saved' = position
    /\ pc' = [pc EXCEPT ![c] = "issued"]
    /\ UNCHANGED <<cipher, position, claimed, value, walked>>

(***************************************************************************)
(* The process stops and create() restores the allocator from the stored   *)
(* state.  What was in flight, or returned without being issued, is lost;  *)
(* the application may ask again.                                          *)
(***************************************************************************)
Restart ==
    /\ position' = saved
    /\ pc' = [c \in Calls |->
                IF pc[c] \in {"walking", "returned"} THEN "idle" ELSE pc[c]]
    /\ walked' = [c \in Calls |-> IF pc'[c] = "idle" THEN {} ELSE walked[c]]
    /\ UNCHANGED <<cipher, saved, claimed, value>>

Next ==
    \/ \E c \in Calls : \/ Claim(c)
                        \/ Exhausted(c)
                        \/ Encrypt(c)
                        \/ EncryptBlockRejects(c)
                        \/ Issue(c)
    \/ Restart

Spec == Init /\ [][Next]_vars

\* Every ff1Encrypt of a pending call settles: the promise jobs are run.
FairSpec == Spec /\ \A c \in Calls : WF_vars(Encrypt(c))

-----------------------------------------------------------------------------
HandedOut(c) == pc[c] \in {"returned", "issued"}

\* The indices next() hands out differ, however its calls interleave, fail and
\* walk, and across restarts for the tokens that were issued ("An index is
\* never handed out twice", README of the package).
NoIndexHandedOutTwice ==
    \A c, d \in Calls :
        HandedOut(c) /\ HandedOut(d) /\ c # d => value[c] # value[d]

\* The cycle walk ends: a call whose encryptions keep resolving leaves the
\* do/while ("ends within the list because the position itself is").
WalkEnds ==
    \A c \in Calls : pc[c] = "walking" ~> pc[c] # "walking"

-----------------------------------------------------------------------------
(***************************************************************************)
(* The inductive invariant behind NoIndexHandedOutTwice.  A live call      *)
(* holds a position of its own, below the allocator's; everything it       *)
(* walked through except a final index lies outside the list, and has its  *)
(* predecessor on the same walk, so two walks could only meet at a common  *)
(* predecessor.                                                            *)
(***************************************************************************)
Live(c) == pc[c] \in {"walking", "returned", "issued"}

PositionsApart ==
    /\ saved <= position
    /\ \A c \in Calls : Live(c) => claimed[c] < position
    /\ \A c \in Calls : pc[c] = "issued" => claimed[c] < saved
    /\ \A c, d \in Calls :
          Live(c) /\ Live(d) /\ c # d => claimed[c] # claimed[d]

WalkShape ==
    \A c \in Calls :
        /\ pc[c] = "idle" => walked[c] = {}
        /\ pc[c] = "walking" =>
              \/ walked[c] = {} /\ value[c] = claimed[c]
              \/ value[c] \in walked[c] /\ value[c] >= Length
        /\ HandedOut(c) => value[c] \in walked[c] /\ value[c] < Length
        /\ Live(c) =>
              \A v \in walked[c] :
                 /\ v # value[c] => v >= Length
                 /\ \E u \in Values :
                       /\ cipher[u] = v
                       /\ u = claimed[c] \/ (u \in walked[c] /\ u >= Length)

WalksDisjoint ==
    \A c, d \in Calls :
        Live(c) /\ Live(d) /\ c # d => walked[c] \cap walked[d] = {}

\* A position once claimed is never claimed again while its index is on an
\* issued token, and no two walks of the cipher ever meet.
IndexInv == PositionsApart /\ WalkShape /\ WalksDisjoint

=============================================================================
