-------------------------- MODULE StatusListIndex --------------------------
(***************************************************************************)
(* StatusListIndexAllocator of @owf/token-status-list: the indices of a    *)
(* status list are shuffled (Fisher-Yates) with numbers derived from a     *)
(* private seed, and handed out in that order.  Only the seed and the      *)
(* number of indices handed out are stored; a restart shuffles again.      *)
(*                                                                         *)
(* SHA-256(seed || counter) is an arbitrary function from counters to      *)
(* digests that never changes for the life of the list; a digest is the    *)
(* sequence of the unsigned words nextUint32 reads from it.                *)
(***************************************************************************)
EXTENDS Integers, Sequences

CONSTANTS
    Length,     \* number of indices in the status list
    Range32,    \* UINT32_RANGE
    Hashes,     \* the functions counter -> digest (words) considered
    MaxCounter  \* bound: digests computed by one create()

ASSUME LengthAssumption == Length \in Nat \ {0} /\ Length < Range32

\* A digest is read as unsigned words below UINT32_RANGE.
ASSUME HashAssumption ==
    Range32 \in Nat /\ MaxCounter \in Nat /\ Hashes \subseteq [0 .. MaxCounter - 1 -> Seq(0 .. Range32 - 1)]

Indices == 0 .. Length - 1

VARIABLES
    hash,       \* the hasher on seed || counter
    pc,         \* "shuffling", "ready" or "failed" (create() rejected)
    indices,    \* the array being shuffled, then the allocator's
    index,      \* loop variable of the shuffle
    counter, buffer,  \* SeededRandom: next counter, words left of the digest
    position,   \* this.position
    saved,      \* position of the state stored last
    issued      \* history: the indices on issued tokens, in order

random == <<counter, buffer>>
vars == <<hash, pc, indices, index, counter, buffer, position, saved, issued>>

\* create(): the identity array, and a SeededRandom of its own.
Start(pos) ==
    /\ pc' = "shuffling"
    /\ indices' = [i \in Indices |-> i]
    /\ index' = Length - 1
    /\ counter' = 0
    /\ buffer' = <<>>
    /\ position' = pos

Init ==
    /\ hash \in Hashes
    /\ pc = "shuffling"
    /\ indices = [i \in Indices |-> i]
    /\ index = Length - 1
    /\ counter = 0
    /\ buffer = <<>>
    /\ position = 0
    /\ saved = 0
    /\ issued = <<>>

\* nextUint32() with an empty buffer: hash the next counter.  A digest too
\* short for one word makes create() reject.
Refill ==
    /\ pc = "shuffling" /\ index > 0 /\ buffer = <<>>
    /\ counter < MaxCounter
    /\ counter' = counter + 1
    /\ buffer' = hash[counter]
    /\ pc' = IF hash[counter] = <<>> THEN "failed" ELSE pc
    /\ UNCHANGED <<hash, indices, index, position, saved, issued>>

\* nextInt(): the largest multiple of maxExclusive within the range.
Limit(maxExclusive) == Range32 - (Range32 % maxExclusive)

(***************************************************************************)
(* nextUint32() with a word left: nextInt() skips a value at or above the  *)
(* limit and the shuffle swaps indices[index] with indices[swapIndex]      *)
(* otherwise.                                                              *)
(***************************************************************************)
Draw ==
    /\ pc = "shuffling" /\ index > 0 /\ buffer # <<>>
    /\ buffer' = Tail(buffer)
    /\ LET value == Head(buffer)
           swapIndex == value % (index + 1)
       IN  IF value >= Limit(index + 1)
           THEN UNCHANGED <<indices, index>>
           ELSE /\ indices' = [indices EXCEPT ![index] = indices[swapIndex],
                                              ![swapIndex] = indices[index]]
                /\ index' = index - 1
    /\ UNCHANGED <<hash, pc, counter, position, saved, issued>>

\* The shuffle is done: create() resolves.
Created ==
    /\ pc = "shuffling" /\ index = 0
    /\ pc' = "ready"
    /\ UNCHANGED <<hash, indices, index, random, position, saved, issued>>

\* next(), and the caller issues the token and stores getState() with it.
IssueNext ==
    /\ pc = "ready" /\ position < Length
    /\ position' = position + 1
    /\ issued' = Append(issued, indices[position])
    /\ saved' = position'
    /\ UNCHANGED <<hash, pc, indices, index, random>>

\* next(), and the process stops before the token is issued.
LoseNext ==
    /\ pc = "ready" /\ position < Length
    /\ position' = position + 1
    /\ UNCHANGED <<hash, pc, indices, index, random, saved, issued>>

\* Mutant: the allocator shuffles on from where the last one's random was.
RestartKeepingRandom ==
    /\ pc' = "shuffling"
    /\ indices' = [i \in Indices |-> i]
    /\ index' = Length - 1
    /\ position' = saved
    /\ UNCHANGED <<hash, random, saved, issued>>

\* The process stops, in the middle of a shuffle too, and the allocator is
\* created again from the stored state.
Restart ==
    /\ Start(saved)
    /\ UNCHANGED <<hash, saved, issued>>

-----------------------------------------------------------------------------
\* No two issued tokens share an index, whatever is lost and however often the
\* allocator is restored from its seed ("An index is never handed out twice").
NoIndexIssuedTwice ==
    \A i, j \in DOMAIN issued : issued[i] = issued[j] => i = j

=============================================================================
