----------------------- MODULE CredentialStatusProofs -----------------------
(***************************************************************************)
(* Status lists, from the index a credential is given to the verifier that *)
(* looks it up.                                                            *)
(*                                                                         *)
(* Indices: no index of a list is issued twice, for every length of the    *)
(* list, every hasher and any number of restarts, in the middle of a       *)
(* shuffle too.  A shuffle is a sequence of steps each of which is         *)
(* determined by the hasher and the step before, so every create() that    *)
(* ends has ended with the same array; every step permutes; and the        *)
(* positions on issued tokens are below the one that is stored.            *)
(*                                                                         *)
(* Statuses: what a published token shows at an index is what the issuer   *)
(* set there.  The bytes of an encoded list decode to it for each number   *)
(* of bits, and the compressed list, the inflated one, the retained        *)
(* payload bytes and the snapshot being signed carry the statuses they     *)
(* should.                                                                 *)
(*                                                                         *)
(* Verification of an SD-JWT VC: what is fetched on the way is what the    *)
(* issuer signed or what a document extends, and a status that was set     *)
(* shows once the lists of before have expired.  Claims whose protected    *)
(* members were not disclosed refer to the signed status list and type.    *)
(***************************************************************************)
EXTENDS StatusListCwt, SdJwtVc, Basics

\* The shuffle: array, loop variable and the state of SeededRandom.
Gen == [indices |-> indices, index |-> index, counter |-> counter, buffer |-> buffer]
Fresh == [indices |-> [i \in Indices |-> i], index |-> Length - 1, counter |-> 0, buffer |-> <<>>]

Swapped(array, i, j) == [array EXCEPT ![i] = array[j], ![j] = array[i]]

Step(h, g) ==
    IF g.buffer = <<>>
    THEN [indices |-> g.indices, index |-> g.index, counter |-> g.counter + 1, buffer |-> h[g.counter]]
    ELSE IF Head(g.buffer) >= Limit(g.index + 1)
    THEN [indices |-> g.indices, index |-> g.index, counter |-> g.counter, buffer |-> Tail(g.buffer)]
    ELSE [indices |-> Swapped(g.indices, g.index, Head(g.buffer) % (g.index + 1)), index |-> g.index - 1,
          counter |-> g.counter, buffer |-> Tail(g.buffer)]

\* The steps 0 to n of a shuffle that had not ended before.
Trace(h, tr, n) ==
    /\ tr[0] = Fresh
    /\ \A k \in 0 .. n - 1 : tr[k].index > 0 /\ tr[k + 1] = Step(h, tr[k])

Shuffled(h, array) == \E n \in Nat : \E tr : Trace(h, tr, n) /\ tr[n].index = 0 /\ tr[n].indices = array

Injective(f, S) == \A a, b \in S : f[a] = f[b] => a = b

ShuffleInv ==
    /\ indices \in [Indices -> Indices] /\ Injective(indices, Indices)
    /\ index \in Indices
    /\ counter \in 0 .. MaxCounter
    /\ buffer \in Seq(0 .. Range32 - 1)
    /\ pc # "failed" => \E n \in Nat : \E tr : Trace(hash, tr, n) /\ tr[n] = Gen
    /\ pc = "ready" => index = 0

\* The indices issued are those at different positions below the stored one.
IssuedInv ==
    \/ issued = <<>>
    \/ \E array, pos :
          /\ Shuffled(hash, array) /\ Injective(array, Indices)
          /\ pos \in [DOMAIN issued -> 0 .. saved - 1] /\ Injective(pos, DOMAIN issued)
          /\ \A k \in DOMAIN issued : issued[k] = array[pos[k]]

AllocatorInv ==
    /\ hash \in Hashes
    /\ saved \in 0 .. Length /\ position \in saved .. Length
    /\ issued \in Seq(Indices)
    /\ ShuffleInv
    /\ IssuedInv

-----------------------------------------------------------------------------
\* Two shuffles take the same steps.
LEMMA TracesAgree ==
  ASSUME NEW h, NEW t1, NEW t2, NEW n \in Nat, NEW m \in Nat, n <= m, Trace(h, t1, n), Trace(h, t2, m)
  PROVE  \A k \in 0 .. n : t1[k] = t2[k]
<1> DEFINE S == {k \in Nat : k <= n => t1[k] = t2[k]}
<1>1. 0 \in S
  BY DEF Trace
<1>2. ASSUME NEW k \in S PROVE k + 1 \in S
  <2> SUFFICES ASSUME k + 1 <= n PROVE t1[k + 1] = t2[k + 1]
    OBVIOUS
  <2>1. k \in 0 .. n - 1 /\ k \in 0 .. m - 1 /\ t1[k] = t2[k]
    OBVIOUS
  <2>2. t1[k + 1] = Step(h, t1[k]) /\ t2[k + 1] = Step(h, t2[k])
    BY <2>1 DEF Trace
  <2> QED BY <2>1, <2>2
<1>3. S = Nat
  <2>1. S \subseteq Nat
    OBVIOUS
  <2> HIDE DEF S
  <2> QED BY <1>1, <1>2, <2>1, SetInduction
<1> QED BY <1>3

\* The order of the indices is a function of the hasher.
LEMMA ShuffledOnce ==
  ASSUME NEW h, NEW a, NEW b, Shuffled(h, a), Shuffled(h, b)
  PROVE  a = b
<1>1. PICK n \in Nat : \E tr : Trace(h, tr, n) /\ tr[n].index = 0 /\ tr[n].indices = a
  BY DEF Shuffled
<1>2. PICK t1 : Trace(h, t1, n) /\ t1[n].index = 0 /\ t1[n].indices = a
  BY <1>1
<1>3. PICK m \in Nat : \E tr : Trace(h, tr, m) /\ tr[m].index = 0 /\ tr[m].indices = b
  BY DEF Shuffled
<1>4. PICK t2 : Trace(h, t2, m) /\ t2[m].index = 0 /\ t2[m].indices = b
  BY <1>3
<1>5. CASE n < m
  <2>1. t1[n] = t2[n]
    BY <1>2, <1>4, <1>5, TracesAgree
  <2>2. t2[n].index > 0
    BY <1>4, <1>5 DEF Trace
  <2> QED BY <1>2, <2>1, <2>2
<1>6. CASE m < n
  <2>1. t1[m] = t2[m]
    BY <1>2, <1>4, <1>6, TracesAgree
  <2>2. t1[m].index > 0
    BY <1>2, <1>6 DEF Trace
  <2> QED BY <1>4, <2>1, <2>2
<1>7. CASE n = m
  <2>1. t1[n] = t2[n]
    BY <1>2, <1>4, <1>7, TracesAgree
  <2> QED BY <1>2, <1>4, <1>7, <2>1
<1> QED BY <1>5, <1>6, <1>7

LEMMA TraceGrows ==
  ASSUME NEW h, NEW tr, NEW n \in Nat, Trace(h, tr, n), tr[n].index > 0
  PROVE  \E t2 : Trace(h, t2, n + 1) /\ t2[n + 1] = Step(h, tr[n])
<1> DEFINE t2 == [k \in 0 .. n + 1 |-> IF k = n + 1 THEN Step(h, tr[n]) ELSE tr[k]]
<1>1. t2[0] = tr[0] /\ t2[n + 1] = Step(h, tr[n]) /\ \A k \in 0 .. n : t2[k] = tr[k]
  OBVIOUS
<1>2. ASSUME NEW k \in 0 .. n PROVE t2[k].index > 0 /\ t2[k + 1] = Step(h, t2[k])
  <2>1. CASE k = n
    BY <1>1, <2>1
  <2>2. CASE k # n
    <3>1. k \in 0 .. n - 1 /\ k + 1 \in 0 .. n
      BY <2>2
    <3>2. tr[k].index > 0 /\ tr[k + 1] = Step(h, tr[k])
      BY <3>1 DEF Trace
    <3> HIDE DEF t2
    <3> QED BY <1>1, <3>1, <3>2
  <2> QED BY <2>1, <2>2
<1> HIDE DEF t2
<1>3. Trace(h, t2, n + 1)
  BY <1>1, <1>2 DEF Trace
<1> QED BY <1>1, <1>3

\* A swap permutes.
LEMMA SwapPermutes ==
  ASSUME NEW S, NEW f \in [S -> S], Injective(f, S), NEW i \in S, NEW j \in S
  PROVE  Swapped(f, i, j) \in [S -> S] /\ Injective(Swapped(f, i, j), S)
<1>1. Swapped(f, i, j) \in [S -> S]
  BY DEF Swapped
<1>2. \A k \in S : Swapped(f, i, j)[k] = IF k = j THEN f[i] ELSE IF k = i THEN f[j] ELSE f[k]
  BY DEF Swapped
<1> QED BY <1>1, <1>2 DEF Injective

-----------------------------------------------------------------------------
\* A step of a shuffle leaves the array a permutation, and is the next step of
\* the one shuffle the hasher determines.
LEMMA ShuffleSteps ==
  ASSUME AllocatorInv, Refill \/ Draw
  PROVE  ShuffleInv'
<1> USE LengthAssumption, HashAssumption
<1>1. pc = "shuffling" /\ index > 0 /\ index \in Indices
  BY DEF Refill, Draw, AllocatorInv, ShuffleInv
<1>2. PICK n \in Nat : \E tr : Trace(hash, tr, n) /\ tr[n] = Gen
  BY <1>1 DEF AllocatorInv, ShuffleInv
<1>3. PICK tr : Trace(hash, tr, n) /\ tr[n] = Gen
  BY <1>2
<1>4. tr[n].index > 0
  BY <1>1, <1>3 DEF Gen
<1>5. PICK t2 : Trace(hash, t2, n + 1) /\ t2[n + 1] = Step(hash, Gen)
  BY <1>3, <1>4, TraceGrows
<1>6. hash' = hash /\ hash \in [0 .. MaxCounter - 1 -> Seq(0 .. Range32 - 1)] /\ pc' # "ready"
  BY <1>1 DEF Refill, Draw, AllocatorInv
<1>7. /\ indices \in [Indices -> Indices] /\ Injective(indices, Indices)
      /\ counter \in 0 .. MaxCounter
      /\ buffer \in Seq(0 .. Range32 - 1)
  BY DEF AllocatorInv, ShuffleInv
<1>8. /\ Gen.indices = indices /\ Gen.index = index /\ Gen.counter = counter /\ Gen.buffer = buffer
  BY DEF Gen
<1>9. /\ indices' \in [Indices -> Indices] /\ Injective(indices', Indices)
      /\ index' \in Indices
      /\ counter' \in 0 .. MaxCounter
      /\ buffer' \in Seq(0 .. Range32 - 1)
      /\ Gen' = Step(hash, Gen)
  <2>1. CASE Refill
    <3>1. /\ buffer = <<>> /\ counter < MaxCounter /\ counter' = counter + 1 /\ buffer' = hash[counter]
          /\ indices' = indices /\ index' = index
      BY <2>1 DEF Refill
    <3>2. Step(hash, Gen) = [indices |-> indices, index |-> index, counter |-> counter + 1, buffer |-> hash[counter]]
      BY <1>8, <3>1 DEF Step
    <3>3. Gen' = Step(hash, Gen)
      BY <3>1, <3>2 DEF Gen
    <3>4. counter \in 0 .. MaxCounter - 1 /\ counter' \in 0 .. MaxCounter
      BY <1>7, <3>1
    <3> QED BY <1>1, <1>6, <1>7, <3>1, <3>3, <3>4
  <2>2. CASE Draw
    <3> DEFINE value == Head(buffer)
               swapIndex == value % (index + 1)
    <3>1. buffer # <<>> /\ buffer' = Tail(buffer) /\ counter' = counter
      BY <2>2 DEF Draw
    <3>2. value \in 0 .. Range32 - 1 /\ Tail(buffer) \in Seq(0 .. Range32 - 1)
      BY <1>7, <3>1
    <3>3. CASE value >= Limit(index + 1)
      <4>1. indices' = indices /\ index' = index
        BY <2>2, <3>3 DEF Draw
      <4>2. Step(hash, Gen) = [indices |-> indices, index |-> index, counter |-> counter, buffer |-> Tail(buffer)]
        BY <1>8, <3>1, <3>3 DEF Step
      <4>3. Gen' = Step(hash, Gen)
        BY <3>1, <4>1, <4>2 DEF Gen
      <4> QED BY <1>1, <1>7, <3>1, <3>2, <4>1, <4>3
    <3>4. CASE ~(value >= Limit(index + 1))
      <4>1. indices' = Swapped(indices, index, swapIndex) /\ index' = index - 1
        BY <2>2, <3>4 DEF Draw, Swapped
      <4>2. Step(hash, Gen) = [indices |-> Swapped(indices, index, swapIndex), index |-> index - 1,
                               counter |-> counter, buffer |-> Tail(buffer)]
        BY <1>8, <3>1, <3>4 DEF Step
      <4>3. Gen' = Step(hash, Gen)
        BY <3>1, <4>1, <4>2 DEF Gen
      <4>4. swapIndex \in Indices /\ index - 1 \in Indices
        <5>1. index \in Nat /\ index < Length /\ value \in Int /\ index + 1 > 0
          BY <1>1, <3>2 DEF Indices
        <5>2. swapIndex \in 0 .. index
          <6> HIDE DEF value
          <6> QED BY <5>1
        <5> HIDE DEF swapIndex
        <5> QED BY <5>1, <5>2, <1>1 DEF Indices
      <4>5. indices' \in [Indices -> Indices] /\ Injective(indices', Indices)
        BY <1>1, <1>7, <4>1, <4>4, SwapPermutes
      <4> QED BY <1>7, <3>1, <3>2, <4>1, <4>3, <4>4, <4>5
    <3> QED BY <3>3, <3>4
  <2> QED BY <2>1, <2>2
<1>10. n + 1 \in Nat /\ Trace(hash, t2, n + 1) /\ t2[n + 1] = Gen'
  BY <1>5, <1>9
<1>11. \E m \in Nat : \E t : Trace(hash, t, m) /\ t[m] = Gen'
  BY <1>10
<1> QED BY <1>6, <1>9, <1>11 DEF ShuffleInv

LEMMA CreatedKeeps ==
  ASSUME AllocatorInv, Created
  PROVE  ShuffleInv'
<1>1. Gen' = Gen /\ hash' = hash /\ pc = "shuffling" /\ pc' = "ready" /\ index = 0
  BY DEF Created, Gen, random
<1>2. \E n \in Nat : \E tr : Trace(hash, tr, n) /\ tr[n] = Gen'
  BY <1>1 DEF AllocatorInv, ShuffleInv
<1>3. indices' = indices /\ index' = index /\ counter' = counter /\ buffer' = buffer
  BY DEF Created, random
<1> QED BY <1>1, <1>2, <1>3 DEF AllocatorInv, ShuffleInv

\* A create() starts the same shuffle again.
LEMMA RestartKeeps ==
  ASSUME AllocatorInv, Restart
  PROVE  ShuffleInv'
<1> USE LengthAssumption, HashAssumption
<1> DEFINE tr == [k \in {0} |-> Fresh]
<1>1. tr[0] = Fresh /\ Gen' = Fresh /\ hash' = hash
  BY DEF Restart, Start, Gen, Fresh
<1>2. Trace(hash, tr, 0)
  BY <1>1 DEF Trace
<1>3. \E n \in Nat : \E t : Trace(hash, t, n) /\ t[n] = Gen'
  <2> HIDE DEF tr
  <2> QED BY <1>1, <1>2
<1>4. pc' = "shuffling" /\ indices' = [i \in Indices |-> i] /\ index' = Length - 1 /\ counter' = 0 /\ buffer' = <<>>
  BY DEF Restart, Start
<1>5. indices' \in [Indices -> Indices] /\ Injective(indices', Indices)
  BY <1>4 DEF Injective
<1>6. index' \in Indices /\ counter' \in 0 .. MaxCounter /\ buffer' \in Seq(0 .. Range32 - 1)
  BY <1>4 DEF Indices
<1> QED BY <1>1, <1>3, <1>4, <1>5, <1>6 DEF ShuffleInv

\* The array of an allocator that is ready is the one every create() ends with.
LEMMA ReadyIsShuffled ==
  ASSUME AllocatorInv, pc = "ready"
  PROVE  Shuffled(hash, indices)
<1>1. PICK n \in Nat : \E tr : Trace(hash, tr, n) /\ tr[n] = Gen
  BY DEF AllocatorInv, ShuffleInv
<1>2. PICK tr : Trace(hash, tr, n) /\ tr[n] = Gen
  BY <1>1
<1>3. tr[n].index = 0 /\ tr[n].indices = indices
  BY <1>2 DEF Gen, AllocatorInv, ShuffleInv
<1> QED BY <1>2, <1>3 DEF Shuffled

\* next() takes a position that no issued token has.
LEMMA IssueKeeps ==
  ASSUME AllocatorInv, IssueNext
  PROVE  IssuedInv' /\ issued' \in Seq(Indices) /\ saved' \in 0 .. Length /\ position' \in saved' .. Length
<1> USE LengthAssumption
<1>1. /\ pc = "ready" /\ position < Length /\ position' = position + 1 /\ saved' = position + 1
      /\ issued' = Append(issued, indices[position]) /\ hash' = hash
  BY DEF IssueNext
<1>2. /\ saved \in Nat /\ saved <= position /\ position \in Indices /\ indices[position] \in Indices
      /\ issued \in Seq(Indices) /\ Injective(indices, Indices)
  BY <1>1 DEF AllocatorInv, ShuffleInv, Indices
<1>3. issued' \in Seq(Indices) /\ saved' \in 0 .. Length /\ position' \in saved' .. Length
  BY <1>1, <1>2 DEF Indices
<1>4. Shuffled(hash, indices)
  BY <1>1, ReadyIsShuffled
<1>5. \E pos : /\ pos \in [DOMAIN issued -> 0 .. saved - 1] /\ Injective(pos, DOMAIN issued)
               /\ \A k \in DOMAIN issued : issued[k] = indices[pos[k]]
  <2>1. CASE issued = <<>>
    <3> DEFINE none == [k \in DOMAIN issued |-> 0]
    <3>1. DOMAIN issued = {}
      BY <2>1
    <3>2. none \in [DOMAIN issued -> 0 .. saved - 1] /\ Injective(none, DOMAIN issued)
      BY <3>1 DEF Injective
    <3> QED BY <3>1, <3>2
  <2>2. CASE issued # <<>>
    <3>1. PICK array, pos :
            /\ Shuffled(hash, array) /\ Injective(array, Indices)
            /\ pos \in [DOMAIN issued -> 0 .. saved - 1] /\ Injective(pos, DOMAIN issued)
            /\ \A k \in DOMAIN issued : issued[k] = array[pos[k]]
      BY <2>2 DEF AllocatorInv, IssuedInv
    <3>2. array = indices
      BY <1>4, <3>1, ShuffledOnce
    <3> QED BY <3>1, <3>2
  <2> QED BY <2>1, <2>2
<1>6. PICK pos : /\ pos \in [DOMAIN issued -> 0 .. saved - 1] /\ Injective(pos, DOMAIN issued)
                 /\ \A k \in DOMAIN issued : issued[k] = indices[pos[k]]
  BY <1>5
<1> DEFINE n == Len(issued)
           D == DOMAIN issued'
           new == [k \in D |-> IF k = n + 1 THEN position ELSE pos[k]]
<1>7. /\ n \in Nat /\ DOMAIN issued = 1 .. n /\ D = 1 .. n + 1
      /\ issued'[n + 1] = indices[position] /\ \A k \in 1 .. n : issued'[k] = issued[k]
  BY <1>1, <1>2
<1> HIDE DEF n, D
<1>8. new \in [D -> 0 .. saved' - 1]
  BY <1>1, <1>2, <1>6, <1>7 DEF Indices
<1>9. Injective(new, D)
  <2> SUFFICES ASSUME NEW a \in D, NEW b \in D, new[a] = new[b] PROVE a = b
    BY DEF Injective
  <2>1. a \in 1 .. n + 1 /\ b \in 1 .. n + 1
    BY <1>7
  <2>2. \A k \in 1 .. n : pos[k] \in Nat /\ pos[k] < position
    BY <1>2, <1>6, <1>7 DEF Indices
  <2>3. CASE a = n + 1 /\ b # n + 1
    <3>1. b \in 1 .. n /\ new[a] = position /\ new[b] = pos[b]
      BY <1>7, <2>1, <2>3
    <3> QED BY <1>2, <2>2, <3>1 DEF Indices
  <2>4. CASE a # n + 1 /\ b = n + 1
    <3>1. a \in 1 .. n /\ new[b] = position /\ new[a] = pos[a]
      BY <1>7, <2>1, <2>4
    <3> QED BY <1>2, <2>2, <3>1 DEF Indices
  <2>5. CASE a # n + 1 /\ b # n + 1
    <3>1. a \in 1 .. n /\ b \in 1 .. n /\ pos[a] = pos[b]
      BY <1>7, <2>1, <2>5
    <3> QED BY <1>6, <1>7, <3>1 DEF Injective
  <2> QED BY <2>3, <2>4, <2>5
<1>10. \A k \in D : issued'[k] = indices[new[k]]
  <2> TAKE k \in D
  <2>1. CASE k = n + 1
    BY <1>7, <2>1
  <2>2. CASE k # n + 1
    <3>1. k \in 1 .. n /\ new[k] = pos[k]
      BY <1>7, <2>2
    <3> QED BY <1>6, <1>7, <3>1
  <2> QED BY <2>1, <2>2
<1> HIDE DEF new
<1>11. \E array, p :
          /\ Shuffled(hash', array) /\ Injective(array, Indices)
          /\ p \in [DOMAIN issued' -> 0 .. saved' - 1] /\ Injective(p, DOMAIN issued')
          /\ \A k \in DOMAIN issued' : issued'[k] = array[p[k]]
  BY <1>1, <1>2, <1>4, <1>8, <1>9, <1>10 DEF D
<1> QED BY <1>3, <1>11 DEF IssuedInv

LEMMA AllocatorInit == ASSUME CwtInit PROVE AllocatorInv
<1> USE LengthAssumption, HashAssumption
<1> DEFINE tr == [k \in {0} |-> Fresh]
<1>1. Init
  BY DEF CwtInit
<1>2. tr[0] = Fresh /\ Gen = Fresh
  BY <1>1 DEF Init, Gen, Fresh
<1>3. Trace(hash, tr, 0)
  BY <1>2 DEF Trace
<1>4. \E n \in Nat : \E t : Trace(hash, t, n) /\ t[n] = Gen
  <2> HIDE DEF tr
  <2> QED BY <1>2, <1>3
<1>5. indices \in [Indices -> Indices] /\ Injective(indices, Indices)
  BY <1>1 DEF Init, Injective
<1>6. /\ index \in Indices /\ counter \in 0 .. MaxCounter /\ buffer \in Seq(0 .. Range32 - 1)
      /\ hash \in Hashes /\ pc # "ready" /\ issued = <<>> /\ issued \in Seq(Indices)
      /\ saved \in 0 .. Length /\ position \in saved .. Length
  BY <1>1 DEF Init, Indices
<1> QED BY <1>4, <1>5, <1>6 DEF AllocatorInv, ShuffleInv, IssuedInv

\* A step that leaves the shuffle and the issued indices alone.
LEMMA AllocatorStutters ==
  ASSUME AllocatorInv, UNCHANGED <<hash, pc, indices, index, counter, buffer, saved, issued>>,
         position' \in saved .. Length
  PROVE  AllocatorInv'
<1>1. Gen' = Gen /\ hash' = hash /\ pc' = pc /\ saved' = saved /\ issued' = issued
  BY DEF Gen
<1>2. indices' = indices /\ index' = index /\ counter' = counter /\ buffer' = buffer
  OBVIOUS
<1>3. ShuffleInv'
  BY <1>1, <1>2 DEF AllocatorInv, ShuffleInv
<1>4. IssuedInv'
  BY <1>1 DEF AllocatorInv, IssuedInv
<1> QED BY <1>1, <1>3, <1>4 DEF AllocatorInv

\* Every step of the issuer preserves the invariant: those on the list and its
\* tokens leave the allocator alone, a reload restarts it.
LEMMA AllocatorKeeps ==
  ASSUME AllocatorInv, [CwtNext]_<<vars, cwtVars>>
  PROVE  AllocatorInv'
<1> USE LengthAssumption
<1>1. CASE UNCHANGED vars
  <2>1. UNCHANGED <<hash, pc, indices, index, counter, buffer, saved, issued>> /\ position' \in saved .. Length
    BY <1>1 DEF vars, AllocatorInv
  <2> QED BY <2>1, AllocatorStutters
<1>2. CASE Refill \/ Draw
  <2>1. hash' = hash /\ saved' = saved /\ issued' = issued /\ position' = position
    BY <1>2 DEF Refill, Draw
  <2>2. ShuffleInv'
    BY <1>2, ShuffleSteps
  <2>3. IssuedInv'
    BY <2>1 DEF AllocatorInv, IssuedInv
  <2> QED BY <2>1, <2>2, <2>3 DEF AllocatorInv
<1>3. CASE Created
  <2>1. hash' = hash /\ saved' = saved /\ issued' = issued /\ position' = position
    BY <1>3 DEF Created
  <2>2. ShuffleInv'
    BY <1>3, CreatedKeeps
  <2>3. IssuedInv'
    BY <2>1 DEF AllocatorInv, IssuedInv
  <2> QED BY <2>1, <2>2, <2>3 DEF AllocatorInv
<1>4. CASE IssueNext
  <2>1. /\ hash' = hash /\ pc' = pc
        /\ indices' = indices /\ index' = index /\ counter' = counter /\ buffer' = buffer
    BY <1>4 DEF IssueNext, random
  <2>2. Gen' = Gen
    BY <2>1 DEF Gen
  <2>3. ShuffleInv'
    BY <2>1, <2>2 DEF AllocatorInv, ShuffleInv
  <2>4. IssuedInv' /\ issued' \in Seq(Indices) /\ saved' \in 0 .. Length /\ position' \in saved' .. Length
    BY <1>4, IssueKeeps
  <2> QED BY <2>1, <2>3, <2>4 DEF AllocatorInv
<1>5. CASE LoseNext
  <2>1. UNCHANGED <<hash, pc, indices, index, counter, buffer, saved, issued>>
    BY <1>5 DEF LoseNext, random
  <2>2. position' \in saved .. Length
    BY <1>5 DEF LoseNext, AllocatorInv
  <2> QED BY <2>1, <2>2, AllocatorStutters
<1>6. CASE Restart
  <2>1. hash' = hash /\ saved' = saved /\ issued' = issued /\ position' = saved
    BY <1>6 DEF Restart, Start
  <2>2. ShuffleInv'
    BY <1>6, RestartKeeps
  <2>3. IssuedInv'
    BY <2>1 DEF AllocatorInv, IssuedInv
  <2> QED BY <2>1, <2>2, <2>3 DEF AllocatorInv
<1>7. \/ UNCHANGED vars \/ Refill \/ Draw \/ Created \/ IssueNext \/ LoseNext \/ Restart
  BY DEF CwtNext, AllocatorStep, UpdateStatusList, SetStatusInPlace, MarkPayloadModified, SetStatusList,
         ReadStatusList, SignStart, SignEnd, ReloadFromToken
<1> QED BY <1>1, <1>2, <1>3, <1>4, <1>5, <1>6, <1>7

\* What is issued at different positions of one permutation differs.
LEMMA IssuedApart == ASSUME AllocatorInv PROVE NoIndexIssuedTwice
<1> SUFFICES ASSUME NEW i \in DOMAIN issued, NEW j \in DOMAIN issued, issued[i] = issued[j] PROVE i = j
  BY DEF NoIndexIssuedTwice
<1>1. issued # <<>>
  OBVIOUS
<1>2. PICK array, pos :
        /\ Injective(array, Indices)
        /\ pos \in [DOMAIN issued -> 0 .. saved - 1] /\ Injective(pos, DOMAIN issued)
        /\ \A k \in DOMAIN issued : issued[k] = array[pos[k]]
  BY <1>1 DEF AllocatorInv, IssuedInv
<1>3. pos[i] \in Indices /\ pos[j] \in Indices
  BY <1>2, LengthAssumption DEF AllocatorInv, Indices
<1>4. pos[i] = pos[j]
  BY <1>2, <1>3 DEF Injective
<1> QED BY <1>2, <1>4 DEF Injective

\* StatusListIndexAllocator and its callers: no two Referenced Tokens share an
\* index of the status list, for every length of the list, every hasher and
\* every word range, with restarts at any point and calls of next() lost.
THEOREM IndicesIssuedOnce == CwtSpec => []NoIndexIssuedTwice
<1>1. CwtInit => AllocatorInv
  BY AllocatorInit
<1>2. AllocatorInv /\ [CwtNext]_<<vars, cwtVars>> => AllocatorInv'
  BY AllocatorKeeps
<1>3. AllocatorInv => NoIndexIssuedTwice
  BY IssuedApart
<1> QED BY <1>1, <1>2, <1>3, PTL DEF CwtSpec

-----------------------------------------------------------------------------
\* The byte encoding, for every list length and every number of bits.
StatusValues == 0 .. 2 ^ Bits - 1
At(list, i) == IF i \in DOMAIN list THEN list[i] ELSE Valid

\* A list of statuses, with or without the padding of its last byte.
StatusesOf(list) ==
    \/ list \in [Indices -> StatusValues]
    \/ list \in [0 .. PaddedLength - 1 -> StatusValues] /\ \A i \in Length .. PaddedLength - 1 : list[i] = Valid

FromBody(list, k, n, from) ==
    IF n = PerByte \/ k * PerByte + n \notin DOMAIN list THEN 0
    ELSE list[k * PerByte + n] * 2 ^ (Bits * n) + from[n + 1]

LEMMA PerByteValues ==
  /\ PerByte \in Nat /\ PerByte > 0 /\ Bits \in Nat /\ Bits * PerByte = 8
  /\ Bits = 1 => PerByte = 8
  /\ Bits = 2 => PerByte = 4
  /\ Bits = 4 => PerByte = 2
  /\ Bits = 8 => PerByte = 1
BY BitsAssumption DEF PerByte

\* The recursive function of the encoder exists and unfolds.
LEMMA ByteFromUnfolds ==
  ASSUME NEW list, NEW k
  PROVE  \A n \in 0 .. PerByte : ByteFrom(list, k)[n] = FromBody(list, k, n, ByteFrom(list, k))
<1> DEFINE Body(n, f) == FromBody(list, k, n, f)
           Upto(m, f) == \A n \in 0 .. PerByte : n + m >= PerByte => f[n] = Body(n, f)
           S == {m \in Nat : \E f : Upto(m, f)}
<1> USE PerByteValues
<1>1. 0 \in S
  <2> DEFINE f == [n \in 0 .. PerByte |-> 0]
  <2>1. Upto(0, f)
    BY DEF FromBody
  <2> QED BY <2>1
<1>2. ASSUME NEW m \in S PROVE m + 1 \in S
  <2>1. PICK f : Upto(m, f)
    OBVIOUS
  <2> DEFINE g == [n \in 0 .. PerByte |-> IF n + m >= PerByte THEN f[n] ELSE Body(n, f)]
  <2>2. ASSUME NEW n \in 0 .. PerByte, n + (m + 1) >= PerByte PROVE g[n] = Body(n, g)
    <3>1. CASE n = PerByte
      BY <3>1, <2>1 DEF FromBody
    <3>2. CASE n # PerByte
      <4>1. n + 1 \in 0 .. PerByte /\ (n + 1) + m >= PerByte
        BY <2>2, <3>2
      <4>2. g[n + 1] = f[n + 1]
        BY <4>1
      <4>3. Body(n, g) = Body(n, f)
        <5> HIDE DEF g
        <5> QED BY <4>2 DEF FromBody
      <4>4. g[n] = Body(n, f)
        <5> HIDE DEF Body
        <5>1. n + m >= PerByte => f[n] = Body(n, f)
          BY <2>1
        <5> QED BY <5>1
      <4> QED BY <4>3, <4>4
    <3> QED BY <3>1, <3>2
  <2>3. Upto(m + 1, g)
    <3> HIDE DEF g, Body
    <3> QED BY <2>2
  <2> HIDE DEF g, Upto
  <2>4. \E h : Upto(m + 1, h)
    BY <2>3
  <2> QED BY <2>4
<1>3. S = Nat
  <2>1. S \subseteq Nat
    OBVIOUS
  <2> HIDE DEF S
  <2> QED BY <1>1, <1>2, <2>1, SetInduction
<1>4. PICK f : Upto(PerByte, f)
  <2>1. PerByte \in S
    BY <1>3
  <2> QED BY <2>1
<1> DEFINE P(g) == g = [n \in 0 .. PerByte |-> Body(n, g)]
           e == [n \in 0 .. PerByte |-> f[n]]
<1>5. P(e)
  <2>1. ASSUME NEW n \in 0 .. PerByte PROVE e[n] = Body(n, e)
    <3>1. f[n] = Body(n, f)
      <4> HIDE DEF Body
      <4> QED BY <1>4
    <3>2. Body(n, e) = Body(n, f)
      <4>1. n # PerByte => e[n + 1] = f[n + 1]
        OBVIOUS
      <4> HIDE DEF e
      <4> QED BY <4>1 DEF FromBody
    <3> QED BY <3>1, <3>2
  <2> HIDE DEF Body
  <2> QED BY <2>1
<1>6. ByteFrom(list, k) = CHOOSE g : P(g)
  BY DEF ByteFrom, FromBody
<1> HIDE DEF e
<1>7. P(ByteFrom(list, k))
  <2> HIDE DEF P
  <2>1. P(CHOOSE g : P(g))
    BY <1>5
  <2> QED BY <1>6, <2>1
<1> HIDE DEF Body
<1>8. \A n \in 0 .. PerByte : ByteFrom(list, k)[n] = Body(n, ByteFrom(list, k))
  BY <1>7
<1> QED BY <1>8 DEF Body

LEMMA StatusValid == 0 \in StatusValues
<1>1. 2 ^ Bits \in {2, 4, 16, 256}
  <2>1. Bits = 1 \/ Bits = 2 \/ Bits = 4 \/ Bits = 8
    BY BitsAssumption
  <2>2. 2 ^ 1 = 2 /\ 2 ^ 2 = 4 /\ 2 ^ 4 = 16 /\ 2 ^ 8 = 256
    OBVIOUS
  <2>3. 2 ^ Bits = 2 ^ 1 \/ 2 ^ Bits = 2 ^ 2 \/ 2 ^ Bits = 2 ^ 4 \/ 2 ^ Bits = 2 ^ 8
    BY <2>1
  <2> QED BY <2>2, <2>3
<1> QED BY <1>1 DEF StatusValues

\* Every status of the byte adds its bits.
LEMMA ByteFromAdds ==
  ASSUME NEW list, NEW m \in Nat, DOMAIN list = 0 .. m - 1, \A i \in DOMAIN list : list[i] \in StatusValues,
         NEW k \in Nat, NEW n \in 0 .. PerByte - 1
  PROVE  /\ ByteFrom(list, k)[PerByte] = 0
         /\ At(list, k * PerByte + n) \in StatusValues
         /\ ByteFrom(list, k)[n] = At(list, k * PerByte + n) * 2 ^ (Bits * n) + ByteFrom(list, k)[n + 1]
<1> DEFINE f == ByteFrom(list, k)
           i == k * PerByte + n
<1>1. f[PerByte] = 0
  BY PerByteValues, ByteFromUnfolds DEF FromBody
<1>2. f[n] = FromBody(list, k, n, f) /\ f[n + 1] = FromBody(list, k, n + 1, f)
  <2>1. n \in 0 .. PerByte /\ n + 1 \in 0 .. PerByte
    BY PerByteValues
  <2> QED BY <2>1, ByteFromUnfolds
<1> HIDE DEF f
<1>3. 0 \in StatusValues
  BY StatusValid
<1>4. CASE i \in DOMAIN list
  <2>1. f[n] = list[i] * 2 ^ (Bits * n) + f[n + 1]
    BY <1>2, <1>4, PerByteValues DEF FromBody
  <2> QED BY <1>1, <1>4, <2>1 DEF At, f
<1>5. CASE i \notin DOMAIN list
  <2>1. f[n] = 0
    BY <1>2, <1>5 DEF FromBody
  <2>2. f[n + 1] = 0
    <3>1. i \in Nat /\ k * PerByte + (n + 1) = i + 1
      BY PerByteValues
    <3>2. i + 1 \notin DOMAIN list
      <4> HIDE DEF i
      <4> QED BY <1>5, <3>1
    <3> QED BY <1>2, <3>1, <3>2 DEF FromBody
  <2>3. At(list, i) = 0
    BY <1>5 DEF At, Valid
  <2>4. 2 ^ (Bits * n) \in Int
    BY PerByteValues
  <2>5. 0 * 2 ^ (Bits * n) = 0
    BY <2>4
  <2> QED BY <1>1, <1>3, <2>1, <2>2, <2>3, <2>5 DEF f
<1> QED BY <1>4, <1>5

\* Powers of 2 up to that of a byte.
LEMMA PowerSteps ==
  ASSUME NEW n \in 0 .. PerByte - 1
  PROVE  /\ 2 ^ (Bits * (n + 1)) = 2 ^ (Bits * n) * 2 ^ Bits
         /\ 2 ^ (Bits * n) \in Nat /\ 2 ^ (Bits * n) > 0
         /\ 2 ^ Bits \in Nat /\ 2 ^ Bits > 0
<1>1. CASE Bits = 1 /\ n = 0
  BY <1>1
<1>2. CASE Bits = 1 /\ n = 1
  BY <1>2
<1>3. CASE Bits = 1 /\ n = 2
  BY <1>3
<1>4. CASE Bits = 1 /\ n = 3
  BY <1>4
<1>5. CASE Bits = 1 /\ n = 4
  BY <1>5
<1>6. CASE Bits = 1 /\ n = 5
  BY <1>6
<1>7. CASE Bits = 1 /\ n = 6
  BY <1>7
<1>8. CASE Bits = 1 /\ n = 7
  BY <1>8
<1>9. CASE Bits = 2 /\ n = 0
  BY <1>9
<1>10. CASE Bits = 2 /\ n = 1
  BY <1>10
<1>11. CASE Bits = 2 /\ n = 2
  BY <1>11
<1>12. CASE Bits = 2 /\ n = 3
  BY <1>12
<1>13. CASE Bits = 4 /\ n = 0
  BY <1>13
<1>14. CASE Bits = 4 /\ n = 1
  BY <1>14
<1>15. CASE Bits = 8 /\ n = 0
  BY <1>15
<1> QED BY BitsAssumption, <1>1, <1>2, <1>3, <1>4, <1>5, <1>6, <1>7, <1>8, <1>9, <1>10, <1>11, <1>12, <1>13, <1>14, <1>15 DEF PerByte

LEMMA DivMod ==
  ASSUME NEW p \in Nat, p > 0, NEW low \in 0 .. p - 1, NEW h \in Nat
  PROVE  (low + p * h) \div p = h /\ (low + p * h) % p = low
<1>1. (low + p * h) \div p = h
  OBVIOUS
<1>2. (low + p * h) % p = low
  OBVIOUS
<1> QED BY <1>1, <1>2

LEMMA MulRange ==
  ASSUME NEW x \in Nat, NEW y \in Nat, NEW z \in Nat
  PROVE  x * z \in Nat /\ (x <= y => x * z <= y * z)
<1>1. x * z \in Nat
  OBVIOUS
<1>2. ASSUME x <= y PROVE x * z <= y * z
  <2>1. (y - x) * z \in Nat
    BY <1>2
  <2>2. y * z = x * z + (y - x) * z
    OBVIOUS
  <2> QED BY <1>1, <2>1, <2>2
<1> QED BY <1>1, <1>2

\* The bits from status n of the byte on: a multiple of its weight.
LEMMA ByteFromMultiple ==
  ASSUME NEW list, NEW m \in Nat, DOMAIN list = 0 .. m - 1, \A i \in DOMAIN list : list[i] \in StatusValues,
         NEW k \in Nat
  PROVE  \A n \in 0 .. PerByte : \E g \in Nat : ByteFrom(list, k)[n] = 2 ^ (Bits * n) * g
<1> USE PerByteValues
<1> DEFINE f == ByteFrom(list, k)
           pow(n) == 2 ^ (Bits * n)
           Multiple(n) == \E g \in Nat : f[n] = pow(n) * g
           S == {d \in Nat : \A n \in 0 .. PerByte : n + d >= PerByte => Multiple(n)}
<1>1. 0 \in S
  <2> SUFFICES Multiple(PerByte)
    <3>1. ASSUME NEW n \in 0 .. PerByte, n + 0 >= PerByte
          PROVE  n = PerByte
      BY <3>1
    <3> HIDE DEF Multiple
    <3> QED BY <3>1
  <2>1. f[PerByte] = 0
    BY ByteFromAdds
  <2>2. pow(PerByte) * 0 = 0
    <3>1. pow(PerByte) \in Int
      OBVIOUS
    <3> HIDE DEF pow
    <3> QED BY <3>1
  <2> QED BY <2>1, <2>2
<1>2. ASSUME NEW d \in S PROVE d + 1 \in S
  <2> SUFFICES ASSUME NEW n \in 0 .. PerByte, n + d + 1 >= PerByte PROVE Multiple(n)
    OBVIOUS
  <2>1. CASE n + d >= PerByte
    BY <2>1
  <2>2. CASE ~(n + d >= PerByte)
    <3>1. n \in 0 .. PerByte - 1 /\ n + 1 \in 0 .. PerByte /\ (n + 1) + d >= PerByte
      BY <2>2
    <3>2. PICK g \in Nat : f[n + 1] = pow(n + 1) * g
      <4>1. Multiple(n + 1)
        <5> HIDE DEF Multiple
        <5> QED BY <3>1
      <4> QED BY <4>1
    <3> DEFINE a == At(list, k * PerByte + n)
               b == 2 ^ Bits
    <3>3. a \in 0 .. b - 1 /\ f[n] = a * pow(n) + f[n + 1]
      BY <3>1, ByteFromAdds DEF StatusValues
    <3>4. pow(n + 1) = pow(n) * b /\ pow(n) \in Nat /\ b \in Nat
      BY <3>1, PowerSteps
    <3> HIDE DEF f, pow, a, b
    <3>5. f[n] = a * pow(n) + (pow(n) * b) * g
      BY <3>2, <3>3, <3>4
    <3>6. a + b * g \in Nat
      <4>1. a \in Nat /\ b * g \in Nat
        BY <3>3, <3>4, MulRange
      <4> QED BY <4>1
    <3>7. a * pow(n) + (pow(n) * b) * g = pow(n) * (a + b * g)
      BY <3>3, <3>4
    <3> QED BY <3>5, <3>6, <3>7
  <2> QED BY <2>1, <2>2
<1>3. S = Nat
  <2>1. S \subseteq Nat
    OBVIOUS
  <2> HIDE DEF S
  <2> QED BY <1>1, <1>2, <2>1, SetInduction
<1>4. PerByte \in S
  BY <1>3
<1> HIDE DEF Multiple
<1>5. \A n \in 0 .. PerByte : Multiple(n)
  BY <1>4
<1> QED BY <1>5 DEF Multiple

\* The bits before status n of the byte: below its weight.
LEMMA ByteFromLow ==
  ASSUME NEW list, NEW m \in Nat, DOMAIN list = 0 .. m - 1, \A i \in DOMAIN list : list[i] \in StatusValues,
         NEW k \in Nat
  PROVE  \A n \in 0 .. PerByte - 1 : \E low \in 0 .. 2 ^ (Bits * n) - 1 :
            ByteFrom(list, k)[0] = low + ByteFrom(list, k)[n]
<1>a. \A j \in 0 .. PerByte : \E g \in Nat : ByteFrom(list, k)[j] = 2 ^ (Bits * j) * g
  BY ByteFromMultiple
<1> USE PerByteValues
<1> DEFINE f == ByteFrom(list, k)
           pow(n) == 2 ^ (Bits * n)
           Low(n) == \E low \in 0 .. pow(n) - 1 : f[0] = low + f[n]
           S == {n \in Nat : n \in 0 .. PerByte - 1 => Low(n)}
<1>0. \A n \in 0 .. PerByte : f[n] \in Int
  <2> SUFFICES ASSUME NEW n \in 0 .. PerByte PROVE f[n] \in Int
    OBVIOUS
  <2>2. pow(n) \in Int
    OBVIOUS
  <2>3. PICK g \in Nat : f[n] = pow(n) * g
    BY <1>a
  <2> HIDE DEF f, pow
  <2> QED BY <2>2, <2>3
<1>1. 0 \in S
  <2>1. pow(0) = 1
    <3>1. Bits * 0 = 0 /\ 2 ^ 0 = 1
      OBVIOUS
    <3> QED BY <3>1
  <2>2. f[0] = 0 + f[0]
    <3> HIDE DEF f
    <3> QED BY <1>0
  <2> QED BY <2>1, <2>2
<1>2. ASSUME NEW n \in S PROVE n + 1 \in S
  <2> SUFFICES ASSUME n + 1 \in 0 .. PerByte - 1 PROVE Low(n + 1)
    OBVIOUS
  <2>1. n \in 0 .. PerByte - 1
    OBVIOUS
  <2>2. PICK low \in 0 .. pow(n) - 1 : f[0] = low + f[n]
    <3>1. Low(n)
      <4> HIDE DEF Low
      <4> QED BY <2>1
    <3> QED BY <3>1
  <2> DEFINE a == At(list, k * PerByte + n)
             b == 2 ^ Bits
  <2>3. a \in 0 .. b - 1 /\ f[n] = a * pow(n) + f[n + 1]
    BY <2>1, ByteFromAdds DEF StatusValues
  <2>4. pow(n + 1) = pow(n) * b /\ pow(n) \in Nat /\ b \in Nat /\ f[n + 1] \in Int
    BY <1>0, <2>1, PowerSteps
  <2> HIDE DEF f, pow, a, b
  <2>5. f[0] = (low + a * pow(n)) + f[n + 1]
    BY <2>2, <2>3, <2>4
  <2> DEFINE x == a * pow(n)
             y == (b - 1) * pow(n)
  <2>6. x \in Nat /\ x <= y
    <3>1. a \in Nat /\ b - 1 \in Nat /\ a <= b - 1 /\ pow(n) \in Nat
      BY <2>3, <2>4
    <3> QED BY <3>1, MulRange
  <2>7. y = pow(n) * b - pow(n) /\ y \in Int
    BY <2>4
  <2>8. low + x \in 0 .. pow(n + 1) - 1
    <3> HIDE DEF x, y
    <3> QED BY <2>2, <2>4, <2>6, <2>7
  <2> QED BY <2>5, <2>8
<1>3. S = Nat
  <2>1. S \subseteq Nat
    OBVIOUS
  <2> HIDE DEF S
  <2> QED BY <1>1, <1>2, <2>1, SetInduction
<1> HIDE DEF Low
<1>4. \A n \in 0 .. PerByte - 1 : Low(n)
  BY <1>3
<1> QED BY <1>4 DEF Low

\* The least significant bits come first: bits Bits * n and on of byte k are the
\* status k * PerByte + n.
LEMMA BytePacks ==
  ASSUME NEW list, NEW m \in Nat, DOMAIN list = 0 .. m - 1, \A i \in DOMAIN list : list[i] \in StatusValues,
         NEW k \in Nat, NEW n \in 0 .. PerByte - 1
  PROVE  (ByteFrom(list, k)[0] \div 2 ^ (Bits * n)) % 2 ^ Bits = At(list, k * PerByte + n)
<1> DEFINE f == ByteFrom(list, k)
           a == At(list, k * PerByte + n)
           p == 2 ^ (Bits * n)
           b == 2 ^ Bits
<1>1. p \in Nat /\ p > 0 /\ b \in Nat /\ b > 0 /\ 2 ^ (Bits * (n + 1)) = p * b
  BY PowerSteps
<1>2. PICK low \in 0 .. p - 1 : f[0] = low + f[n]
  BY ByteFromLow
<1>3. PICK g \in Nat : f[n + 1] = (p * b) * g
  <2>1. n + 1 \in 0 .. PerByte
    BY PerByteValues
  <2>2. \A j \in 0 .. PerByte : \E g \in Nat : ByteFrom(list, k)[j] = 2 ^ (Bits * j) * g
    BY ByteFromMultiple
  <2>3. \E g \in Nat : f[n + 1] = 2 ^ (Bits * (n + 1)) * g
    BY <2>1, <2>2
  <2> HIDE DEF f, p, b
  <2> QED BY <1>1, <2>3
<1>4. a \in 0 .. b - 1 /\ f[n] = a * p + f[n + 1]
  BY ByteFromAdds DEF StatusValues
<1> HIDE DEF f, a, p, b
<1> DEFINE h == a + b * g
<1>5. h \in Nat
  <2>1. a \in Nat /\ b * g \in Nat
    BY <1>1, <1>4, MulRange
  <2> QED BY <2>1
<1>6. f[n] = p * h
  BY <1>1, <1>3, <1>4
<1>7. h % b = a
  BY <1>1, <1>4, DivMod
<1>8. f[0] \div p = h
  <2> HIDE DEF h
  <2> QED BY <1>1, <1>2, <1>5, <1>6, DivMod
<1> QED BY <1>7, <1>8 DEF f, a, p, b

LEMMA MulSucc == ASSUME NEW x \in Nat, NEW z \in Nat PROVE (x + 1) * z = x * z + z
OBVIOUS

\* The list ends within its last byte.
LEMMA PaddedRange ==
  NumBytes \in Nat /\ PaddedLength \in Nat /\ Length <= PaddedLength
<1> DEFINE x == Length * Bits
<1>1. x \in Nat /\ PerByte \in Nat /\ Length \in Nat /\ Bits \in Nat /\ Bits * PerByte = 8 /\ Bits > 0
  BY LengthAssumption, BitsAssumption, PerByteValues, MulRange
<1>2. NumBytes = (x + 7) \div 8
  BY DEF NumBytes
<1> HIDE DEF x
<1>3. NumBytes \in Nat /\ 8 * NumBytes >= x
  BY <1>1, <1>2
<1>4. PaddedLength = NumBytes * PerByte /\ PaddedLength \in Nat
  BY <1>1, <1>3, MulRange DEF PaddedLength
<1>5. PaddedLength * Bits = NumBytes * 8
  BY <1>1, <1>3, <1>4
<1>6. PaddedLength * Bits >= Length * Bits
  BY <1>1, <1>3, <1>5 DEF x
<1>7. ~(PaddedLength < Length)
  <2> SUFFICES ASSUME PaddedLength + 1 <= Length PROVE FALSE
    BY <1>1, <1>4
  <2>1. (PaddedLength + 1) * Bits <= Length * Bits
    BY <1>1, <1>4, MulRange
  <2>2. (PaddedLength + 1) * Bits = PaddedLength * Bits + Bits
    BY <1>1, <1>4, MulSucc
  <2>3. PaddedLength * Bits \in Nat /\ Length * Bits \in Nat
    BY <1>1, <1>4, MulRange
  <2> QED BY <1>1, <1>6, <2>1, <2>2, <2>3
<1> QED BY <1>1, <1>3, <1>4, <1>7

\* A position of the decoded list: its byte and its place there.
LEMMA PositionParts ==
  ASSUME NEW p \in 0 .. PaddedLength - 1
  PROVE  \E k \in 0 .. NumBytes - 1, n \in 0 .. PerByte - 1 :
            p = k * PerByte + n /\ p \div PerByte = k /\ p % PerByte = n
<1> USE PerByteValues, PaddedRange
<1> DEFINE k == p \div PerByte
           n == p % PerByte
<1>1. k \in Nat /\ n \in 0 .. PerByte - 1 /\ p = k * PerByte + n
  OBVIOUS
<1>2. k \in 0 .. NumBytes - 1
  <2> HIDE DEF k, n
  <2> SUFFICES ASSUME NumBytes <= k PROVE FALSE
    BY <1>1
  <2>1. NumBytes * PerByte <= k * PerByte /\ k * PerByte \in Nat /\ NumBytes * PerByte \in Nat
    BY <1>1, MulRange
  <2> QED BY <1>1, <2>1 DEF PaddedLength
<1> QED BY <1>1, <1>2

\* decodeStatusListFromByteArray mirrors the positions of a byte.
LEMMA PositionMirrors ==
  ASSUME NEW k \in 0 .. NumBytes - 1, NEW n \in 0 .. PerByte - 1
  PROVE  /\ k * PerByte + n \in 0 .. PaddedLength - 1
         /\ Position(k * PerByte + n) = k * PerByte + (PerByte - 1 - n)
<1> USE PerByteValues, PaddedRange
<1>1. k \in Nat /\ k + 1 <= NumBytes /\ k * PerByte \in Nat /\ k * PerByte + n \in Nat
  BY MulRange
<1>2. (k * PerByte + n) \div PerByte = k /\ (k * PerByte + n) % PerByte = n
  <2>1. n + PerByte * k = k * PerByte + n
    BY <1>1
  <2> QED BY <1>1, <2>1, DivMod
<1>3. k * PerByte + n < PaddedLength
  <2>1. (k + 1) * PerByte <= NumBytes * PerByte
    BY <1>1, MulRange
  <2>2. (k + 1) * PerByte = k * PerByte + PerByte /\ NumBytes * PerByte \in Nat
    BY <1>1, MulRange
  <2> QED BY <1>1, <2>1, <2>2 DEF PaddedLength
<1> QED BY <1>1, <1>2, <1>3 DEF Position

\* A byte string is read from the least significant bit of each byte on.
LEMMA DecodeReads ==
  ASSUME NEW bytes, NEW k \in 0 .. NumBytes - 1, NEW n \in 0 .. PerByte - 1
  PROVE  Decode(bytes)[k * PerByte + n] = (bytes[k] \div 2 ^ (Bits * n)) % 2 ^ Bits
<1> DEFINE p == k * PerByte + n
           r == PerByte - 1 - n
           i == k * PerByte + r
           Goes(j) == Position(j) = p
           c == CHOOSE j \in 0 .. PaddedLength - 1 : Goes(j)
<1>1. r \in 0 .. PerByte - 1 /\ PerByte - 1 - r = n /\ k \in Nat /\ PerByte \in Nat /\ PerByte > 0
  BY PerByteValues, PaddedRange
<1>2. p \in 0 .. PaddedLength - 1
  BY PositionMirrors
<1>3. i \in 0 .. PaddedLength - 1 /\ Position(i) = p
  <2> HIDE DEF r
  <2>1. i \in 0 .. PaddedLength - 1 /\ Position(i) = k * PerByte + (PerByte - 1 - r)
    BY <1>1, PositionMirrors
  <2> QED BY <1>1, <2>1
<1>4. ASSUME NEW j \in 0 .. PaddedLength - 1, Goes(j) PROVE j = i
  <2>1. PICK kj \in 0 .. NumBytes - 1, nj \in 0 .. PerByte - 1 : j = kj * PerByte + nj
    BY PositionParts
  <2> DEFINE s == PerByte - 1 - nj
  <2>2. p = kj * PerByte + s /\ s \in 0 .. PerByte - 1 /\ kj \in Nat
    BY <1>1, <1>4, <2>1, PositionMirrors, PaddedRange
  <2>3. p = s + PerByte * kj
    <3> HIDE DEF s, p
    <3> QED BY <1>1, <2>2
  <2>4. kj = k /\ s = n
    <3> HIDE DEF s, p
    <3>1. p \div PerByte = kj /\ p % PerByte = s
      BY <1>1, <2>2, <2>3, DivMod
    <3>2. p \div PerByte = k /\ p % PerByte = n
      <4>1. (n + PerByte * k) \div PerByte = k /\ (n + PerByte * k) % PerByte = n
        BY <1>1, DivMod
      <4>2. p = n + PerByte * k
        BY <1>1 DEF p
      <4> QED BY <4>1, <4>2
    <3> QED BY <3>1, <3>2
  <2> QED BY <1>1, <2>1, <2>4
<1>5. c = i
  <2> HIDE DEF Goes, i
  <2>1. Goes(i)
    BY <1>3 DEF Goes
  <2>2. c \in 0 .. PaddedLength - 1 /\ Goes(c)
    BY <1>3, <2>1
  <2> QED BY <1>4, <2>2
<1>6. Decode(bytes)[p] = Slice(bytes[(c * Bits) \div 8], (c * Bits) % 8)
  BY <1>2 DEF Decode
<1> HIDE DEF c
<1>7. (i * Bits) \div 8 = k /\ (i * Bits) % 8 = r * Bits /\ 8 - Bits - r * Bits = Bits * n
  <2> HIDE DEF i, r
  <2>1. Bits \in Nat /\ Bits > 0 /\ Bits * PerByte = 8
    BY PerByteValues, BitsAssumption
  <2>2. r * Bits \in Nat /\ r * Bits <= (PerByte - 1) * Bits
    BY <1>1, <2>1, MulRange
  <2>3. (PerByte - 1) * Bits = 8 - Bits
    BY <1>1, <2>1
  <2>4. r * Bits \in 0 .. 7
    BY <2>1, <2>2, <2>3
  <2>5. i * Bits = r * Bits + 8 * k
    BY <1>1, <2>1 DEF i
  <2>6. (r * Bits + 8 * k) \div 8 = k /\ (r * Bits + 8 * k) % 8 = r * Bits
    BY <1>1, <2>4, DivMod
  <2>7. n = PerByte - 1 - r
    BY <1>1
  <2>8. Bits * (PerByte - 1 - r) = 8 - Bits - r * Bits
    BY <1>1, <2>1
  <2> QED BY <2>5, <2>6, <2>7, <2>8
<1> QED BY <1>5, <1>6, <1>7 DEF Slice

\* What is encoded is decoded, padding included.
LEMMA RoundTrip ==
  ASSUME NEW list, StatusesOf(list)
  PROVE  /\ StatusesOf(Decode(Encode(list))) /\ DOMAIN Decode(Encode(list)) = 0 .. PaddedLength - 1
         /\ \A i \in Indices : Decode(Encode(list))[i] = list[i]
         /\ \A i \in Length .. PaddedLength - 1 : Decode(Encode(list))[i] = Valid
         /\ \A i \in Indices : (Encode(list)[i \div PerByte] \div 2 ^ (Bits * (i % PerByte))) % 2 ^ Bits = list[i]
<1> DEFINE dec == Decode(Encode(list))
<1>1. PICK m \in Nat : DOMAIN list = 0 .. m - 1 /\ m \in {Length, PaddedLength}
  BY LengthAssumption, PaddedRange DEF StatusesOf, Indices
<1>2. \A i \in DOMAIN list : list[i] \in StatusValues
  BY DEF StatusesOf
<1>3. \A i \in Indices : i \in DOMAIN list /\ i \in 0 .. PaddedLength - 1
  BY <1>1, LengthAssumption, PaddedRange DEF Indices
<1>4. ASSUME NEW p \in 0 .. PaddedLength - 1
      PROVE  /\ dec[p] = At(list, p) /\ At(list, p) \in StatusValues
             /\ (Encode(list)[p \div PerByte] \div 2 ^ (Bits * (p % PerByte))) % 2 ^ Bits = At(list, p)
  <2>1. PICK k \in 0 .. NumBytes - 1, n \in 0 .. PerByte - 1 :
            p = k * PerByte + n /\ p \div PerByte = k /\ p % PerByte = n
    BY PositionParts
  <2>2. k \in Nat /\ Encode(list)[k] = ByteFrom(list, k)[0]
    BY PaddedRange DEF Encode
  <2>3. dec[k * PerByte + n] = (Encode(list)[k] \div 2 ^ (Bits * n)) % 2 ^ Bits
    BY DecodeReads
  <2>4. (ByteFrom(list, k)[0] \div 2 ^ (Bits * n)) % 2 ^ Bits = At(list, k * PerByte + n)
    BY <1>1, <1>2, <2>2, BytePacks
  <2>5. At(list, k * PerByte + n) \in StatusValues
    BY <1>1, <1>2, <2>2, ByteFromAdds
  <2> HIDE DEF dec
  <2>6. dec[p] = At(list, p) /\ At(list, p) \in StatusValues
    BY <2>1, <2>2, <2>3, <2>4, <2>5, Zenon
  <2>7. (Encode(list)[p \div PerByte] \div 2 ^ (Bits * (p % PerByte))) % 2 ^ Bits = At(list, p)
    BY <2>1, <2>2, <2>4, Zenon
  <2> QED BY <2>6, <2>7
<1>5. DOMAIN dec = 0 .. PaddedLength - 1 /\ dec = [p \in 0 .. PaddedLength - 1 |-> dec[p]]
  BY DEF Decode
<1>6. \A i \in Indices : At(list, i) = list[i]
  BY <1>3 DEF At
<1>7. \A i \in Length .. PaddedLength - 1 : i \in 0 .. PaddedLength - 1 /\ At(list, i) = Valid
  <2> SUFFICES ASSUME NEW i \in Length .. PaddedLength - 1 PROVE i \in 0 .. PaddedLength - 1 /\ At(list, i) = Valid
    OBVIOUS
  <2>1. i \in 0 .. PaddedLength - 1 /\ i \notin Indices
    BY LengthAssumption, PaddedRange DEF Indices
  <2>2. i \in DOMAIN list => list[i] = Valid
    BY <2>1 DEF StatusesOf
  <2> QED BY <2>1, <2>2 DEF At
<1> HIDE DEF dec
<1>8. dec \in [0 .. PaddedLength - 1 -> StatusValues]
  BY <1>4, <1>5
<1>9. \A i \in Length .. PaddedLength - 1 : dec[i] = Valid
  BY <1>4, <1>7
<1>10. StatusesOf(dec)
  BY <1>8, <1>9 DEF StatusesOf
<1>11. \A i \in Indices : dec[i] = list[i]
  BY <1>3, <1>4, <1>6
<1>12. \A i \in Indices : (Encode(list)[i \div PerByte] \div 2 ^ (Bits * (i % PerByte))) % 2 ^ Bits = list[i]
  <2> SUFFICES ASSUME NEW i \in Indices
               PROVE  (Encode(list)[i \div PerByte] \div 2 ^ (Bits * (i % PerByte))) % 2 ^ Bits = list[i]
    OBVIOUS
  <2> QED BY <1>3, <1>4, <1>6, Zenon
<1> QED BY <1>5, <1>9, <1>10, <1>11, <1>12 DEF dec

-----------------------------------------------------------------------------
\* Two lists give every index of the status list the same status.
Agree(l1, l2) == \A i \in Indices : l1[i] = l2[i]

\* The bytes are an encoding of the statuses.
Carries(bytes, list) == \E l : StatusesOf(l) /\ bytes = Encode(l) /\ Agree(l, list)

\* A compressed list, whoever compressed it.
IsLst(c) == \E by, l : c = [by |-> by, bytes |-> Encode(l)] /\ StatusesOf(l)

IsToken(t) ==
    \E c, w : t = [lst |-> c, wanted |-> w] /\ IsLst(c) /\ (w # <<>> => StatusesOf(w) /\ Carries(c.bytes, w))

\* The forms of the list: the compressed one, the inflated one, which it carries
\* until it is changed, and the payload bytes retained, which carry what the
\* issuer last set; the list a reader inflates is that one, but for a change in
\* place that is not marked yet.
FormsInv ==
    /\ StatusesOf(wanted)
    /\ IsLst(lst)
    /\ inflated # Absent => \E l : inflated = <<l>> /\ StatusesOf(l) /\ (~modified => Carries(lst.bytes, l))
    /\ original # Absent => \E c : original = <<c>> /\ IsLst(c) /\ Carries(c.bytes, wanted)
    /\ ~unmarked => Agree(Inflated, wanted)

\* The token being signed and those published.
TokensInv ==
    /\ signing # Absent => \E c : /\ signing = <<c>> /\ IsLst(c)
                                  /\ signedWanted # <<>> => StatusesOf(signedWanted) /\ Carries(c.bytes, signedWanted)
    /\ \E T : published \in Seq(T) /\ \A t \in T : IsToken(t)

LEMMA CarriesAgreeing ==
  ASSUME NEW bytes, NEW l1, NEW l2, Carries(bytes, l1), Agree(l1, l2)
  PROVE  Carries(bytes, l2)
BY DEF Carries, Agree

\* A verifier reads what the bytes carry.
LEMMA CarriesReads ==
  ASSUME NEW bytes, NEW list, Carries(bytes, list)
  PROVE  /\ \A i \in Indices : /\ Decode(bytes)[i] = list[i]
                               /\ (bytes[i \div PerByte] \div 2 ^ (Bits * (i % PerByte))) % 2 ^ Bits = list[i]
         /\ \A i \in Length .. PaddedLength - 1 : VerifyStatusValid(Decode(bytes), i)
<1>1. PICK l : StatusesOf(l) /\ bytes = Encode(l) /\ Agree(l, list)
  BY DEF Carries
<1>2. \A i \in Indices : l[i] = list[i]
  BY <1>1 DEF Agree
<1>3. \A i \in Indices : Decode(bytes)[i] = l[i]
  BY <1>1, RoundTrip
<1>4. \A i \in Indices : (bytes[i \div PerByte] \div 2 ^ (Bits * (i % PerByte))) % 2 ^ Bits = l[i]
  BY <1>1, RoundTrip, Zenon
<1>5. ASSUME NEW i \in Length .. PaddedLength - 1 PROVE VerifyStatusValid(Decode(bytes), i)
  <2>1. i \in 0 .. PaddedLength - 1
    BY LengthAssumption, PaddedRange
  <2>2. DOMAIN Decode(bytes) = 0 .. PaddedLength - 1 /\ Decode(bytes)[i] = Valid
    BY <1>1, RoundTrip
  <2> QED BY <2>1, <2>2 DEF VerifyStatusValid
<1> QED BY <1>2, <1>3, <1>4, <1>5, Zenon

LEMMA InflatedStatuses ==
  ASSUME FormsInv
  PROVE  StatusesOf(Inflated) /\ (inflated = Absent => Carries(lst.bytes, Inflated))
<1>1. CASE inflated = Absent
  <2>1. PICK by, l : lst = [by |-> by, bytes |-> Encode(l)] /\ StatusesOf(l)
    BY DEF FormsInv, IsLst
  <2>2. lst.bytes = Encode(l) /\ Inflated = Decode(Encode(l))
    BY <1>1, <2>1 DEF Inflated
  <2>3. Agree(l, Inflated) /\ StatusesOf(Inflated)
    BY <2>1, <2>2, RoundTrip DEF Agree
  <2> QED BY <2>1, <2>2, <2>3 DEF Carries
<1>2. CASE inflated # Absent
  <2>1. PICK l : inflated = <<l>> /\ StatusesOf(l)
    BY <1>2 DEF FormsInv
  <2>2. Inflated = l
    BY <1>2, <2>1 DEF Inflated
  <2> QED BY <1>2, <2>1, <2>2
<1> QED BY <1>1, <1>2

\* compressStatusListIfModified leaves bytes that carry the inflated list.
LEMMA CompressedCarries ==
  ASSUME FormsInv
  PROVE  IsLst(Compressed) /\ Carries(Compressed.bytes, Inflated)
<1>1. CASE inflated = Absent
  BY <1>1, InflatedStatuses DEF Compressed, FormsInv
<1>2. CASE inflated # Absent
  <2>1. PICK l : inflated = <<l>> /\ StatusesOf(l) /\ (~modified => Carries(lst.bytes, l))
    BY <1>2 DEF FormsInv
  <2>2. Inflated = l /\ inflated[1] = l
    BY <1>2, <2>1 DEF Inflated
  <2>3. CASE modified
    <3>1. Compressed = [by |-> "us", bytes |-> Encode(l)]
      BY <1>2, <2>2, <2>3 DEF Compressed
    <3>2. Compressed.bytes = Encode(l) /\ Agree(l, l)
      BY <3>1 DEF Agree
    <3> QED BY <2>1, <2>2, <3>1, <3>2 DEF IsLst, Carries
  <2>4. CASE ~modified
    <3>1. Compressed = lst
      BY <2>4 DEF Compressed
    <3> QED BY <2>1, <2>2, <2>4, <3>1 DEF FormsInv
  <2> QED BY <2>3, <2>4
<1> QED BY <1>1, <1>2

\* A status set at an index of the list, on the inflated list.
LEMMA SetStatusKeeps ==
  ASSUME FormsInv, NEW i \in Indices, NEW v \in Statuses
  PROVE  StatusesOf([Inflated EXCEPT ![i] = v])
<1>1. StatusesOf(Inflated)
  BY InflatedStatuses
<1>2. v \in StatusValues
  BY StatusesAssumption DEF StatusValues
<1>3. i \in 0 .. PaddedLength - 1 /\ i \notin Length .. PaddedLength - 1
  BY LengthAssumption, PaddedRange DEF Indices
<1> HIDE DEF Inflated
<1>4. CASE Inflated \in [Indices -> StatusValues]
  BY <1>2, <1>4 DEF StatusesOf
<1>5. CASE Inflated \in [0 .. PaddedLength - 1 -> StatusValues] /\ \A j \in Length .. PaddedLength - 1 : Inflated[j] = Valid
  <2>1. [Inflated EXCEPT ![i] = v] \in [0 .. PaddedLength - 1 -> StatusValues]
    BY <1>2, <1>5
  <2>2. \A j \in Length .. PaddedLength - 1 : [Inflated EXCEPT ![i] = v][j] = Valid
    <3>1. \A j \in Length .. PaddedLength - 1 : j # i /\ j \in 0 .. PaddedLength - 1
      BY <1>3, LengthAssumption, PaddedRange
    <3> QED BY <1>3, <1>5, <3>1
  <2> QED BY <2>1, <2>2 DEF StatusesOf
<1> QED BY <1>1, <1>4, <1>5 DEF StatusesOf

-----------------------------------------------------------------------------
\* The inflated list after a step that replaces it.
LEMMA InflatedAfter ==
  ASSUME NEW l, inflated' = <<l>>
  PROVE  inflated' # Absent /\ Inflated' = l
<1>1. inflated' # Absent /\ inflated'[1] = l
  BY DEF Absent
<1> QED BY <1>1 DEF Inflated

LEMMA UpdateForms ==
  ASSUME FormsInv, NEW i \in Indices, NEW v \in Statuses, UpdateStatusList(i, v)
  PROVE  FormsInv'
<1> DEFINE new == [Inflated EXCEPT ![i] = v]
<1>1. StatusesOf(new)
  BY SetStatusKeeps
<1>2. inflated' = <<new>> /\ modified' = TRUE /\ original' = Absent /\ wanted' = new /\ lst' = lst
  BY DEF UpdateStatusList, SetStatus
<1> HIDE DEF new
<1>3. inflated' # Absent /\ Inflated' = new
  BY <1>2, InflatedAfter
<1>4. Agree(new, new)
  BY DEF Agree
<1> QED BY <1>1, <1>2, <1>3, <1>4 DEF FormsInv

LEMMA SetInPlaceForms ==
  ASSUME FormsInv, NEW i \in Indices, NEW v \in Statuses, SetStatusInPlace(i, v)
  PROVE  FormsInv'
<1> DEFINE new == [Inflated EXCEPT ![i] = v]
<1>1. StatusesOf(new)
  BY SetStatusKeeps
<1>2. inflated' = <<new>> /\ modified' = TRUE /\ original' = original /\ wanted' = wanted /\ lst' = lst /\ unmarked'
  BY DEF SetStatusInPlace, SetStatus
<1> HIDE DEF new
<1> QED BY <1>1, <1>2 DEF FormsInv

LEMMA MarkForms ==
  ASSUME FormsInv, MarkPayloadModified
  PROVE  FormsInv'
<1>1. inflated' = inflated /\ modified' = modified /\ original' = Absent /\ wanted' = Inflated /\ lst' = lst
  BY DEF MarkPayloadModified
<1>2. Inflated' = Inflated
  BY <1>1 DEF Inflated
<1>3. StatusesOf(Inflated) /\ Agree(Inflated, Inflated)
  BY InflatedStatuses DEF Agree
<1> QED BY <1>1, <1>2, <1>3 DEF FormsInv

LEMMA SetListForms ==
  ASSUME FormsInv, NEW v \in Statuses, SetStatusList([i \in 0 .. Length - 1 |-> v])
  PROVE  FormsInv'
<1> DEFINE new == [i \in 0 .. Length - 1 |-> v]
<1>1. StatusesOf(new)
  BY StatusesAssumption DEF StatusesOf, StatusValues, Indices
<1> HIDE DEF new
<1>2. lst' = [by |-> "us", bytes |-> Encode(new)] /\ inflated' = Absent /\ original' = Absent /\ wanted' = new
  BY DEF SetStatusList, new
<1>3. IsLst(lst')
  BY <1>1, <1>2 DEF IsLst
<1>4. Inflated' = Decode(Encode(new))
  BY <1>2 DEF Inflated
<1>5. Agree(Inflated', new)
  BY <1>1, <1>4, RoundTrip DEF Agree
<1> QED BY <1>1, <1>2, <1>3, <1>5 DEF FormsInv

LEMMA ReadForms ==
  ASSUME FormsInv, ReadStatusList
  PROVE  FormsInv'
<1>1. /\ inflated = Absent /\ inflated' = <<Inflated>> /\ modified' = FALSE
      /\ original' = original /\ wanted' = wanted /\ lst' = lst /\ unmarked' = unmarked
  BY DEF ReadStatusList
<1>2. StatusesOf(Inflated) /\ Carries(lst.bytes, Inflated)
  BY <1>1, InflatedStatuses
<1>3. inflated' # Absent /\ Inflated' = Inflated
  BY <1>1, InflatedAfter
<1> HIDE DEF Inflated
<1> QED BY <1>1, <1>2, <1>3 DEF FormsInv

LEMMA SignStartForms ==
  ASSUME FormsInv, SignStart
  PROVE  FormsInv'
<1>1. inflated' = inflated /\ modified' = modified /\ original' = original /\ wanted' = wanted /\ unmarked' = unmarked
  BY DEF SignStart
<1>2. lst' = lst \/ lst' = Compressed
  BY DEF SignStart
<1>3. CASE lst' = lst
  <2>1. Inflated' = Inflated
    BY <1>1, <1>3 DEF Inflated
  <2> QED BY <1>1, <1>3, <2>1 DEF FormsInv
<1>4. CASE lst' = Compressed
  <2>1. IsLst(lst') /\ Carries(lst'.bytes, Inflated)
    BY <1>4, CompressedCarries
  <2>2. CASE inflated = Absent
    <3>1. Compressed = lst
      BY <2>2 DEF Compressed
    <3> QED BY <1>3, <1>4, <3>1
  <2>3. CASE inflated # Absent
    <3>1. PICK l : inflated = <<l>> /\ StatusesOf(l)
      BY <2>3 DEF FormsInv
    <3>2. Inflated = l /\ Inflated' = l
      BY <1>1, <2>3, <3>1 DEF Inflated
    <3> QED BY <1>1, <2>1, <3>1, <3>2 DEF FormsInv
  <2> QED BY <2>2, <2>3
<1> QED BY <1>2, <1>3, <1>4

\* What signAndEncode() takes carries what the issuer has set.
LEMMA SignStartTokens ==
  ASSUME FormsInv, TokensInv, SignStart
  PROVE  TokensInv'
<1>1. published' = published /\ signedWanted' = IF unmarked THEN <<>> ELSE wanted
  BY DEF SignStart
<1>2. \E c : signing' = <<c>> /\ IsLst(c) /\ (~unmarked => Carries(c.bytes, wanted))
  <2>1. CASE original # Absent
    <3>1. signing' = original
      BY <2>1 DEF SignStart
    <3> QED BY <2>1, <3>1 DEF FormsInv
  <2>2. CASE original = Absent
    <3>1. signing' = <<Compressed>>
      BY <2>2 DEF SignStart
    <3>2. IsLst(Compressed) /\ Carries(Compressed.bytes, Inflated)
      BY CompressedCarries
    <3>3. ~unmarked => Carries(Compressed.bytes, wanted)
      BY <3>2, CarriesAgreeing DEF FormsInv
    <3> QED BY <3>1, <3>2, <3>3
  <2> QED BY <2>1, <2>2
<1>3. PICK c : signing' = <<c>> /\ IsLst(c) /\ (~unmarked => Carries(c.bytes, wanted))
  BY <1>2
<1>4. signedWanted' # <<>> => StatusesOf(signedWanted') /\ Carries(c.bytes, signedWanted')
  BY <1>1, <1>3 DEF FormsInv
<1> QED BY <1>1, <1>3, <1>4 DEF TokensInv

LEMMA SeqGrows ==
  ASSUME NEW T, NEW s \in Seq(T), NEW t
  PROVE  s \in Seq(T \cup {t}) /\ Append(s, t) \in Seq(T \cup {t})
         /\ \A n \in DOMAIN s : [s EXCEPT ![n] = t] \in Seq(T \cup {t})
<1>1. s \in Seq(T \cup {t})
  OBVIOUS
<1>2. \A n \in DOMAIN s : [s EXCEPT ![n] = t] \in Seq(T \cup {t})
  BY <1>1
<1> QED BY <1>1, <1>2

LEMMA SignEndTokens ==
  ASSUME TokensInv, SignEnd
  PROVE  TokensInv'
<1>1. PICK c : /\ signing = <<c>> /\ IsLst(c)
               /\ signedWanted # <<>> => StatusesOf(signedWanted) /\ Carries(c.bytes, signedWanted)
  BY DEF TokensInv, SignEnd
<1> DEFINE t == [lst |-> c, wanted |-> signedWanted]
<1>2. published' = Append(published, t) /\ signing' = Absent
  BY <1>1 DEF SignEnd
<1>3. IsToken(t)
  BY <1>1 DEF IsToken
<1>4. PICK T : published \in Seq(T) /\ \A u \in T : IsToken(u)
  BY DEF TokensInv
<1> HIDE DEF t
<1>5. published' \in Seq(T \cup {t}) /\ \A u \in T \cup {t} : IsToken(u)
  BY <1>2, <1>3, <1>4, SeqGrows
<1> QED BY <1>2, <1>5 DEF TokensInv

\* A restart decodes the latest token: its list, and the payload bytes with it.
LEMMA ReloadKeeps ==
  ASSUME FormsInv, TokensInv, NEW by, ReloadFromToken(by)
  PROVE  FormsInv' /\ TokensInv'
<1> DEFINE n == Len(published)
           latest == published[n]
<1>1. PICK T : published \in Seq(T) /\ \A u \in T : IsToken(u)
  BY DEF TokensInv
<1>2. published # <<>> /\ latest.wanted # <<>> /\ lst' = [latest.lst EXCEPT !.by = by] /\ original' = <<lst'>>
  BY DEF ReloadFromToken
<1>3. /\ wanted' = latest.wanted /\ inflated' = Absent /\ modified' = FALSE /\ signing' = Absent
      /\ published' = [published EXCEPT ![n].lst.by = by]
  BY DEF ReloadFromToken
<1>4. n \in DOMAIN published /\ latest \in T
  BY <1>1, <1>2
<1>5. PICK c, w : latest = [lst |-> c, wanted |-> w] /\ IsLst(c) /\ (w # <<>> => StatusesOf(w) /\ Carries(c.bytes, w))
  BY <1>1, <1>4 DEF IsToken
<1>6. PICK by0, l : c = [by |-> by0, bytes |-> Encode(l)] /\ StatusesOf(l)
  BY <1>5 DEF IsLst
<1> DEFINE d == [by |-> by, bytes |-> Encode(l)]
           new == [lst |-> d, wanted |-> w]
<1> HIDE DEF latest
<1>7. latest.lst = c /\ latest.wanted = w
  BY <1>5
<1>8. [c EXCEPT !.by = by] = d
  BY <1>6
<1>9. lst' = d /\ wanted' = w /\ c.bytes = Encode(l) /\ d.bytes = Encode(l) /\ w # <<>>
  BY <1>2, <1>3, <1>6, <1>7, <1>8
<1>10. IsLst(d)
  BY <1>6 DEF IsLst
<1> HIDE DEF d
<1>11. StatusesOf(w) /\ Carries(d.bytes, w)
  BY <1>5, <1>9
<1>12. Agree(Inflated', w)
  <2>1. Inflated' = Decode(d.bytes)
    BY <1>3, <1>9 DEF Inflated
  <2> QED BY <1>11, <2>1, CarriesReads DEF Agree
<1>13. FormsInv'
  BY <1>2, <1>3, <1>9, <1>10, <1>11, <1>12 DEF FormsInv
<1>14. [latest EXCEPT !.lst = d] = new
  BY <1>5
<1>15. published' = [published EXCEPT ![n] = new]
  <2>1. published' = [published EXCEPT ![n] = [published[n] EXCEPT !.lst = [published[n].lst EXCEPT !.by = by]]]
    BY <1>3
  <2>2. [published[n].lst EXCEPT !.by = by] = d
    BY <1>7, <1>8 DEF latest
  <2>3. published' = [published EXCEPT ![n] = [published[n] EXCEPT !.lst = d]]
    BY <2>1, <2>2
  <2>4. [published[n] EXCEPT !.lst = d] = new
    BY <1>14 DEF latest
  <2> HIDE DEF new, n
  <2> QED BY <2>3, <2>4
<1>16. IsToken(new)
  BY <1>10, <1>11 DEF IsToken
<1> HIDE DEF new, n
<1>17. published' \in Seq(T \cup {new}) /\ \A u \in T \cup {new} : IsToken(u)
  BY <1>1, <1>4, <1>15, <1>16, SeqGrows
<1>18. TokensInv'
  BY <1>3, <1>17 DEF TokensInv
<1> QED BY <1>13, <1>18

LEMMA FormsStutter ==
  ASSUME FormsInv, UNCHANGED <<lst, inflated, modified, original, wanted, unmarked>>
  PROVE  FormsInv'
<1>1. lst' = lst /\ inflated' = inflated /\ modified' = modified /\ original' = original /\ wanted' = wanted
      /\ unmarked' = unmarked
  OBVIOUS
<1>2. Inflated' = Inflated
  BY <1>1 DEF Inflated
<1> QED BY <1>1, <1>2 DEF FormsInv

LEMMA TokensStutter ==
  ASSUME TokensInv, UNCHANGED <<signing, signedWanted, published>>
  PROVE  TokensInv'
BY DEF TokensInv

LEMMA ListInit == ASSUME CwtInit PROVE FormsInv /\ TokensInv
<1>1. StatusesOf(EmptyList)
  <2>1. 0 \in StatusValues
    BY StatusValid
  <2> QED BY <2>1 DEF StatusesOf, EmptyList, Indices, Valid
<1>2. /\ lst = [by |-> "us", bytes |-> Encode(EmptyList)] /\ inflated = Absent /\ original = Absent /\ signing = Absent
      /\ published = <<>> /\ wanted = EmptyList
  BY DEF CwtInit
<1> HIDE DEF EmptyList
<1>3. IsLst(lst)
  BY <1>1, <1>2 DEF IsLst
<1>4. Inflated = Decode(Encode(EmptyList))
  BY <1>2 DEF Inflated
<1>5. Agree(Inflated, wanted)
  BY <1>1, <1>2, <1>4, RoundTrip DEF Agree
<1>6. published \in Seq({})
  BY <1>2
<1>7. \E T : published \in Seq(T) /\ \A t \in T : IsToken(t)
  BY <1>6
<1> QED BY <1>1, <1>2, <1>3, <1>5, <1>7 DEF FormsInv, TokensInv

\* Every step keeps the forms of the list and the tokens in agreement.
LEMMA ListKeeps ==
  ASSUME FormsInv, TokensInv, AllocatorInv, [CwtNext]_<<vars, cwtVars>>
  PROVE  FormsInv' /\ TokensInv'
<1>1. CASE UNCHANGED cwtVars
  BY <1>1, FormsStutter, TokensStutter DEF cwtVars
<1>2. ASSUME NEW k \in DOMAIN issued, NEW v \in Statuses, UpdateStatusList(issued[k], v) PROVE FormsInv' /\ TokensInv'
  <2>1. issued[k] \in Indices
    BY DEF AllocatorInv
  <2>2. UNCHANGED <<signing, signedWanted, published>>
    BY <1>2 DEF UpdateStatusList
  <2> QED BY <1>2, <2>1, <2>2, UpdateForms, TokensStutter
<1>3. ASSUME NEW k \in DOMAIN issued, NEW v \in Statuses, SetStatusInPlace(issued[k], v) PROVE FormsInv' /\ TokensInv'
  <2>1. issued[k] \in Indices
    BY DEF AllocatorInv
  <2>2. UNCHANGED <<signing, signedWanted, published>>
    BY <1>3 DEF SetStatusInPlace
  <2> QED BY <1>3, <2>1, <2>2, SetInPlaceForms, TokensStutter
<1>4. CASE MarkPayloadModified
  <2>1. UNCHANGED <<signing, signedWanted, published>>
    BY <1>4 DEF MarkPayloadModified
  <2> QED BY <1>4, <2>1, MarkForms, TokensStutter
<1>5. ASSUME NEW v \in Statuses, SetStatusList([i \in 0 .. Length - 1 |-> v]) PROVE FormsInv' /\ TokensInv'
  <2>1. UNCHANGED <<signing, signedWanted, published>>
    BY <1>5 DEF SetStatusList
  <2> QED BY <1>5, <2>1, SetListForms, TokensStutter
<1>6. CASE ReadStatusList
  <2>1. UNCHANGED <<signing, signedWanted, published>>
    BY <1>6 DEF ReadStatusList
  <2> QED BY <1>6, <2>1, ReadForms, TokensStutter
<1>7. CASE SignStart
  BY <1>7, SignStartForms, SignStartTokens
<1>8. CASE SignEnd
  <2>1. UNCHANGED <<lst, inflated, modified, original, wanted, unmarked>>
    BY <1>8 DEF SignEnd
  <2> QED BY <1>8, <2>1, FormsStutter, SignEndTokens
<1>9. ASSUME NEW by \in {"us", "other"}, ReloadFromToken(by) PROVE FormsInv' /\ TokensInv'
  BY <1>9, ReloadKeeps
<1>10. AllocatorStep => UNCHANGED cwtVars
  BY DEF AllocatorStep
<1>11. CwtNext \/ UNCHANGED cwtVars
  OBVIOUS
<1> QED BY <1>1, <1>2, <1>3, <1>4, <1>5, <1>6, <1>7, <1>8, <1>9, <1>10, <1>11 DEF CwtNext

\* StatusListCwt: what a verifier reads from the latest token, at every index, is
\* what the issuer had set when signAndEncode() was called, for every length of
\* the list, every number of bits and any sequence of updates, changes in place,
\* reads, restarts and signatures that resolve late.
THEOREM TokensShowStatuses == CwtSpec => []PublishedStatuses
<1> DEFINE Inv == AllocatorInv /\ FormsInv /\ TokensInv
<1>1. CwtInit => Inv
  BY AllocatorInit, ListInit
<1>2. Inv /\ [CwtNext]_<<vars, cwtVars>> => Inv'
  BY AllocatorKeeps, ListKeeps
<1>3. Inv => PublishedStatuses
  <2> SUFFICES ASSUME Inv, published # <<>>, Latest.wanted # <<>>
               PROVE  /\ \A i \in Indices :
                           /\ Decode(Latest.lst.bytes)[i] = Latest.wanted[i]
                           /\ (Latest.lst.bytes[i \div PerByte] \div 2 ^ (Bits * (i % PerByte))) % 2 ^ Bits = Latest.wanted[i]
                      /\ \A i \in Length .. PaddedLength - 1 : VerifyStatusValid(Decode(Latest.lst.bytes), i)
    BY DEF PublishedStatuses
  <2>1. PICK T : published \in Seq(T) /\ \A t \in T : IsToken(t)
    BY DEF TokensInv
  <2>2. IsToken(Latest)
    BY <2>1 DEF Latest
  <2>3. PICK c, w : Latest = [lst |-> c, wanted |-> w] /\ (w # <<>> => Carries(c.bytes, w))
    BY <2>2 DEF IsToken
  <2>4. Latest.lst = c /\ Latest.wanted = w
    BY <2>3
  <2>5. Carries(Latest.lst.bytes, Latest.wanted)
    BY <2>3, <2>4
  <2> QED BY <2>5, CarriesReads
<1> QED BY <1>1, <1>2, <1>3, PTL DEF CwtSpec

-------------------------------------------------------------------------------
\* The fields of a verification.
CheckFields ==
    {"phase", "opts", "msg", "errors", "claims", "at", "fetches", "asked", "list", "listAt", "chain", "issues"}

\* Claims whose status and type are those of the signed payload.
SameReferences(claims, signed) ==
    StatusReference(claims) = StatusReference(signed) /\ VctOf(claims) = VctOf(signed)

IssuerSigned(t) == ~SignatureFails(t.sigs[1])

\* What the checks of a credential without an error come to.
Passed(c) ==
    /\ c.claims = Claims(c.msg)
    /\ IsVc(c.opts) => IssuerSigned(c.msg.token)
    /\ IsVc(c.opts) /\ c.opts.op # "safeVerify" =>
          ~TypFails(c.msg.token) /\ ~ProtectedClaimsFail(c.claims, c.msg.token.payload)

\* A verification that may ask a host for something.
MayFetch(c) ==
    /\ c.msg.token.sigs[1].by = "issuer"
    /\ c.msg.token.sigs[1].typ = VcType
    /\ SameReferences(c.claims, c.msg.token.payload)

ListUri(reference) == IF reference = None THEN {} ELSE {reference.uri}

AskedAsSigned(c) ==
    LET signed == c.msg.token.payload
    IN c.asked \subseteq {VctOf(signed)} \cup {c.chain[i].extends : i \in DOMAIN c.chain} \cup ListUri(StatusReference(signed))

ChainFor(c) ==
    /\ \E D : c.chain \in Seq(D)
    /\ Len(c.chain) <= MaxVctDepth + 1
    /\ \A i, j \in DOMAIN c.chain : c.chain[i].vct = c.chain[j].vct => i = j

\* There is another type to ask for.
ChainOpen(c) ==
    \/ c.chain = <<>>
    \/ /\ Len(c.chain) <= MaxVctDepth
       /\ \A i \in DOMAIN c.chain : c.chain[i].vct # Last(c.chain).extends

\* The status list an accepted verification went by was current.
ListCurrent(c) ==
    c.listAt # None /\ c.errors = {} =>
       /\ c.listAt \in Nat /\ c.listAt <= now
       /\ revoked # None => c.listAt < revoked + StatusLifetime

\* A verification before anything is fetched.
Unfetched(c) ==
    /\ DOMAIN c = CheckFields
    /\ c.msg.token.payload = SignedPayload(scenario)
    /\ c.asked = {} /\ c.chain = <<>> /\ c.listAt = None

BindingPhase(c) == Unfetched(c) /\ c.opts.op # "verifyTypeMetadata" /\ (c.errors = {} => Passed(c))

CheckUnderWay(c) ==
    /\ DOMAIN c = CheckFields
    /\ c.msg.token.payload = SignedPayload(scenario)
    /\ c.phase \in {"kb", "status", "vct", "done"}
    /\ c.phase = "kb" => BindingPhase(c)
    /\ c.phase = "status" => c.chain = <<>> /\ StatusReference(c.claims) # None
    /\ c.phase \in {"status", "vct"} \/ c.asked # {} => MayFetch(c)
    /\ c.phase = "vct" => ChainOpen(c)
    /\ AskedAsSigned(c) /\ ChainFor(c) /\ ListCurrent(c)

\* A list that says valid is from before the revocation.
ListsInv ==
    /\ now \in Nat
    /\ revoked \in Nat \cup {None}
    /\ \A l \in lists :
          /\ l.iat \in Nat /\ l.iat <= now
          /\ l.exp = l.iat + StatusLifetime
          /\ l.statuses[1] = 0 /\ revoked # None => l.iat <= revoked

TokenInv ==
    /\ scenario \in Scenarios
    /\ token # None => token.payload = SignedPayload(scenario) /\ DOMAIN token = {"payload", "alg", "sigs"}
    /\ sent # {} => token # None

VcInv == TokenInv /\ ListsInv /\ (check # Idle => CheckUnderWay(check))

-----------------------------------------------------------------------------
\* What is reached from a value includes the value.
LEMMA WholeReached ==
  ASSUME NEW v
  PROVE  v \in ValuesIn(v)
BY DEF ValuesIn, Reached

\* A value that is no object or array is what it is when unpacked.
LEMMA LeafUnpacked ==
  ASSUME NEW v, NEW map, v.t # "obj", v.t # "arr"
  PROVE  Unpacked1(v, map) = v /\ Unpacked2(v, map) = v
BY DEF Unpacked1, Unpacked2, UnpackedWith

\* A plain member is unpacked by itself.
LEMMA MemberUnpacked ==
  ASSUME NEW signed, NEW map, signed.t = "obj", NEW k \in DOMAIN signed.m
  PROVE  k \in DOMAIN Unpacked(signed, map).m /\ Unpacked(signed, map).m[k] = Unpacked1(signed.m[k], map)
BY DEF Unpacked, UnpackedWith, Plain, Obj

\* An object that discloses nothing keeps its members.
LEMMA MembersKept ==
  ASSUME NEW v, NEW map, ~HasDisclosableParts(v), v.t = "obj"
  PROVE  /\ Unpacked1(v, map).t = "obj"
         /\ DOMAIN Unpacked1(v, map).m = DOMAIN v.m
         /\ \A n \in DOMAIN v.m : Unpacked1(v, map).m[n] = Unpacked2(v.m[n], map)
<1>1. v.sd = <<>>
  BY WholeReached DEF HasDisclosableParts
<1>2. {v.sd[i] : i \in {j \in DOMAIN v.sd : v.sd[j] \in map}} = {}
  BY <1>1
<1>3. Unpacked1(v, map) = Plain([n \in DOMAIN v.m |-> Unpacked2(v.m[n], map)])
  BY <1>2 DEF Unpacked1, UnpackedWith
<1> QED
  BY <1>3 DEF Plain, Obj

\* What the assumption says of a signed payload.
SignedWell(signed) ==
    /\ signed.t = "obj"
    /\ HasStatus(signed) => StatusReference(signed).t = "ref" /\ StatusReference(signed).idx = 1
    /\ "vct" \in DOMAIN signed.m => signed.m["vct"].t = "str"

LEMMA PayloadSigned ==
  ASSUME NEW s \in Scenarios
  PROVE  SignedWell(SignedPayload(s))
<1> DEFINE signed == SignedPayload(s)
<1>1. /\ signed.t = "obj"
      /\ HasStatus(signed) => StatusReference(signed).t = "ref" /\ StatusReference(signed).idx = 1
      /\ "vct" \in DOMAIN signed.m => signed.m["vct"].t = "str"
  BY ScenariosAssumption
<1> HIDE DEF signed
<1>2. SignedWell(signed)
  BY <1>1 DEF SignedWell
<1> QED
  BY <1>2 DEF signed

\* Claims whose protected members were not disclosed refer to the status
\* list and the type that were signed.
LEMMA ReferencesSigned ==
  ASSUME NEW signed, NEW map, SignedWell(signed), ~ProtectedClaimsFail(Unpacked(signed, map), signed)
  PROVE  SameReferences(Unpacked(signed, map), signed)
<1> DEFINE claims == Unpacked(signed, map)
<1>1. /\ "status" \in DOMAIN claims.m => "status" \in DOMAIN signed.m
      /\ "vct" \in DOMAIN claims.m => "vct" \in DOMAIN signed.m
      /\ "status" \in DOMAIN signed.m => ~HasDisclosableParts(signed.m["status"])
  BY DEF ProtectedClaimsFail, ProtectedClaims
<1>2. signed.t = "obj"
  BY DEF SignedWell
<1>3. VctOf(claims) = VctOf(signed)
  <2>1. CASE "vct" \in DOMAIN signed.m
    <3>1. "vct" \in DOMAIN claims.m /\ claims.m["vct"] = Unpacked1(signed.m["vct"], map)
      BY <2>1, <1>2, MemberUnpacked
    <3>2. signed.m["vct"].t = "str"
      BY <2>1 DEF SignedWell
    <3>3. Unpacked1(signed.m["vct"], map) = signed.m["vct"]
      BY <3>2, LeafUnpacked
    <3> QED
      BY <2>1, <3>1, <3>3 DEF VctOf
  <2>2. CASE "vct" \notin DOMAIN signed.m
    BY <2>2, <1>1 DEF VctOf
  <2> QED
    BY <2>1, <2>2
<1>4. StatusReference(claims) = StatusReference(signed)
  <2>1. CASE "status" \notin DOMAIN signed.m
    BY <2>1, <1>1 DEF StatusReference, HasStatus
  <2> DEFINE status == signed.m["status"]
  <2>2. CASE "status" \in DOMAIN signed.m
    <3>1. "status" \in DOMAIN claims.m /\ claims.m["status"] = Unpacked1(status, map)
      BY <2>2, <1>2, MemberUnpacked
    <3> HIDE DEF claims
    <3>2. CASE status.t = "obj"
      <4>1. /\ Unpacked1(status, map).t = "obj"
            /\ DOMAIN Unpacked1(status, map).m = DOMAIN status.m
            /\ \A n \in DOMAIN status.m : Unpacked1(status, map).m[n] = Unpacked2(status.m[n], map)
        BY <2>2, <1>1, <3>2, MembersKept
      <4>2. CASE "status_list" \notin DOMAIN status.m
        BY <4>1, <4>2, <3>1, <2>2 DEF StatusReference, HasStatus
      <4>3. CASE "status_list" \in DOMAIN status.m
        <5>1. HasStatus(signed) /\ StatusReference(signed) = status.m["status_list"]
          BY <2>2, <3>2, <4>3 DEF HasStatus, StatusReference
        <5>2. status.m["status_list"].t = "ref"
          BY <5>1 DEF SignedWell
        <5>3. Unpacked2(status.m["status_list"], map) = status.m["status_list"]
          BY <5>2, LeafUnpacked
        <5>4. HasStatus(claims) /\ StatusReference(claims) = status.m["status_list"]
          BY <5>3, <4>1, <4>3, <3>1 DEF HasStatus, StatusReference
        <5> QED
          BY <5>1, <5>4
      <4> QED
        BY <4>2, <4>3
    <3>3. CASE status.t # "obj"
      <4>1. Unpacked1(status, map).t # "obj"
        BY <3>3 DEF Unpacked1, UnpackedWith, Arr
      <4> QED
        BY <4>1, <3>1, <3>3 DEF StatusReference, HasStatus
    <3> QED
      BY <3>2, <3>3
  <2> QED
    BY <2>1, <2>2
<1> QED
  BY <1>3, <1>4 DEF SameReferences

-----------------------------------------------------------------------------
\* A sequence of checks without a failing one.
LEMMA NoneFails ==
  ASSUME NEW checks, FirstFailing(checks) = {}, NEW i \in DOMAIN checks
  PROVE  ~checks[i].fails
<1> DEFINE failing == {j \in DOMAIN checks : checks[j].fails}
<1>1. failing = {}
  BY DEF FirstFailing
<1> QED
  BY <1>1, Zenon

LEMMA VerifyPassed ==
  ASSUME NEW msg, NEW opts, VerifyErrors(msg, opts) = {}
  PROVE  /\ HasClaims(msg, opts)
         /\ IsVc(opts) => ~TypFails(msg.token) /\ ~ProtectedClaimsFail(Claims(msg), msg.token.payload)
<1> DEFINE reserved == HasReservedFields(Claims(msg))
           late == ClaimTimesFail(Claims(msg), now)
           typ == IsVc(opts) /\ TypFails(msg.token)
           protected == IsVc(opts) /\ ProtectedClaimsFail(Claims(msg), msg.token.payload)
           required == RequiredMissing(msg, opts)
           checks == <<Check("RESERVED", reserved), Check("JWT_TIME", late), Check("INVALID_SD_JWT", typ),
                       Check("INVALID_SD_JWT", protected), Check("MISSING_REQUIRED_CLAIMS", required)>>
<1>1. HasClaims(msg, opts)
  BY DEF VerifyErrors, HasClaims
<1>2. FirstFailing(checks) = {}
  BY <1>1 DEF VerifyErrors, HasClaims
<1> HIDE DEF reserved, late, typ, protected, required
<1>3. /\ 3 \in DOMAIN checks /\ checks[3] = Check("INVALID_SD_JWT", typ)
      /\ 4 \in DOMAIN checks /\ checks[4] = Check("INVALID_SD_JWT", protected)
  OBVIOUS
<1> HIDE DEF checks
<1>4. ~checks[3].fails /\ ~checks[4].fails
  BY <1>2, <1>3, NoneFails
<1>5. ~typ
  <2>1. Check("INVALID_SD_JWT", typ).fails = typ
    BY DEF Check
  <2> QED
    BY <2>1, <1>3, <1>4
<1>6. ~protected
  <2>1. Check("INVALID_SD_JWT", protected).fails = protected
    BY DEF Check
  <2> QED
    BY <2>1, <1>3, <1>4
<1> QED
  BY <1>1, <1>5, <1>6 DEF typ, protected

LEMMA SafeVerifyPassed ==
  ASSUME NEW msg, NEW opts, SafeVerifyErrors(msg, opts) = {}
  PROVE  HasClaims(msg, opts)
BY DEF SafeVerifyErrors, HasClaims

LEMMA TypeMetadataPassed ==
  ASSUME NEW msg, NEW opts, TypeMetadataErrors(msg, opts) = {}
  PROVE  ~SignaturesFail(msg.token, opts) /\ ~TypFails(msg.token)
<1> DEFINE signature == SignaturesFail(msg.token, opts)
           typ == TypFails(msg.token)
           checks == <<Check("INVALID_JWT_SIGNATURE", signature), Check("INVALID_SD_JWT", typ)>>
<1>1. FirstFailing(checks) = {}
  BY DEF TypeMetadataErrors
<1> HIDE DEF signature, typ
<1>2. /\ 1 \in DOMAIN checks /\ checks[1] = Check("INVALID_JWT_SIGNATURE", signature)
      /\ 2 \in DOMAIN checks /\ checks[2] = Check("INVALID_SD_JWT", typ)
  OBVIOUS
<1> HIDE DEF checks
<1>3. ~checks[1].fails /\ ~checks[2].fails
  BY <1>1, <1>2, NoneFails
<1>4. ~signature
  <2>1. Check("INVALID_JWT_SIGNATURE", signature).fails = signature
    BY DEF Check
  <2> QED
    BY <2>1, <1>2, <1>3
<1>5. ~typ
  <2>1. Check("INVALID_SD_JWT", typ).fails = typ
    BY DEF Check
  <2> QED
    BY <2>1, <1>2, <1>3
<1> QED
  BY <1>4, <1>5 DEF signature, typ

LEMMA StatusPassed ==
  ASSUME NEW l, NEW reference, StatusErrors(l, reference) = {}
  PROVE  ~TimeFails(l.iat, None, l.exp, now, 0) /\ l.statuses[reference.idx] = 0
<1> DEFINE strict == TimeFails(l.iat, None, l.exp, now, 0)
           by == l.by # "issuer"
           typ == l.typ # "statuslist+jwt"
           sub == l.sub # reference.uri
           lenient == TimeFails(l.iat, None, l.exp, now, DefaultSkew)
           set == l.statuses[reference.idx] # 0
           checks == <<Check("STATUS_VERIFICATION_FAILED", strict), Check("STATUS_VERIFICATION_FAILED", by),
                       Check("STATUS_VERIFICATION_FAILED", typ), Check("STATUS_VERIFICATION_FAILED", sub),
                       Check("STATUS_VERIFICATION_FAILED", lenient), Check("STATUS_INVALID", set)>>
<1>1. FirstFailing(checks) = {}
  BY DEF StatusErrors
<1> HIDE DEF strict, by, typ, sub, lenient, set
<1>2. /\ 1 \in DOMAIN checks /\ checks[1] = Check("STATUS_VERIFICATION_FAILED", strict)
      /\ 6 \in DOMAIN checks /\ checks[6] = Check("STATUS_INVALID", set)
  OBVIOUS
<1> HIDE DEF checks
<1>3. ~checks[1].fails /\ ~checks[6].fails
  BY <1>1, <1>2, NoneFails
<1>4. ~strict
  <2>1. Check("STATUS_VERIFICATION_FAILED", strict).fails = strict
    BY DEF Check
  <2> QED
    BY <2>1, <1>2, <1>3
<1>5. ~set
  <2>1. Check("STATUS_INVALID", set).fails = set
    BY DEF Check
  <2> QED
    BY <2>1, <1>2, <1>3
<1> QED
  BY <1>4, <1>5 DEF strict, set

LEMMA SignaturePassed ==
  ASSUME NEW t, NEW opts, IsVc(opts), ~SignaturesFail(t, opts)
  PROVE  IssuerSigned(t)
BY DEF SignaturesFail, IsVc, IssuerSigned

-----------------------------------------------------------------------------
\* The phases a verification goes on to.
LEMMA PhaseAfter ==
  ASSUME NEW phase, NEW c
  PROVE  \E x \in {"done", "status", "vct"} :
            /\ After(phase, c) = [c EXCEPT !.phase = x]
            /\ x # "done" => /\ IsVc(c.opts) /\ c.fetches
                             /\ c.opts.op # "safeVerify" => c.errors = {}
            /\ x = "status" => StatusReference(c.claims) # None
<1>1. CASE (c.opts.op # "safeVerify" /\ c.errors # {}) \/ ~IsVc(c.opts) \/ ~c.fetches
  <2>1. After(phase, c) = [c EXCEPT !.phase = "done"]
    BY <1>1 DEF After
  <2> QED
    BY <2>1
<1>2. CASE ~((c.opts.op # "safeVerify" /\ c.errors # {}) \/ ~IsVc(c.opts) \/ ~c.fetches)
  <2>1. CASE phase = "credential" /\ AwaitsStatus(c)
    <3>1. After(phase, c) = [c EXCEPT !.phase = "status"]
      BY <1>2, <2>1 DEF After
    <3>2. StatusReference(c.claims) # None
      BY <2>1 DEF AwaitsStatus
    <3> QED
      BY <1>2, <3>1, <3>2
  <2>2. CASE ~(phase = "credential" /\ AwaitsStatus(c))
    <3>1. After(phase, c) = [c EXCEPT !.phase = IF c.opts.metadata THEN "vct" ELSE "done"]
      BY <1>2, <2>2 DEF After
    <3>2. PICK x \in {"vct", "done"} : x = IF c.opts.metadata THEN "vct" ELSE "done"
      OBVIOUS
    <3>3. After(phase, c) = [c EXCEPT !.phase = x]
      BY <3>1, <3>2
    <3> QED
      BY <1>2, <3>3
  <2> QED
    BY <2>1, <2>2
<1> QED
  BY <1>1, <1>2

\* All that the phase does not change.
LEMMA PhaseChanged ==
  ASSUME NEW c, NEW x, NEW d, DOMAIN c = CheckFields, d = [c EXCEPT !.phase = x]
  PROVE  /\ DOMAIN d = CheckFields /\ d.phase = x
         /\ d.opts = c.opts /\ d.msg = c.msg /\ d.errors = c.errors /\ d.claims = c.claims
         /\ d.asked = c.asked /\ d.listAt = c.listAt /\ d.chain = c.chain
BY DEF CheckFields

\* A verification that may fetch if it is to.
ReadyToFetch(c) ==
    /\ DOMAIN c = CheckFields
    /\ c.msg.token.payload = SignedPayload(scenario)
    /\ c.chain = <<>>
    /\ c.asked # {} => MayFetch(c)
    /\ AskedAsSigned(c) /\ ListCurrent(c)

LEMMA EmptyChain ==
  ASSUME NEW c, c.chain = <<>>
  PROVE  ChainFor(c) /\ ChainOpen(c)
<1>1. c.chain \in Seq({})
  OBVIOUS
<1>2. Len(c.chain) = 0 /\ DOMAIN c.chain = {}
  OBVIOUS
<1>3. MaxVctDepth \in Nat
  BY BoundsAssumption
<1> QED
  BY <1>1, <1>2, <1>3 DEF ChainFor, ChainOpen

LEMMA AfterUnderWay ==
  ASSUME NEW phase, NEW c, ReadyToFetch(c),
         IsVc(c.opts) /\ c.fetches /\ (c.opts.op # "safeVerify" => c.errors = {}) => MayFetch(c)
  PROVE  CheckUnderWay(After(phase, c))
<1>1. PICK x \in {"done", "status", "vct"} :
         /\ After(phase, c) = [c EXCEPT !.phase = x]
         /\ x # "done" => /\ IsVc(c.opts) /\ c.fetches
                          /\ c.opts.op # "safeVerify" => c.errors = {}
         /\ x = "status" => StatusReference(c.claims) # None
  BY PhaseAfter
<1>2. PICK d : d = After(phase, c)
  OBVIOUS
<1>3. x # "done" => MayFetch(c)
  BY <1>1
<1>4. DOMAIN c = CheckFields /\ d = [c EXCEPT !.phase = x]
  BY <1>1, <1>2 DEF ReadyToFetch
<1>5. /\ DOMAIN d = CheckFields /\ d.phase = x
      /\ d.opts = c.opts /\ d.msg = c.msg /\ d.errors = c.errors /\ d.claims = c.claims
      /\ d.asked = c.asked /\ d.listAt = c.listAt /\ d.chain = c.chain
  BY <1>4, PhaseChanged
<1>6. x # "done" \/ c.asked # {} => MayFetch(d)
  BY <1>3, <1>5 DEF MayFetch, ReadyToFetch
<1>7. AskedAsSigned(d) /\ ListCurrent(d)
  BY <1>5 DEF ReadyToFetch, AskedAsSigned, ListCurrent
<1>8. ChainFor(d) /\ ChainOpen(d)
  BY <1>5, EmptyChain DEF ReadyToFetch
<1>9. CheckUnderWay(d)
  BY <1>1, <1>5, <1>6, <1>7, <1>8 DEF CheckUnderWay, ReadyToFetch
<1> QED
  BY <1>2, <1>9

-----------------------------------------------------------------------------
\* A credential of the issuer whose protected claims were not disclosed.
LEMMA PassedMayFetch ==
  ASSUME scenario \in Scenarios, NEW c, c.msg.token.payload = SignedPayload(scenario),
         c.claims = Claims(c.msg), IssuerSigned(c.msg.token), ~TypFails(c.msg.token),
         ~ProtectedClaimsFail(c.claims, c.msg.token.payload)
  PROVE  MayFetch(c)
<1> DEFINE signed == c.msg.token.payload
<1>1. SignedWell(signed)
  BY PayloadSigned
<1>2. c.claims = Unpacked(signed, Opens(c.msg))
  BY DEF Claims
<1>3. SameReferences(c.claims, signed)
  BY <1>1, <1>2, ReferencesSigned
<1>4. c.msg.token.sigs[1].by = "issuer"
  BY DEF IssuerSigned, SignatureFails
<1>5. c.msg.token.sigs[1].typ = VcType
  BY DEF TypFails
<1> QED
  BY <1>3, <1>4, <1>5 DEF MayFetch

\* Nothing was asked for yet.
LEMMA UnfetchedReady ==
  ASSUME NEW c, NEW d, Unfetched(c), DOMAIN d = CheckFields, d.msg = c.msg,
         d.asked = c.asked, d.chain = c.chain, d.listAt = c.listAt
  PROVE  ReadyToFetch(d)
BY DEF Unfetched, ReadyToFetch, AskedAsSigned, ListCurrent

LEMMA SettleUnderWay ==
  ASSUME scenario \in Scenarios, NEW c, BindingPhase(c)
  PROVE  CheckUnderWay(Settle(c))
<1> DEFINE signed == c.msg.token.payload
           protected == ProtectedClaimsFail(c.claims, signed)
           isVc == ~TypFails(c.msg.token)
<1>1. Unfetched(c) /\ (c.errors = {} => Passed(c)) /\ DOMAIN c = CheckFields
  BY DEF BindingPhase, Unfetched
<1>2. CASE ~(c.opts.op = "safeVerify" /\ IsVc(c.opts))
  <2>1. Settle(c) = After("credential", c)
    BY <1>2 DEF Settle
  <2>2. ReadyToFetch(c)
    BY <1>1, UnfetchedReady
  <2>3. ASSUME IsVc(c.opts), c.opts.op # "safeVerify" => c.errors = {}
        PROVE  MayFetch(c)
    <3>1. Passed(c) /\ c.opts.op # "safeVerify"
      BY <1>1, <1>2, <2>3
    <3> QED
      BY <1>1, <2>3, <3>1, PassedMayFetch DEF Passed, Unfetched
  <2> QED
    BY <2>1, <2>2, <2>3, AfterUnderWay
<1>3. CASE c.opts.op = "safeVerify" /\ IsVc(c.opts) /\ c.errors # {}
  <2>1. PICK e : e = c.errors \cup IF ProtectedClaimsFail(signed, signed) THEN {"INVALID_SD_JWT"} ELSE {}
    OBVIOUS
  <2>2. PICK d : d = [c EXCEPT !.fetches = FALSE, !.errors = e]
    OBVIOUS
  <2>3. Settle(c) = After("credential", d)
    BY <1>3, <2>1, <2>2 DEF Settle
  <2>4. /\ DOMAIN d = CheckFields /\ d.msg = c.msg /\ d.asked = c.asked /\ d.chain = c.chain /\ d.listAt = c.listAt
        /\ ~d.fetches
    BY <1>1, <2>2 DEF CheckFields
  <2>5. ReadyToFetch(d)
    BY <1>1, <2>4, UnfetchedReady
  <2> QED
    BY <2>3, <2>4, <2>5, AfterUnderWay
<1>4. CASE c.opts.op = "safeVerify" /\ IsVc(c.opts) /\ c.errors = {}
  <2>1. PICK e : e = IF isVc /\ ~protected THEN {} ELSE {"INVALID_SD_JWT"}
    OBVIOUS
  <2>2. PICK claims : claims = IF protected THEN signed ELSE c.claims
    OBVIOUS
  <2>3. PICK d : d = [c EXCEPT !.fetches = isVc, !.errors = e, !.claims = claims]
    OBVIOUS
  <2>4. Settle(c) = After("credential", d)
    BY <1>4, <2>1, <2>2, <2>3 DEF Settle
  <2>5. /\ DOMAIN d = CheckFields /\ d.msg = c.msg /\ d.asked = c.asked /\ d.chain = c.chain /\ d.listAt = c.listAt
        /\ d.claims = claims
    BY <1>1, <2>3 DEF CheckFields
  <2>6. d.fetches <=> isVc
    BY <1>1, <2>3 DEF CheckFields
  <2>7. ReadyToFetch(d)
    BY <1>1, <2>5, UnfetchedReady
  <2>8. ASSUME isVc
        PROVE  MayFetch(d)
    <3>1. Passed(c) /\ IssuerSigned(c.msg.token)
      BY <1>1, <1>4 DEF Passed
    <3>2. CASE protected
      <4>1. d.claims = d.msg.token.payload
        BY <2>2, <2>5, <3>2
      <4> QED
        BY <2>5, <2>8, <3>1, <4>1 DEF MayFetch, SameReferences, IssuerSigned, SignatureFails, TypFails
    <3>3. CASE ~protected
      <4>1. d.claims = c.claims
        BY <2>2, <2>5, <3>3
      <4>2. MayFetch(c)
        BY <1>1, <2>8, <3>1, <3>3, PassedMayFetch DEF Passed, Unfetched
      <4> QED
        BY <2>5, <4>1, <4>2 DEF MayFetch
    <3> QED
      BY <3>2, <3>3
  <2> QED
    BY <2>4, <2>6, <2>7, <2>8, AfterUnderWay
<1> QED
  BY <1>2, <1>3, <1>4

-----------------------------------------------------------------------------
\* No carrier changes what was signed.
LEMMA MessageSigned ==
  ASSUME TokenInv, sent # {}, NEW opts, NEW msg \in Messages(opts)
  PROVE  msg.token.payload = SignedPayload(scenario)
<1>1. token.payload = SignedPayload(scenario) /\ DOMAIN token = {"payload", "alg", "sigs"}
  BY DEF TokenInv
<1>2. msg.token \in Tokens \cup {token}
  BY DEF Messages, Tokens
<1>3. ASSUME NEW sigs, NEW t, t = [token EXCEPT !.sigs = sigs]
      PROVE  t.payload = token.payload
  BY <1>1, <1>3
<1>4. ASSUME NEW t \in Tokens
      PROVE  t.payload = token.payload
  <2>1. CASE t = token
    BY <2>1
  <2>2. CASE t = [token EXCEPT !.sigs[1].by = "carrier"]
    BY <2>2, <1>1
  <2>3. CASE t = [token EXCEPT !.sigs[1].alg = "none"]
    BY <2>3, <1>1
  <2>4. CASE t = [token EXCEPT !.sigs = Reverse(@)]
    BY <2>4, <1>1
  <2>5. CASE \E i \in DOMAIN token.sigs : t = [token EXCEPT !.sigs[i].by = "carrier"]
    BY <2>5, <1>1
  <2> QED
    BY <2>1, <2>2, <2>3, <2>4, <2>5 DEF Tokens
<1> QED
  BY <1>1, <1>2, <1>4

\* A verification is as well under way after what it does not depend on.
LEMMA CheckKept ==
  ASSUME NEW c, CheckUnderWay(c), check' = c, UNCHANGED <<scenario, now, revoked>>
  PROVE  CheckUnderWay(check)'
BY DEF CheckUnderWay, BindingPhase, Unfetched, Passed, MayFetch, AskedAsSigned, ChainFor, ChainOpen, ListCurrent

\* The body of Deliver.
Delivered(opts, msg, c) ==
    IF opts.op = "verifyTypeMetadata" THEN After("status", c)
    ELSE IF opts.nonce # None /\ c.claims # None /\ (opts.op = "safeVerify" \/ c.errors = {}) THEN c
    ELSE Settle(WithoutBinding(c))

\* Nothing is asked for before the credential was checked.
LEMMA DeliverUnderWay ==
  ASSUME VcInv, Deliver
  PROVE  CheckUnderWay(check)'
<1>1. \E opts \in scenario.options : \E msg \in Messages(opts) :
         check' = Delivered(opts, msg, Started(msg, opts, Verdict(msg, opts)))
  BY DEF Deliver, Delivered
<1>2. PICK opts \in scenario.options : \E msg \in Messages(opts) :
         check' = Delivered(opts, msg, Started(msg, opts, Verdict(msg, opts)))
  BY <1>1
<1>3. PICK msg \in Messages(opts) : check' = Delivered(opts, msg, Started(msg, opts, Verdict(msg, opts)))
  BY <1>2
<1>4. PICK c : c = Started(msg, opts, Verdict(msg, opts))
  OBVIOUS
<1>5. PICK d : d = Delivered(opts, msg, c)
  OBVIOUS
<1>6. check' = d /\ UNCHANGED <<scenario, now, revoked>>
  BY <1>3, <1>4, <1>5 DEF Deliver
<1>7. /\ DOMAIN c = CheckFields
      /\ c.opts = opts /\ c.msg = msg /\ c.asked = {} /\ c.chain = <<>> /\ c.listAt = None
      /\ c.phase = "kb"
  BY <1>4 DEF Started, CheckFields
<1>8. c.errors = Verdict(msg, opts)
  BY <1>4 DEF Started
<1>9. c.claims = IF opts.op = "verifyTypeMetadata" THEN msg.token.payload
                 ELSE IF HasClaims(msg, opts) THEN Claims(msg) ELSE None
  BY <1>4 DEF Started
<1>10. scenario \in Scenarios /\ msg.token.payload = SignedPayload(scenario)
  BY MessageSigned DEF VcInv, TokenInv, Deliver
<1>11. Unfetched(c)
  BY <1>7, <1>10 DEF Unfetched
<1>12. opts.op \in {"verify", "safeVerify", "verifyTypeMetadata"}
  BY <1>10, ScenariosAssumption
<1>13. CASE opts.op = "verifyTypeMetadata"
  <2>1. d = After("status", c)
    BY <1>5, <1>13 DEF Delivered
  <2>2. ReadyToFetch(c)
    BY <1>7, <1>11, UnfetchedReady
  <2>3. ASSUME IsVc(opts), c.errors = {}
        PROVE  MayFetch(c)
    <3>1. TypeMetadataErrors(msg, opts) = {}
      BY <1>8, <1>13, <2>3 DEF Verdict
    <3>2. IssuerSigned(msg.token) /\ ~TypFails(msg.token)
      BY <2>3, <3>1, TypeMetadataPassed, SignaturePassed
    <3>3. c.claims = c.msg.token.payload
      BY <1>7, <1>9, <1>13
    <3> QED
      BY <1>7, <3>2, <3>3 DEF MayFetch, SameReferences, IssuerSigned, SignatureFails, TypFails
  <2>4. IsVc(c.opts) /\ c.fetches /\ (c.opts.op # "safeVerify" => c.errors = {}) => MayFetch(c)
    BY <1>7, <1>13, <2>3
  <2>5. CheckUnderWay(d)
    BY <2>1, <2>2, <2>4, AfterUnderWay
  <2> QED
    BY <1>6, <2>5, CheckKept
<1>14. CASE opts.op \in {"verify", "safeVerify"}
  <2>1. c.errors = {} => Passed(c)
    <3> SUFFICES ASSUME c.errors = {}
                 PROVE  Passed(c)
      OBVIOUS
    <3>1. CASE opts.op = "verify"
      <4>1. VerifyErrors(msg, opts) = {}
        BY <1>8, <3>1 DEF Verdict
      <4>2. /\ HasClaims(msg, opts)
            /\ IsVc(opts) => ~TypFails(msg.token) /\ ~ProtectedClaimsFail(Claims(msg), msg.token.payload)
        BY <4>1, VerifyPassed
      <4>3. c.claims = Claims(msg)
        BY <1>9, <3>1, <4>2
      <4>4. IsVc(opts) => IssuerSigned(msg.token)
        BY <4>2, SignaturePassed DEF HasClaims
      <4> QED
        BY <1>7, <4>2, <4>3, <4>4 DEF Passed
    <3>2. CASE opts.op = "safeVerify"
      <4>1. SafeVerifyErrors(msg, opts) = {}
        BY <1>8, <3>2 DEF Verdict
      <4>2. HasClaims(msg, opts)
        BY <4>1, SafeVerifyPassed
      <4>3. c.claims = Claims(msg)
        BY <1>9, <3>2, <4>2
      <4>4. IsVc(opts) => IssuerSigned(msg.token)
        BY <4>2, SignaturePassed DEF HasClaims
      <4> QED
        BY <1>7, <3>2, <4>3, <4>4 DEF Passed
    <3> QED
      BY <1>14, <3>1, <3>2
  <2>2. BindingPhase(c)
    BY <1>7, <1>11, <1>14, <2>1 DEF BindingPhase
  <2>3. CASE d = c
    <3>1. ReadyToFetch(c) /\ ChainFor(c)
      BY <1>7, <1>11, UnfetchedReady, EmptyChain
    <3>2. CheckUnderWay(c)
      BY <1>7, <2>2, <3>1 DEF CheckUnderWay, ReadyToFetch, Unfetched
    <3> QED
      BY <1>6, <2>3, <3>2, CheckKept
  <2>4. CASE d = Settle(WithoutBinding(c))
    <3>1. BindingPhase(WithoutBinding(c))
      <4>1. CASE WithoutBinding(c) = c
        BY <2>2, <4>1
      <4>2. CASE WithoutBinding(c) = [c EXCEPT !.errors = c.errors \cup {"KEY_BINDING_JWT_MISSING"}]
        <5>1. PICK b : b = WithoutBinding(c)
          OBVIOUS
        <5>2. /\ DOMAIN b = CheckFields /\ b.opts = c.opts /\ b.msg = c.msg /\ b.asked = c.asked
              /\ b.chain = c.chain /\ b.listAt = c.listAt /\ b.errors = c.errors \cup {"KEY_BINDING_JWT_MISSING"}
          BY <1>7, <4>2, <5>1 DEF CheckFields
        <5>3. BindingPhase(b)
          BY <2>2, <5>2 DEF BindingPhase, Unfetched
        <5> QED
          BY <5>1, <5>3
      <4> QED
        BY <4>1, <4>2 DEF WithoutBinding
    <3>2. CheckUnderWay(d)
      BY <1>10, <2>4, <3>1, SettleUnderWay
    <3> QED
      BY <1>6, <3>2, CheckKept
  <2> QED
    BY <1>5, <1>14, <2>3, <2>4 DEF Delivered
<1> QED
  BY <1>12, <1>13, <1>14

\* Nor before its key binding was.
LEMMA KeyBindingUnderWay ==
  ASSUME VcInv, VerifyKeyBinding
  PROVE  CheckUnderWay(check)'
<1>1. check.phase = "kb" /\ check # Idle
  BY DEF VerifyKeyBinding, Idle
<1>2. BindingPhase(check) /\ scenario \in Scenarios /\ DOMAIN check = CheckFields
  BY <1>1 DEF VcInv, CheckUnderWay, TokenInv
<1>3. PICK e : e = check.errors \cup KeyBindingErrors(check.msg, check.opts, check.claims)
  OBVIOUS
<1>4. PICK c : c = [check EXCEPT !.errors = e]
  OBVIOUS
<1>5. PICK d : d = Settle(c)
  OBVIOUS
<1>6. check' = d /\ UNCHANGED <<scenario, now, revoked>>
  BY <1>3, <1>4, <1>5 DEF VerifyKeyBinding
<1>7. /\ DOMAIN c = CheckFields /\ c.opts = check.opts /\ c.msg = check.msg /\ c.asked = check.asked
      /\ c.chain = check.chain /\ c.listAt = check.listAt /\ c.claims = check.claims /\ c.errors = e
  BY <1>2, <1>4 DEF CheckFields
<1>8. c.errors = {} => Passed(c)
  BY <1>2, <1>3, <1>7 DEF BindingPhase, Passed
<1>9. BindingPhase(c)
  BY <1>2, <1>7, <1>8 DEF BindingPhase, Unfetched
<1>10. CheckUnderWay(d)
  BY <1>2, <1>5, <1>9, SettleUnderWay
<1> QED
  BY <1>6, <1>10, CheckKept

\* A list without an error is one that had not expired.
LEMMA CurrentList ==
  ASSUME ListsInv, NEW l \in lists, ~TimeFails(l.iat, None, l.exp, now, 0), l.statuses[1] = 0, revoked # None
  PROVE  now < revoked + StatusLifetime
<1>1. /\ l.iat \in Nat /\ l.exp = l.iat + StatusLifetime /\ l.iat <= revoked /\ revoked \in Nat /\ now \in Nat
      /\ StatusLifetime \in Nat /\ None \notin Nat
  BY BoundsAssumption DEF ListsInv
<1>2. ~(l.exp + 0 <= now)
  BY <1>1 DEF TimeFails
<1> QED
  BY <1>1, <1>2

LEMMA StatusUnderWay ==
  ASSUME VcInv, VerifyStatus
  PROVE  CheckUnderWay(check)'
<1> DEFINE reference == StatusReference(check.claims)
           signed == check.msg.token.payload
<1>1. check.phase = "status" /\ check # Idle
  BY DEF VerifyStatus, Idle
<1>2. /\ CheckUnderWay(check) /\ scenario \in Scenarios /\ DOMAIN check = CheckFields /\ MayFetch(check)
      /\ check.chain = <<>> /\ reference # None
  BY <1>1 DEF VcInv, CheckUnderWay, TokenInv
<1>3. PICK l \in lists \cup {None} :
         check' = After("status",
                    [check EXCEPT
                       !.asked = @ \cup {reference.uri}, !.list = l, !.listAt = now,
                       !.errors = @ \cup IF l = None THEN {"STATUS_VERIFICATION_FAILED"} ELSE StatusErrors(l, reference)])
  BY DEF VerifyStatus
<1>4. PICK e : e = check.errors \cup IF l = None THEN {"STATUS_VERIFICATION_FAILED"} ELSE StatusErrors(l, reference)
  OBVIOUS
<1>5. PICK asked : asked = check.asked \cup {reference.uri}
  OBVIOUS
<1>6. PICK c : c = [check EXCEPT !.asked = asked, !.list = l, !.listAt = now, !.errors = e]
  OBVIOUS
<1>7. PICK d : d = After("status", c)
  OBVIOUS
<1>8. check' = d /\ UNCHANGED <<scenario, now, revoked>>
  BY <1>3, <1>4, <1>5, <1>6, <1>7 DEF VerifyStatus
<1>9. /\ DOMAIN c = CheckFields /\ c.opts = check.opts /\ c.msg = check.msg /\ c.asked = asked
      /\ c.chain = check.chain /\ c.listAt = now /\ c.claims = check.claims /\ c.errors = e
  BY <1>2, <1>6 DEF CheckFields
<1>10. reference = StatusReference(signed)
  BY <1>2 DEF MayFetch, SameReferences
<1>11. MayFetch(c)
  BY <1>2, <1>9 DEF MayFetch
<1>12. AskedAsSigned(c)
  <2>1. reference.uri \in ListUri(StatusReference(signed))
    BY <1>2, <1>10 DEF ListUri
  <2>2. AskedAsSigned(check)
    BY <1>2 DEF CheckUnderWay
  <2> QED
    BY <1>5, <1>9, <2>1, <2>2 DEF AskedAsSigned
<1>13. ListCurrent(c)
  <2>1. now \in Nat
    BY DEF VcInv, ListsInv
  <2>2. ASSUME e = {}, revoked # None
        PROVE  now < revoked + StatusLifetime
    <3>1. l \in lists /\ StatusErrors(l, reference) = {}
      BY <1>4, <2>2
    <3>2. SignedWell(signed) /\ HasStatus(signed)
      BY <1>2, <1>10, PayloadSigned DEF CheckUnderWay, StatusReference
    <3>3. reference.idx = 1
      BY <1>10, <3>2 DEF SignedWell
    <3>4. ~TimeFails(l.iat, None, l.exp, now, 0) /\ l.statuses[1] = 0
      BY <3>1, <3>3, StatusPassed
    <3> QED
      BY <2>2, <3>1, <3>4, CurrentList DEF VcInv
  <2> QED
    BY <1>9, <2>1, <2>2 DEF ListCurrent
<1>14. ReadyToFetch(c)
  BY <1>2, <1>9, <1>11, <1>12, <1>13 DEF ReadyToFetch, CheckUnderWay
<1>15. CheckUnderWay(d)
  BY <1>7, <1>11, <1>14, AfterUnderWay
<1> QED
  BY <1>8, <1>15, CheckKept

\* What a verification comes to at the answer to a request.
LEMMA AnsweredUnderWay ==
  ASSUME NEW c, CheckUnderWay(c), MayFetch(c), NEW d,
         DOMAIN d = CheckFields, d.msg = c.msg, d.claims = c.claims, d.listAt = c.listAt,
         d.errors = {} => c.errors = {},
         d.phase \in {"done", "vct"}, d.phase = "vct" => ChainOpen(d),
         AskedAsSigned(d), ChainFor(d)
  PROVE  CheckUnderWay(d)
<1>1. MayFetch(d)
  BY DEF MayFetch
<1>2. ListCurrent(d)
  BY DEF ListCurrent, CheckUnderWay
<1> QED
  BY <1>1, <1>2 DEF CheckUnderWay

ExtendOutcome(c, document) ==
    \/ Extend(c, document) = VctFailed(c)
    \/ \E issues : Extend(c, document) = [c EXCEPT !.phase = "done", !.issues = issues]
    \/ /\ Extend(c, document) = c
       /\ ~(Len(c.chain) > MaxVctDepth)
       /\ \A i \in DOMAIN c.chain : c.chain[i].vct # document.extends

LEMMA ExtendIs ==
  ASSUME NEW c, NEW document
  PROVE  ExtendOutcome(c, document)
<1>1. CASE document.extends = None
  <2>1. Extend(c, document) = Resolved(c)
    BY <1>1 DEF Extend
  <2>2. PICK issues : issues = ClaimIssues(MergedChain(c.chain), c.msg.token.payload, Opens(c.msg))
    OBVIOUS
  <2> QED
    BY <2>1, <2>2 DEF Resolved, ExtendOutcome
<1>2. CASE document.extends # None
  BY <1>2 DEF Extend, ExtendOutcome
<1> QED
  BY <1>1, <1>2

LEMMA FailedFields ==
  ASSUME NEW c, DOMAIN c = CheckFields
  PROVE  /\ DOMAIN VctFailed(c) = CheckFields /\ VctFailed(c).msg = c.msg /\ VctFailed(c).claims = c.claims
         /\ VctFailed(c).listAt = c.listAt /\ VctFailed(c).errors # {} /\ VctFailed(c).phase = "done"
         /\ VctFailed(c).asked = c.asked /\ VctFailed(c).chain = c.chain
<1>1. PICK e : e = c.errors \cup {"VCT_VERIFICATION_FAILED"}
  OBVIOUS
<1>2. PICK d : d = [c EXCEPT !.errors = e, !.phase = "done"]
  OBVIOUS
<1>3. VctFailed(c) = d
  BY <1>1, <1>2 DEF VctFailed
<1>4. /\ DOMAIN d = CheckFields /\ d.msg = c.msg /\ d.claims = c.claims
      /\ d.listAt = c.listAt /\ d.errors = e /\ d.phase = "done"
      /\ d.asked = c.asked /\ d.chain = c.chain
  BY <1>2 DEF CheckFields
<1> QED
  BY <1>1, <1>3, <1>4

\* A type that is asked for is the one signed or one that was extended, and
\* none that was asked for before.
LEMMA VctUnderWay ==
  ASSUME VcInv, FetchVct
  PROVE  CheckUnderWay(check)'
<1>1. check.phase = "vct" /\ check # Idle
  BY DEF FetchVct, Idle
<1>2. /\ CheckUnderWay(check) /\ DOMAIN check = CheckFields /\ MayFetch(check)
      /\ AskedAsSigned(check) /\ ChainFor(check) /\ ChainOpen(check)
  BY <1>1 DEF VcInv, CheckUnderWay
<1>3. PICK vct : vct = NextVct(check)
  OBVIOUS
<1>4. PICK asked : asked = check.asked \cup {vct}
  OBVIOUS
<1>5. PICK c : c = [check EXCEPT !.asked = asked]
  OBVIOUS
<1>6. PICK document : document = HostedAt(vct)
  OBVIOUS
<1>7. UNCHANGED <<scenario, now, revoked>> /\ (check' = Answered(c, vct, document) \/ check' = VctFailed(c))
  BY <1>3, <1>4, <1>5, <1>6 DEF FetchVct
<1>8. /\ DOMAIN c = CheckFields /\ c.msg = check.msg /\ c.asked = asked /\ c.opts = check.opts
      /\ c.chain = check.chain /\ c.listAt = check.listAt /\ c.claims = check.claims /\ c.errors = check.errors
  BY <1>2, <1>5 DEF CheckFields
<1> DEFINE chain == check.chain
           signed == check.msg.token.payload
<1>9. PICK D : chain \in Seq(D)
  BY <1>2 DEF ChainFor
<1>10. chain # <<>> => Len(chain) \in DOMAIN chain /\ Last(chain) = chain[Len(chain)]
  BY <1>9 DEF Last
<1>11. vct \in {VctOf(signed)} \cup {chain[i].extends : i \in DOMAIN chain}
  <2>1. CASE chain = <<>>
    BY <1>2, <1>3, <2>1 DEF NextVct, MayFetch, SameReferences
  <2>2. CASE chain # <<>>
    BY <1>3, <1>10, <2>2 DEF NextVct
  <2> QED
    BY <2>1, <2>2
<1>12. asked \subseteq {VctOf(signed)} \cup {chain[i].extends : i \in DOMAIN chain} \cup ListUri(StatusReference(signed))
  BY <1>2, <1>4, <1>11 DEF AskedAsSigned
<1>13. AskedAsSigned(c) /\ ChainFor(c)
  BY <1>2, <1>8, <1>12 DEF AskedAsSigned, ChainFor
<1>14. ASSUME NEW d, check' = d, DOMAIN d = CheckFields, d.msg = check.msg, d.claims = check.claims,
              d.listAt = check.listAt, d.errors = {} => check.errors = {},
              d.phase \in {"done", "vct"}, d.phase = "vct" => ChainOpen(d), AskedAsSigned(d), ChainFor(d)
       PROVE  CheckUnderWay(check)'
  BY <1>2, <1>7, <1>14, AnsweredUnderWay, CheckKept
<1>15. CASE check' = VctFailed(c)
  <2>1. PICK d : d = VctFailed(c)
    OBVIOUS
  <2>2. /\ DOMAIN d = CheckFields /\ d.msg = check.msg /\ d.claims = check.claims /\ d.listAt = check.listAt
        /\ d.errors # {} /\ d.phase = "done" /\ d.asked = c.asked /\ d.chain = c.chain
    BY <1>8, <2>1, FailedFields
  <2>3. AskedAsSigned(d) /\ ChainFor(d)
    BY <1>8, <1>13, <2>2 DEF AskedAsSigned, ChainFor
  <2> QED
    BY <1>14, <1>15, <2>1, <2>2, <2>3
<1>16. CASE check' = [c EXCEPT !.phase = "done"]
  <2>1. PICK d : d = [c EXCEPT !.phase = "done"]
    OBVIOUS
  <2>2. /\ DOMAIN d = CheckFields /\ d.msg = check.msg /\ d.claims = check.claims /\ d.listAt = check.listAt
        /\ d.errors = check.errors /\ d.phase = "done" /\ d.asked = c.asked /\ d.chain = c.chain
    BY <1>8, <2>1 DEF CheckFields
  <2>3. AskedAsSigned(d) /\ ChainFor(d)
    BY <1>8, <1>13, <2>2 DEF AskedAsSigned, ChainFor
  <2> QED
    BY <1>14, <1>16, <2>1, <2>2, <2>3
<1>17. CASE /\ document.vct = vct
            /\ check' = Extend([c EXCEPT !.chain = Append(@, document)], document)
  <2>1. PICK longer : longer = Append(chain, document)
    OBVIOUS
  <2>2. PICK e : e = [c EXCEPT !.chain = longer]
    OBVIOUS
  <2>3. check' = Extend(e, document)
    BY <1>8, <1>17, <2>1, <2>2
  <2>4. /\ DOMAIN e = CheckFields /\ e.msg = check.msg /\ e.asked = asked
        /\ e.chain = longer /\ e.listAt = check.listAt /\ e.claims = check.claims /\ e.errors = check.errors
        /\ e.phase = "vct"
    BY <1>1, <1>5, <1>8, <2>2 DEF CheckFields
  <2>5. /\ longer \in Seq(D \cup {document}) /\ Len(longer) = Len(chain) + 1 /\ Last(longer) = document
        /\ Len(chain) \in Nat /\ DOMAIN chain = 1 .. Len(chain) /\ DOMAIN longer = 1 .. Len(chain) + 1
        /\ longer[Len(chain) + 1] = document
        /\ \A i \in DOMAIN chain : longer[i] = chain[i]
    BY <1>9, <2>1 DEF Last
  <2>6. MaxVctDepth \in Nat
    BY BoundsAssumption
  <2>7. \/ chain = <<>>
        \/ Len(chain) <= MaxVctDepth /\ \A i \in DOMAIN chain : chain[i].vct # vct
    BY <1>2, <1>3 DEF ChainOpen, NextVct
  <2>8. Len(longer) <= MaxVctDepth + 1
    BY <1>9, <2>5, <2>6, <2>7
  <2>9. ASSUME NEW i \in DOMAIN longer, NEW j \in DOMAIN longer, longer[i].vct = longer[j].vct
        PROVE  i = j
    <3>1. \A k \in DOMAIN chain : chain[k].vct # document.vct
      BY <1>17, <2>5, <2>7
    <3>2. CASE i \in DOMAIN chain /\ j \in DOMAIN chain
      BY <1>2, <2>5, <2>9, <3>2 DEF ChainFor
    <3>3. CASE i \notin DOMAIN chain /\ j \notin DOMAIN chain
      BY <2>5, <3>3
    <3>4. \A k \in DOMAIN longer : k \notin DOMAIN chain => longer[k] = document
      BY <2>5
    <3>5. CASE i \in DOMAIN chain /\ j \notin DOMAIN chain
      <4>1. longer[j].vct = document.vct /\ longer[i].vct = chain[i].vct
        BY <2>5, <3>4, <3>5
      <4> QED
        BY <2>9, <3>1, <3>5, <4>1
    <3>6. CASE i \notin DOMAIN chain /\ j \in DOMAIN chain
      <4>1. longer[i].vct = document.vct /\ longer[j].vct = chain[j].vct
        BY <2>5, <3>4, <3>6
      <4> QED
        BY <2>9, <3>1, <3>6, <4>1
    <3> QED
      BY <3>2, <3>3, <3>5, <3>6
  <2>10. ChainFor(e)
    BY <2>4, <2>5, <2>8, <2>9 DEF ChainFor
  <2>11. AskedAsSigned(e)
    <3>1. {chain[i].extends : i \in DOMAIN chain} \subseteq {longer[i].extends : i \in DOMAIN longer}
      <4>1. ASSUME NEW i \in DOMAIN chain
            PROVE  chain[i].extends \in {longer[j].extends : j \in DOMAIN longer}
        BY <2>5
      <4> QED
        BY <4>1
    <3> QED
      BY <1>12, <2>4, <3>1 DEF AskedAsSigned
  <2>12. CASE check' = VctFailed(e)
    <3>1. PICK d : d = VctFailed(e)
      OBVIOUS
    <3>2. /\ DOMAIN d = CheckFields /\ d.msg = check.msg /\ d.claims = check.claims /\ d.listAt = check.listAt
          /\ d.errors # {} /\ d.phase = "done" /\ d.asked = e.asked /\ d.chain = e.chain
      BY <2>4, <3>1, FailedFields
    <3>3. AskedAsSigned(d) /\ ChainFor(d)
      BY <2>4, <2>10, <2>11, <3>2 DEF AskedAsSigned, ChainFor
    <3> QED
      BY <1>14, <2>12, <3>1, <3>2, <3>3
  <2>13. CASE \E issues : check' = [e EXCEPT !.phase = "done", !.issues = issues]
    <3>1. PICK issues : check' = [e EXCEPT !.phase = "done", !.issues = issues]
      BY <2>13
    <3>2. PICK d : d = [e EXCEPT !.phase = "done", !.issues = issues]
      OBVIOUS
    <3>3. /\ DOMAIN d = CheckFields /\ d.msg = check.msg /\ d.claims = check.claims /\ d.listAt = check.listAt
          /\ d.errors = check.errors /\ d.phase = "done" /\ d.asked = e.asked /\ d.chain = e.chain
      BY <2>4, <3>2 DEF CheckFields
    <3>4. AskedAsSigned(d) /\ ChainFor(d)
      BY <2>4, <2>10, <2>11, <3>3 DEF AskedAsSigned, ChainFor
    <3> QED
      BY <1>14, <3>1, <3>2, <3>3, <3>4
  <2>14. CASE /\ check' = e
              /\ ~(Len(e.chain) > MaxVctDepth)
              /\ \A i \in DOMAIN e.chain : e.chain[i].vct # document.extends
    <3>1. ChainOpen(e)
      BY <2>4, <2>5, <2>6, <2>14 DEF ChainOpen
    <3> QED
      BY <1>14, <2>4, <2>10, <2>11, <2>14, <3>1
  <2>15. ExtendOutcome(e, document)
    BY ExtendIs
  <2>16. CASE \E issues : Extend(e, document) = [e EXCEPT !.phase = "done", !.issues = issues]
    <3>1. PICK issues : Extend(e, document) = [e EXCEPT !.phase = "done", !.issues = issues]
      BY <2>16
    <3>2. check' = [e EXCEPT !.phase = "done", !.issues = issues]
      BY <2>3, <3>1
    <3> QED
      BY <2>13, <3>2
  <2> QED
    BY <2>3, <2>12, <2>14, <2>15, <2>16 DEF ExtendOutcome
<1> QED
  BY <1>7, <1>15, <1>16, <1>17 DEF Answered

-----------------------------------------------------------------------------
LEMMA VcInitInv ==
  ASSUME VcInit
  PROVE  VcInv
<1>1. now = 0 /\ revoked = None /\ check = Idle /\ token = None /\ sent = {} /\ scenario \in Scenarios
  BY DEF VcInit
<1>2. ASSUME NEW l \in lists
      PROVE  l.iat = 0 /\ l.exp = l.iat + StatusLifetime
  BY <1>2 DEF VcInit, StatusList
<1>3. ListsInv
  BY <1>1, <1>2 DEF ListsInv
<1> QED
  BY <1>1, <1>3 DEF VcInv, TokenInv

LEMMA TokenStep ==
  ASSUME TokenInv, [VcNext]_vcVars
  PROVE  TokenInv'
<1>1. scenario' = scenario /\ scenario \in Scenarios
  BY DEF TokenInv, VcNext, vcVars, Issue, ForeignIssue, Reduce, Present, Deliver, VerifyKeyBinding, VerifyStatus,
         FetchVct, Publish, Revoke, Rehost, Tick
<1>2. CASE Issue
  <2>1. PICK pack : pack = Pack(scenario.alg, scenario.claims, scenario.frame)
    OBVIOUS
  <2>2. token' = [payload |-> pack.packed, alg |-> IF scenario.frame = None THEN None ELSE scenario.alg,
                  sigs |-> Signatures]
    BY <1>2, <2>1 DEF Issue
  <2>3. SignedPayload(scenario) = pack.packed
    BY <1>2, <2>1 DEF Issue, SignedPayload
  <2>4. token'.payload = SignedPayload(scenario) /\ DOMAIN token' = {"payload", "alg", "sigs"}
    BY <2>2, <2>3
  <2>5. token = None /\ sent' = sent
    BY <1>2 DEF Issue
  <2>6. sent' = {}
    BY <2>5 DEF TokenInv
  <2> QED
    BY <1>1, <2>4, <2>6 DEF TokenInv
<1>3. CASE ForeignIssue
  <2>1. token' = scenario.foreign.token /\ scenario.foreign # None /\ token = None /\ sent' = sent
    BY <1>3 DEF ForeignIssue
  <2>2. DOMAIN token' = {"payload", "alg", "sigs"}
    BY <1>1, <2>1, ScenariosAssumption
  <2>3. token'.payload = SignedPayload(scenario)
    BY <2>1 DEF SignedPayload
  <2>4. sent' = {}
    BY <2>1 DEF TokenInv
  <2> QED
    BY <1>1, <2>2, <2>3, <2>4 DEF TokenInv
<1>4. CASE token' = token /\ (sent' = sent \/ token # None)
  BY <1>1, <1>4 DEF TokenInv
<1> QED
  BY <1>2, <1>3, <1>4
  DEF VcNext, vcVars, Reduce, Present, Deliver, VerifyKeyBinding, VerifyStatus, FetchVct, Publish, Revoke, Rehost, Tick

LEMMA ListsStep ==
  ASSUME ListsInv, [VcNext]_vcVars
  PROVE  ListsInv'
<1>1. CASE Publish
  <2>1. PICK status : status = IF revoked = None THEN 0 ELSE 1
    OBVIOUS
  <2>2. PICK l : l = StatusList("list", status, now)
    OBVIOUS
  <2>3. lists' = lists \cup {l} /\ UNCHANGED <<now, revoked>>
    BY <1>1, <2>1, <2>2 DEF Publish
  <2>4. l.iat = now /\ l.exp = now + StatusLifetime /\ l.statuses[1] = status
    BY <2>2 DEF StatusList
  <2> QED
    BY <2>1, <2>3, <2>4 DEF ListsInv
<1>2. CASE Revoke
  <2>1. revoked' = now /\ now' = now /\ lists' = lists
    BY <1>2 DEF Revoke
  <2> QED
    BY <2>1 DEF ListsInv
<1>3. CASE Tick
  <2>1. now' = now + 1 /\ UNCHANGED <<revoked, lists>>
    BY <1>3 DEF Tick
  <2>2. now' \in Nat /\ \A l \in lists : l.iat <= now'
    BY <2>1 DEF ListsInv
  <2> QED
    BY <2>1, <2>2 DEF ListsInv
<1>4. CASE UNCHANGED <<now, revoked, lists>>
  BY <1>4 DEF ListsInv
<1> QED
  BY <1>1, <1>2, <1>3, <1>4
  DEF VcNext, vcVars, Issue, ForeignIssue, Reduce, Present, Deliver, VerifyKeyBinding, VerifyStatus, FetchVct, Rehost

\* The passing of time and a revocation leave what was accepted as it is.
LEMMA CheckTime ==
  ASSUME ListsInv, CheckUnderWay(check), Revoke \/ Tick
  PROVE  CheckUnderWay(check)'
<1>1. UNCHANGED <<scenario, check>>
  BY DEF Revoke, Tick
<1>2. ListCurrent(check)'
  <2>1. now \in Nat /\ ListCurrent(check) /\ StatusLifetime \in Nat \ {0}
    BY BoundsAssumption DEF ListsInv, CheckUnderWay
  <2>2. CASE Revoke
    BY <1>1, <2>1, <2>2 DEF Revoke, ListCurrent
  <2>3. CASE Tick
    BY <1>1, <2>1, <2>3 DEF Tick, ListCurrent
  <2> QED
    BY <2>2, <2>3
<1> QED
  BY <1>1, <1>2 DEF CheckUnderWay, BindingPhase, Unfetched, Passed, MayFetch, AskedAsSigned, ChainFor, ChainOpen

LEMMA CheckStep ==
  ASSUME VcInv, [VcNext]_vcVars
  PROVE  (check # Idle => CheckUnderWay(check))'
<1>1. CASE Deliver
  BY <1>1, DeliverUnderWay
<1>2. CASE VerifyKeyBinding
  BY <1>2, KeyBindingUnderWay
<1>3. CASE VerifyStatus
  BY <1>3, StatusUnderWay
<1>4. CASE FetchVct
  BY <1>4, VctUnderWay
<1>5. CASE Revoke \/ Tick
  <2>1. check' = check
    BY <1>5 DEF Revoke, Tick
  <2>2. CASE check = Idle
    BY <2>1, <2>2 DEF Idle
  <2>3. CASE check # Idle
    BY <1>5, <2>3, CheckTime DEF VcInv
  <2> QED
    BY <2>2, <2>3
<1>6. CASE UNCHANGED <<scenario, now, revoked, check>>
  <2>1. CASE check = Idle
    BY <1>6, <2>1 DEF Idle
  <2>2. CASE check # Idle
    <3>1. PICK c : c = check
      OBVIOUS
    <3> QED
      BY <1>6, <2>2, <3>1, CheckKept DEF VcInv
  <2> QED
    BY <2>1, <2>2
<1> QED
  BY <1>1, <1>2, <1>3, <1>4, <1>5, <1>6 DEF VcNext, vcVars, Issue, ForeignIssue, Reduce, Present, Publish, Rehost

\* What every state of a verification keeps: the token is what its issuer
\* signed, a published list that says valid is from before the revocation,
\* and a verification asks only for what a checked credential refers to.
THEOREM VcInvariant == VcSpec => []VcInv
<1>1. VcInit => VcInv
  BY VcInitInv
<1>2. VcInv /\ [VcNext]_vcVars => VcInv'
  <2> SUFFICES ASSUME VcInv, [VcNext]_vcVars
               PROVE  VcInv'
    OBVIOUS
  <2>1. TokenInv' /\ ListsInv'
    BY TokenStep, ListsStep DEF VcInv
  <2>2. (check # Idle => CheckUnderWay(check))'
    BY CheckStep
  <2> QED
    BY <2>1, <2>2 DEF VcInv
<1> QED
  BY <1>1, <1>2, PTL DEF VcSpec

\* A verifier that accepts a credential whose status was set has a status
\* list from before it expired: verifyStatus takes no list of another
\* index, and none after its exp.
THEOREM RevocationSeen == VcSpec => []RevocationTakesEffect
<1>1. VcInv => RevocationTakesEffect
  <2> SUFFICES ASSUME VcInv, Verified, check.listAt # None, revoked # None
               PROVE  check.listAt < revoked + StatusLifetime
    BY DEF RevocationTakesEffect
  <2>1. check # Idle
    BY DEF Verified, Done, Idle
  <2> QED
    BY <2>1 DEF VcInv, CheckUnderWay, ListCurrent, Verified
<1> QED
  BY <1>1, VcInvariant, PTL

\* Nothing is asked for that the issuer did not sign or a document that was
\* asked for did not extend, before the signature, the type and the
\* protected claims were checked; and no chain is longer than the limit or
\* returns to a type.
THEOREM VcFetchesAuthorised == VcSpec => []FetchesAuthorised
<1>1. VcInv => FetchesAuthorised
  <2> SUFFICES ASSUME VcInv, check # Idle, check.asked # {}
               PROVE  FetchesAuthorised
    BY DEF FetchesAuthorised
  <2>1. MayFetch(check) /\ AskedAsSigned(check) /\ ChainFor(check)
    BY DEF VcInv, CheckUnderWay
  <2>2. IsInjective([i \in DOMAIN check.chain |-> check.chain[i].vct])
    BY <2>1 DEF ChainFor, IsInjective
  <2> QED
    BY <2>1, <2>2 DEF FetchesAuthorised, MayFetch, AskedAsSigned, ChainFor, ListUri
<1> QED
  BY <1>1, VcInvariant, PTL
=============================================================================
