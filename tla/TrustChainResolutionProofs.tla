--------------------- MODULE TrustChainResolutionProofs ---------------------
(***************************************************************************)
(* What resolveTrustChainsWithFailures guarantees in every federation: it  *)
(* sends at most maxRequests requests and asks no entity twice, each chain *)
(* it returns is valid link by link, and no valid one is missing unless a  *)
(* request fails or the budget is spent.                                   *)
(***************************************************************************)
EXTENDS TrustChainResolution, Basics, FiniteSetTheorems

Hints(path) == Config(LastOf(path)).hints

-----------------------------------------------------------------------------
\* The superiors discover() follows are hints, at their positions, no two the
\* same and none on the path.
LEMMA FollowedHints ==
  ASSUME fed \in Federations, NEW path \in Seq(Entities), path # <<>>
  PROVE  /\ DOMAIN Followed(path) \subseteq 1 .. Len(Hints(path)) /\ Hints(path) \in Seq(Entities)
         /\ \A k \in DOMAIN Followed(path) :
               /\ Followed(path)[k] = Hints(path)[k] /\ Followed(path)[k] \in Entities
               /\ \A m \in DOMAIN path : path[m] # Followed(path)[k]
         /\ \A j, k \in DOMAIN Followed(path) : Followed(path)[j] = Followed(path)[k] => j = k
<1> DEFINE hints == Hints(path)
           Fresh(n) == /\ \A m \in DOMAIN path : path[m] # hints[n]
                       /\ \A m \in 1 .. n - 1 : hints[m] # hints[n]
           fresh == {n \in DOMAIN hints : Fresh(n)}
           kept == {n \in fresh : Cardinality({m \in fresh : m <= n}) <= MaxAuthorityHints}
<1>1. Followed(path) = [n \in IF Len(path) > MaxDepth THEN {} ELSE kept |-> hints[n]]
  BY DEF Followed, Hints
<1>2. LastOf(path) \in Entities
  BY DEF LastOf
<1>3. hints \in Seq(Entities)
  BY <1>2, FederationAssumption DEF Hints, Config
<1> HIDE DEF hints
<1>4. DOMAIN Followed(path) \subseteq kept /\ \A k \in DOMAIN Followed(path) : Followed(path)[k] = hints[k]
  BY <1>1
<1>5. \A k \in kept : k \in DOMAIN hints /\ Fresh(k)
  OBVIOUS
<1>6. DOMAIN hints = 1 .. Len(hints) /\ \A k \in DOMAIN hints : hints[k] \in Entities
  BY <1>3
<1> HIDE DEF kept, Fresh
<1>7. ASSUME NEW j \in kept, NEW k \in kept, hints[j] = hints[k] PROVE j = k
  <2>1. j \in 1 .. Len(hints) /\ k \in 1 .. Len(hints) /\ Len(hints) \in Nat
    BY <1>3, <1>5, <1>6
  <2>2. ~(j < k)
    <3> SUFFICES ASSUME j < k PROVE FALSE
      OBVIOUS
    <3>1. j \in 1 .. k - 1
      BY <2>1
    <3> QED BY <1>5, <1>7, <3>1 DEF Fresh
  <2>3. ~(k < j)
    <3> SUFFICES ASSUME k < j PROVE FALSE
      OBVIOUS
    <3>1. k \in 1 .. j - 1
      BY <2>1
    <3> QED BY <1>5, <1>7, <3>1 DEF Fresh
  <2> QED BY <2>1, <2>2, <2>3
<1>8. \A k \in kept : hints[k] \in Entities /\ \A m \in DOMAIN path : path[m] # hints[k]
  BY <1>5, <1>6 DEF Fresh
<1>9. DOMAIN Followed(path) \subseteq 1 .. Len(hints)
  BY <1>4, <1>5, <1>6
<1> QED BY <1>3, <1>4, <1>7, <1>8, <1>9 DEF hints

\* The ranks of the members of a finite set of positive numbers.
LEMMA RankGrows ==
  ASSUME NEW A, A \subseteq Nat, IsFiniteSet(A), NEW j \in A, NEW k \in A
  PROVE  /\ Cardinality({i \in A : i <= k}) \in 1 .. Cardinality(A)
         /\ j < k => Cardinality({i \in A : i <= j}) < Cardinality({i \in A : i <= k})
<1> DEFINE upto(n) == {i \in A : i <= n}
<1>1. upto(k) \in SUBSET A /\ upto(j) \in SUBSET A /\ k \in upto(k)
  OBVIOUS
<1>2. IsFiniteSet(upto(k)) /\ Cardinality(upto(k)) <= Cardinality(A)
  BY <1>1, FS_Subset
<1>3. Cardinality(upto(k)) \in Nat /\ Cardinality(A) \in Nat
  BY <1>2, FS_CardinalityType
<1>4. Cardinality(upto(k)) # 0
  BY <1>1, <1>2, FS_EmptySet
<1>5. ASSUME j < k PROVE Cardinality(upto(j)) < Cardinality(upto(k))
  <2> DEFINE B == upto(j)
  <2>1. B \in SUBSET upto(k) /\ k \notin B
    <3>1. j \in Nat /\ k \in Nat /\ \A i \in A : i \in Nat
      OBVIOUS
    <3>2. \A i \in A : i <= j => i <= k
      BY <1>5, <3>1
    <3>3. ~(k <= j)
      BY <1>5, <3>1
    <3> QED BY <3>2, <3>3
  <2>2. Cardinality(upto(j)) <= Cardinality(upto(k)) /\ (Cardinality(upto(k)) = Cardinality(upto(j)) => upto(k) = upto(j))
        /\ IsFiniteSet(upto(j))
    BY <1>2, <2>1, FS_Subset
  <2>3. Cardinality(upto(j)) \in Nat
    BY <2>2, FS_CardinalityType
  <2> QED BY <1>1, <1>3, <2>1, <2>2, <2>3
<1> QED BY <1>2, <1>3, <1>4, <1>5

-----------------------------------------------------------------------------
(* The budget                                                              *)

CacheStates == {"none", "pending", "ok", "failed"}

BudgetInv ==
    /\ fed \in Federations /\ maxRequests \in Nat /\ requests \in Nat
    /\ cache \in [Entities -> CacheStates]
    /\ \A p \in DOMAIN task : p \in Seq(Entities) /\ p # <<>>
    /\ \A r \in sent : /\ r.no \in 1 .. maxRequests /\ r.no <= requests
                       /\ Len(r.of) = 1 => r.of[1] \in Entities /\ cache[r.of[1]] # "none"
    /\ \A r, q \in sent : r.no = q.no => r = q
    /\ \A r, q \in sent : r.of = q.of /\ Len(r.of) = 1 => r = q

\* What a spawn adds to the requests sent.
LEMMA SpawnKeepsBudget ==
  ASSUME BudgetInv, NEW path \in DOMAIN task, Spawn(path, Followed(path)), UNCHANGED <<fed, maxRequests>>
  PROVE  BudgetInv'
<1> DEFINE sups == Followed(path)
           D == DOMAIN sups
           asked == {k \in D : Asks(sups, k)}
           sending == {k \in D : Sends(sups, k)}
           new == {[no |-> RequestNo(sups, k), of |-> <<sups[k]>>] : k \in sending}
<1>1. path \in Seq(Entities) /\ path # <<>>
  BY DEF BudgetInv
<1>2. /\ D \subseteq 1 .. Len(Hints(path)) /\ Hints(path) \in Seq(Entities)
      /\ \A k \in D : sups[k] \in Entities
      /\ \A j, k \in D : sups[j] = sups[k] => j = k
  BY <1>1, FollowedHints DEF BudgetInv
<1>3. /\ requests' = requests + Cardinality(asked)
      /\ cache' = [e \in Entities |->
              IF \E k \in sending : sups[k] = e THEN "pending"
              ELSE IF \E k \in asked : sups[k] = e THEN "failed" ELSE cache[e]]
      /\ sent' = sent \cup new
      /\ DOMAIN task' = DOMAIN task \cup {path} \cup {Append(path, sups[k]) : k \in D}
  BY DEF Spawn
<1>4. \A k \in sending : k \in asked /\ k \in D
  BY DEF Sends
<1>5. \A k \in asked : k \in D /\ cache[sups[k]] = "none"
  BY DEF Asks
<1>6. \A k \in sending : RequestNo(sups, k) <= maxRequests
  BY DEF Sends
<1> HIDE DEF sups
<1>7. D \subseteq Nat /\ IsFiniteSet(D)
  <2>1. Len(Hints(path)) \in Nat
    BY <1>2
  <2>2. IsFiniteSet(1 .. Len(Hints(path)))
    BY <2>1, FS_Interval
  <2>3. D \in SUBSET (1 .. Len(Hints(path)))
    BY <1>2
  <2>4. IsFiniteSet(D)
    BY <2>2, <2>3, FS_Subset
  <2> QED BY <2>3, <2>4
<1>8. asked \subseteq Nat /\ IsFiniteSet(asked) /\ Cardinality(asked) \in Nat
  <2>1. asked \in SUBSET D
    OBVIOUS
  <2>2. IsFiniteSet(asked)
    BY <1>7, <2>1, FS_Subset
  <2> QED BY <1>7, <2>1, <2>2, FS_CardinalityType
<1>9. \A k \in asked : RequestNo(sups, k) = requests + Cardinality({i \in asked : i <= k})
  <2>1. \A k \in asked : {j \in D : j <= k /\ Asks(sups, j)} = {i \in asked : i <= k}
    OBVIOUS
  <2> QED BY <2>1 DEF RequestNo
<1> HIDE DEF asked, sending, D
<1>10. requests' \in Nat /\ requests \in Nat /\ requests <= requests' /\ maxRequests \in Nat
  BY <1>3, <1>8 DEF BudgetInv
<1>11. ASSUME NEW k \in sending PROVE RequestNo(sups, k) \in 1 .. maxRequests /\ RequestNo(sups, k) <= requests'
                                      /\ RequestNo(sups, k) > requests
  <2>1. k \in asked
    BY <1>4
  <2>2. Cardinality({i \in asked : i <= k}) \in 1 .. Cardinality(asked)
    BY <1>8, <2>1, RankGrows
  <2> QED BY <1>3, <1>6, <1>8, <1>9, <1>10, <2>1, <2>2
<1>12. ASSUME NEW j \in sending, NEW k \in sending, RequestNo(sups, j) = RequestNo(sups, k) PROVE j = k
  <2>1. j \in asked /\ k \in asked /\ j \in Nat /\ k \in Nat
    BY <1>4, <1>8
  <2> DEFINE rank(n) == Cardinality({i \in asked : i <= n})
  <2>2. rank(j) \in Nat /\ rank(k) \in Nat /\ (j < k => rank(j) < rank(k)) /\ (k < j => rank(k) < rank(j))
    <3>1. rank(k) \in 1 .. Cardinality(asked) /\ (j < k => rank(j) < rank(k))
      BY <1>8, <2>1, RankGrows
    <3>2. rank(j) \in 1 .. Cardinality(asked) /\ (k < j => rank(k) < rank(j))
      BY <1>8, <2>1, RankGrows
    <3> HIDE DEF rank
    <3> QED BY <3>1, <3>2
  <2>3. requests + rank(j) = requests + rank(k)
    BY <1>9, <1>12, <2>1
  <2> HIDE DEF rank
  <2> QED BY <1>10, <2>1, <2>2, <2>3
<1>13. cache' \in [Entities -> CacheStates] /\ \A e \in Entities : cache[e] # "none" => cache'[e] # "none"
  BY <1>3 DEF BudgetInv, CacheStates
<1>14. \A k \in sending : sups[k] \in Entities /\ cache[sups[k]] = "none" /\ cache'[sups[k]] = "pending"
  BY <1>2, <1>3, <1>4, <1>5 DEF D
<1>15. \A r \in new : \E k \in sending : r = [no |-> RequestNo(sups, k), of |-> <<sups[k]>>]
  OBVIOUS
<1>16. \A r \in new : \E k \in sending : r.no = RequestNo(sups, k) /\ r.of = <<sups[k]>>
                                         /\ r = [no |-> RequestNo(sups, k), of |-> <<sups[k]>>]
  BY <1>15
<1> HIDE DEF new
<1>17. ASSUME NEW p \in DOMAIN task' PROVE p \in Seq(Entities) /\ p # <<>>
  <2>1. CASE p \in DOMAIN task \cup {path}
    BY <1>1, <2>1 DEF BudgetInv
  <2>2. CASE p \in {Append(path, sups[k]) : k \in D}
    <3>1. PICK k \in D : p = Append(path, sups[k])
      BY <2>2
    <3>2. sups[k] \in Entities
      BY <1>2 DEF D
    <3> QED BY <1>1, <3>1, <3>2
  <2> QED BY <1>3, <2>1, <2>2
<1>18. ASSUME NEW r \in sent' PROVE /\ r.no \in 1 .. maxRequests /\ r.no <= requests'
                                    /\ Len(r.of) = 1 => r.of[1] \in Entities /\ cache'[r.of[1]] # "none"
  <2>1. CASE r \in sent
    BY <1>10, <1>13, <2>1 DEF BudgetInv
  <2>2. CASE r \in new
    <3>1. PICK k \in sending : r.no = RequestNo(sups, k) /\ r.of = <<sups[k]>>
      BY <1>16, <2>2
    <3>2. r.of[1] = sups[k]
      BY <3>1
    <3> QED BY <1>11, <1>14, <3>1, <3>2
  <2> QED BY <1>3, <2>1, <2>2
<1>19. ASSUME NEW r \in sent, NEW q \in new PROVE r.no # q.no /\ ~(r.of = q.of)
  <2>1. PICK k \in sending : q.no = RequestNo(sups, k) /\ q.of = <<sups[k]>>
    BY <1>16
  <2>2. r.no <= requests /\ r.no \in Int /\ q.no > requests /\ q.no \in Int
    BY <1>11, <2>1 DEF BudgetInv
  <2>3. r.of = q.of => Len(r.of) = 1 /\ r.of[1] = sups[k]
    BY <2>1
  <2>4. Len(r.of) = 1 => cache[r.of[1]] # "none"
    BY DEF BudgetInv
  <2> QED BY <1>10, <1>14, <2>2, <2>3, <2>4
<1>20. ASSUME NEW r \in new, NEW q \in new, r.no = q.no \/ r.of = q.of PROVE r = q
  <2>1. PICK j \in sending : r.no = RequestNo(sups, j) /\ r.of = <<sups[j]>>
                             /\ r = [no |-> RequestNo(sups, j), of |-> <<sups[j]>>]
    BY <1>16
  <2>2. PICK k \in sending : q.no = RequestNo(sups, k) /\ q.of = <<sups[k]>>
                             /\ q = [no |-> RequestNo(sups, k), of |-> <<sups[k]>>]
    BY <1>16
  <2>3. r.of = q.of => sups[j] = sups[k]
    BY <2>1, <2>2
  <2>4. j \in D /\ k \in D
    BY <1>4
  <2>5. j = k
    BY <1>2, <1>12, <1>20, <2>1, <2>2, <2>3, <2>4 DEF D
  <2> QED BY <2>1, <2>2, <2>5
<1>21. \A r, q \in sent' : r.no = q.no => r = q
  BY <1>3, <1>19, <1>20 DEF BudgetInv
<1>22. \A r, q \in sent' : r.of = q.of /\ Len(r.of) = 1 => r = q
  BY <1>3, <1>19, <1>20 DEF BudgetInv
<1> QED BY <1>10, <1>13, <1>17, <1>18, <1>21, <1>22 DEF BudgetInv

LEMMA InitBudget == Init => BudgetInv
<1> SUFFICES ASSUME Init PROVE BudgetInv
  OBVIOUS
<1>1. maxRequests \in Nat /\ Leaf \in Entities
  BY BudgetAssumption, AnchorAssumption DEF Init
<1>2. fed \in Federations /\ requests \in Nat /\ cache \in [Entities -> CacheStates]
  BY DEF Init, CacheStates
<1>3. \A p \in DOMAIN task : p \in Seq(Entities) /\ p # <<>>
  <2>1. DOMAIN task = {<<Leaf>>}
    BY DEF Init
  <2>2. <<Leaf>> \in Seq(Entities) /\ <<Leaf>> # <<>>
    BY <1>1
  <2> QED BY <2>1, <2>2
<1>4. \A r \in sent : maxRequests > 0 /\ r = [no |-> 1, of |-> <<Leaf>>]
  BY DEF Init
<1>5. \A r \in sent : r.no = 1 /\ r.of = <<Leaf>>
  BY <1>4
<1>6. \A r \in sent : requests = 1 /\ cache[Leaf] = "pending"
  BY <1>1, <1>4 DEF Init
<1>7. \A r \in sent : Len(r.of) = 1 /\ r.of[1] = Leaf
  <2> DEFINE of == <<Leaf>>
  <2>1. Len(of) = 1 /\ of[1] = Leaf /\ \A r \in sent : r.of = of
    BY <1>5
  <2> HIDE DEF of
  <2> QED BY <2>1
<1>8. \A r \in sent : /\ r.no \in 1 .. maxRequests /\ r.no <= requests
                      /\ Len(r.of) = 1 => r.of[1] \in Entities /\ cache[r.of[1]] # "none"
  BY <1>1, <1>4, <1>5, <1>6, <1>7
<1>9. \A r, q \in sent : r = q
  BY <1>4
<1> QED BY <1>1, <1>2, <1>3, <1>8, <1>9 DEF BudgetInv

\* A step that sends nothing, leaves the tasks' paths and settles configurations only.
LEMMA QuietKeepsBudget ==
  ASSUME BudgetInv, UNCHANGED <<fed, maxRequests, sent>>, DOMAIN task' = DOMAIN task,
         requests' \in Nat, requests <= requests',
         cache' \in [Entities -> CacheStates], \A e \in Entities : cache[e] # "none" => cache'[e] # "none"
  PROVE  BudgetInv'
<1>1. \A r \in sent' : /\ r.no \in 1 .. maxRequests /\ r.no <= requests'
                       /\ Len(r.of) = 1 => r.of[1] \in Entities /\ cache'[r.of[1]] # "none"
  BY DEF BudgetInv
<1> QED BY <1>1 DEF BudgetInv

\* One more request within the budget, for a subordinate statement.
LEMMA RequestAdded ==
  ASSUME BudgetInv, UNCHANGED <<fed, maxRequests, cache, task>>, NEW r0,
         requests' = requests + 1, requests + 1 <= maxRequests, sent' = sent \cup {r0},
         r0.no = requests + 1, Len(r0.of) = 2
  PROVE  BudgetInv'
<1>1. requests' \in Nat /\ requests \in Nat /\ maxRequests \in Nat /\ requests <= requests'
  BY DEF BudgetInv
<1>2. ASSUME NEW r \in sent PROVE r.no # r0.no /\ (Len(r.of) = 1 => r.of # r0.of)
  <2>1. r.no <= requests /\ r.no \in Int
    BY DEF BudgetInv
  <2>2. r.no # r0.no
    BY <1>1, <2>1
  <2>3. r.of = r0.of => Len(r.of) = 2
    BY Zenon
  <2> QED BY <2>2, <2>3
<1>3. ASSUME NEW r \in sent' PROVE /\ r.no \in 1 .. maxRequests /\ r.no <= requests'
                                   /\ Len(r.of) = 1 => r.of[1] \in Entities /\ cache'[r.of[1]] # "none"
  <2>1. CASE r \in sent
    BY <1>1, <2>1 DEF BudgetInv
  <2>2. CASE r = r0
    BY <1>1, <2>2
  <2> QED BY <2>1, <2>2
<1>4. \A r, q \in sent' : r.no = q.no => r = q
  BY <1>2 DEF BudgetInv
<1>5. \A r, q \in sent' : r.of = q.of /\ Len(r.of) = 1 => r = q
  BY <1>2 DEF BudgetInv
<1>6. cache' \in [Entities -> CacheStates] /\ \A p \in DOMAIN task' : p \in Seq(Entities) /\ p # <<>>
  BY DEF BudgetInv
<1> QED BY <1>1, <1>3, <1>4, <1>5, <1>6 DEF BudgetInv

LEMMA FetchKeepsBudget == BudgetInv /\ FetchStatement => BudgetInv'
<1> SUFFICES ASSUME BudgetInv, FetchStatement PROVE BudgetInv'
  OBVIOUS
<1>1. UNCHANGED <<fed, maxRequests, cache, task>>
  BY DEF FetchStatement
<1>2. CASE UNCHANGED sent
  <2>1. requests' \in Nat /\ requests <= requests'
    BY DEF FetchStatement, BudgetInv
  <2> QED BY <1>1, <1>2, <2>1, QuietKeepsBudget DEF BudgetInv
<1>3. CASE sent' # sent
  <2> DEFINE new(sup, sub) == [no |-> requests + 1, of |-> <<sup, sub>>]
  <2>1. requests' = requests + 1 /\ ~(requests + 1 > maxRequests)
        /\ \E sup, sub : sent' = sent \cup {new(sup, sub)}
    BY <1>3, Zenon DEF FetchStatement
  <2>2. PICK sup, sub : sent' = sent \cup {new(sup, sub)}
    BY <2>1
  <2>3. new(sup, sub).no = requests + 1 /\ Len(new(sup, sub).of) = 2
    OBVIOUS
  <2> HIDE DEF new
  <2>4. requests + 1 <= maxRequests
    BY <2>1 DEF BudgetInv
  <2> QED BY <1>1, <2>1, <2>2, <2>3, <2>4, RequestAdded
<1> QED BY <1>2, <1>3

LEMMA NextKeepsBudget == BudgetInv /\ [Next]_vars => BudgetInv'
<1> SUFFICES ASSUME BudgetInv, [Next]_vars PROVE BudgetInv'
  OBVIOUS
<1> DEFINE Same == UNCHANGED <<fed, maxRequests, requests, cache, sent, task>>
<1>0. ASSUME Same PROVE BudgetInv'
  BY <1>0, QuietKeepsBudget DEF BudgetInv
<1>1. ASSUME NEW e \in Entities, ConfigSettles(e) PROVE BudgetInv'
  <2>1. UNCHANGED <<fed, maxRequests, requests, sent, task>>
    BY <1>1 DEF ConfigSettles
  <2>2. cache' \in [Entities -> CacheStates] /\ \A x \in Entities : cache[x] # "none" => cache'[x] # "none"
    BY <1>1 DEF ConfigSettles, CacheStates, BudgetInv
  <2> QED BY <2>1, <2>2, QuietKeepsBudget DEF BudgetInv
<1>2. ASSUME NEW path \in DOMAIN task, Discover(path) PROVE BudgetInv'
  <2>1. CASE Spawn(path, Followed(path))
    <3>1. UNCHANGED <<fed, maxRequests>>
      BY <1>2 DEF Discover
    <3> QED BY <2>1, <3>1, SpawnKeepsBudget
  <2>2. CASE ~Spawn(path, Followed(path))
    <3>1. task' = [task EXCEPT ![path].st = "failed"]
          /\ UNCHANGED <<cache, requests, visits, sent, fed, maxRequests>>
      BY <1>2, <2>2 DEF Discover
    <3>2. DOMAIN task' = DOMAIN task
      BY <3>1
    <3> QED BY <3>1, <3>2, QuietKeepsBudget DEF BudgetInv
  <2> QED BY <2>1, <2>2
<1>3. ASSUME NEW path \in DOMAIN task, Collect(path) PROVE BudgetInv'
  <2>1. DOMAIN task' = DOMAIN task /\ UNCHANGED <<fed, maxRequests, cache, requests, sent>>
    BY <1>3 DEF Collect
  <2> QED BY <2>1, QuietKeepsBudget DEF BudgetInv
<1>4. ASSUME Discovered PROVE BudgetInv'
  BY <1>0, <1>4 DEF Discovered
<1>5. ASSUME FetchStatement PROVE BudgetInv'
  BY <1>5, FetchKeepsBudget
<1>6. ASSUME FinishPath PROVE BudgetInv'
  BY <1>0, <1>6 DEF FinishPath
<1>7. ASSUME Validated PROVE BudgetInv'
  BY <1>0, <1>7 DEF Validated
<1>8. ASSUME UNCHANGED vars PROVE BudgetInv'
  BY <1>0, <1>8 DEF vars
<1> QED BY <1>1, <1>2, <1>3, <1>4, <1>5, <1>6, <1>7, <1>8 DEF Next, Finished

\* The numbers of the requests sent are different and within the budget.
LEMMA BudgetImpliesBound == BudgetInv => RequestsBounded
<1> SUFFICES ASSUME BudgetInv PROVE Cardinality(sent) <= maxRequests
  BY DEF BudgetInv, RequestsBounded
<1> DEFINE number == [r \in sent |-> r.no]
<1>1. maxRequests \in Nat /\ number \in [sent -> 1 .. maxRequests]
  BY DEF BudgetInv
<1>2. \A r, q \in sent : number[r] = number[q] => r = q
  BY DEF BudgetInv
<1>3. IsFiniteSet(1 .. maxRequests) /\ Cardinality(1 .. maxRequests) = maxRequests
  <2>1. 1 \in Int /\ maxRequests \in Int
    BY <1>1
  <2>2. Cardinality(1 .. maxRequests) = IF 1 > maxRequests THEN 0 ELSE maxRequests - 1 + 1
    BY <2>1, FS_Interval
  <2> QED BY <1>1, <2>1, <2>2, FS_Interval
<1> HIDE DEF number
<1>4. number \in Injection(sent, 1 .. maxRequests)
  BY <1>1, <1>2 DEF Injection, IsInjective
<1> QED BY <1>3, <1>4, FS_Injection

\* No more requests than maxRequests are sent, whatever the order in which the
\* concurrent discover() calls ask and the answers arrive, and an entity
\* reached by many paths is asked for its configuration once.
THEOREM RequestsStayBounded == Spec => []RequestsBounded
<1>1. Init => BudgetInv
  BY InitBudget
<1>2. BudgetInv /\ [Next]_vars => BudgetInv'
  BY NextKeepsBudget
<1>3. BudgetInv => RequestsBounded
  BY BudgetImpliesBound
<1> QED BY <1>1, <1>2, <1>3, PTL DEF Spec

-----------------------------------------------------------------------------
(* The metadata policies                                                   *)

Parameter == Values \cup {Absent}
PolicyOk(p) == OperatorSchemas(p) /\ WellFormed(p)

\* What obeys m obeys p: m demands at least what each operator of p does.
Refines(m, p) ==
    /\ DOMAIN p \subseteq DOMAIN m
    /\ \A op \in DOMAIN p :
          /\ op \in {"value", "default"}      => m[op] = p[op]
          /\ op \in {"add", "superset_of"}    => p[op] \subseteq m[op]
          /\ op \in {"one_of", "subset_of"}   => m[op] \subseteq p[op]
          /\ op = "essential"                 => (p[op] => m[op])

LEMMA RefinesTransitive ==
  ASSUME NEW m, NEW n, NEW p, Refines(m, n), Refines(n, p)
  PROVE  Refines(m, p)
<1>1. DOMAIN p \subseteq DOMAIN m /\ DOMAIN p \subseteq DOMAIN n
  BY DEF Refines
<1>2. ASSUME NEW op \in DOMAIN p
      PROVE  /\ op \in {"value", "default"}      => m[op] = p[op]
             /\ op \in {"add", "superset_of"}    => p[op] \subseteq m[op]
             /\ op \in {"one_of", "subset_of"}   => m[op] \subseteq p[op]
             /\ op = "essential"                 => (p[op] => m[op])
  <2>1. op \in DOMAIN n
    BY <1>1
  <2> QED BY <2>1, Zenon DEF Refines
<1> QED BY <1>1, <1>2 DEF Refines

LEMMA ObeysRefined ==
  ASSUME NEW v \in Parameter, NEW m, NEW p, OperatorSchemas(p), Refines(m, p), Obeys(v, m)
  PROVE  Obeys(v, p)
<1>1. DOMAIN p \subseteq DOMAIN m /\ DOMAIN p \subseteq Operators
  BY DEF Refines, OperatorSchemas
<1>2. \A op \in DOMAIN p : op \in {"value", "default"} => m[op] = p[op]
  BY DEF Refines
<1>3. \A op \in DOMAIN p : op \in {"add", "superset_of"} => p[op] \subseteq m[op]
  BY DEF Refines
<1>4. \A op \in DOMAIN p : op \in {"one_of", "subset_of"} => m[op] \subseteq p[op]
  BY DEF Refines
<1>5. \A op \in DOMAIN p : op = "essential" => (p[op] => m[op])
  BY Zenon DEF Refines
<1>6. "value" \in DOMAIN p => (IF p["value"] = Null THEN v \in {Absent, Array({})} ELSE v = p["value"])
  BY <1>1, <1>2 DEF Obeys
<1>7. "default" \in DOMAIN p => v # Absent
  BY <1>1 DEF Obeys
<1>8. "add" \in DOMAIN p => v # Absent /\ p["add"] \subseteq v.vs
  BY <1>1, <1>3 DEF Obeys
<1>9. "superset_of" \in DOMAIN p => v = Absent \/ p["superset_of"] \subseteq v.vs
  BY <1>1, <1>3 DEF Obeys
<1>10. "one_of" \in DOMAIN p => v = Absent \/ v.vs \subseteq p["one_of"]
  BY <1>1, <1>4 DEF Obeys
<1>11. "subset_of" \in DOMAIN p => v = Absent \/ v.vs \subseteq p["subset_of"]
  BY <1>1, <1>4 DEF Obeys
<1>12. "essential" \in DOMAIN p => (p["essential"] => v # Absent)
  BY <1>1, <1>5 DEF Obeys
<1>13. \A op \in DOMAIN p : op \in {"value", "add", "default", "one_of", "subset_of", "superset_of", "essential"}
  BY <1>1 DEF Operators
<1> QED BY <1>6, <1>7, <1>8, <1>9, <1>10, <1>11, <1>12, <1>13 DEF Obeys

\* What a superior's policy merged with a subordinate's demands is at least what
\* each of them demands, if the merge does not fail.
LEMMA MergeRefines ==
  ASSUME NEW old, NEW new, PolicyOk(old), PolicyOk(new), MergePolicy(old, new) # PolicyError
  PROVE  LET m == MergePolicy(old, new) IN PolicyOk(m) /\ Refines(m, old) /\ Refines(m, new)
<1> DEFINE both == DOMAIN old \cap DOMAIN new
           m == [op \in DOMAIN old \cup DOMAIN new |->
                   IF op \in both THEN MergeOperator(op, old[op], new[op])
                   ELSE IF op \in DOMAIN old THEN old[op] ELSE new[op]]
<1>1. CASE DOMAIN old = {}
  <2>1. MergePolicy(old, new) = new
    BY <1>1 DEF MergePolicy
  <2>2. Refines(new, old)
    BY <1>1 DEF Refines
  <2>3. \A op \in DOMAIN new : op = "essential" => (new[op] => new[op])
    OBVIOUS
  <2>4. Refines(new, new)
    BY <2>3 DEF Refines
  <2> QED BY <2>1, <2>2, <2>4
<1>2. CASE DOMAIN old # {}
  <2>1. MergePolicy(old, new) = m /\ (\A op \in both : m[op] # PolicyError) /\ WellFormed(m)
    BY <1>2, Zenon DEF MergePolicy
  <2>2. DOMAIN m = DOMAIN old \cup DOMAIN new
    OBVIOUS
  <2>3. \A op \in both : m[op] = MergeOperator(op, old[op], new[op])
    OBVIOUS
  <2>4. \A op \in DOMAIN old : op \notin both => m[op] = old[op]
    OBVIOUS
  <2>5. \A op \in DOMAIN new : op \notin both => m[op] = new[op]
    OBVIOUS
  <2> HIDE DEF m
  <2>6. \A op \in both : op \in {"value", "default"} => m[op] = old[op] /\ m[op] = new[op]
    BY <2>1, <2>3 DEF MergeOperator
  <2>7. \A op \in both : op \in {"add", "superset_of"} => m[op] = old[op] \cup new[op]
    BY <2>3 DEF MergeOperator
  <2>8. \A op \in both : op \in {"one_of", "subset_of"} => m[op] = old[op] \cap new[op]
    BY <2>1, <2>3 DEF MergeOperator
  <2>9. "essential" \in both => m["essential"] = (old["essential"] \/ new["essential"])
    <3> SUFFICES ASSUME "essential" \in both PROVE m["essential"] = (old["essential"] \/ new["essential"])
      OBVIOUS
    <3>1. m["essential"] = MergeOperator("essential", old["essential"], new["essential"])
      BY <2>3
    <3> QED BY <3>1 DEF MergeOperator
  <2>10. OperatorSchemas(m)
    <3>1. DOMAIN m \subseteq Operators
      BY <2>2 DEF PolicyOk, OperatorSchemas
    <3>2. "value" \in DOMAIN m => m["value"] \in Values \cup {Null}
      BY <2>2, <2>4, <2>5, <2>6 DEF PolicyOk, OperatorSchemas
    <3>3. "default" \in DOMAIN m => m["default"] \in Values
      BY <2>2, <2>4, <2>5, <2>6 DEF PolicyOk, OperatorSchemas
    <3>4. "essential" \in DOMAIN m => m["essential"] \in BOOLEAN
      BY <2>2, <2>4, <2>5, <2>9 DEF PolicyOk, OperatorSchemas
    <3>5. ASSUME NEW op \in {"add", "one_of", "subset_of", "superset_of"} \cap DOMAIN m PROVE m[op] \subseteq Members
      <4>1. op \in DOMAIN old => old[op] \subseteq Members
        BY DEF PolicyOk, OperatorSchemas
      <4>2. op \in DOMAIN new => new[op] \subseteq Members
        BY DEF PolicyOk, OperatorSchemas
      <4>3. op \in both => m[op] = old[op] \cup new[op] \/ m[op] = old[op] \cap new[op]
        BY <2>7, <2>8
      <4> QED BY <2>2, <2>4, <2>5, <4>1, <4>2, <4>3
    <3> QED BY <3>1, <3>2, <3>3, <3>4, <3>5 DEF OperatorSchemas
  <2>11. Refines(m, old)
    <3>1. ASSUME NEW op \in DOMAIN old
          PROVE  /\ op \in {"value", "default"}      => m[op] = old[op]
                 /\ op \in {"add", "superset_of"}    => old[op] \subseteq m[op]
                 /\ op \in {"one_of", "subset_of"}   => m[op] \subseteq old[op]
      BY <2>4, <2>6, <2>7, <2>8
    <3>2. ASSUME NEW op \in DOMAIN old, op = "essential", old[op] PROVE m[op]
      <4>1. CASE op \in both
        BY <2>9, <3>2, <4>1
      <4>2. CASE op \notin both
        BY <2>4, <3>2, <4>2
      <4> QED BY <4>1, <4>2
    <3> QED BY <2>2, <3>1, <3>2 DEF Refines
  <2>12. Refines(m, new)
    <3>1. ASSUME NEW op \in DOMAIN new
          PROVE  /\ op \in {"value", "default"}      => m[op] = new[op]
                 /\ op \in {"add", "superset_of"}    => new[op] \subseteq m[op]
                 /\ op \in {"one_of", "subset_of"}   => m[op] \subseteq new[op]
      BY <2>5, <2>6, <2>7, <2>8
    <3>2. ASSUME NEW op \in DOMAIN new, op = "essential", new[op] PROVE m[op]
      <4>1. CASE op \in both
        BY <2>9, <3>2, <4>1
      <4>2. CASE op \notin both
        BY <2>5, <3>2, <4>2
      <4> QED BY <4>1, <4>2
    <3> QED BY <2>2, <3>1, <3>2 DEF Refines
  <2> QED BY <2>1, <2>10, <2>11, <2>12 DEF PolicyOk
<1> QED BY <1>1, <1>2

\* The merge of the policies of a chain demands what each of them does.
LEMMA CombinedRefines ==
  ASSUME NEW policies, NEW N \in Nat, Len(policies) = N, \A n \in 1 .. N : PolicyOk(policies[n]),
         CombinePolicies(policies) # PolicyError
  PROVE  /\ PolicyOk(CombinePolicies(policies))
         /\ \A n \in 1 .. N : Refines(CombinePolicies(policies), policies[n])
<1> DEFINE none == [op \in {} |-> 0]
           Body(n, f) == IF n = 0 THEN none ELSE MergePolicy(f[n - 1], policies[Len(policies) + 1 - n])
           merge == CHOOSE f : f = [n \in 0 .. Len(policies) |-> Body(n, f)]
           Upto(m, f) == f = [n \in 0 .. N |-> f[n]] /\ \A n \in 0 .. N : n <= m => f[n] = Body(n, f)
           S == {m \in Nat : \E f : Upto(m, f)}
<1>1. CombinePolicies(policies) = merge[N]
  BY DEF CombinePolicies
<1>2. PolicyOk(none)
  BY DEF PolicyOk, OperatorSchemas, WellFormed, ConditionsHold
<1> HIDE DEF none
<1>3. 0 \in S
  <2> DEFINE f == [n \in 0 .. N |-> none]
  <2>1. Upto(0, f)
    OBVIOUS
  <2> QED BY <2>1
<1>4. ASSUME NEW m \in S PROVE m + 1 \in S
  <2>1. PICK f : Upto(m, f)
    OBVIOUS
  <2> DEFINE g == [n \in 0 .. N |-> IF n <= m THEN f[n] ELSE Body(n, f)]
  <2>2. ASSUME NEW n \in 0 .. N, n <= m + 1 PROVE g[n] = Body(n, g)
    <3>1. g[n] = Body(n, f)
      <4> HIDE DEF Body
      <4>1. n <= m => f[n] = Body(n, f)
        BY <2>1
      <4> QED BY <4>1
    <3>2. CASE n # 0
      <4>1. n - 1 \in 0 .. N /\ n - 1 <= m
        BY <2>2, <3>2
      <4>2. g[n - 1] = f[n - 1]
        BY <4>1
      <4> HIDE DEF g
      <4> QED BY <3>1, <4>2
    <3>3. CASE n = 0
      <4> HIDE DEF g
      <4> QED BY <3>1, <3>3
    <3> QED BY <3>2, <3>3
  <2>3. Upto(m + 1, g)
    <3>1. g = [n \in 0 .. N |-> g[n]]
      OBVIOUS
    <3> HIDE DEF g, Body
    <3> QED BY <2>2, <3>1
  <2> HIDE DEF g, Upto
  <2>4. \E h : Upto(m + 1, h)
    BY <2>3
  <2> QED BY <2>4
<1>5. N \in S
  <2>1. S \subseteq Nat
    OBVIOUS
  <2> HIDE DEF S
  <2> QED BY <1>3, <1>4, <2>1, SetInduction
<1>6. \E f : f = [n \in 0 .. N |-> Body(n, f)]
  <2>1. PICK f : Upto(N, f)
    BY <1>5
  <2> HIDE DEF Body
  <2>2. \A n \in 0 .. N : f[n] = Body(n, f)
    <3>1. \A n \in 0 .. N : n <= N
      OBVIOUS
    <3> QED BY <2>1, <3>1
  <2>3. f = [n \in 0 .. N |-> Body(n, f)]
    BY <2>1, <2>2
  <2> QED BY <2>3
<1>7. merge = [n \in 0 .. N |-> Body(n, merge)]
  BY <1>6
<1> HIDE DEF merge, S
<1>8. merge[0] = none /\ \A n \in 1 .. N : merge[n] = MergePolicy(merge[n - 1], policies[N + 1 - n])
  BY <1>7
<1> DEFINE Done(n) == /\ PolicyOk(merge[n])
                      /\ \A k \in 1 .. n : Refines(merge[n], policies[N + 1 - k])
           T == {n \in Nat : n <= N /\ merge[n] # PolicyError => Done(n)}
<1>9. 0 \in T
  BY <1>2, <1>8
<1>10. ASSUME NEW n \in T PROVE n + 1 \in T
  <2> SUFFICES ASSUME n + 1 <= N, merge[n + 1] # PolicyError PROVE Done(n + 1)
    OBVIOUS
  <2> DEFINE p == policies[N + 1 - (n + 1)]
  <2>1. merge[n + 1] = MergePolicy(merge[n], p) /\ n <= N
    <3>1. n + 1 \in 1 .. N /\ (n + 1) - 1 = n
      OBVIOUS
    <3>2. merge[n + 1] = MergePolicy(merge[(n + 1) - 1], policies[N + 1 - (n + 1)])
      BY <1>8, <3>1
    <3> QED BY <3>1, <3>2
  <2>2. merge[n] # PolicyError
    BY <2>1 DEF MergePolicy
  <2>3. Done(n)
    BY <2>1, <2>2
  <2>4. PolicyOk(p)
    <3>1. N + 1 - (n + 1) \in 1 .. N
      OBVIOUS
    <3> QED BY <3>1
  <2> HIDE DEF p
  <2>5. PolicyOk(merge[n + 1]) /\ Refines(merge[n + 1], merge[n]) /\ Refines(merge[n + 1], p)
    BY <2>1, <2>3, <2>4, MergeRefines
  <2>6. ASSUME NEW k \in 1 .. n + 1 PROVE Refines(merge[n + 1], policies[N + 1 - k])
    <3>1. CASE k = n + 1
      BY <2>5, <3>1 DEF p
    <3>2. CASE k # n + 1
      <4>1. k \in 1 .. n
        BY <3>2
      <4> QED BY <2>3, <2>5, <4>1, RefinesTransitive
    <3> QED BY <3>1, <3>2
  <2> QED BY <2>5, <2>6
<1>11. N \in T
  <2>1. T \subseteq Nat
    OBVIOUS
  <2> HIDE DEF T
  <2> QED BY <1>9, <1>10, <2>1, SetInduction
<1>12. Done(N)
  BY <1>1, <1>11
<1>13. ASSUME NEW n \in 1 .. N PROVE Refines(merge[N], policies[n])
  <2>1. N + 1 - n \in 1 .. N /\ N + 1 - (N + 1 - n) = n
    OBVIOUS
  <2> QED BY <1>12, <2>1
<1> QED BY <1>1, <1>12, <1>13

\* One operator, the value before it and the value after.
Applied(op, policy, before) ==
    IF op \in DOMAIN policy THEN ApplyOperator(op, policy[op], before) ELSE before

\* The operators are applied one after another, in their order.
LEMMA ApplyInOrder ==
  ASSUME NEW policy, NEW target, ApplyPolicy(policy, target) # PolicyError
  PROVE  \E a : /\ a[0] = target /\ ApplyPolicy(policy, target) = a[7]
                /\ \A n \in 1 .. 7 : a[n] = Applied(OrderOfApplication[n], policy, a[n - 1])
<1> DEFINE N == Len(OrderOfApplication)
           Body(n, f) == IF n = 0 THEN target
                         ELSE LET op == OrderOfApplication[n] IN
                              IF op \in DOMAIN policy
                              THEN ApplyOperator(op, policy[op], f[n - 1])
                              ELSE f[n - 1]
           apply == CHOOSE f : f = [n \in 0 .. N |-> Body(n, f)]
           Upto(m, f) == f = [n \in 0 .. N |-> f[n]] /\ \A n \in 0 .. N : n <= m => f[n] = Body(n, f)
           S == {m \in Nat : \E f : Upto(m, f)}
<1>1. ApplyPolicy(policy, target) = apply[N]
  BY DEF ApplyPolicy
<1>2. N = 7
  BY DEF OrderOfApplication
<1> HIDE DEF N
<1>3. 0 \in S
  <2> DEFINE f == [n \in 0 .. N |-> target]
  <2>1. Upto(0, f)
    BY <1>2
  <2> QED BY <2>1
<1>4. ASSUME NEW m \in S PROVE m + 1 \in S
  <2>1. PICK f : Upto(m, f)
    OBVIOUS
  <2> DEFINE g == [n \in 0 .. N |-> IF n <= m THEN f[n] ELSE Body(n, f)]
  <2>2. ASSUME NEW n \in 0 .. N, n <= m + 1 PROVE g[n] = Body(n, g)
    <3>1. g[n] = Body(n, f)
      <4> HIDE DEF Body
      <4>1. n <= m => f[n] = Body(n, f)
        BY <2>1
      <4> QED BY <4>1
    <3>2. CASE n # 0
      <4>1. n - 1 \in 0 .. N /\ n - 1 <= m
        BY <1>2, <2>2, <3>2
      <4>2. g[n - 1] = f[n - 1]
        BY <4>1
      <4> HIDE DEF g
      <4> QED BY <3>1, <4>2
    <3>3. CASE n = 0
      <4> HIDE DEF g
      <4> QED BY <3>1, <3>3
    <3> QED BY <3>2, <3>3
  <2>3. Upto(m + 1, g)
    <3>1. g = [n \in 0 .. N |-> g[n]]
      OBVIOUS
    <3> HIDE DEF g, Body
    <3> QED BY <2>2, <3>1
  <2> HIDE DEF g, Upto
  <2>4. \E h : Upto(m + 1, h)
    BY <2>3
  <2> QED BY <2>4
<1>5. N \in S
  <2>1. S \subseteq Nat
    OBVIOUS
  <2> HIDE DEF S
  <2> QED BY <1>2, <1>3, <1>4, <2>1, SetInduction
<1>6. \E f : f = [n \in 0 .. N |-> Body(n, f)]
  <2>1. PICK f : Upto(N, f)
    BY <1>5
  <2> HIDE DEF Body
  <2>2. \A n \in 0 .. N : f[n] = Body(n, f)
    <3>1. \A n \in 0 .. N : n <= N
      BY <1>2
    <3> QED BY <2>1, <3>1
  <2>3. f = [n \in 0 .. N |-> Body(n, f)]
    BY <2>1, <2>2
  <2> QED BY <2>3
<1>7. apply = [n \in 0 .. N |-> Body(n, apply)]
  BY <1>6
<1> HIDE DEF apply, S
<1>8. apply[0] = target
  BY <1>2, <1>7
<1>9. ASSUME NEW n \in 1 .. 7 PROVE apply[n] = Applied(OrderOfApplication[n], policy, apply[n - 1])
  <2>1. apply[n] = Body(n, apply)
    <3> HIDE DEF Body
    <3> QED BY <1>2, <1>7
  <2> QED BY <2>1 DEF Applied
<1> QED BY <1>1, <1>2, <1>8, <1>9

\* The values after the operators of a policy that could be applied: `value`, `add`
\* and `default` decide it, `one_of` checks it, `subset_of` filters it, and the
\* last two check what is left.
Stages(p, t, a1, a2, a3, v) ==
    /\ a1 = IF "value" \in DOMAIN p THEN (IF p["value"] = Null THEN Absent ELSE p["value"]) ELSE t
    /\ "add" \in DOMAIN p => IF a1 = Absent THEN a2 = Array(p["add"])
                             ELSE IsArray(a1) /\ a2 = Listing(a1, a1.vs \cup p["add"])
    /\ "add" \notin DOMAIN p => a2 = a1
    /\ a3 = IF "default" \in DOMAIN p /\ a2 = Absent THEN p["default"] ELSE a2
    /\ "one_of" \in DOMAIN p => a3 = Absent \/ (~IsArray(a3) /\ a3.vs \subseteq p["one_of"])
    /\ "subset_of" \in DOMAIN p /\ a3 # Absent => IsArray(a3) /\ v = Listing(a3, a3.vs \cap p["subset_of"])
    /\ ~("subset_of" \in DOMAIN p /\ a3 # Absent) => v = a3
    /\ "superset_of" \in DOMAIN p => v = Absent \/ (IsArray(v) /\ p["superset_of"] \subseteq v.vs)
    /\ "essential" \in DOMAIN p => (p["essential"] => v # Absent)

LEMMA ApplyStages ==
  ASSUME NEW p, NEW t, ApplyPolicy(p, t) # PolicyError
  PROVE  \E a1, a2, a3 : Stages(p, t, a1, a2, a3, ApplyPolicy(p, t))
<1>1. PICK a : /\ a[0] = t /\ ApplyPolicy(p, t) = a[7]
               /\ \A n \in 1 .. 7 : a[n] = Applied(OrderOfApplication[n], p, a[n - 1])
  BY ApplyInOrder
<1>2. /\ a[1] = Applied("value", p, t) /\ a[2] = Applied("add", p, a[1]) /\ a[3] = Applied("default", p, a[2])
      /\ a[4] = Applied("one_of", p, a[3]) /\ a[5] = Applied("subset_of", p, a[4])
      /\ a[6] = Applied("superset_of", p, a[5]) /\ a[7] = Applied("essential", p, a[6])
  BY <1>1 DEF OrderOfApplication
<1>3. \A op \in Operators : Applied(op, p, PolicyError) = PolicyError
  BY DEF Applied, ApplyOperator
<1>4. /\ a[7] # PolicyError /\ a[6] # PolicyError /\ a[5] # PolicyError /\ a[4] # PolicyError
      /\ a[3] # PolicyError /\ a[2] # PolicyError /\ a[1] # PolicyError /\ t # PolicyError
  BY <1>1, <1>2, <1>3 DEF Operators
<1>5. a[1] = IF "value" \in DOMAIN p THEN (IF p["value"] = Null THEN Absent ELSE p["value"]) ELSE t
  BY <1>2, <1>4 DEF Applied, ApplyOperator
<1>6. /\ "add" \in DOMAIN p => IF a[1] = Absent THEN a[2] = Array(p["add"])
                               ELSE IsArray(a[1]) /\ a[2] = Listing(a[1], a[1].vs \cup p["add"])
      /\ "add" \notin DOMAIN p => a[2] = a[1]
  BY <1>2, <1>4 DEF Applied, ApplyOperator
<1>7. a[3] = IF "default" \in DOMAIN p /\ a[2] = Absent THEN p["default"] ELSE a[2]
  BY <1>2, <1>4 DEF Applied, ApplyOperator
<1>8. /\ a[4] = a[3]
      /\ "one_of" \in DOMAIN p => a[3] = Absent \/ (~IsArray(a[3]) /\ a[3].vs \subseteq p["one_of"])
  BY <1>2, <1>4 DEF Applied, ApplyOperator
<1>9. /\ "subset_of" \in DOMAIN p /\ a[4] # Absent => IsArray(a[4]) /\ a[5] = Listing(a[4], a[4].vs \cap p["subset_of"])
      /\ ~("subset_of" \in DOMAIN p /\ a[4] # Absent) => a[5] = a[4]
  BY <1>2, <1>4 DEF Applied, ApplyOperator
<1>10. /\ a[6] = a[5]
       /\ "superset_of" \in DOMAIN p => a[5] = Absent \/ (IsArray(a[5]) /\ p["superset_of"] \subseteq a[5].vs)
  BY <1>2, <1>4 DEF Applied, ApplyOperator
<1>11. a[7] = a[6] /\ ("essential" \in DOMAIN p => (p["essential"] => a[6] # Absent))
  BY <1>2, <1>4 DEF Applied, ApplyOperator
<1>12. ApplyPolicy(p, t) = a[5]
  BY <1>1, <1>10, <1>11
<1> HIDE DEF IsArray, Array, Listing
<1>13. /\ "subset_of" \in DOMAIN p /\ a[3] # Absent => IsArray(a[3]) /\ a[5] = Listing(a[3], a[3].vs \cap p["subset_of"])
       /\ ~("subset_of" \in DOMAIN p /\ a[3] # Absent) => a[5] = a[3]
  BY <1>8, <1>9
<1>14. "essential" \in DOMAIN p => (p["essential"] => a[5] # Absent)
  BY <1>10, <1>11
<1>15. Stages(p, t, a[1], a[2], a[3], a[5])
  BY <1>5, <1>6, <1>7, <1>8, <1>10, <1>13, <1>14, Zenon DEF Stages
<1> QED BY <1>12, <1>15

LEMMA ArrayValues ==
  /\ \A S \in SUBSET Members : Array(S) \in Values /\ Array(S).vs = S /\ IsArray(Array(S)) /\ Array(S) # Absent
  /\ \A x \in Values : /\ x = Listing(x, x.vs)
                       /\ \A S \in SUBSET Members : Listing(x, S) \in Values /\ Listing(x, S).vs = S
  /\ Listing(Array({}), {}) = Array({})
  /\ \A x \in Values : x.vs \subseteq Members /\ x # Absent
<1>1. \A S \in SUBSET Members : Array(S) \in Values /\ Array(S).vs = S /\ IsArray(Array(S))
  BY DEF Array, Values, IsArray
<1>2. \A x \in Values : /\ x = Listing(x, x.vs)
                        /\ \A S \in SUBSET Members : Listing(x, S) \in Values /\ Listing(x, S).vs = S
  BY DEF Listing, Values
<1>4. Listing(Array({}), {}) = Array({})
  BY DEF Array, Listing
<1>3. \A x \in Values : x.vs \subseteq Members
  BY DEF Values
<1> QED BY <1>1, <1>2, <1>3, <1>4, ValueAssumption

\* What a policy makes of a value obeys it: no later operator undoes what an
\* earlier one has done.
LEMMA AppliedObeys ==
  ASSUME NEW p, NEW t \in Parameter, PolicyOk(p), ApplyPolicy(p, t) # PolicyError
  PROVE  ApplyPolicy(p, t) \in Parameter /\ Obeys(ApplyPolicy(p, t), p)
<1> DEFINE v == ApplyPolicy(p, t)
           Has(op) == op \in DOMAIN p
<1>1. PICK a1, a2, a3 : Stages(p, t, a1, a2, a3, v)
  BY ApplyStages
<1> HIDE DEF v
<1>2. /\ a1 = IF Has("value") THEN (IF p["value"] = Null THEN Absent ELSE p["value"]) ELSE t
      /\ Has("add") => IF a1 = Absent THEN a2 = Array(p["add"])
                       ELSE IsArray(a1) /\ a2 = Listing(a1, a1.vs \cup p["add"])
      /\ ~Has("add") => a2 = a1
      /\ a3 = IF Has("default") /\ a2 = Absent THEN p["default"] ELSE a2
      /\ Has("one_of") => a3 = Absent \/ (~IsArray(a3) /\ a3.vs \subseteq p["one_of"])
      /\ Has("subset_of") /\ a3 # Absent => IsArray(a3) /\ v = Listing(a3, a3.vs \cap p["subset_of"])
      /\ ~(Has("subset_of") /\ a3 # Absent) => v = a3
      /\ Has("superset_of") => v = Absent \/ (IsArray(v) /\ p["superset_of"] \subseteq v.vs)
      /\ Has("essential") => (p["essential"] => v # Absent)
  BY <1>1 DEF Stages
\* What zMetadataPolicy accepted.
<1>3. /\ Has("value") => p["value"] \in Values \cup {Null}
      /\ Has("default") => p["default"] \in Values
      /\ \A op \in {"add", "one_of", "subset_of", "superset_of"} : Has(op) => p[op] \in SUBSET Members
      /\ \A op \in DOMAIN p : op \in Operators
  BY DEF PolicyOk, OperatorSchemas
<1>4. Has("one_of") => ~Has("add") /\ ~Has("subset_of") /\ ~Has("superset_of")
  BY DEF PolicyOk, WellFormed, CanBeCombined
<1>5. Has("value") /\ p["value"] = Null =>
        /\ ~Has("default") /\ ~(Has("essential") /\ p["essential"]) /\ ~Has("one_of")
        /\ Has("add") => p["add"] \subseteq {}
  <2> SUFFICES ASSUME Has("value"), p["value"] = Null
               PROVE  /\ ~Has("default") /\ ~(Has("essential") /\ p["essential"]) /\ ~Has("one_of")
                      /\ Has("add") => p["add"] \subseteq {}
    OBVIOUS
  <2>1. Array({}).vs = {} /\ IsArray(Array({}))
    BY DEF Array, IsArray
  <2> QED BY <2>1 DEF PolicyOk, WellFormed, ConditionsHold
<1>6. Has("value") /\ p["value"] # Null =>
        /\ Has("add") => IsArray(p["value"]) /\ p["add"] \subseteq p["value"].vs
        /\ Has("subset_of") => IsArray(p["value"]) /\ p["value"].vs \subseteq p["subset_of"]
  BY DEF PolicyOk, WellFormed, ConditionsHold
<1>7. Has("add") /\ Has("subset_of") => p["add"] \subseteq p["subset_of"]
  BY DEF PolicyOk, WellFormed, ConditionsHold
\* Every stage is a value or absent.
<1>8. a1 \in Parameter
  BY <1>2, <1>3 DEF Parameter
<1>9. a2 \in Parameter /\ (Has("add") => a2 \in Values /\ p["add"] \subseteq a2.vs)
  <2>1. CASE ~Has("add")
    BY <1>2, <1>8, <2>1
  <2>2. CASE Has("add")
    <3>1. p["add"] \in SUBSET Members
      BY <1>3, <2>2
    <3>2. CASE a1 = Absent
      BY <1>2, <2>2, <3>1, <3>2, ArrayValues DEF Parameter
    <3>3. CASE a1 # Absent
      <4>1. a1.vs \cup p["add"] \in SUBSET Members
        BY <1>8, <3>1, <3>3, ArrayValues DEF Parameter
      <4>2. a1 \in Values /\ a2 = Listing(a1, a1.vs \cup p["add"])
        BY <1>2, <1>8, <2>2, <3>3 DEF Parameter
      <4>3. a2 \in Values /\ a2.vs = a1.vs \cup p["add"]
        BY <4>1, <4>2, ArrayValues
      <4> QED BY <4>3 DEF Parameter
    <3> QED BY <3>2, <3>3
  <2> QED BY <2>1, <2>2
<1>10. a3 \in Parameter /\ (a2 # Absent => a3 = a2) /\ (Has("default") => a3 # Absent)
  BY <1>2, <1>3, <1>9, ArrayValues DEF Parameter
<1>11. /\ v \in Parameter /\ (v = Absent <=> a3 = Absent)
       /\ Has("subset_of") => v = Absent \/ v.vs = a3.vs \cap p["subset_of"]
  <2>1. CASE ~(Has("subset_of") /\ a3 # Absent)
    BY <1>2, <1>10, <2>1
  <2>2. CASE Has("subset_of") /\ a3 # Absent
    <3>1. a3.vs \cap p["subset_of"] \in SUBSET Members
      BY <1>3, <2>2
    <3>2. a3 \in Values /\ v = Listing(a3, a3.vs \cap p["subset_of"])
      BY <1>2, <1>10, <2>2 DEF Parameter
    <3>3. v \in Values /\ v.vs = a3.vs \cap p["subset_of"]
      BY <3>1, <3>2, ArrayValues
    <3> QED BY <2>2, <3>3, ArrayValues DEF Parameter
  <2> QED BY <2>1, <2>2
\* What each operator demands.
<1>12. Has("value") => (IF p["value"] = Null THEN v \in {Absent, Array({})} ELSE v = p["value"])
  <2>1. CASE Has("value") /\ p["value"] = Null
    <3>1. a1 = Absent /\ a3 = a2
      BY <1>2, <1>5, <2>1
    <3>2. a2 \in {Absent, Array({})}
      <4>1. Has("add") => p["add"] = {}
        BY <1>3, <1>5, <2>1
      <4> QED BY <1>2, <3>1, <4>1
    <3>3. Has("subset_of") /\ a3 # Absent => v = Array({})
      <4>1. Array({}).vs = {}
        BY DEF Array
      <4> QED BY <1>2, <3>1, <3>2, <4>1, ArrayValues
    <3> QED BY <1>2, <2>1, <3>1, <3>2, <3>3
  <2>2. CASE Has("value") /\ p["value"] # Null
    <3> DEFINE x == p["value"]
    <3>1. a1 = x /\ x \in Values /\ x # Absent
      BY <1>2, <1>3, <2>2, ArrayValues
    <3>2. a2 = x
      <4>1. CASE ~Has("add")
        BY <1>2, <3>1, <4>1
      <4>2. CASE Has("add")
        <5>1. IsArray(x) /\ x.vs \cup p["add"] = x.vs
          BY <1>6, <2>2, <4>2
        <5>2. a2 = Listing(x, x.vs \cup p["add"])
          BY <1>2, <3>1, <4>2
        <5>3. x = Listing(x, x.vs)
          BY <3>1, ArrayValues
        <5> HIDE DEF x
        <5> QED BY <5>1, <5>2, <5>3
      <4> QED BY <4>1, <4>2
    <3>3. a3 = x
      BY <1>10, <3>1, <3>2
    <3>4. Has("subset_of") => IsArray(x) /\ x.vs \cap p["subset_of"] = x.vs
      BY <1>6, <2>2
    <3>5. v = x
      BY <1>2, <3>1, <3>3, <3>4, ArrayValues
    <3> QED BY <2>2, <3>5
  <2> QED BY <2>1, <2>2
<1>13. Has("add") => v # Absent /\ p["add"] \subseteq v.vs
  <2> SUFFICES ASSUME Has("add") PROVE v # Absent /\ p["add"] \subseteq v.vs
    OBVIOUS
  <2>1. a3 = a2 /\ a2 # Absent /\ p["add"] \subseteq a2.vs
    BY <1>9, <1>10, ArrayValues
  <2>2. ~Has("subset_of") => v = a3
    BY <1>2
  <2>3. Has("subset_of") => v.vs = a3.vs \cap p["subset_of"] /\ p["add"] \subseteq p["subset_of"]
    BY <1>7, <1>11, <2>1
  <2> QED BY <1>11, <2>1, <2>2, <2>3
<1>14. Has("default") => v # Absent
  BY <1>10, <1>11
<1>15. Has("one_of") => v = Absent \/ v.vs \subseteq p["one_of"]
  BY <1>2, <1>4
<1>16. Has("subset_of") => v = Absent \/ v.vs \subseteq p["subset_of"]
  BY <1>11
<1>17. Has("superset_of") => v = Absent \/ p["superset_of"] \subseteq v.vs
  BY <1>2
<1>18. Obeys(v, p)
  <2>1. \A op \in DOMAIN p : op \in {"value", "add", "default", "one_of", "subset_of", "superset_of", "essential"}
    BY <1>3 DEF Operators
  <2>2. Has("essential") => (p["essential"] => v # Absent)
    BY <1>2
  <2> QED BY <1>12, <1>13, <1>14, <1>15, <1>16, <1>17, <2>1, <2>2 DEF Obeys
<1> QED BY <1>11, <1>18 DEF v

\* The leaf's resolved metadata obeys the policy of each superior of the chain.
Governed(path, value) ==
    ~Restricted(path) =>
        \A n \in 1 .. Len(path) - 1 : Obeys(value, Stmt(path[n + 1], path[n]).policy)

LEMMA ResolvedObeys ==
  ASSUME fed \in Federations, NEW path \in Seq(Entities), path # <<>>, ResolvedValue(path) # PolicyError
  PROVE  Governed(path, ResolvedValue(path))
<1> DEFINE N == Len(path) - 1
           policies == [n \in 1 .. N |-> Stmt(path[n + 1], path[n]).policy]
           direct == Stmt(path[2], path[1]).metadata
           merged == IF direct # Absent THEN direct ELSE Config(path[1]).metadata
           value == ResolvedValue(path)
<1>1. N \in Nat /\ \A n \in 1 .. N : path[n] \in Entities /\ path[n + 1] \in Entities
  OBVIOUS
<1>2. ASSUME NEW e \in Entities, NEW sub \in Entities
      PROVE  /\ Config(e).metadata \in Parameter /\ Stmt(e, sub).metadata \in Parameter
             /\ PolicyOk(Stmt(e, sub).policy)
  BY PolicyAssumption DEF Config, Stmt, Parameter, PolicyOk
<1> SUFFICES ASSUME ~Restricted(path), NEW n \in 1 .. N PROVE Obeys(value, Stmt(path[n + 1], path[n]).policy)
  BY DEF Governed
<1>3. Len(path) # 1 /\ path[1] \in Entities /\ path[2] \in Entities
  OBVIOUS
<1>4. merged \in Parameter
  BY <1>2, <1>3
<1>5. MergedPolicy(path) = CombinePolicies(policies)
  BY DEF MergedPolicy
<1>6. value = ApplyPolicy(MergedPolicy(path), merged)
  <2> DEFINE r == IF MergedPolicy(path) # PolicyError /\ Restricted(path) THEN Absent
                  ELSE ApplyPolicy(MergedPolicy(path), merged)
  <2>1. value \in {r}
    BY <1>3, Zenon DEF ResolvedValue
  <2> HIDE DEF value
  <2> QED BY <2>1
<1> HIDE DEF value, merged
<1>7. value # PolicyError
  BY DEF value
<1>8. CombinePolicies(policies) # PolicyError
  BY <1>5, <1>6, <1>7 DEF ApplyPolicy
<1>9. Len(policies) = N /\ \A k \in 1 .. N : PolicyOk(policies[k])
  <2>1. \A k \in 1 .. N : PolicyOk(policies[k])
    BY <1>1, <1>2
  <2>2. DOMAIN policies = 1 .. N /\ policies = [k \in 1 .. N |-> policies[k]]
    OBVIOUS
  <2> DEFINE R == {policies[k] : k \in 1 .. N}
  <2>3. policies \in Seq(R)
    <3>1. \A k \in 1 .. N : policies[k] \in R
      OBVIOUS
    <3> HIDE DEF policies, N, R
    <3>2. policies \in [1 .. N -> R]
      BY <2>2, <3>1
    <3> QED BY <1>1, <3>2
  <2> HIDE DEF policies, N, R
  <2> QED BY <1>1, <2>1, <2>2, <2>3
<1>10. policies[n] = Stmt(path[n + 1], path[n]).policy
  OBVIOUS
<1> HIDE DEF policies
<1>11. PolicyOk(CombinePolicies(policies)) /\ Refines(CombinePolicies(policies), policies[n])
  BY <1>1, <1>8, <1>9, CombinedRefines
<1>12. value \in Parameter /\ Obeys(value, CombinePolicies(policies))
  BY <1>4, <1>5, <1>6, <1>7, <1>11, AppliedObeys
<1>13. OperatorSchemas(policies[n])
  BY <1>9 DEF PolicyOk
<1> QED BY <1>10, <1>11, <1>12, <1>13, ObeysRefined

-----------------------------------------------------------------------------
(* The chains                                                              *)

\* A path discovery may follow from its first entity: each entity is accepted
\* and names the next one among its hints, and none comes twice.
Trail(path) ==
    /\ path \in Seq(Entities) /\ path # <<>>
    /\ \A n \in 1 .. Len(path) - 1 :
          /\ ConfigAccepted(path[n])
          /\ \E k \in DOMAIN Config(path[n]).hints : Config(path[n]).hints[k] = path[n + 1]
    /\ \A m, n \in DOMAIN path : path[m] = path[n] => m = n

\* Such a path that ends at a trust anchor.
Found(path) == Trail(path) /\ ConfigAccepted(LastOf(path)) /\ LastOf(path) \in Anchors
AllFound(s) == s \in Seq(Seq(Entities)) /\ \A n \in DOMAIN s : Found(s[n])

\* A chain the resolution owes the caller.
Returnable(path) == ValidChain(path) /\ ResolvedValue(path) # PolicyError

ChainOk(c) == Returnable(c.path) /\ (\A t \in Exps(c.path) : c.expiresAt <= t) /\ Governed(c.path, c.value)

TaskOk(t, p) ==
    /\ \E st, kids, res : t[p] = [st |-> st, kids |-> kids, res |-> res]
    /\ t[p].st \in {"exploring", "done"} => ConfigAccepted(LastOf(p))
    /\ \A k \in DOMAIN t[p].kids : t[p].kids[k] \in DOMAIN t
    /\ AllFound(t[p].res)

CacheInv == \A e \in Entities : cache[e] = "ok" => ConfigAccepted(e)

TaskInv ==
    /\ task = [p \in DOMAIN task |-> task[p]]
    /\ <<Leaf>> \in DOMAIN task
    /\ \A p \in DOMAIN task : Trail(p) /\ TaskOk(task, p)

\* The statements fetched are accepted ones about the path under validation.
ValidateInv ==
    /\ AllFound(paths)
    /\ stmts \in Seq(Entities \X Entities)
    /\ phase = "discover" => stmts = <<>>
    /\ \A n \in 1 .. Len(stmts) :
          StatementAccepted(Head(paths), n) /\ Config(Head(paths)[n + 1]).endpoint

ReturnedInv == \E T : chains \in Seq(T) /\ \A c \in T : ChainOk(c)

ChainInv == BudgetInv /\ CacheInv /\ TaskInv /\ ValidateInv /\ ReturnedInv

\* The federation stays as it is, and so does what is true of it.
LEMMA SameConfigs ==
  ASSUME fed' = fed
  PROVE  /\ \A e : ConfigAccepted(e)' <=> ConfigAccepted(e)
         /\ \A p : Trail(p)' <=> Trail(p)
         /\ \A p : Found(p)' <=> Found(p)
         /\ \A s : AllFound(s)' <=> AllFound(s)
<1>1. \A e : ConfigAccepted(e)' <=> ConfigAccepted(e)
  BY DEF ConfigAccepted, Config
<1>2. \A p : Trail(p)' <=> Trail(p)
  BY <1>1 DEF Trail, Config
<1>3. \A p : Found(p)' <=> Found(p)
  BY <1>1, <1>2 DEF Found, LastOf
<1>4. \A s : AllFound(s)' <=> AllFound(s)
  BY <1>3 DEF AllFound
<1> QED BY <1>1, <1>2, <1>3, <1>4

LEMMA SameStatements ==
  ASSUME fed' = fed
  PROVE  /\ \A p, n : StatementAccepted(p, n)' <=> StatementAccepted(p, n)
         /\ \A p : Returnable(p)' <=> Returnable(p)
         /\ \A c : ChainOk(c)' <=> ChainOk(c)
<1>1. \A p, n : StatementAccepted(p, n)' <=> StatementAccepted(p, n)
  BY DEF StatementAccepted, Stmt
<1>2. ASSUME NEW p PROVE Returnable(p)' <=> Returnable(p)
  <2>1. ValidChain(p)' <=> ValidChain(p)
    BY DEF ValidChain, ConfigAccepted, AnchorPinned, LastOf, Config, Stmt
  <2>2. ResolvedValue(p)' = ResolvedValue(p)
    BY DEF ResolvedValue, MergedPolicy, Restricted, Config, Stmt
  <2> QED BY <2>1, <2>2 DEF Returnable
<1>3. ASSUME NEW c PROVE ChainOk(c)' <=> ChainOk(c)
  <2>1. Governed(c.path, c.value)' <=> Governed(c.path, c.value)
    BY DEF Governed, Restricted, Stmt
  <2>2. Exps(c.path)' = Exps(c.path)
    BY DEF Exps, Config, Stmt
  <2> QED BY <1>2, <2>1, <2>2 DEF ChainOk
<1> QED BY <1>1, <1>2, <1>3

\* Concatenating found paths.
LEMMA FoundConcat ==
  ASSUME NEW s, NEW t, AllFound(s), AllFound(t)
  PROVE  AllFound(s \o t)
<1>1. s \o t \in Seq(Seq(Entities))
  BY DEF AllFound
<1>2. \A n \in DOMAIN (s \o t) : Found((s \o t)[n])
  BY DEF AllFound
<1> QED BY <1>1, <1>2 DEF AllFound

LEMMA FoundTail ==
  ASSUME NEW s, AllFound(s), s # <<>>
  PROVE  AllFound(Tail(s)) /\ Found(Head(s))
<1>1. Tail(s) \in Seq(Seq(Entities)) /\ Head(s) = s[1] /\ 1 \in DOMAIN s
  BY DEF AllFound
<1>2. \A n \in DOMAIN Tail(s) : n + 1 \in DOMAIN s /\ Tail(s)[n] = s[n + 1]
  BY DEF AllFound
<1> QED BY <1>1, <1>2 DEF AllFound

\* What the call for the n-th hint adds to the results of discover().
Part(path, n) ==
    LET kids == task[path].kids
    IN  IF n \in DOMAIN kids /\ task[kids[n]].st = "done" THEN task[kids[n]].res ELSE <<>>

\* The results of the calls are put together one after another.
LEMMA ResultsUnfold ==
  ASSUME NEW path, Len(Hints(path)) \in Nat
  PROVE  \E cat : /\ ResultsOf(path) = cat[Len(Hints(path))] /\ cat[0] = <<>>
                  /\ \A n \in 1 .. Len(Hints(path)) : cat[n] = cat[n - 1] \o Part(path, n)
<1> DEFINE last == Len(Hints(path))
           part(n) == Part(path, n)
           cat[n \in 0 .. last] == IF n = 0 THEN <<>> ELSE cat[n - 1] \o part(n)
<1>4. ResultsOf(path) = cat[last]
  BY DEF ResultsOf, Hints, Part
<1>1. last \in Nat
  OBVIOUS
<1> HIDE DEF last, part
<1> DEFINE Body(n, f) == IF n = 0 THEN <<>> ELSE f[n - 1] \o part(n)
           Upto(m, f) == f = [n \in 0 .. last |-> f[n]] /\ \A n \in 0 .. last : n <= m => f[n] = Body(n, f)
           S == {m \in Nat : \E f : Upto(m, f)}
<1>5. 0 \in S
  <2> DEFINE f == [n \in 0 .. last |-> <<>>]
  <2>1. Upto(0, f)
    BY <1>1
  <2> QED BY <2>1
<1>6. ASSUME NEW m \in S PROVE m + 1 \in S
  <2>1. PICK f : Upto(m, f)
    OBVIOUS
  <2> DEFINE g == [n \in 0 .. last |-> IF n <= m THEN f[n] ELSE Body(n, f)]
  <2>2. ASSUME NEW n \in 0 .. last, n <= m + 1 PROVE g[n] = Body(n, g)
    <3>1. g[n] = Body(n, f)
      <4> HIDE DEF Body
      <4>1. n <= m => f[n] = Body(n, f)
        BY <2>1
      <4> QED BY <4>1
    <3>2. CASE n # 0
      <4>1. n - 1 \in 0 .. last /\ n - 1 <= m
        BY <1>1, <2>2, <3>2
      <4>2. g[n - 1] = f[n - 1]
        BY <4>1
      <4> HIDE DEF g
      <4> QED BY <3>1, <4>2
    <3>3. CASE n = 0
      <4> HIDE DEF g
      <4> QED BY <3>1, <3>3
    <3> QED BY <3>2, <3>3
  <2>3. Upto(m + 1, g)
    <3>1. g = [n \in 0 .. last |-> g[n]]
      OBVIOUS
    <3> HIDE DEF g, Body
    <3> QED BY <2>2, <3>1
  <2> HIDE DEF g, Upto
  <2>4. \E h : Upto(m + 1, h)
    BY <2>3
  <2> QED BY <2>4
<1>7. last \in S
  <2>1. S \subseteq Nat
    OBVIOUS
  <2> HIDE DEF S
  <2> QED BY <1>1, <1>5, <1>6, <2>1, SetInduction
<1>8. \E f : f = [n \in 0 .. last |-> Body(n, f)]
  <2>1. PICK f : Upto(last, f)
    BY <1>7
  <2> HIDE DEF Body
  <2>2. \A n \in 0 .. last : f[n] = Body(n, f)
    <3>1. \A n \in 0 .. last : n <= last
      BY <1>1
    <3> QED BY <2>1, <3>1
  <2>3. f = [n \in 0 .. last |-> Body(n, f)]
    BY <2>1, <2>2
  <2> QED BY <2>3
<1>9. cat = [n \in 0 .. last |-> Body(n, cat)]
  BY <1>8
<1> HIDE DEF cat, S
<1>10. cat[0] = <<>>
  BY <1>1, <1>9
<1>11. ASSUME NEW n \in 1 .. last PROVE cat[n] = cat[n - 1] \o part(n)
  <2>1. n \in 0 .. last /\ n # 0
    BY <1>1
  <2> QED BY <1>9, <2>1
<1> QED BY <1>4, <1>10, <1>11 DEF last, part

LEMMA PartFound ==
  ASSUME TaskInv, NEW path \in DOMAIN task, NEW n
  PROVE  AllFound(Part(path, n))
<1> DEFINE kids == task[path].kids
<1>1. AllFound(<<>>)
  BY DEF AllFound
<1>2. n \in DOMAIN kids => AllFound(task[kids[n]].res)
  BY DEF TaskInv, TaskOk
<1> QED BY <1>1, <1>2 DEF Part

LEMMA HintsCounted ==
  ASSUME BudgetInv, TaskInv, NEW path \in DOMAIN task
  PROVE  Len(Hints(path)) \in Nat
<1>1. path \in Seq(Entities) /\ path # <<>>
  BY DEF TaskInv, Trail
<1>2. LastOf(path) \in Entities
  BY <1>1 DEF LastOf
<1> QED BY <1>2, FederationAssumption DEF Config, BudgetInv, Hints

\* What discover() returns from its superiors' calls are paths to anchors.
LEMMA ResultsFound ==
  ASSUME BudgetInv, TaskInv, NEW path \in DOMAIN task
  PROVE  AllFound(ResultsOf(path))
<1> DEFINE last == Len(Hints(path))
<1>1. last \in Nat
  BY HintsCounted
<1>2. PICK cat : /\ ResultsOf(path) = cat[last] /\ cat[0] = <<>>
                 /\ \A n \in 1 .. last : cat[n] = cat[n - 1] \o Part(path, n)
  BY <1>1, ResultsUnfold
<1> HIDE DEF last
<1> DEFINE T == {n \in Nat : n <= last => AllFound(cat[n])}
<1>3. 0 \in T
  <2>1. AllFound(<<>>)
    BY DEF AllFound
  <2> QED BY <1>2, <2>1
<1>4. ASSUME NEW n \in T PROVE n + 1 \in T
  <2> SUFFICES ASSUME n + 1 <= last PROVE AllFound(cat[n + 1])
    OBVIOUS
  <2>1. AllFound(cat[n]) /\ AllFound(Part(path, n + 1))
    BY <1>1, PartFound
  <2>2. n + 1 \in 1 .. last /\ (n + 1) - 1 = n
    BY <1>1
  <2> QED BY <1>2, <2>1, <2>2, FoundConcat
<1>5. last \in T
  <2>1. T \subseteq Nat
    OBVIOUS
  <2> HIDE DEF T
  <2> QED BY <1>1, <1>3, <1>4, <2>1, SetInduction
<1> QED BY <1>1, <1>2, <1>5

LEMMA InConcat ==
  ASSUME NEW S, NEW s \in Seq(S), NEW t \in Seq(S)
  PROVE  /\ \A j \in DOMAIN s : j \in DOMAIN (s \o t) /\ (s \o t)[j] = s[j]
         /\ \A i \in DOMAIN t : Len(s) + i \in DOMAIN (s \o t) /\ (s \o t)[Len(s) + i] = t[i]
OBVIOUS

\* Nothing that a call found is left out.
LEMMA ResultsHold ==
  ASSUME BudgetInv, TaskInv, NEW path \in DOMAIN task,
         NEW k \in DOMAIN task[path].kids, k \in 1 .. Len(Hints(path)),
         task[task[path].kids[k]].st = "done", NEW i \in DOMAIN task[task[path].kids[k]].res
  PROVE  \E j \in DOMAIN ResultsOf(path) : ResultsOf(path)[j] = task[task[path].kids[k]].res[i]
<1> DEFINE last == Len(Hints(path))
           x == task[task[path].kids[k]].res[i]
<1>1. last \in Nat
  BY HintsCounted
<1>2. PICK cat : /\ ResultsOf(path) = cat[last] /\ cat[0] = <<>>
                 /\ \A n \in 1 .. last : cat[n] = cat[n - 1] \o Part(path, n)
  BY <1>1, ResultsUnfold
<1>3. Part(path, k) = task[task[path].kids[k]].res
  BY DEF Part
<1>4. i \in DOMAIN Part(path, k) /\ Part(path, k)[i] = x
  BY <1>3
<1>5. \A n : AllFound(Part(path, n))
  BY PartFound
<1>6. k \in 1 .. last
  OBVIOUS
<1> HIDE DEF last, x
<1> DEFINE T == {n \in Nat : n <= last => /\ AllFound(cat[n])
                                          /\ k <= n => \E j \in DOMAIN cat[n] : cat[n][j] = x}
<1>7. 0 \in T
  <2>1. AllFound(<<>>)
    BY DEF AllFound
  <2>2. AllFound(cat[0]) /\ ~(k <= 0)
    BY <1>2, <1>6, <2>1
  <2> QED BY <2>2
<1>8. ASSUME NEW n \in T PROVE n + 1 \in T
  <2> SUFFICES ASSUME n + 1 <= last
               PROVE  AllFound(cat[n + 1]) /\ (k <= n + 1 => \E j \in DOMAIN cat[n + 1] : cat[n + 1][j] = x)
    OBVIOUS
  <2>1. n + 1 \in 1 .. last /\ (n + 1) - 1 = n /\ n <= last
    BY <1>1
  <2>2. AllFound(cat[n]) /\ (k <= n => \E j \in DOMAIN cat[n] : cat[n][j] = x)
    BY <2>1
  <2>3. cat[n + 1] = cat[n] \o Part(path, n + 1)
    BY <1>2, <2>1
  <2>4. AllFound(cat[n + 1])
    BY <1>5, <2>2, <2>3, FoundConcat
  <2>5. cat[n] \in Seq(Seq(Entities)) /\ Part(path, n + 1) \in Seq(Seq(Entities))
    BY <1>5, <2>2 DEF AllFound
  <2> DEFINE a == cat[n]
             b == Part(path, n + 1)
  <2>9. /\ \A j \in DOMAIN a : j \in DOMAIN (a \o b) /\ (a \o b)[j] = a[j]
        /\ \A j \in DOMAIN b : Len(a) + j \in DOMAIN (a \o b) /\ (a \o b)[Len(a) + j] = b[j]
    <3>1. a \in Seq(Seq(Entities)) /\ b \in Seq(Seq(Entities))
      BY <2>5
    <3> HIDE DEF a, b
    <3> QED BY <3>1, InConcat
  <2>6. CASE k <= n
    <3>1. PICK j \in DOMAIN cat[n] : cat[n][j] = x
      BY <2>2, <2>6
    <3>2. j \in DOMAIN cat[n + 1] /\ cat[n + 1][j] = cat[n][j]
      BY <2>3, <2>9
    <3> QED BY <2>4, <3>1, <3>2
  <2>7. CASE k = n + 1
    <3> DEFINE j == Len(cat[n]) + i
    <3>1. i \in DOMAIN Part(path, n + 1) /\ Part(path, n + 1)[i] = x
      BY <1>4, <2>7
    <3>2. j \in DOMAIN cat[n + 1] /\ cat[n + 1][j] = Part(path, n + 1)[i]
      BY <2>3, <2>9, <3>1
    <3> QED BY <2>4, <3>1, <3>2
  <2>8. k <= n + 1 => k <= n \/ k = n + 1
    BY <1>6
  <2> QED BY <2>4, <2>6, <2>7, <2>8
<1>9. last \in T
  <2>1. T \subseteq Nat
    OBVIOUS
  <2> HIDE DEF T
  <2> QED BY <1>1, <1>7, <1>8, <2>1, SetInduction
<1>10. last <= last /\ k <= last
  BY <1>1, <1>6
<1> QED BY <1>2, <1>9, <1>10 DEF x

\* A hint of an accepted last entity extends the path it is not yet on.
LEMMA TrailGrows ==
  ASSUME NEW path, NEW sup \in Entities, Trail(path), ConfigAccepted(LastOf(path)),
         \E k \in DOMAIN Hints(path) : Hints(path)[k] = sup,
         \A m \in DOMAIN path : path[m] # sup
  PROVE  Trail(Append(path, sup))
<1> DEFINE q == Append(path, sup)
<1>1. /\ path \in Seq(Entities) /\ path # <<>> /\ Len(path) \in Nat /\ Len(path) > 0
      /\ q \in Seq(Entities) /\ q # <<>> /\ Len(q) = Len(path) + 1
      /\ q[Len(path) + 1] = sup /\ \A n \in 1 .. Len(path) : q[n] = path[n]
  BY DEF Trail
<1>2. LastOf(path) = path[Len(path)]
  BY DEF LastOf
<1> HIDE DEF q
<1>3. ASSUME NEW n \in 1 .. Len(q) - 1
      PROVE  /\ ConfigAccepted(q[n])
             /\ \E k \in DOMAIN Config(q[n]).hints : Config(q[n]).hints[k] = q[n + 1]
  <2>1. CASE n = Len(path)
    <3>1. q[n] = LastOf(path) /\ q[n + 1] = sup
      BY <1>1, <1>2, <2>1
    <3> QED BY <3>1 DEF Hints
  <2>2. CASE n # Len(path)
    <3>1. n \in 1 .. Len(path) - 1 /\ q[n] = path[n] /\ q[n + 1] = path[n + 1]
      BY <1>1, <2>2
    <3> QED BY <3>1 DEF Trail
  <2> QED BY <2>1, <2>2
<1>4. ASSUME NEW m \in DOMAIN q, NEW n \in DOMAIN q, q[m] = q[n] PROVE m = n
  <2>1. DOMAIN q = 1 .. Len(path) + 1 /\ DOMAIN path = 1 .. Len(path)
    BY <1>1
  <2>2. m \in DOMAIN path => q[m] = path[m] /\ q[m] # sup
    BY <1>1, <2>1
  <2>3. n \in DOMAIN path => q[n] = path[n] /\ q[n] # sup
    BY <1>1, <2>1
  <2>4. m \notin DOMAIN path => m = Len(path) + 1 /\ q[m] = sup
    BY <1>1, <2>1
  <2>5. n \notin DOMAIN path => n = Len(path) + 1 /\ q[n] = sup
    BY <1>1, <2>1
  <2>6. m \in DOMAIN path /\ n \in DOMAIN path => m = n
    BY <1>4, <2>2, <2>3 DEF Trail
  <2> QED BY <1>4, <2>2, <2>3, <2>4, <2>5, <2>6
<1> QED BY <1>1, <1>3, <1>4 DEF q, Trail

\* One task replaced by another whose results are found paths.
LEMMA TaskReplaced ==
  ASSUME TaskInv, NEW path \in DOMAIN task, NEW st, NEW kids, NEW res,
         task' = [p \in DOMAIN task |->
                    IF p = path THEN [st |-> st, kids |-> kids, res |-> res] ELSE task[p]],
         st \in {"exploring", "done"} => ConfigAccepted(LastOf(path)),
         \A k \in DOMAIN kids : kids[k] \in DOMAIN task, AllFound(res), fed' = fed
  PROVE  TaskInv'
<1>1. DOMAIN task' = DOMAIN task /\ task' = [p \in DOMAIN task' |-> task'[p]]
  OBVIOUS
<1>2. ASSUME NEW p \in DOMAIN task PROVE TaskOk(task', p)
  <2>1. CASE p = path
    <3> DEFINE t == [st |-> st, kids |-> kids, res |-> res]
    <3>1. task'[p] = t /\ t.st = st /\ t.kids = kids /\ t.res = res
      BY <2>1
    <3>2. \E s, k, r : t = [st |-> s, kids |-> k, res |-> r]
      OBVIOUS
    <3> HIDE DEF t
    <3> QED BY <1>1, <2>1, <3>1, <3>2 DEF TaskOk
  <2>2. CASE p # path
    <3>1. task'[p] = task[p]
      BY <2>2
    <3>2. TaskOk(task, p)
      BY DEF TaskInv
    <3> QED BY <1>1, <3>1, <3>2 DEF TaskOk
  <2> QED BY <2>1, <2>2
<1>3. \A p \in DOMAIN task : Trail(p)'
  BY SameConfigs DEF TaskInv
<1>4. \A p \in DOMAIN task' : Trail(p)' /\ TaskOk(task, p)'
  BY <1>1, <1>2, <1>3, SameConfigs DEF TaskOk, LastOf
<1> QED BY <1>1, <1>4 DEF TaskInv

\* The calls for the superiors of an accepted entity follow its hints.
LEMMA SpawnKeepsTasks ==
  ASSUME BudgetInv, TaskInv, NEW path \in DOMAIN task, ConfigAccepted(LastOf(path)),
         Spawn(path, Followed(path)), fed' = fed
  PROVE  TaskInv'
<1> DEFINE sups == Followed(path)
           kids == [k \in DOMAIN sups |-> Append(path, sups[k])]
           exploring == [st |-> "exploring", kids |-> kids, res |-> <<>>]
           status(p) == IF Visited(sups, CHOOSE k \in DOMAIN kids : kids[k] = p) THEN "waiting" ELSE "failed"
           called(p) == [st |-> status(p), kids |-> <<>>, res |-> <<>>]
           D == DOMAIN task \cup {path} \cup {kids[k] : k \in DOMAIN kids}
<1>1. task' = [p \in D |-> IF p = path THEN exploring ELSE IF p \in DOMAIN task THEN task[p] ELSE called(p)]
  BY DEF Spawn
<1>2. Trail(path) /\ path \in Seq(Entities) /\ path # <<>>
  BY DEF TaskInv, Trail
<1>3. \A k \in DOMAIN sups : sups[k] \in Entities /\ k \in DOMAIN Hints(path) /\ Hints(path)[k] = sups[k]
                             /\ \A m \in DOMAIN path : path[m] # sups[k]
  <2>1. DOMAIN sups \subseteq 1 .. Len(Hints(path)) /\ Hints(path) \in Seq(Entities)
    BY <1>2, FollowedHints DEF BudgetInv
  <2>2. DOMAIN Hints(path) = 1 .. Len(Hints(path))
    BY <2>1
  <2> QED BY <1>2, <2>1, <2>2, FollowedHints DEF BudgetInv
<1> HIDE DEF sups
<1>4. \A k \in DOMAIN kids : kids[k] = Append(path, sups[k]) /\ k \in DOMAIN sups
  OBVIOUS
<1>5. \A k \in DOMAIN kids : Trail(kids[k])
  BY <1>2, <1>3, <1>4, TrailGrows
<1>6. /\ exploring.st = "exploring" /\ exploring.kids = kids /\ exploring.res = <<>>
      /\ \E st, ks, res : exploring = [st |-> st, kids |-> ks, res |-> res]
  OBVIOUS
<1>7. ASSUME NEW p
      PROVE  /\ called(p).st = status(p) /\ called(p).kids = <<>> /\ called(p).res = <<>>
             /\ \E st, ks, res : called(p) = [st |-> st, kids |-> ks, res |-> res]
             /\ called(p).st \notin {"exploring", "done"}
  OBVIOUS
<1> HIDE DEF exploring, called
<1>8. DOMAIN task' = D /\ task' = [p \in DOMAIN task' |-> task'[p]]
  BY <1>1
<1>9. \A k \in DOMAIN kids : kids[k] \in D
  OBVIOUS
<1> HIDE DEF kids
<1>10. AllFound(<<>>)
  BY DEF AllFound
<1>11. ASSUME NEW p \in D PROVE Trail(p) /\ TaskOk(task', p)
  <2>1. CASE p = path
    <3>1. task'[p] = exploring
      BY <1>1, <2>1
    <3> QED BY <1>2, <1>6, <1>8, <1>9, <1>10, <2>1, <3>1 DEF TaskOk
  <2>2. CASE p # path /\ p \in DOMAIN task
    <3>1. task'[p] = task[p]
      BY <1>1, <2>2
    <3>2. TaskOk(task, p) /\ Trail(p)
      BY <2>2 DEF TaskInv
    <3> QED BY <1>8, <3>1, <3>2 DEF TaskOk
  <2>3. CASE p # path /\ p \notin DOMAIN task
    <3>1. task'[p] = called(p)
      BY <1>1, <2>3
    <3>2. PICK k \in DOMAIN kids : p = kids[k]
      BY <2>3
    <3>3. \A x : x \notin DOMAIN <<>>
      OBVIOUS
    <3> QED BY <1>5, <1>7, <1>10, <3>1, <3>2, <3>3 DEF TaskOk
  <2> QED BY <2>1, <2>2, <2>3
<1>12. \A p \in DOMAIN task' : Trail(p)' /\ TaskOk(task, p)'
  BY <1>8, <1>11, SameConfigs DEF TaskOk, LastOf
<1>13. <<Leaf>> \in DOMAIN task'
  BY <1>8 DEF TaskInv
<1> QED BY <1>8, <1>12, <1>13 DEF TaskInv

LEMMA DiscoverKeepsTasks ==
  ASSUME BudgetInv, CacheInv, TaskInv, NEW path \in DOMAIN task, Discover(path)
  PROVE  CacheInv' /\ TaskInv'
<1>1. fed' = fed /\ LastOf(path) \in Entities
  BY DEF Discover, TaskInv, Trail, LastOf
<1>2. CASE Spawn(path, Followed(path)) /\ cache[LastOf(path)] = "ok"
  <2>1. TaskInv'
    BY <1>1, <1>2, SpawnKeepsTasks DEF CacheInv
  <2>2. \A e \in Entities : cache'[e] = "ok" => cache[e] = "ok"
    BY <1>2 DEF Spawn
  <2> QED BY <1>1, <2>1, <2>2, SameConfigs DEF CacheInv
<1>3. CASE task' = [task EXCEPT ![path].st = "failed"] /\ cache' = cache
  <2>1. CacheInv'
    BY <1>1, <1>3, SameConfigs DEF CacheInv
  <2>2. PICK st, kids, res : task[path] = [st |-> st, kids |-> kids, res |-> res]
    BY DEF TaskInv, TaskOk
  <2>3. task' = [p \in DOMAIN task |-> IF p = path THEN [st |-> "failed", kids |-> kids, res |-> res] ELSE task[p]]
    <3> DEFINE old == [st |-> st, kids |-> kids, res |-> res]
               new == [st |-> "failed", kids |-> kids, res |-> res]
    <3>1. [old EXCEPT !.st = "failed"] = new
      OBVIOUS
    <3>2. task[path] = old
      BY <2>2
    <3> HIDE DEF old, new
    <3>3. task' = [task EXCEPT ![path] = new]
      BY <1>3, <3>1, <3>2
    <3>4. task' = [p \in DOMAIN task |-> IF p = path THEN new ELSE task[p]]
      BY <3>3, Zenon DEF TaskInv
    <3> QED BY <3>4 DEF new
  <2>4. (\A k \in DOMAIN kids : kids[k] \in DOMAIN task) /\ AllFound(res)
    BY <2>2 DEF TaskInv, TaskOk
  <2>5. TaskInv'
    BY <1>1, <2>3, <2>4, TaskReplaced
  <2> QED BY <2>1, <2>5
<1> QED BY <1>2, <1>3 DEF Discover

LEMMA CollectKeepsTasks ==
  ASSUME BudgetInv, CacheInv, TaskInv, NEW path \in DOMAIN task, Collect(path)
  PROVE  CacheInv' /\ TaskInv'
<1> DEFINE found == (IF LastOf(path) \in Anchors THEN <<path>> ELSE <<>>) \o ResultsOf(path)
<1>1. /\ fed' = fed /\ cache' = cache /\ task[path].st = "exploring"
      /\ task' = [task EXCEPT ![path].st = "done", ![path].res = found]
  BY DEF Collect
<1>2. CacheInv'
  BY <1>1, SameConfigs DEF CacheInv
<1>3. Trail(path) /\ ConfigAccepted(LastOf(path)) /\ path \in Seq(Entities)
  BY <1>1 DEF TaskInv, TaskOk, Trail
<1>4. AllFound(found)
  <2>1. AllFound(<<>>)
    BY DEF AllFound
  <2>2. LastOf(path) \in Anchors => AllFound(<<path>>)
    BY <1>3 DEF AllFound, Found
  <2> QED BY <2>1, <2>2, ResultsFound, FoundConcat
<1> HIDE DEF found
<1>5. PICK st, kids, res : task[path] = [st |-> st, kids |-> kids, res |-> res]
  BY DEF TaskInv, TaskOk
<1>6. task' = [p \in DOMAIN task |-> IF p = path THEN [st |-> "done", kids |-> kids, res |-> found] ELSE task[p]]
  <2> DEFINE old == [st |-> st, kids |-> kids, res |-> res]
             one == [st |-> "done", kids |-> kids, res |-> res]
             new == [st |-> "done", kids |-> kids, res |-> found]
  <2>1. [old EXCEPT !.st = "done"] = one /\ [one EXCEPT !.res = found] = new
    OBVIOUS
  <2>2. task[path] = old
    BY <1>5
  <2> HIDE DEF old, one, new
  <2>3. task' = [task EXCEPT ![path] = [[old EXCEPT !.st = "done"] EXCEPT !.res = found]]
    BY <1>1, <2>2
  <2>4. task' = [task EXCEPT ![path] = new]
    BY <2>1, <2>3
  <2>5. task' = [p \in DOMAIN task |-> IF p = path THEN new ELSE task[p]]
    BY <2>4, Zenon DEF TaskInv
  <2> QED BY <2>5 DEF new
<1>7. \A k \in DOMAIN kids : kids[k] \in DOMAIN task
  BY <1>5 DEF TaskInv, TaskOk
<1>8. TaskInv'
  <2>1. fed' = fed /\ ("done" \in {"exploring", "done"} => ConfigAccepted(LastOf(path)))
    BY <1>1, <1>3
  <2> QED BY <1>4, <1>6, <1>7, <2>1, TaskReplaced
<1> QED BY <1>2, <1>8

LEMMA NextKeepsTasks ==
  ASSUME BudgetInv, CacheInv, TaskInv, [Next]_vars
  PROVE  CacheInv' /\ TaskInv' /\ fed' = fed
<1>0. ASSUME UNCHANGED <<fed, task>>, cache' = cache PROVE CacheInv' /\ TaskInv' /\ fed' = fed
  <2>1. CacheInv'
    BY <1>0, SameConfigs DEF CacheInv
  <2>2. \A p \in DOMAIN task' : Trail(p)' /\ TaskOk(task, p)'
    BY <1>0, SameConfigs DEF TaskInv, TaskOk, LastOf
  <2> QED BY <1>0, <2>1, <2>2 DEF TaskInv
<1>1. ASSUME NEW e \in Entities, ConfigSettles(e) PROVE CacheInv' /\ TaskInv' /\ fed' = fed
  <2>1. UNCHANGED <<fed, task>>
    BY <1>1 DEF ConfigSettles
  <2>2. \A p \in DOMAIN task' : Trail(p)' /\ TaskOk(task, p)'
    BY <2>1, SameConfigs DEF TaskInv, TaskOk, LastOf
  <2>3. \A x \in Entities : cache'[x] = "ok" => ConfigAccepted(x)
    BY <1>1 DEF ConfigSettles, CacheInv, BudgetInv
  <2>4. CacheInv'
    BY <2>1, <2>3, SameConfigs DEF CacheInv
  <2> QED BY <2>1, <2>2, <2>4 DEF TaskInv
<1>2. ASSUME NEW path \in DOMAIN task, Discover(path) PROVE CacheInv' /\ TaskInv' /\ fed' = fed
  BY <1>2, DiscoverKeepsTasks DEF Discover
<1>3. ASSUME NEW path \in DOMAIN task, Collect(path) PROVE CacheInv' /\ TaskInv' /\ fed' = fed
  BY <1>3, CollectKeepsTasks DEF Collect
<1>4. ASSUME Discovered PROVE CacheInv' /\ TaskInv' /\ fed' = fed
  BY <1>0, <1>4 DEF Discovered
<1>5. ASSUME FetchStatement PROVE CacheInv' /\ TaskInv' /\ fed' = fed
  BY <1>0, <1>5 DEF FetchStatement
<1>6. ASSUME FinishPath PROVE CacheInv' /\ TaskInv' /\ fed' = fed
  BY <1>0, <1>6 DEF FinishPath
<1>7. ASSUME Validated PROVE CacheInv' /\ TaskInv' /\ fed' = fed
  BY <1>0, <1>7 DEF Validated
<1>8. ASSUME UNCHANGED vars PROVE CacheInv' /\ TaskInv' /\ fed' = fed
  BY <1>0, <1>8 DEF vars
<1> QED BY <1>1, <1>2, <1>3, <1>4, <1>5, <1>6, <1>7, <1>8 DEF Next, Finished

\* Each statement fetched passed the checks on it.
LEMMA NextKeepsStatements ==
  ASSUME TaskInv, ValidateInv, [Next]_vars
  PROVE  ValidateInv'
<1>0. ASSUME UNCHANGED <<fed, paths, stmts>>, phase' = "discover" => phase = "discover" PROVE ValidateInv'
  BY <1>0, SameConfigs, SameStatements DEF ValidateInv, Config
<1>1. ASSUME PathFails \/ (paths' = Tail(paths) /\ stmts' = <<>>), paths # <<>>, fed' = fed PROVE ValidateInv'
  <2>1. paths' = Tail(paths) /\ stmts' = <<>>
    BY <1>1 DEF PathFails
  <2>2. AllFound(Tail(paths))
    BY <1>1, FoundTail DEF ValidateInv
  <2>3. stmts' \in Seq(Entities \X Entities) /\ 1 .. Len(stmts') = {}
    BY <2>1
  <2> QED BY <1>1, <2>1, <2>2, <2>3, SameConfigs DEF ValidateInv
<1>2. ASSUME Discovered PROVE ValidateInv'
  <2>1. fed' = fed /\ stmts' = stmts /\ stmts = <<>> /\ phase' # "discover"
    BY <1>2 DEF Discovered, ValidateInv
  <2>2. AllFound(paths')
    BY <1>2 DEF Discovered, ValidateInv, TaskInv, TaskOk
  <2>3. 1 .. Len(stmts') = {}
    BY <2>1
  <2> QED BY <2>1, <2>2, <2>3, SameConfigs DEF ValidateInv
<1>3. ASSUME FetchStatement PROVE ValidateInv'
  <2> DEFINE path == Head(paths)
             n == Len(stmts) + 1
  <2>1. fed' = fed /\ paths # <<>> /\ phase' = "validate" /\ n < Len(path)
    BY <1>3 DEF FetchStatement
  <2>2. CASE PathFails
    BY <1>1, <2>1, <2>2
  <2>3. CASE ~PathFails
    <3>1. StatementAccepted(path, n) /\ Config(path[n + 1]).endpoint
          /\ stmts' = Append(stmts, <<path[n + 1], path[n]>>) /\ paths' = paths
      BY <1>3, <2>3 DEF FetchStatement
    <3>2. Found(path) /\ path \in Seq(Entities) /\ stmts \in Seq(Entities \X Entities)
      BY <2>1, FoundTail DEF ValidateInv, Found, Trail
    <3> HIDE DEF path
    <3>3. <<path[n + 1], path[n]>> \in Entities \X Entities
      BY <2>1, <3>2
    <3>4. stmts' \in Seq(Entities \X Entities) /\ Len(stmts') = n
      BY <3>1, <3>2, <3>3
    <3>5. \A i \in 1 .. Len(stmts') : i \in 1 .. Len(stmts) \/ i = n
      BY <3>2, <3>4
    <3>6. \A i \in 1 .. Len(stmts) : StatementAccepted(path, i) /\ Config(path[i + 1]).endpoint
      BY DEF ValidateInv, path
    <3>7. \A i \in 1 .. Len(stmts') : StatementAccepted(path, i) /\ Config(path[i + 1]).endpoint
      BY <3>1, <3>5, <3>6
    <3>8. \A i : StatementAccepted(path, i) => StatementAccepted(path, i)'
      BY <2>1, <3>1 DEF StatementAccepted, Stmt, path
    <3>9. \A i \in 1 .. Len(stmts') : StatementAccepted(Head(paths), i)' /\ (Config(Head(paths)[i + 1]).endpoint)'
      BY <2>1, <3>1, <3>7, <3>8 DEF Config, path
    <3>10. AllFound(paths)'
      BY <2>1, <3>1, SameConfigs DEF ValidateInv
    <3> QED BY <2>1, <3>1, <3>4, <3>9, <3>10 DEF ValidateInv
  <2> QED BY <2>2, <2>3
<1>4. ASSUME FinishPath PROVE ValidateInv'
  <2>1. fed' = fed /\ paths # <<>> /\ (PathFails \/ (paths' = Tail(paths) /\ stmts' = <<>>))
    BY <1>4 DEF FinishPath
  <2> QED BY <1>1, <2>1
<1>5. ASSUME Validated PROVE ValidateInv'
  BY <1>0, <1>5 DEF Validated
<1>6. ASSUME NEW e \in Entities, ConfigSettles(e) PROVE ValidateInv'
  BY <1>0, <1>6 DEF ConfigSettles
<1>7. ASSUME NEW path \in DOMAIN task, Discover(path) \/ Collect(path) PROVE ValidateInv'
  BY <1>0, <1>7 DEF Discover, Collect
<1>8. ASSUME UNCHANGED vars PROVE ValidateInv'
  BY <1>0, <1>8 DEF vars
<1> QED BY <1>2, <1>3, <1>4, <1>5, <1>6, <1>7, <1>8 DEF Next, Finished

\* A path whose statements are all accepted and signed in turn is a valid chain.
LEMMA FinishedPathValid ==
  ASSUME NEW path, Found(path), AnchorPinned(path), SignaturesChain(path),
         \A n \in 1 .. Len(path) - 1 : StatementAccepted(path, n) /\ Config(path[n + 1]).endpoint
  PROVE  ValidChain(path)
<1>1. path \in Seq(Entities) /\ path # <<>> /\ Len(path) \in Nat /\ Len(path) > 0 /\ DOMAIN path = 1 .. Len(path)
  BY DEF Found, Trail
<1>2. ASSUME NEW n \in DOMAIN path PROVE ConfigAccepted(path[n])
  <2>1. n = Len(path) \/ n \in 1 .. Len(path) - 1
    BY <1>1
  <2> QED BY <2>1 DEF Found, Trail, LastOf
<1>3. ASSUME NEW n \in 1 .. Len(path) - 1
      PROVE  Stmt(path[n + 1], path[n]).by \in (IF n + 1 = Len(path) THEN Config(path[n + 1]).keys
                                                ELSE Stmt(path[n + 2], path[n + 1]).keys)
  <2>1. n + 1 \in 1 .. Len(path) /\ n + 1 # 1 /\ (n + 1) + 1 = n + 2 /\ (n + 1) - 1 = n /\ Len(path) # 1
    BY <1>1
  <2>2. SignerOf(path, n + 1) \in KeysListedAbove(path, n + 1)
    BY <2>1 DEF SignaturesChain
  <2>3. SignerOf(path, n + 1) = Stmt(path[n + 1], path[n]).by
    BY <2>1 DEF SignerOf
  <2>4. KeysListedAbove(path, n + 1) = IF n + 1 = Len(path) THEN Config(path[n + 1]).keys
                                        ELSE Stmt(path[n + 2], path[n + 1]).keys
    BY <2>1 DEF KeysListedAbove, LastOf
  <2> QED BY <2>2, <2>3, <2>4
<1>4. Len(path) > 1 => Config(path[1]).by \in Stmt(path[2], path[1]).keys
  <2> SUFFICES ASSUME Len(path) > 1 PROVE Config(path[1]).by \in Stmt(path[2], path[1]).keys
    OBVIOUS
  <2>1. SignerOf(path, 1) \in KeysListedAbove(path, 1)
    BY <1>1 DEF SignaturesChain
  <2>2. KeysListedAbove(path, 1) = Stmt(path[2], path[1]).keys
    <3>1. 1 # Len(path) /\ 1 + 1 = 2
      BY <1>1
    <3> QED BY <3>1 DEF KeysListedAbove
  <2> QED BY <2>1, <2>2 DEF SignerOf
<1>5. ASSUME NEW n \in 1 .. Len(path) - 1
      PROVE  LET s == Stmt(path[n + 1], path[n])
             IN  /\ \E k \in DOMAIN Config(path[n]).hints : Config(path[n]).hints[k] = path[n + 1]
                 /\ Config(path[n + 1]).endpoint
                 /\ s.matches /\ s.sound /\ ~s.naming
                 /\ s.maxPath # NoLimit => n - 1 <= s.maxPath
  BY DEF Found, Trail, StatementAccepted
<1>6. LastOf(path) \in Anchors /\ \A m, n \in DOMAIN path : path[m] = path[n] => m = n
  BY DEF Found, Trail
<1> QED BY <1>2, <1>3, <1>4, <1>5, <1>6 DEF ValidChain

\* The expiry of a chain is that of the first of its statements to expire.
LEMMA EarliestIsFirst ==
  ASSUME fed \in Federations, NEW path \in Seq(Entities), path # <<>>
  PROVE  \A t \in Exps(path) : Earliest(Exps(path)) <= t
<1>1. \A e \in Entities : Config(e).exp \in Nat /\ \A sub \in Entities : Stmt(e, sub).exp \in Nat
  BY FederationAssumption DEF Config, Stmt
<1>2. \A n \in DOMAIN path : path[n] \in Entities
  OBVIOUS
<1>3. \A n \in 1 .. Len(path) - 1 : n \in DOMAIN path /\ n + 1 \in DOMAIN path
  OBVIOUS
<1>4. Exps(path) \subseteq Nat
  BY <1>1, <1>2, <1>3 DEF Exps
<1>5. Config(path[1]).exp \in Exps(path)
  BY DEF Exps
<1>6. \E x \in Exps(path) : \A y \in Exps(path) : x <= y
  BY <1>4, <1>5, LeastNat
<1> QED BY <1>6 DEF Earliest

LEMMA NextKeepsReturned ==
  ASSUME BudgetInv, ValidateInv, ReturnedInv, [Next]_vars
  PROVE  ReturnedInv'
<1>1. PICK T : chains \in Seq(T) /\ \A c \in T : ChainOk(c)
  BY DEF ReturnedInv
<1>2. ASSUME fed' = fed, chains' = chains PROVE ReturnedInv'
  <2>1. chains' \in Seq(T) /\ \A c \in T : ChainOk(c)'
    BY <1>1, <1>2, SameStatements
  <2> QED BY <2>1 DEF ReturnedInv
<1>3. ASSUME FinishPath, chains' # chains PROVE ReturnedInv'
  <2> DEFINE path == Head(paths)
  <2>1. paths # <<>> /\ Len(stmts) = Len(path) - 1 /\ fed' = fed
    BY <1>3 DEF FinishPath
  <2>2. \E value \in {ResolvedValue(path)} :
           /\ AnchorPinned(path) /\ SignaturesChain(path) /\ value # PolicyError
           /\ chains' = Append(chains, [path |-> path, value |-> value, expiresAt |-> Earliest(Exps(path))])
    BY <1>3 DEF FinishPath
  <2>3. PICK value : /\ chains' = Append(chains, [path |-> path, value |-> value, expiresAt |-> Earliest(Exps(path))])
                     /\ value = ResolvedValue(path) /\ value # PolicyError
    BY <2>2
  <2> DEFINE c == [path |-> path, value |-> value, expiresAt |-> Earliest(Exps(path))]
  <2>4. c.path = path /\ c.value = value /\ c.expiresAt = Earliest(Exps(path)) /\ chains' = Append(chains, c)
    BY <2>3
  <2>5. Found(path)
    BY <2>1, FoundTail DEF ValidateInv
  <2>6. \A n \in 1 .. Len(path) - 1 : StatementAccepted(path, n) /\ Config(path[n + 1]).endpoint
    BY <2>1 DEF ValidateInv
  <2> HIDE DEF path, c
  <2>7. ValidChain(path)
    BY <2>2, <2>5, <2>6, FinishedPathValid
  <2>8. \A t \in Exps(path) : Earliest(Exps(path)) <= t
    BY <2>5, EarliestIsFirst DEF Found, Trail, BudgetInv
  <2>9. ChainOk(c)
    <3>1. Governed(path, value)
      BY <2>3, <2>5, ResolvedObeys DEF Found, Trail, BudgetInv
    <3> QED BY <2>3, <2>4, <2>7, <2>8, <3>1 DEF ChainOk, Returnable
  <2>10. \A d \in T \cup {c} : ChainOk(d)'
    BY <1>1, <2>1, <2>9, SameStatements
  <2>11. chains' \in Seq(T \cup {c})
    BY <1>1, <2>4
  <2> QED BY <2>10, <2>11 DEF ReturnedInv
<1>4. fed' = fed /\ (FinishPath \/ chains' = chains)
  BY DEF Next, vars, ConfigSettles, Discover, Collect, Discovered, FetchStatement, FinishPath, Validated, Finished
<1> QED BY <1>2, <1>3, <1>4

LEMMA InitChains == Init => ChainInv
<1> SUFFICES ASSUME Init PROVE ChainInv
  OBVIOUS
<1>1. BudgetInv
  BY InitBudget
<1>2. CacheInv
  BY DEF Init, CacheInv
<1>3. TaskInv
  <2> DEFINE st == IF maxRequests > 0 THEN "waiting" ELSE "failed"
             t == [st |-> st, kids |-> <<>>, res |-> <<>>]
  <2>1. task = [p \in {<<Leaf>>} |-> t]
    BY DEF Init
  <2>2. /\ t.st = st /\ t.kids = <<>> /\ t.res = <<>> /\ t.st \notin {"exploring", "done"}
        /\ \E s, kids, res : t = [st |-> s, kids |-> kids, res |-> res]
    OBVIOUS
  <2> HIDE DEF t
  <2>3. DOMAIN task = {<<Leaf>>} /\ task[<<Leaf>>] = t
    BY <2>1
  <2>4. AllFound(<<>>) /\ \A k : k \notin DOMAIN <<>>
    BY DEF AllFound
  <2>5. TaskOk(task, <<Leaf>>)
    BY <2>2, <2>3, <2>4 DEF TaskOk
  <2>6. Trail(<<Leaf>>)
    BY AnchorAssumption DEF Trail
  <2>7. task = [p \in DOMAIN task |-> task[p]]
    BY <2>1
  <2> QED BY <2>3, <2>5, <2>6, <2>7 DEF TaskInv
<1>4. ValidateInv
  BY DEF Init, ValidateInv, AllFound
<1>5. ReturnedInv
  <2>1. chains \in Seq({})
    BY DEF Init
  <2> QED BY <2>1 DEF ReturnedInv
<1> QED BY <1>1, <1>2, <1>3, <1>4, <1>5 DEF ChainInv

LEMMA ReturnedChainsOk == ReturnedInv => \A k \in DOMAIN chains : ChainOk(chains[k])
<1> SUFFICES ASSUME ReturnedInv, NEW k \in DOMAIN chains PROVE ChainOk(chains[k])
  OBVIOUS
<1>1. PICK T : chains \in Seq(T) /\ \A c \in T : ChainOk(c)
  BY DEF ReturnedInv
<1>2. chains[k] \in T
  BY <1>1
<1> QED BY <1>1, <1>2

LEMMA ChainsStayOk == Spec => []ChainInv
<1>1. Init => ChainInv
  BY InitChains
<1>2. ChainInv /\ [Next]_vars => ChainInv'
  BY NextKeepsBudget, NextKeepsTasks, NextKeepsStatements, NextKeepsReturned DEF ChainInv
<1> QED BY <1>1, <1>2, PTL DEF Spec

\* A chain is returned only if it is valid link by link up to a configured
\* trust anchor, and expires with the first of its statements, in whatever order
\* the concurrent discover() calls ran and whatever the hints, loops included.
THEOREM ReturnedChainsAreValid == Spec => []ReturnedChainsValid
<1>1. ChainInv => ReturnedChainsValid
  BY ReturnedChainsOk DEF ChainInv, ChainOk, Returnable, ReturnedChainsValid
<1> QED BY <1>1, ChainsStayOk, PTL

\* Whatever policies the superiors state, the metadata resolved for the leaf
\* obeys each of them, although only their merge is applied, operator after
\* operator.
THEOREM EachPolicyObeyed == Spec => []PoliciesObeyed
<1>1. ChainInv => PoliciesObeyed
  BY ReturnedChainsOk DEF ChainInv, ChainOk, PoliciesObeyed, Governed
<1> QED BY <1>1, ChainsStayOk, PTL

-----------------------------------------------------------------------------
(* Nothing is lost                                                         *)

\* The path q begins with p.
Extends(q, p) == Len(p) <= Len(q) /\ \A i \in 1 .. Len(p) : q[i] = p[i]
Prefix(q, m) == [i \in 1 .. m |-> q[i]]

\* The hints, within the limits, lead from the leaf along q, and every
\* configuration on the way is accepted.
Climbs(q) ==
    /\ q \in Seq(Entities) /\ q # <<>> /\ q[1] = Leaf
    /\ \A m \in DOMAIN q : ConfigAccepted(q[m])
    /\ \A m \in 1 .. Len(q) - 1 :
          \E k \in DOMAIN Followed(Prefix(q, m)) : Followed(Prefix(q, m))[k] = q[m + 1]
Reaches(q) == Climbs(q) /\ LastOf(q) \in Anchors

LEMMA ClimbGrows ==
  ASSUME fed \in Federations, NEW p, Climbs(p), NEW k \in DOMAIN Followed(p), ConfigAccepted(Followed(p)[k])
  PROVE  Climbs(Append(p, Followed(p)[k]))
<1> DEFINE e == Followed(p)[k]
           q == Append(p, e)
<1>1. /\ p \in Seq(Entities) /\ p # <<>> /\ p[1] = Leaf
      /\ \A m \in DOMAIN p : ConfigAccepted(p[m])
      /\ \A m \in 1 .. Len(p) - 1 :
          \E i \in DOMAIN Followed(Prefix(p, m)) : Followed(Prefix(p, m))[i] = p[m + 1]
  BY DEF Climbs
<1>2. e \in Entities
  BY <1>1, FollowedHints
<1>3. /\ Len(p) \in Nat /\ Len(p) > 0 /\ p = [i \in 1 .. Len(p) |-> p[i]] /\ DOMAIN p = 1 .. Len(p)
      /\ q \in Seq(Entities) /\ q # <<>> /\ Len(q) = Len(p) + 1 /\ DOMAIN q = 1 .. Len(p) + 1
      /\ q[Len(p) + 1] = e /\ \A n \in 1 .. Len(p) : q[n] = p[n]
  BY <1>1, <1>2
<1> HIDE DEF q
<1>4. q[1] = Leaf
  BY <1>1, <1>3
<1>5. ASSUME NEW m \in DOMAIN q PROVE ConfigAccepted(q[m])
  <2>1. CASE m \in 1 .. Len(p)
    BY <1>1, <1>3, <2>1
  <2>2. CASE m \notin 1 .. Len(p)
    <3>1. m = Len(p) + 1
      BY <1>3, <2>2
    <3> QED BY <1>3, <3>1
  <2> QED BY <2>1, <2>2
<1>6. ASSUME NEW m \in 1 .. Len(q) - 1
      PROVE  \E i \in DOMAIN Followed(Prefix(q, m)) : Followed(Prefix(q, m))[i] = q[m + 1]
  <2>1. m \in 1 .. Len(p) /\ Prefix(q, m) = Prefix(p, m)
    <3>1. m \in 1 .. Len(p) /\ \A i \in 1 .. m : q[i] = p[i]
      BY <1>3
    <3> QED BY <3>1 DEF Prefix
  <2>2. CASE m = Len(p)
    <3>1. Prefix(q, m) = p /\ q[m + 1] = e
      BY <1>3, <2>1, <2>2 DEF Prefix
    <3> QED BY <3>1
  <2>3. CASE m # Len(p)
    <3>1. m \in 1 .. Len(p) - 1 /\ q[m + 1] = p[m + 1]
      BY <1>3, <2>1, <2>3
    <3> QED BY <1>1, <2>1, <3>1
  <2> QED BY <2>2, <2>3
<1>7. Climbs(q)
  BY <1>3, <1>4, <1>5, <1>6 DEF Climbs
<1> QED BY <1>7 DEF q

\* The paths the property is about are of this kind.
LEMMA PathsReach ==
  ASSUME fed \in Federations, NEW path \in PathsToAnchors
  PROVE  Reaches(path)
<1> DEFINE N == Cardinality(Entities)
           Up(p) == {Append(p, Followed(p)[k]) : k \in DOMAIN Followed(p)}
           Body(n, f) == {q \in IF n = 1 THEN {<<Leaf>>} ELSE UNION {Up(p) : p \in f[n - 1]} : ConfigAccepted(LastOf(q))}
           layer[n \in 1 .. N] ==
              {q \in IF n = 1 THEN {<<Leaf>>} ELSE UNION {Up(p) : p \in layer[n - 1]} : ConfigAccepted(LastOf(q))}
<1>1. N \in Nat
  BY AnchorAssumption, FS_CardinalityType
<1>2. path \in UNION {layer[n] : n \in 1 .. N} /\ LastOf(path) \in Anchors
  BY DEF PathsToAnchors
<1>3. \E f : f = [n \in 1 .. N |-> Body(n, f)]
  <2> HIDE DEF N
  <2> DEFINE Upto(m, f) == f = [n \in 1 .. N |-> f[n]] /\ \A n \in 1 .. N : n <= m => f[n] = Body(n, f)
             S == {m \in Nat : \E f : Upto(m, f)}
  <2>1. 0 \in S
    <3> DEFINE f == [n \in 1 .. N |-> {}]
    <3>1. Upto(0, f)
      BY <1>1
    <3> QED BY <3>1
  <2>2. ASSUME NEW m \in S PROVE m + 1 \in S
    <3>1. PICK f : Upto(m, f)
      OBVIOUS
    <3> DEFINE g == [n \in 1 .. N |-> IF n <= m THEN f[n] ELSE Body(n, f)]
    <3>2. ASSUME NEW n \in 1 .. N, n <= m + 1 PROVE g[n] = Body(n, g)
      <4>1. g[n] = Body(n, f)
        <5> HIDE DEF Body
        <5>1. n <= m => f[n] = Body(n, f)
          BY <3>1
        <5> QED BY <5>1
      <4>2. CASE n # 1
        <5>1. n - 1 \in 1 .. N /\ n - 1 <= m
          BY <1>1, <3>2, <4>2
        <5>2. g[n - 1] = f[n - 1]
          BY <5>1
        <5> HIDE DEF g, Up
        <5> QED BY <4>1, <5>2
      <4>3. CASE n = 1
        <5> HIDE DEF g, Up
        <5> QED BY <4>1, <4>3
      <4> QED BY <4>2, <4>3
    <3>3. Upto(m + 1, g)
      <4>1. g = [n \in 1 .. N |-> g[n]]
        OBVIOUS
      <4> HIDE DEF g, Body
      <4> QED BY <3>2, <4>1
    <3> HIDE DEF g, Upto
    <3>4. \E h : Upto(m + 1, h)
      BY <3>3
    <3> QED BY <3>4
  <2>3. N \in S
    <3>1. S \subseteq Nat
      OBVIOUS
    <3> HIDE DEF S
    <3> QED BY <1>1, <2>1, <2>2, <3>1, SetInduction
  <2>4. PICK f : Upto(N, f)
    BY <2>3
  <2> HIDE DEF Body
  <2>5. \A n \in 1 .. N : f[n] = Body(n, f)
    <3>1. \A n \in 1 .. N : n <= N
      BY <1>1
    <3> QED BY <2>4, <3>1
  <2> QED BY <2>4, <2>5
<1>4. layer = [n \in 1 .. N |-> Body(n, layer)]
  BY <1>3
<1> HIDE DEF layer, N
<1>5. \A n \in 1 .. N : layer[n] = Body(n, layer)
  <2> HIDE DEF Body
  <2> QED BY <1>4
<1> DEFINE T == {n \in Nat : n \in 1 .. N => \A q \in layer[n] : Climbs(q)}
<1>6. 0 \in T
  BY <1>1
<1>7. ASSUME NEW n \in T PROVE n + 1 \in T
  <2> SUFFICES ASSUME n + 1 \in 1 .. N, NEW q \in layer[n + 1] PROVE Climbs(q)
    OBVIOUS
  <2>1. q \in Body(n + 1, layer)
    BY <1>5
  <2>2. CASE n = 0
    <3>1. q = <<Leaf>> /\ ConfigAccepted(LastOf(q))
      BY <2>1, <2>2
    <3>2. DOMAIN q = {1} /\ Len(q) = 1 /\ q[1] = Leaf
      BY <3>1
    <3>3. 1 .. Len(q) - 1 = {}
      BY <3>2
    <3> QED BY <3>1, <3>2, <3>3, AnchorAssumption DEF Climbs, LastOf
  <2>3. CASE n # 0
    <3>1. n \in 1 .. N /\ n + 1 # 1 /\ (n + 1) - 1 = n
      BY <1>1, <2>3
    <3>2. q \in UNION {Up(p) : p \in layer[n]} /\ ConfigAccepted(LastOf(q))
      BY <2>1, <3>1
    <3>3. PICK p \in layer[n] : q \in Up(p)
      BY <3>2
    <3>4. PICK k \in DOMAIN Followed(p) : q = Append(p, Followed(p)[k])
      BY <3>3
    <3>5. Climbs(p)
      BY <3>1
    <3>6. LastOf(q) = Followed(p)[k]
      <4>1. p \in Seq(Entities) /\ Followed(p)[k] \in Entities
        BY <3>5, FollowedHints DEF Climbs
      <4> QED BY <3>4, <4>1 DEF LastOf
    <3> QED BY <3>2, <3>4, <3>5, <3>6, ClimbGrows
  <2> QED BY <2>2, <2>3
<1>8. T = Nat
  <2>1. T \subseteq Nat
    OBVIOUS
  <2> HIDE DEF T
  <2> QED BY <1>6, <1>7, <2>1, SetInduction
<1>9. PICK n \in 1 .. N : path \in layer[n]
  BY <1>2
<1>10. n \in T
  BY <1>1, <1>8
<1> QED BY <1>2, <1>9, <1>10 DEF Reaches

\* A path to an anchor either is p or goes on to one of its superiors.
LEMMA NextOnTheWay ==
  ASSUME NEW q, Reaches(q), NEW p \in Seq(Entities), p # <<>>, Extends(q, p), q # p
  PROVE  \E k \in DOMAIN Followed(p) : /\ Extends(q, Append(p, Followed(p)[k]))
                                       /\ ConfigAccepted(Followed(p)[k])
<1>1. /\ q \in Seq(Entities) /\ Len(q) \in Nat /\ DOMAIN q = 1 .. Len(q) /\ q = [i \in 1 .. Len(q) |-> q[i]]
      /\ Len(p) \in Nat /\ Len(p) > 0 /\ p = [i \in 1 .. Len(p) |-> p[i]]
  BY DEF Reaches, Climbs
<1>2. Len(p) <= Len(q) /\ \A i \in 1 .. Len(p) : q[i] = p[i]
  BY DEF Extends
<1>3. Prefix(q, Len(p)) = p
  BY <1>1, <1>2 DEF Prefix
<1>4. Len(p) # Len(q)
  BY <1>1, <1>2
<1>5. Len(p) \in 1 .. Len(q) - 1 /\ Len(p) + 1 \in DOMAIN q
  <2>1. \A a, b \in Nat : a > 0 /\ a <= b /\ a # b => a + 1 \in 1 .. b /\ a \in 1 .. b - 1
    OBVIOUS
  <2>2. Len(p) + 1 \in 1 .. Len(q) /\ Len(p) \in 1 .. Len(q) - 1
    BY <1>1, <1>2, <1>4, <2>1, Zenon
  <2>3. DOMAIN q = 1 .. Len(q)
    BY <1>1
  <2> QED BY <2>2, <2>3
<1>6. PICK k \in DOMAIN Followed(p) : Followed(p)[k] = q[Len(p) + 1]
  BY <1>3, <1>5 DEF Reaches, Climbs
<1>7. ConfigAccepted(Followed(p)[k])
  BY <1>5, <1>6 DEF Reaches, Climbs
<1>8. Extends(q, Append(p, Followed(p)[k]))
  <2> DEFINE e == Followed(p)[k]
             r == Append(p, e)
  <2>1. e \in Entities
    BY <1>1, <1>5, <1>6
  <2>2. Len(r) = Len(p) + 1 /\ r[Len(p) + 1] = e /\ \A i \in 1 .. Len(p) : r[i] = p[i]
    BY <2>1
  <2> HIDE DEF r, e
  <2>3. \A i \in 1 .. Len(r) : i \in 1 .. Len(p) \/ i = Len(p) + 1
    BY <1>1, <2>2
  <2>4. q[Len(p) + 1] = e
    BY <1>6 DEF e
  <2>5. Len(r) <= Len(q) /\ \A i \in 1 .. Len(r) : q[i] = r[i]
    BY <1>1, <1>2, <1>5, <2>2, <2>3, <2>4
  <2> QED BY <2>5 DEF Extends, r, e
<1> QED BY <1>7, <1>8

Superiors(p) == [k \in DOMAIN Followed(p) |-> Append(p, Followed(p)[k])]

\* Nothing was cut off or lost so far.
Spared == ~lost /\ requests <= maxRequests /\ visits <= maxRequests

\* A call that failed had reason to, one that goes on calls every superior, and
\* one that is done has every path to an anchor that goes over it.
Complete(t, p) ==
    /\ t[p].st = "failed" => ~ConfigAccepted(LastOf(p))
    /\ t[p].st \in {"exploring", "done"} => t[p].kids = Superiors(p)
    /\ t[p].st = "done" =>
          \A q : Reaches(q) /\ Extends(q, p) => \E j \in DOMAIN t[p].res : t[p].res[j] = q

\* The path is yet to be validated, returned or reported.
Accounted(q) ==
    \/ \E j \in DOMAIN paths : paths[j] = q
    \/ \E k \in DOMAIN chains : chains[k].path = q
    \/ q \in failures

CacheRight == \A e \in Entities : cache[e] = "failed" => ~ConfigAccepted(e)
TasksComplete == \A p \in DOMAIN task : Complete(task, p)
FailuresRight == \A p \in failures : ~Returnable(p)
AllAccounted == phase # "discover" => \A q : Reaches(q) => Accounted(q)

ThoroughInv ==
    /\ visits \in Nat
    /\ phase \in {"discover", "finished"} => paths = <<>>
    /\ Spared => CacheRight /\ TasksComplete /\ FailuresRight /\ AllAccounted

\* The federation stays as it is, and so do the paths in it.
LEMMA SamePaths ==
  ASSUME fed' = fed
  PROVE  /\ \A q : Reaches(q)' <=> Reaches(q)
         /\ \A p : Superiors(p)' = Superiors(p)
         /\ \A p : Complete(task, p)' <=> Complete(task', p)
<1>1. \A p : Followed(p)' = Followed(p)
  BY DEF Followed, Config, LastOf
<1>2. \A p : Superiors(p)' = Superiors(p)
  BY <1>1 DEF Superiors
<1>3. ASSUME NEW q PROVE Reaches(q)' <=> Reaches(q)
  BY <1>1, SameConfigs DEF Reaches, Climbs, LastOf, Prefix
<1>4. ASSUME NEW p PROVE Complete(task, p)' <=> Complete(task', p)
  BY <1>2, <1>3, SameConfigs DEF Complete, LastOf, Extends
<1> QED BY <1>2, <1>3, <1>4

\* What is spared after a step was spared before.
LEMMA SpawnCounts ==
  ASSUME BudgetInv, visits \in Nat, NEW path \in DOMAIN task, Spawn(path, Followed(path)), UNCHANGED maxRequests
  PROVE  /\ visits' \in Nat /\ visits <= visits' /\ requests <= requests'
         /\ visits' <= maxRequests => \A k \in DOMAIN Followed(path) : Visited(Followed(path), k)
         /\ requests' <= maxRequests =>
               \A k \in DOMAIN Followed(path) : Asks(Followed(path), k) => Sends(Followed(path), k)
<1> DEFINE sups == Followed(path)
           D == DOMAIN sups
           asked == {k \in D : Asks(sups, k)}
<1>1. path \in Seq(Entities) /\ path # <<>>
  BY DEF BudgetInv
<1>2. D \subseteq 1 .. Len(Hints(path)) /\ Hints(path) \in Seq(Entities)
  BY <1>1, FollowedHints DEF BudgetInv
<1>3. visits' = visits + Cardinality(D) /\ requests' = requests + Cardinality(asked)
  BY DEF Spawn
<1> HIDE DEF sups
<1>4. D \subseteq Nat /\ IsFiniteSet(D) /\ Cardinality(D) \in Nat
  <2>1. IsFiniteSet(1 .. Len(Hints(path)))
    BY <1>2, FS_Interval
  <2>2. D \in SUBSET (1 .. Len(Hints(path))) /\ D \subseteq Nat
    BY <1>2
  <2>3. IsFiniteSet(D)
    BY <2>1, <2>2, FS_Subset
  <2> QED BY <2>2, <2>3, FS_CardinalityType
<1>5. asked \subseteq Nat /\ IsFiniteSet(asked) /\ Cardinality(asked) \in Nat
  <2>1. asked \in SUBSET D
    OBVIOUS
  <2>2. IsFiniteSet(asked)
    BY <1>4, <2>1, FS_Subset
  <2> QED BY <1>4, <2>1, <2>2, FS_CardinalityType
<1>6. \A k \in asked : RequestNo(sups, k) = requests + Cardinality({i \in asked : i <= k})
  <2>1. \A k \in asked : {j \in D : j <= k /\ Asks(sups, j)} = {i \in asked : i <= k}
    OBVIOUS
  <2> QED BY <2>1 DEF RequestNo
<1>7. \A k \in D : k \in asked <=> Asks(sups, k)
  OBVIOUS
<1> HIDE DEF asked, D
<1>8. requests \in Nat /\ maxRequests \in Nat
  BY DEF BudgetInv
<1>9. ASSUME visits' <= maxRequests, NEW k \in D PROVE Visited(sups, k)
  <2>1. Cardinality({j \in D : j <= k}) \in 1 .. Cardinality(D)
    BY <1>4, RankGrows
  <2>2. visits + Cardinality({j \in D : j <= k}) <= maxRequests
    BY <1>3, <1>4, <1>8, <1>9, <2>1
  <2> QED BY <2>2 DEF Visited, D
<1>10. ASSUME requests' <= maxRequests, NEW k \in asked PROVE RequestNo(sups, k) <= maxRequests
  <2>1. Cardinality({i \in asked : i <= k}) \in 1 .. Cardinality(asked)
    BY <1>5, RankGrows
  <2> QED BY <1>3, <1>5, <1>6, <1>8, <1>10, <2>1
<1>11. visits' \in Nat /\ visits <= visits' /\ requests <= requests'
  BY <1>3, <1>4, <1>5, <1>8
<1>12. ASSUME requests' <= maxRequests, NEW k \in D, Asks(sups, k) PROVE Sends(sups, k)
  BY <1>7, <1>10, <1>12 DEF Sends
<1> QED BY <1>9, <1>11, <1>12 DEF sups, D

\* Within the budget the calls for the superiors wait, and none is refused.
LEMMA SpawnThorough ==
  ASSUME BudgetInv, CacheInv, visits \in Nat, CacheRight, TasksComplete,
         NEW path \in DOMAIN task, Spawn(path, Followed(path)), UNCHANGED <<fed, maxRequests>>, Spared'
  PROVE  CacheRight' /\ TasksComplete'
<1> DEFINE sups == Followed(path)
           kids == [k \in DOMAIN sups |-> Append(path, sups[k])]
           asked == {k \in DOMAIN sups : Asks(sups, k)}
           sending == {k \in DOMAIN sups : Sends(sups, k)}
           exploring == [st |-> "exploring", kids |-> kids, res |-> <<>>]
           status(p) == IF Visited(sups, CHOOSE k \in DOMAIN kids : kids[k] = p) THEN "waiting" ELSE "failed"
           called(p) == [st |-> status(p), kids |-> <<>>, res |-> <<>>]
           D == DOMAIN task \cup {path} \cup {kids[k] : k \in DOMAIN kids}
<1>1. /\ task' = [p \in D |-> IF p = path THEN exploring ELSE IF p \in DOMAIN task THEN task[p] ELSE called(p)]
      /\ cache' = [e \in Entities |->
              IF \E k \in sending : sups[k] = e THEN "pending"
              ELSE IF \E k \in asked : sups[k] = e THEN "failed" ELSE cache[e]]
  BY DEF Spawn
<1>2. requests' <= maxRequests /\ visits' <= maxRequests
  BY DEF Spared
<1>3. /\ \A k \in DOMAIN sups : Visited(sups, k)
      /\ \A k \in DOMAIN sups : Asks(sups, k) => Sends(sups, k)
  BY <1>2, SpawnCounts
<1>4. kids = Superiors(path)
  BY DEF Superiors
<1> HIDE DEF sups
<1>5. asked = sending
  BY <1>3 DEF Sends
<1> HIDE DEF asked, sending
<1>6. \A e \in Entities : cache'[e] = "failed" => cache[e] = "failed"
  BY <1>1, <1>5
<1>7. CacheRight'
  BY <1>6, SameConfigs DEF CacheRight
<1>8. ASSUME NEW p \in D PROVE Complete(task', p)
  <2>1. CASE p = path
    <3>1. exploring.st = "exploring" /\ exploring.kids = kids
      OBVIOUS
    <3>2. task'[p] = exploring
      BY <1>1, <2>1
    <3> HIDE DEF exploring
    <3> QED BY <1>4, <2>1, <3>1, <3>2 DEF Complete
  <2>2. CASE p # path /\ p \in DOMAIN task
    <3>1. task'[p] = task[p]
      BY <1>1, <2>2
    <3> QED BY <2>2, <3>1 DEF Complete, TasksComplete
  <2>3. CASE p # path /\ p \notin DOMAIN task
    <3>1. task'[p] = called(p)
      BY <1>1, <2>3
    <3>2. \E k \in DOMAIN kids : kids[k] = p
      BY <2>3
    <3>3. (CHOOSE k \in DOMAIN kids : kids[k] = p) \in DOMAIN sups
      <4>1. DOMAIN kids = DOMAIN sups
        OBVIOUS
      <4> HIDE DEF kids
      <4> QED BY <3>2, <4>1
    <3>4. status(p) = "waiting"
      BY <1>3, <3>3
    <3>5. called(p).st = status(p)
      OBVIOUS
    <3> HIDE DEF status, called
    <3> QED BY <3>1, <3>4, <3>5 DEF Complete
  <2> QED BY <2>1, <2>2, <2>3
<1>9. DOMAIN task' = D
  BY <1>1
<1>10. TasksComplete'
  BY <1>8, <1>9, SamePaths DEF TasksComplete
<1> QED BY <1>7, <1>10

LEMMA DiscoverThorough ==
  ASSUME BudgetInv, CacheInv, TaskInv, visits \in Nat, CacheRight, TasksComplete,
         NEW path \in DOMAIN task, Discover(path), Spared'
  PROVE  CacheRight' /\ TasksComplete'
<1>1. UNCHANGED <<fed, maxRequests>>
  BY DEF Discover
<1>2. CASE Spawn(path, Followed(path))
  BY <1>1, <1>2, SpawnThorough
<1>3. CASE cache[LastOf(path)] = "failed" /\ task' = [task EXCEPT ![path].st = "failed"] /\ cache' = cache
  <2>1. CacheRight'
    BY <1>1, <1>3, SameConfigs DEF CacheRight
  <2>2. LastOf(path) \in Entities
    BY DEF TaskInv, Trail, LastOf
  <2>3. ~ConfigAccepted(LastOf(path))
    BY <1>3, <2>2 DEF CacheRight
  <2>4. PICK st, kids, res : task[path] = [st |-> st, kids |-> kids, res |-> res]
    BY DEF TaskInv, TaskOk
  <2>5. DOMAIN task' = DOMAIN task /\ \A p \in DOMAIN task : p # path => task'[p] = task[p]
    BY <1>3
  <2>6. task'[path].st = "failed"
    <3>1. task'[path] = [task[path] EXCEPT !.st = "failed"]
      BY <1>3
    <3>2. [task[path] EXCEPT !.st = "failed"] = [st |-> "failed", kids |-> kids, res |-> res]
      BY <2>4
    <3> QED BY <3>1, <3>2
  <2>7. \A p \in DOMAIN task : Complete(task', p)
    BY <2>3, <2>5, <2>6 DEF Complete, TasksComplete
  <2> QED BY <1>1, <2>1, <2>5, <2>7, SamePaths DEF TasksComplete
<1> QED BY <1>2, <1>3 DEF Discover

\* A call is done once its superiors are: by then it has what they found.
LEMMA CollectThorough ==
  ASSUME BudgetInv, CacheInv, TaskInv, CacheRight, TasksComplete, FailuresRight,
         NEW path \in DOMAIN task, Collect(path)
  PROVE  CacheRight' /\ TasksComplete' /\ FailuresRight'
<1> DEFINE own == IF LastOf(path) \in Anchors THEN <<path>> ELSE <<>>
           found == own \o ResultsOf(path)
           kids == task[path].kids
           bad == {kids[k] : k \in {n \in DOMAIN kids : task[kids[n]].st = "failed"}}
<1>1. /\ fed' = fed /\ cache' = cache /\ task[path].st = "exploring"
      /\ task' = [task EXCEPT ![path].st = "done", ![path].res = found]
      /\ \A k \in DOMAIN kids : task[kids[k]].st \in {"done", "failed"}
      /\ failures' = failures \cup bad
  BY DEF Collect
<1>2. kids = Superiors(path) /\ Trail(path) /\ path \in Seq(Entities) /\ path # <<>>
  BY <1>1 DEF TasksComplete, Complete, TaskInv, Trail
<1>3. \A k \in DOMAIN kids : kids[k] \in DOMAIN task /\ Complete(task, kids[k])
  BY DEF TaskInv, TaskOk, TasksComplete
<1>4. /\ DOMAIN Followed(path) \subseteq 1 .. Len(Hints(path))
      /\ \A k \in DOMAIN Followed(path) : Followed(path)[k] \in Entities
  BY <1>2, FollowedHints DEF BudgetInv
<1>5. /\ DOMAIN kids = DOMAIN Followed(path)
      /\ \A k \in DOMAIN kids : kids[k] = Append(path, Followed(path)[k]) /\ LastOf(kids[k]) = Followed(path)[k]
  <2>1. DOMAIN kids = DOMAIN Followed(path) /\ \A k \in DOMAIN kids : kids[k] = Append(path, Followed(path)[k])
    <3> HIDE DEF kids
    <3> QED BY <1>2 DEF Superiors
  <2>2. \A e \in Entities : LastOf(Append(path, e)) = e
    BY <1>2 DEF LastOf
  <2> HIDE DEF kids
  <2> QED BY <1>4, <2>1, <2>2
<1>6. ResultsOf(path) \in Seq(Seq(Entities)) /\ own \in Seq(Seq(Entities))
  <2>1. AllFound(ResultsOf(path))
    BY ResultsFound
  <2> QED BY <1>2, <2>1 DEF AllFound
<1>7. \A k \in DOMAIN kids : k \in 1 .. Len(Hints(path))
  BY <1>4, <1>5
<1>8. ASSUME NEW k \in DOMAIN kids, task[kids[k]].st = "done", NEW i \in DOMAIN task[kids[k]].res
      PROVE  \E j \in DOMAIN ResultsOf(path) : ResultsOf(path)[j] = task[kids[k]].res[i]
  BY <1>7, <1>8, ResultsHold
<1> HIDE DEF kids
<1>9. ASSUME NEW q, Reaches(q), Extends(q, path) PROVE \E j \in DOMAIN found : found[j] = q
  <2>1. CASE q = path
    <3>1. own = <<path>>
      BY <1>9, <2>1 DEF Reaches
    <3>2. 1 \in DOMAIN found /\ found[1] = path
      BY <1>2, <1>6, <3>1
    <3> QED BY <2>1, <3>2
  <2>2. CASE q # path
    <3>1. PICK k \in DOMAIN Followed(path) : /\ Extends(q, Append(path, Followed(path)[k]))
                                             /\ ConfigAccepted(Followed(path)[k])
      BY <1>2, <1>9, <2>2, NextOnTheWay
    <3>2. k \in DOMAIN kids /\ Extends(q, kids[k]) /\ ConfigAccepted(LastOf(kids[k]))
      BY <1>5, <3>1
    <3>3. task[kids[k]].st = "done"
      BY <1>1, <1>3, <3>2 DEF Complete
    <3>4. PICK i \in DOMAIN task[kids[k]].res : task[kids[k]].res[i] = q
      BY <1>3, <1>9, <3>2, <3>3 DEF Complete
    <3>5. PICK j \in DOMAIN ResultsOf(path) : ResultsOf(path)[j] = q
      BY <1>8, <3>2, <3>3, <3>4
    <3> DEFINE n == Len(own) + j
    <3>6. n \in DOMAIN found /\ found[n] = q
      <4> HIDE DEF own
      <4> QED BY <1>6, <3>5
    <3> QED BY <3>6
  <2> QED BY <2>1, <2>2
<1> HIDE DEF found
<1>10. PICK st, ks, res : task[path] = [st |-> st, kids |-> ks, res |-> res]
  BY DEF TaskInv, TaskOk
<1>11. DOMAIN task' = DOMAIN task /\ (\A p \in DOMAIN task : p # path => task'[p] = task[p])
       /\ task'[path] = [st |-> "done", kids |-> ks, res |-> found]
  <2> DEFINE old == [st |-> st, kids |-> ks, res |-> res]
             one == [st |-> "done", kids |-> ks, res |-> res]
             new == [st |-> "done", kids |-> ks, res |-> found]
  <2>1. [old EXCEPT !.st = "done"] = one /\ [one EXCEPT !.res = found] = new
    OBVIOUS
  <2>2. task[path] = old
    BY <1>10
  <2> HIDE DEF old, one, new
  <2>3. task' = [task EXCEPT ![path] = [[old EXCEPT !.st = "done"] EXCEPT !.res = found]]
    BY <1>1, <2>2
  <2>4. task' = [task EXCEPT ![path] = new]
    BY <2>1, <2>3
  <2> QED BY <2>4 DEF new
<1>12. Complete(task', path)
  <2> DEFINE new == [st |-> "done", kids |-> ks, res |-> found]
  <2>1. new.st = "done" /\ new.kids = ks /\ new.res = found /\ task'[path] = new
    BY <1>11
  <2> HIDE DEF new
  <2>2. ks = Superiors(path)
    BY <1>2, <1>10 DEF kids
  <2> QED BY <1>9, <2>1, <2>2 DEF Complete
<1>13. \A p \in DOMAIN task' : Complete(task', p)
  BY <1>11, <1>12 DEF Complete, TasksComplete
<1>14. ASSUME NEW p \in bad PROVE ~Returnable(p)
  <2>1. PICK k \in DOMAIN kids : p = kids[k] /\ task[kids[k]].st = "failed"
    OBVIOUS
  <2>2. ~ConfigAccepted(LastOf(p))
    BY <1>3, <2>1 DEF Complete
  <2>3. p \in Seq(Entities) /\ p # <<>>
    BY <1>3, <2>1 DEF BudgetInv
  <2>4. Len(p) \in DOMAIN p
    BY <2>3
  <2> QED BY <2>2, <2>4 DEF Returnable, ValidChain, LastOf
<1> HIDE DEF bad
<1>15. FailuresRight'
  BY <1>1, <1>14, SameStatements DEF FailuresRight
<1>16. TasksComplete'
  BY <1>1, <1>13, SamePaths DEF TasksComplete
<1>17. CacheRight'
  BY <1>1, SameConfigs DEF CacheRight
<1> QED BY <1>15, <1>16, <1>17

\* A path the validation gives up is not a valid chain, or its policies conflict.
LEMMA ValidSigned ==
  ASSUME NEW path \in Seq(Entities), path # <<>>, ValidChain(path)
  PROVE  /\ AnchorPinned(path) /\ SignaturesChain(path)
         /\ \A n \in 1 .. Len(path) - 1 : StatementAccepted(path, n) /\ Config(path[n + 1]).endpoint
<1>1. Len(path) \in Nat /\ Len(path) > 0
  OBVIOUS
<1>2. ASSUME NEW n \in 1 .. Len(path), Len(path) # 1 PROVE SignerOf(path, n) \in KeysListedAbove(path, n)
  <2>1. CASE n = 1
    <3>1. \A a \in Nat : a > 0 /\ a # 1 => a > 1
      OBVIOUS
    <3>2. Len(path) > 1 /\ Len(path) # 1
      BY <1>1, <1>2, <3>1, Zenon
    <3>3. Config(path[1]).by \in Stmt(path[2], path[1]).keys
      BY <3>2, Zenon DEF ValidChain
    <3>4. 1 + 1 = 2
      OBVIOUS
    <3> QED BY <2>1, <3>2, <3>3, <3>4 DEF ValidChain, SignerOf, KeysListedAbove
  <2>2. CASE n # 1
    <3> DEFINE m == n - 1
    <3>1. m \in 1 .. Len(path) - 1 /\ m + 1 = n /\ m + 2 = n + 1
      BY <1>1, <2>2
    <3>2. Stmt(path[m + 1], path[m]).by \in (IF m + 1 = Len(path) THEN Config(path[m + 1]).keys
                                              ELSE Stmt(path[m + 2], path[m + 1]).keys)
      BY <3>1 DEF ValidChain
    <3> QED BY <2>2, <3>1, <3>2 DEF SignerOf, KeysListedAbove, LastOf
  <2> QED BY <2>1, <2>2
<1>3. SignaturesChain(path)
  BY <1>2 DEF SignaturesChain
<1>4. \A n \in 1 .. Len(path) - 1 : StatementAccepted(path, n) /\ Config(path[n + 1]).endpoint
  BY DEF ValidChain, StatementAccepted
<1> QED BY <1>3, <1>4 DEF ValidChain

LEMMA DiscoveredThorough ==
  ASSUME BudgetInv, TaskInv, ThoroughInv, TasksComplete, FailuresRight, Discovered
  PROVE  FailuresRight' /\ AllAccounted'
<1>1. fed' = fed /\ <<Leaf>> \in DOMAIN task
  BY DEF Discovered, TaskInv
<1>2. DOMAIN <<Leaf>> = {1} /\ Len(<<Leaf>>) = 1 /\ LastOf(<<Leaf>>) = Leaf
  BY DEF LastOf
<1>3. ASSUME NEW q, Reaches(q) PROVE Extends(q, <<Leaf>>) /\ ConfigAccepted(Leaf)
  <2>1. q \in Seq(Entities) /\ q # <<>> /\ q[1] = Leaf
    BY <1>3 DEF Reaches, Climbs
  <2>2. 1 \in DOMAIN q /\ Len(q) >= 1
    BY <2>1
  <2>3. ConfigAccepted(Leaf)
    BY <1>3, <2>1, <2>2 DEF Reaches, Climbs
  <2>4. \A i \in 1 .. 1 : i = 1
    OBVIOUS
  <2> QED BY <1>2, <2>1, <2>2, <2>3, <2>4 DEF Extends
<1>4. CASE task[<<Leaf>>].st = "failed" /\ failures' = {<<Leaf>>}
  <2>1. ~ConfigAccepted(Leaf)
    BY <1>1, <1>2, <1>4 DEF TasksComplete, Complete
  <2>2. ~Returnable(<<Leaf>>)
    BY <1>2, <2>1 DEF Returnable, ValidChain, LastOf
  <2>3. FailuresRight'
    BY <1>1, <1>4, <2>2, SameStatements DEF FailuresRight
  <2>4. \A q : ~Reaches(q)
    BY <1>3, <2>1
  <2> QED BY <1>1, <2>3, <2>4, SamePaths DEF AllAccounted
<1>5. CASE task[<<Leaf>>].st = "done" /\ paths' = task[<<Leaf>>].res /\ failures' = failures
  <2>1. FailuresRight'
    BY <1>1, <1>5, SameStatements DEF FailuresRight
  <2>2. \A q : Reaches(q) => \E j \in DOMAIN paths' : paths'[j] = q
    BY <1>1, <1>3, <1>5 DEF TasksComplete, Complete
  <2>3. \A q : Reaches(q) => Accounted(q)'
    BY <2>2 DEF Accounted
  <2> QED BY <1>1, <2>1, <2>3, SamePaths DEF AllAccounted
<1> QED BY <1>4, <1>5 DEF Discovered

\* The path at the head goes where it belongs, and the others stay.
LEMMA HeadTaken ==
  ASSUME ValidateInv, ReturnedInv, FailuresRight, AllAccounted, phase = "validate", paths # <<>>,
         paths' = Tail(paths), fed' = fed,
         \/ failures' = failures \cup {Head(paths)} /\ chains' = chains /\ ~Returnable(Head(paths))
         \/ /\ failures' = failures
            /\ \E c : chains' = Append(chains, c) /\ c.path = Head(paths)
  PROVE  FailuresRight' /\ AllAccounted'
<1>1. FailuresRight'
  BY SameStatements DEF FailuresRight
<1>2. PICK T : chains \in Seq(T)
  BY DEF ReturnedInv
<1>3. paths \in Seq(Seq(Entities))
  BY DEF ValidateInv, AllFound
<1>4. failures \subseteq failures'
  OBVIOUS
<1>5. \A k \in DOMAIN chains : k \in DOMAIN chains' /\ chains'[k] = chains[k]
  BY <1>2
<1>6. Head(paths) \in failures' \/ \E k \in DOMAIN chains' : chains'[k].path = Head(paths)
  <2>1. CASE \E c : chains' = Append(chains, c) /\ c.path = Head(paths)
    <3>1. PICK c : chains' = Append(chains, c) /\ c.path = Head(paths)
      BY <2>1
    <3>2. Len(chains) + 1 \in DOMAIN chains' /\ chains'[Len(chains) + 1] = c
      BY <1>2, <3>1
    <3> QED BY <3>1, <3>2
  <2> QED BY <2>1
<1>7. ASSUME NEW j \in DOMAIN paths
      PROVE  paths[j] = Head(paths) \/ \E i \in DOMAIN paths' : paths'[i] = paths[j]
  <2>1. CASE j = 1
    BY <1>3, <2>1
  <2>2. CASE j # 1
    <3>1. j - 1 \in DOMAIN paths' /\ paths'[j - 1] = paths[j]
      BY <1>3, <2>2
    <3> QED BY <3>1
  <2> QED BY <2>1, <2>2
<1>8. ASSUME NEW q, Reaches(q) PROVE Accounted(q)'
  <2>1. Accounted(q)
    BY <1>8 DEF AllAccounted
  <2> QED BY <1>4, <1>5, <1>6, <1>7, <2>1 DEF Accounted
<1> QED BY <1>1, <1>8, SamePaths DEF AllAccounted

LEMMA FetchThorough ==
  ASSUME BudgetInv, ValidateInv, ReturnedInv, FailuresRight, AllAccounted, FetchStatement, Spared'
  PROVE  FailuresRight' /\ AllAccounted'
<1> DEFINE path == Head(paths)
           n == Len(stmts) + 1
<1>1. phase = "validate" /\ paths # <<>> /\ UNCHANGED <<fed, maxRequests, chains, phase>> /\ n < Len(path)
  BY DEF FetchStatement
<1>2. path \in Seq(Entities) /\ path # <<>>
  BY <1>1, FoundTail DEF ValidateInv, Found, Trail
<1>3. n \in 1 .. Len(path) - 1
  <2>1. Len(stmts) \in Nat
    BY DEF ValidateInv
  <2> HIDE DEF path
  <2> QED BY <1>1, <1>2, <2>1
<1>4. CASE PathFails
  <2>1. ~AnchorPinned(path) \/ ~Config(path[n + 1]).endpoint \/ ~StatementAccepted(path, n)
    <3>1. ~lost' /\ requests' <= maxRequests
      BY <1>1 DEF Spared
    <3>2. requests + 1 > maxRequests => ~(requests' = requests + 1)
      BY <3>1 DEF BudgetInv
    <3>3. stmts' = <<>>
      BY <1>4 DEF PathFails
    <3>4. ~(stmts' = Append(stmts, <<path[n + 1], path[n]>>))
      BY <3>3 DEF ValidateInv
    <3> QED BY <3>1, <3>2, <3>4 DEF FetchStatement
  <2>2. ~Returnable(path)
    <3> HIDE DEF path, n
    <3> QED BY <1>2, <1>3, <2>1, ValidSigned DEF Returnable
  <2> QED BY <1>1, <1>4, <2>2, HeadTaken DEF PathFails
<1>5. CASE UNCHANGED <<paths, failures>>
  <2>1. FailuresRight'
    BY <1>1, <1>5, SameStatements DEF FailuresRight
  <2>2. \A q : Accounted(q)' <=> Accounted(q)
    BY <1>1, <1>5 DEF Accounted
  <2> QED BY <1>1, <2>1, <2>2, SamePaths DEF AllAccounted
<1> QED BY <1>4, <1>5 DEF FetchStatement

LEMMA FinishThorough ==
  ASSUME ValidateInv, ReturnedInv, FailuresRight, AllAccounted, FinishPath
  PROVE  FailuresRight' /\ AllAccounted'
<1> DEFINE path == Head(paths)
           value == ResolvedValue(path)
           chain == [path |-> path, value |-> value, expiresAt |-> Earliest(Exps(path))]
<1>1. phase = "validate" /\ paths # <<>> /\ fed' = fed
  BY DEF FinishPath
<1>2. path \in Seq(Entities) /\ path # <<>>
  BY <1>1, FoundTail DEF ValidateInv, Found, Trail
<1>3. IF ~AnchorPinned(path) \/ ~SignaturesChain(path) \/ value = PolicyError
      THEN PathFails /\ UNCHANGED chains
      ELSE chains' = Append(chains, chain) /\ paths' = Tail(paths) /\ UNCHANGED failures
  BY DEF FinishPath
<1>4. chain.path = path
  OBVIOUS
<1> HIDE DEF value, chain
<1>5. CASE ~AnchorPinned(path) \/ ~SignaturesChain(path) \/ value = PolicyError
  <2>1. ~Returnable(path)
    <3> HIDE DEF path
    <3> QED BY <1>2, <1>5, ValidSigned DEF Returnable, value
  <2> QED BY <1>1, <1>3, <1>5, <2>1, HeadTaken DEF PathFails
<1>6. CASE ~(~AnchorPinned(path) \/ ~SignaturesChain(path) \/ value = PolicyError)
  <2>1. chains' = Append(chains, chain) /\ paths' = Tail(paths) /\ failures' = failures
    BY <1>3, <1>6
  <2> QED BY <1>1, <1>4, <2>1, HeadTaken
<1> QED BY <1>5, <1>6

LEMMA ThoroughInit == Init => ThoroughInv
<1> SUFFICES ASSUME Init PROVE ThoroughInv
  OBVIOUS
<1>1. visits \in Nat /\ visits = 1 /\ paths = <<>> /\ phase = "discover" /\ failures = {}
  BY DEF Init
<1>2. ASSUME Spared PROVE CacheRight /\ TasksComplete
  <2>1. maxRequests > 0
    <3>1. maxRequests \in Nat
      BY BudgetAssumption DEF Init
    <3> QED BY <1>1, <1>2, <3>1 DEF Spared
  <2>2. CacheRight
    BY DEF Init, CacheRight
  <2> DEFINE t == [st |-> "waiting", kids |-> <<>>, res |-> <<>>]
  <2>3. task = [p \in {<<Leaf>>} |-> t]
    BY <2>1 DEF Init
  <2>4. t.st = "waiting"
    OBVIOUS
  <2> HIDE DEF t
  <2>5. TasksComplete
    BY <2>3, <2>4 DEF TasksComplete, Complete
  <2> QED BY <2>2, <2>5
<1> QED BY <1>1, <1>2 DEF ThoroughInv, FailuresRight, AllAccounted

\* What a step leaves alone stays as it was.
LEMMA KeptThorough ==
  ASSUME fed' = fed
  PROVE  /\ cache' = cache /\ CacheRight => CacheRight'
         /\ task' = task /\ TasksComplete => TasksComplete'
         /\ failures' = failures /\ FailuresRight => FailuresRight'
         /\ UNCHANGED <<paths, chains, failures>> /\ (phase' = phase \/ phase # "discover") /\ AllAccounted => AllAccounted'
<1>1. cache' = cache /\ CacheRight => CacheRight'
  BY SameConfigs DEF CacheRight
<1>2. task' = task /\ TasksComplete => TasksComplete'
  BY SamePaths DEF TasksComplete
<1>3. failures' = failures /\ FailuresRight => FailuresRight'
  BY SameStatements DEF FailuresRight
<1>4. ASSUME UNCHANGED <<paths, chains, failures>>, phase' = phase \/ phase # "discover", AllAccounted PROVE AllAccounted'
  <2>1. \A q : Accounted(q)' <=> Accounted(q)
    BY <1>4 DEF Accounted
  <2> QED BY <1>4, <2>1, SamePaths DEF AllAccounted
<1> QED BY <1>1, <1>2, <1>3, <1>4

LEMMA ThoroughStep ==
  ASSUME ChainInv, ThoroughInv, [Next]_vars
  PROVE  ThoroughInv'
<1> USE DEF ChainInv
<1> DEFINE Right == CacheRight /\ TasksComplete /\ FailuresRight /\ AllAccounted
           Bounds == visits' \in Nat /\ (phase' \in {"discover", "finished"} => paths' = <<>>)
           Keeps == Bounds /\ (Spared' => Spared) /\ (Spared' /\ Right => Right')
<1>0. Keeps => ThoroughInv'
  BY DEF ThoroughInv
<1>1. visits \in Nat /\ requests \in Nat /\ maxRequests \in Nat
      /\ (phase \in {"discover", "finished"} => paths = <<>>)
  BY DEF ThoroughInv, BudgetInv
<1>2. ASSUME UNCHANGED <<fed, maxRequests, cache, requests, visits, task, failures, phase, paths, chains, lost>>
      PROVE  Keeps
  BY <1>1, <1>2, KeptThorough DEF Spared
<1>3. ASSUME NEW e \in Entities, ConfigSettles(e) PROVE Keeps
  <2>1. UNCHANGED <<fed, maxRequests, requests, visits, task, failures, phase, paths, chains>>
    BY <1>3 DEF ConfigSettles
  <2>2. Spared' => Spared
    BY <1>3, <2>1 DEF Spared, ConfigSettles
  <2>3. ASSUME Spared', CacheRight PROVE CacheRight'
    <3>1. cache' = [cache EXCEPT ![e] = IF ConfigAccepted(e) THEN "ok" ELSE "failed"]
      BY <1>3, <2>3 DEF ConfigSettles, Spared
    <3>2. cache \in [Entities -> CacheStates]
      BY DEF BudgetInv
    <3>3. \A x \in Entities : cache'[x] = "failed" => ~ConfigAccepted(x)
      BY <2>3, <3>1, <3>2 DEF CacheRight
    <3> QED BY <2>1, <3>3, SameConfigs DEF CacheRight
  <2> QED BY <1>1, <2>1, <2>2, <2>3, KeptThorough
<1>4. ASSUME NEW path \in DOMAIN task, Discover(path) PROVE Keeps
  <2>1. UNCHANGED <<fed, maxRequests, failures, phase, paths, chains, lost>>
    BY <1>4 DEF Discover
  <2>2. visits' \in Nat /\ visits <= visits' /\ requests <= requests' /\ requests' \in Nat
    <3>1. CASE Spawn(path, Followed(path))
      <4>1. requests' \in Nat
        <5>1. BudgetInv'
          BY <2>1, <3>1, SpawnKeepsBudget
        <5> QED BY <5>1 DEF BudgetInv
      <4> QED BY <1>1, <2>1, <3>1, <4>1, SpawnCounts
    <3>2. CASE UNCHANGED <<requests, visits>>
      BY <1>1, <3>2
    <3> QED BY <1>4, <3>1, <3>2 DEF Discover
  <2>3. Spared' => Spared
    BY <1>1, <2>1, <2>2 DEF Spared
  <2>4. Spared' /\ CacheRight /\ TasksComplete => CacheRight' /\ TasksComplete'
    BY <1>1, <1>4, DiscoverThorough
  <2> QED BY <1>1, <2>1, <2>2, <2>3, <2>4, KeptThorough
<1>5. ASSUME NEW path \in DOMAIN task, Collect(path) PROVE Keeps
  <2>1. UNCHANGED <<fed, maxRequests, cache, requests, visits, phase, paths, chains, lost>>
    BY <1>5 DEF Collect
  <2>2. Spared' => Spared
    BY <2>1 DEF Spared
  <2>3. CacheRight /\ TasksComplete /\ FailuresRight => CacheRight' /\ TasksComplete' /\ FailuresRight'
    BY <1>5, CollectThorough
  <2>4. AllAccounted => AllAccounted'
    <3>1. failures \subseteq failures'
      BY <1>5 DEF Collect
    <3>2. \A q : Accounted(q) => Accounted(q)'
      BY <2>1, <3>1 DEF Accounted
    <3> QED BY <2>1, <3>2, SamePaths DEF AllAccounted
  <2> QED BY <1>1, <2>1, <2>2, <2>3, <2>4
<1>6. ASSUME Discovered PROVE Keeps
  <2>1. UNCHANGED <<fed, maxRequests, cache, requests, visits, task, chains, lost>>
    BY <1>6 DEF Discovered
  <2>2. Spared' => Spared
    BY <2>1 DEF Spared
  <2>3. Bounds
    BY <1>1, <1>6, <2>1 DEF Discovered
  <2>4. TasksComplete /\ FailuresRight => FailuresRight' /\ AllAccounted'
    BY <1>6, DiscoveredThorough
  <2> QED BY <2>1, <2>2, <2>3, <2>4, KeptThorough
<1>7. ASSUME FetchStatement PROVE Keeps
  <2>1. UNCHANGED <<fed, maxRequests, cache, visits, task, phase, chains>> /\ phase = "validate"
    BY <1>7 DEF FetchStatement
  <2>2. Spared' => Spared
    <3>1. requests <= requests' /\ requests' \in Nat /\ (lost => lost')
      BY <1>1, <1>7 DEF FetchStatement
    <3> QED BY <1>1, <2>1, <3>1 DEF Spared
  <2>3. Spared' /\ FailuresRight /\ AllAccounted => FailuresRight' /\ AllAccounted'
    BY <1>7, FetchThorough
  <2> QED BY <1>1, <2>1, <2>2, <2>3, KeptThorough
<1>8. ASSUME FinishPath PROVE Keeps
  <2>1. UNCHANGED <<fed, maxRequests, cache, requests, visits, task, phase, lost>> /\ phase = "validate"
    BY <1>8 DEF FinishPath
  <2>2. Spared' => Spared
    BY <2>1 DEF Spared
  <2>3. FailuresRight /\ AllAccounted => FailuresRight' /\ AllAccounted'
    BY <1>8, FinishThorough
  <2> QED BY <1>1, <2>1, <2>2, <2>3, KeptThorough
<1>9. ASSUME Validated PROVE Keeps
  <2>1. UNCHANGED <<fed, maxRequests, cache, requests, visits, task, failures, paths, chains, lost>>
        /\ phase = "validate" /\ paths = <<>>
    BY <1>9 DEF Validated
  <2>2. Spared' => Spared
    BY <2>1 DEF Spared
  <2> QED BY <1>1, <2>1, <2>2, KeptThorough
<1>10. ASSUME UNCHANGED vars PROVE Keeps
  BY <1>2, <1>10 DEF vars
<1> HIDE DEF Keeps
<1>11. Keeps
  BY <1>3, <1>4, <1>5, <1>6, <1>7, <1>8, <1>9, <1>10 DEF Next, Finished
<1> QED BY <1>0, <1>11

\* As long as no request is lost and the budget suffices, every path to a trust
\* anchor that the hints and limits allow is returned, or reported as a failure:
\* returned exactly when it is a valid chain whose policies agree, whatever
\* other branches of the concurrent discovery fail.
THEOREM ResolutionIsComplete == Spec => []CompleteResolution
<1>1. ASSUME ChainInv, ThoroughInv PROVE CompleteResolution
  <2> SUFFICES ASSUME phase = "finished", ~lost, requests <= maxRequests, visits <= maxRequests,
                      NEW path \in PathsToAnchors
               PROVE  LET returned == \E k \in DOMAIN chains : chains[k].path = path
                      IN  /\ returned # (path \in failures)
                          /\ returned = (ValidChain(path) /\ ResolvedValue(path) # PolicyError)
    BY DEF CompleteResolution
  <2>1. Spared /\ paths = <<>> /\ FailuresRight /\ AllAccounted
    BY <1>1 DEF ThoroughInv, Spared
  <2>2. Reaches(path)
    BY <1>1, PathsReach DEF ChainInv, BudgetInv
  <2>3. (\E k \in DOMAIN chains : chains[k].path = path) \/ path \in failures
    <3>1. Accounted(path)
      BY <2>1, <2>2 DEF AllAccounted
    <3>2. DOMAIN paths = {}
      BY <2>1
    <3> QED BY <3>1, <3>2 DEF Accounted
  <2>4. \A k \in DOMAIN chains : Returnable(chains[k].path)
    BY <1>1, ReturnedChainsOk DEF ChainInv, ChainOk
  <2>5. path \in failures => ~Returnable(path)
    BY <2>1 DEF FailuresRight
  <2>6. Returnable(path) <=> ValidChain(path) /\ ResolvedValue(path) # PolicyError
    BY DEF Returnable
  <2> DEFINE returned == \E k \in DOMAIN chains : chains[k].path = path
             good == ValidChain(path) /\ ResolvedValue(path) # PolicyError
  <2>7. (returned => Returnable(path)) /\ (Returnable(path) <=> good) /\ (returned \/ path \in failures)
    BY <2>3, <2>4, <2>6
  <2>8. returned \in BOOLEAN /\ good \in BOOLEAN /\ (path \in failures) \in BOOLEAN
    OBVIOUS
  <2> HIDE DEF returned, good
  <2>9. returned # (path \in failures) /\ returned = good
    BY <2>5, <2>7, <2>8
  <2> QED BY <2>9 DEF returned, good
<1>2. Spec => []ThoroughInv
  <2>1. Init => ThoroughInv
    BY ThoroughInit
  <2>2. ChainInv /\ ThoroughInv /\ [Next]_vars => ThoroughInv'
    BY ThoroughStep
  <2> QED BY <2>1, <2>2, ChainsStayOk, PTL DEF Spec
<1>3. ChainInv /\ ThoroughInv => CompleteResolution
  BY <1>1
<1> QED BY <1>2, <1>3, ChainsStayOk, PTL
=============================================================================
