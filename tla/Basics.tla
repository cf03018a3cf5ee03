------------------------------- MODULE Basics ------------------------------
(***************************************************************************)
(* What several modules share: the outcome of a chain of checks, the       *)
(* elements of a sequence in a set, and the lemmas about them and about    *)
(* sets of naturals that the proofs need.                                  *)
(***************************************************************************)
EXTENDS Naturals, Sequences, WellFoundedInduction, TLAPS

\* The outcome of a verification: its error, or "ok".
Ok == "ok"

\* Checks made one after another: the first that fails decides.
Failing(checks) == {i \in DOMAIN checks : checks[i] # Ok}
FirstError(checks) ==
    CHOOSE e \in {IF Failing(c) = {} THEN Ok ELSE c[CHOOSE i \in Failing(c) : \A j \in Failing(c) : i <= j] :
                    c \in {checks}} : TRUE

\* The elements of a sequence that are in S, in their order: SelectSeq with a
\* set for the test, of which the provers do not know the definition.
Within(seq, S) ==
    LET kept[n \in 0 .. Len(seq)] ==
            IF n = 0 THEN <<>>
            ELSE IF seq[n] \in S THEN Append(kept[n - 1], seq[n]) ELSE kept[n - 1]
    IN  kept[Len(seq)]

-----------------------------------------------------------------------------
\* A set of naturals has a least element.
LEMMA LeastNat ==
  ASSUME NEW T, T \subseteq Nat, T # {}
  PROVE  \E x \in T : \A y \in T : x <= y
<1> DEFINE R == OpToRel(<, Nat)
<1>1. IsWellFoundedOn(R, Nat)
  BY NatLessThanWellFounded
<1>2. \A x, y \in Nat : <<x, y>> \in R <=> x < y
  BY DEF OpToRel
<1> HIDE DEF R
<1>3. PICK x \in T : \A y \in T : ~(<<y, x>> \in R)
  BY WFMin, <1>1
<1>4. ASSUME NEW y \in T PROVE x <= y
  <2>1. x \in Nat /\ y \in Nat
    OBVIOUS
  <2>2. ~(y < x)
    BY <1>2, <1>3, <2>1, Zenon
  <2> QED BY <2>1, <2>2
<1> QED BY <1>4

\* Induction over a set of naturals (the library states it for a predicate).
LEMMA SetInduction ==
  ASSUME NEW S, S \subseteq Nat, 0 \in S, \A n \in S : n + 1 \in S
  PROVE  S = Nat
<1> SUFFICES ASSUME Nat \ S # {} PROVE FALSE
  OBVIOUS
<1> DEFINE T == Nat \ S
<1>1. PICK x \in T : \A y \in T : x <= y
  <2>1. T \subseteq Nat /\ T # {}
    OBVIOUS
  <2> HIDE DEF T
  <2> QED BY <2>1, LeastNat
<1>2. x # 0 /\ x - 1 \in Nat
  OBVIOUS
<1>3. x - 1 \in S
  BY <1>1, <1>2
<1>4. (x - 1) + 1 \in S
  BY <1>3
<1> QED BY <1>4

\* A chain of checks succeeds only if each of them does.
LEMMA AllChecksOk ==
  ASSUME NEW checks, DOMAIN checks \subseteq Nat, FirstError(checks) = Ok
  PROVE  \A i \in DOMAIN checks : checks[i] = Ok
<1> DEFINE Least(i) == \A j \in Failing(checks) : i <= j
           first == CHOOSE i \in Failing(checks) : Least(i)
<1> SUFFICES ASSUME Failing(checks) # {} PROVE FALSE
  BY DEF Failing
<1>1. \E i \in Failing(checks) : Least(i)
  <2>1. Failing(checks) \subseteq Nat
    BY DEF Failing
  <2> QED BY <2>1, LeastNat
<1>2. FirstError(checks) = checks[first]
  <2> DEFINE r == IF Failing(checks) = {} THEN Ok ELSE checks[first]
  <2>1. FirstError(checks) \in {r}
    BY DEF FirstError
  <2> HIDE DEF r
  <2>2. FirstError(checks) = r
    BY <2>1
  <2> QED BY <2>2 DEF r
<1>3. first \in Failing(checks)
  <2> HIDE DEF Least
  <2> QED BY <1>1
<1> HIDE DEF first
<1> QED BY <1>2, <1>3 DEF Failing

\* The same for the chains of two to five checks the code has.
LEMMA TwoOk ==
  ASSUME NEW a, NEW b, FirstError(<<a, b>>) = Ok
  PROVE  a = Ok /\ b = Ok
<1> DEFINE s == <<a, b>>
<1>1. DOMAIN s \subseteq Nat /\ FirstError(s) = Ok
  OBVIOUS
<1>2. 1 \in DOMAIN s /\ 2 \in DOMAIN s
  OBVIOUS
<1>3. s[1] = a /\ s[2] = b
  OBVIOUS
<1> HIDE DEF s
<1> QED BY <1>1, <1>2, <1>3, AllChecksOk

LEMMA ThreeOk ==
  ASSUME NEW a, NEW b, NEW c, FirstError(<<a, b, c>>) = Ok
  PROVE  a = Ok /\ b = Ok /\ c = Ok
<1> DEFINE s == <<a, b, c>>
<1>1. DOMAIN s \subseteq Nat /\ FirstError(s) = Ok
  OBVIOUS
<1>2. 1 \in DOMAIN s /\ 2 \in DOMAIN s /\ 3 \in DOMAIN s
  OBVIOUS
<1>3. s[1] = a /\ s[2] = b /\ s[3] = c
  OBVIOUS
<1> HIDE DEF s
<1> QED BY <1>1, <1>2, <1>3, AllChecksOk

LEMMA FourOk ==
  ASSUME NEW a, NEW b, NEW c, NEW d, FirstError(<<a, b, c, d>>) = Ok
  PROVE  a = Ok /\ b = Ok /\ c = Ok /\ d = Ok
<1> DEFINE s == <<a, b, c, d>>
<1>1. DOMAIN s \subseteq Nat /\ FirstError(s) = Ok
  OBVIOUS
<1>2. 1 \in DOMAIN s /\ 2 \in DOMAIN s /\ 3 \in DOMAIN s /\ 4 \in DOMAIN s
  OBVIOUS
<1>3. s[1] = a /\ s[2] = b /\ s[3] = c /\ s[4] = d
  OBVIOUS
<1> HIDE DEF s
<1> QED BY <1>1, <1>2, <1>3, AllChecksOk

LEMMA FiveOk ==
  ASSUME NEW a, NEW b, NEW c, NEW d, NEW e, FirstError(<<a, b, c, d, e>>) = Ok
  PROVE  a = Ok /\ b = Ok /\ c = Ok /\ d = Ok /\ e = Ok
<1> DEFINE s == <<a, b, c, d, e>>
<1>1. DOMAIN s \subseteq Nat /\ FirstError(s) = Ok
  OBVIOUS
<1>2. 1 \in DOMAIN s /\ 2 \in DOMAIN s /\ 3 \in DOMAIN s /\ 4 \in DOMAIN s /\ 5 \in DOMAIN s
  OBVIOUS
<1>3. s[1] = a /\ s[2] = b /\ s[3] = c /\ s[4] = d /\ s[5] = e
  OBVIOUS
<1> HIDE DEF s
<1> QED BY <1>1, <1>2, <1>3, AllChecksOk
LEMMA SixOk ==
  ASSUME NEW a, NEW b, NEW c, NEW d, NEW e, NEW f, FirstError(<<a, b, c, d, e, f>>) = Ok
  PROVE  a = Ok /\ b = Ok /\ c = Ok /\ d = Ok /\ e = Ok /\ f = Ok
<1> DEFINE s == <<a, b, c, d, e, f>>
<1>1. DOMAIN s \subseteq Nat /\ FirstError(s) = Ok
  OBVIOUS
<1>2. 1 \in DOMAIN s /\ 2 \in DOMAIN s /\ 3 \in DOMAIN s /\ 4 \in DOMAIN s /\ 5 \in DOMAIN s /\ 6 \in DOMAIN s
  OBVIOUS
<1>3. s[1] = a /\ s[2] = b /\ s[3] = c /\ s[4] = d /\ s[5] = e /\ s[6] = f
  OBVIOUS
<1> HIDE DEF s
<1> QED BY <1>1, <1>2, <1>3, AllChecksOk

\* A chain that fails does so with the error of one of its checks.
LEMMA OneOfTheChecks ==
  ASSUME NEW checks, DOMAIN checks \subseteq Nat
  PROVE  FirstError(checks) = Ok \/ \E i \in DOMAIN checks : FirstError(checks) = checks[i]
<1> DEFINE Least(i) == \A j \in Failing(checks) : i <= j
           first == CHOOSE i \in Failing(checks) : Least(i)
           r == IF Failing(checks) = {} THEN Ok ELSE checks[first]
<1>1. FirstError(checks) = r
  <2>1. FirstError(checks) \in {r}
    BY DEF FirstError
  <2> HIDE DEF r
  <2> QED BY <2>1
<1>2. Failing(checks) # {} => first \in DOMAIN checks
  <2>1. Failing(checks) \subseteq Nat /\ Failing(checks) \subseteq DOMAIN checks
    BY DEF Failing
  <2>2. Failing(checks) # {} => \E i \in Failing(checks) : Least(i)
    BY <2>1, LeastNat
  <2> HIDE DEF Least
  <2>3. Failing(checks) # {} => first \in Failing(checks)
    BY <2>2
  <2> HIDE DEF first
  <2> QED BY <2>1, <2>3
<1> HIDE DEF first
<1> QED BY <1>1, <1>2

LEMMA AmongTwo ==
  ASSUME NEW a, NEW b
  PROVE  FirstError(<<a, b>>) \in {Ok, a, b}
<1> DEFINE s == <<a, b>>
<1>1. DOMAIN s \subseteq Nat
  OBVIOUS
<1>2. \A i \in DOMAIN s : s[i] \in {a, b}
  OBVIOUS
<1> HIDE DEF s
<1>3. FirstError(s) \in {Ok, a, b}
  BY <1>1, <1>2, OneOfTheChecks
<1> QED BY <1>3 DEF s

LEMMA AmongThree ==
  ASSUME NEW a, NEW b, NEW c
  PROVE  FirstError(<<a, b, c>>) \in {Ok, a, b, c}
<1> DEFINE s == <<a, b, c>>
<1>1. DOMAIN s \subseteq Nat
  OBVIOUS
<1>2. \A i \in DOMAIN s : s[i] \in {a, b, c}
  OBVIOUS
<1> HIDE DEF s
<1>3. FirstError(s) \in {Ok, a, b, c}
  BY <1>1, <1>2, OneOfTheChecks
<1> QED BY <1>3 DEF s

LEMMA AmongFour ==
  ASSUME NEW a, NEW b, NEW c, NEW d
  PROVE  FirstError(<<a, b, c, d>>) \in {Ok, a, b, c, d}
<1> DEFINE s == <<a, b, c, d>>
<1>1. DOMAIN s \subseteq Nat
  OBVIOUS
<1>2. \A i \in DOMAIN s : s[i] \in {a, b, c, d}
  OBVIOUS
<1> HIDE DEF s
<1>3. FirstError(s) \in {Ok, a, b, c, d}
  BY <1>1, <1>2, OneOfTheChecks
<1> QED BY <1>3 DEF s

LEMMA AmongSix ==
  ASSUME NEW a, NEW b, NEW c, NEW d, NEW e, NEW f
  PROVE  FirstError(<<a, b, c, d, e, f>>) \in {Ok, a, b, c, d, e, f}
<1> DEFINE s == <<a, b, c, d, e, f>>
<1>1. DOMAIN s \subseteq Nat
  OBVIOUS
<1>2. \A i \in DOMAIN s : s[i] \in {a, b, c, d, e, f}
  OBVIOUS
<1> HIDE DEF s
<1>3. FirstError(s) \in {Ok, a, b, c, d, e, f}
  BY <1>1, <1>2, OneOfTheChecks
<1> QED BY <1>3 DEF s

-----------------------------------------------------------------------------
\* What Within keeps: nothing but elements in S, and each of them.
LEMMA WithinKeeps ==
  ASSUME NEW T, NEW seq \in Seq(T), NEW S
  PROVE  /\ Within(seq, S) \in Seq(T \cap S)
         /\ \A k \in DOMAIN seq : seq[k] \in S => \E m \in DOMAIN Within(seq, S) : Within(seq, S)[m] = seq[k]
<1> DEFINE N == Len(seq)
           kept[n \in 0 .. N] ==
              IF n = 0 THEN <<>>
              ELSE IF seq[n] \in S THEN Append(kept[n - 1], seq[n]) ELSE kept[n - 1]
<1>1. Within(seq, S) = kept[N]
  BY DEF Within
<1>2. N \in Nat /\ DOMAIN seq = 1 .. N
  OBVIOUS
<1> HIDE DEF N
<1> DEFINE Body(n, f) == IF n = 0 THEN <<>> ELSE IF seq[n] \in S THEN Append(f[n - 1], seq[n]) ELSE f[n - 1]
           Upto(m, f) == f = [n \in 0 .. N |-> f[n]] /\ \A n \in 0 .. N : n <= m => f[n] = Body(n, f)
           U == {m \in Nat : \E f : Upto(m, f)}
<1>3. 0 \in U
  <2> DEFINE f == [n \in 0 .. N |-> <<>>]
  <2>1. Upto(0, f)
    BY <1>2
  <2> QED BY <2>1
<1>4. ASSUME NEW m \in U PROVE m + 1 \in U
  <2>1. PICK f : Upto(m, f)
    OBVIOUS
  <2> DEFINE g == [n \in 0 .. N |-> IF n <= m THEN f[n] ELSE Body(n, f)]
  <2>2. ASSUME NEW n \in 0 .. N, n <= m + 1 PROVE g[n] = Body(n, g)
    <3>1. g[n] = Body(n, f)
      <4> HIDE DEF Body
      <4>1. n <= m => f[n] = Body(n, f)
        BY <2>1
      <4> QED BY <4>1
    <3>2. CASE n # 0
      <4>1. n - 1 \in 0 .. N /\ n - 1 <= m
        BY <1>2, <2>2, <3>2
      <4>2. g[n - 1] = f[n - 1]
        BY <4>1
      <4> HIDE DEF g
      <4> QED BY <3>1, <4>2
    <3>3. CASE n = 0
      <4> HIDE DEF g
      <4> QED BY <3>1, <3>3
    <3> QED BY <3>2, <3>3
  <2>3. Upto(m + 1, g)
    <3>1. g = [n \in 0 .. N |-> g[n]]
      OBVIOUS
    <3> HIDE DEF g, Body
    <3> QED BY <2>2, <3>1
  <2> HIDE DEF g, Upto
  <2>4. \E h : Upto(m + 1, h)
    BY <2>3
  <2> QED BY <2>4
<1>5. N \in U
  <2>1. U \subseteq Nat
    OBVIOUS
  <2> HIDE DEF U
  <2> QED BY <1>2, <1>3, <1>4, <2>1, SetInduction
<1>6. \E f : f = [n \in 0 .. N |-> Body(n, f)]
  <2>1. PICK f : Upto(N, f)
    BY <1>5
  <2> HIDE DEF Body
  <2>2. \A n \in 0 .. N : f[n] = Body(n, f)
    <3>1. \A n \in 0 .. N : n <= N
      BY <1>2
    <3> QED BY <2>1, <3>1
  <2>3. f = [n \in 0 .. N |-> Body(n, f)]
    BY <2>1, <2>2
  <2> QED BY <2>3
<1>7. kept = [n \in 0 .. N |-> Body(n, kept)]
  BY <1>6
<1> HIDE DEF kept, U
<1>8. kept[0] = <<>>
  BY <1>2, <1>7
<1>9. ASSUME NEW n \in 1 .. N
      PROVE  kept[n] = IF seq[n] \in S THEN Append(kept[n - 1], seq[n]) ELSE kept[n - 1]
  <2>1. n \in 0 .. N /\ n # 0
    BY <1>2
  <2>2. kept[n] = Body(n, kept)
    <3> HIDE DEF Body
    <3> QED BY <1>7, <2>1
  <2> QED BY <2>1, <2>2
<1> DEFINE Has(n) == /\ kept[n] \in Seq(T \cap S)
                     /\ \A k \in 1 .. n : seq[k] \in S => \E m \in DOMAIN kept[n] : kept[n][m] = seq[k]
           R == {n \in Nat : n <= N => Has(n)}
<1>10. 0 \in R
  <2>1. kept[0] \in Seq(T \cap S)
    BY <1>8
  <2>2. Has(0)
    BY <2>1
  <2> QED BY <2>2
<1>11. ASSUME NEW n \in R, n + 1 <= N PROVE Has(n + 1)
  <2> DEFINE old == kept[n]
             e == seq[n + 1]
  <2>1. n + 1 \in 1 .. N /\ (n + 1) - 1 = n /\ n <= N
    BY <1>2, <1>11
  <2>2. old \in Seq(T \cap S) /\ \A k \in 1 .. n : seq[k] \in S => \E m \in DOMAIN old : old[m] = seq[k]
    BY <1>11, <2>1
  <2>3. kept[n + 1] = IF e \in S THEN Append(old, e) ELSE old
    BY <1>9, <2>1
  <2>4. e \in T
    BY <1>2, <2>1
  <2> HIDE DEF old, e
  <2>5. kept[n + 1] \in Seq(T \cap S)
    BY <2>2, <2>3, <2>4
  <2>6. ASSUME NEW k \in 1 .. n + 1, seq[k] \in S
        PROVE  \E m \in DOMAIN kept[n + 1] : kept[n + 1][m] = seq[k]
    <3>1. CASE k = n + 1
      <4>1. kept[n + 1] = Append(old, e) /\ seq[k] = e
        BY <2>3, <2>6, <3>1 DEF e
      <4>2. Len(old) + 1 \in DOMAIN Append(old, e) /\ Append(old, e)[Len(old) + 1] = e
        BY <2>2, <2>4
      <4> QED BY <4>1, <4>2
    <3>2. CASE k # n + 1
      <4>1. k \in 1 .. n
        BY <2>6, <3>2
      <4>2. PICK m \in DOMAIN old : old[m] = seq[k]
        BY <2>2, <2>6, <4>1
      <4>3. m \in DOMAIN Append(old, e) /\ Append(old, e)[m] = old[m]
        BY <2>2, <2>4
      <4> QED BY <2>3, <4>2, <4>3
    <3> QED BY <3>1, <3>2
  <2> QED BY <2>5, <2>6
<1>12. R = Nat
  <2>1. \A n \in R : n + 1 \in R
    <3> HIDE DEF Has
    <3> QED BY <1>2, <1>11
  <2>2. R \subseteq Nat
    OBVIOUS
  <2> HIDE DEF R
  <2> QED BY <1>10, <2>1, <2>2, SetInduction
<1>13. Has(N)
  BY <1>2, <1>12
<1> QED BY <1>1, <1>2, <1>13
============================================================================
