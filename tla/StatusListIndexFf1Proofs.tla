--------------------- MODULE StatusListIndexFf1Proofs ----------------------
(***************************************************************************)
(* Three steps.  FF1's Feistel network permutes its domain whatever the    *)
(* round function is and however the rounds of concurrent encryptions      *)
(* interleave.  An allocator over any permutation hands out no index       *)
(* twice, for every list length, number of callers, and interleaving of    *)
(* their calls with failures and restarts.  And the allocator over the     *)
(* rounds of FF1 implements the allocator over a permutation, so that what *)
(* was proved of each part holds of the two together.                      *)
(***************************************************************************)
EXTENDS StatusListIndexFf1, Basics

-----------------------------------------------------------------------------
(* FF1 *)

\* A remainder lies below its modulus.
LEMMA ModRange ==
  ASSUME NEW x \in Nat, NEW m \in Nat \ {0}
  PROVE  x % m \in 0 .. m - 1
OBVIOUS

\* Adding the same y modulo m can be undone.
LEMMA AddModInjective ==
  ASSUME NEW m \in Nat \ {0}, NEW y \in Nat,
         NEW p \in 0 .. m - 1, NEW q \in 0 .. m - 1,
         (p + y) % m = (q + y) % m
  PROVE  p = q
<1> DEFINE r == (p + y) % m
           j == (p + y) \div m
           k == (q + y) \div m
<1>1. /\ j \in Int /\ k \in Int /\ r \in 0 .. m - 1
      /\ p + y = m * j + r
      /\ q + y = m * k + r
  OBVIOUS
<1> HIDE DEF r, j, k
<1>2. p - q = m * (j - k)
  BY <1>1
<1>3. j - k < 1
  <2> SUFFICES ASSUME j - k >= 1 PROVE FALSE
    BY <1>1
  <2>1. m * (j - k) >= m
    BY <1>1
  <2> QED BY <1>2, <2>1
<1>4. k - j < 1
  <2> SUFFICES ASSUME k - j >= 1 PROVE FALSE
    BY <1>1
  <2>1. m * (k - j) >= m
    BY <1>1
  <2>2. q - p = m * (k - j)
    BY <1>1
  <2> QED BY <2>1, <2>2
<1>5. j = k
  BY <1>1, <1>3, <1>4
<1> QED BY <1>1, <1>5

\* The modulus of round r, which bounds the first half before it.
Modulus(r) == IF r % 2 = 0 THEN RadixU ELSE RadixV

\* A round takes halves within their ranges to halves within the next ranges.
LEMMA RoundRange ==
  ASSUME mac \in RoundMacs, NEW r \in 0 .. Rounds - 1, NEW h \in HalfA(r) \X HalfB(r)
  PROVE  /\ Modulus(r) \in Nat \ {0}
         /\ h[1] \in 0 .. Modulus(r) - 1
         /\ mac[r][h[2]] \in Nat
         /\ RoundResult(r, h) = <<h[2], (h[1] + mac[r][h[2]]) % Modulus(r)>>
         /\ RoundResult(r, h) \in HalfA(r + 1) \X HalfB(r + 1)
<1>1. Modulus(r) \in Nat \ {0} /\ h[1] \in 0 .. Modulus(r) - 1
  BY RadixAssumption DEF Modulus, HalfA
<1>2. h[2] \in 0 .. RadixV - 1
  BY RadixAssumption DEF HalfB
<1>3. mac[r][h[2]] \in Nat
  BY <1>2, MacAssumption, ZenonT(60)
<1>4. RoundResult(r, h) = <<h[2], (h[1] + mac[r][h[2]]) % Modulus(r)>>
  BY DEF RoundResult, Modulus
<1>5. h[1] + mac[r][h[2]] \in Nat
  BY <1>1, <1>3
<1>6. (h[1] + mac[r][h[2]]) % Modulus(r) \in 0 .. Modulus(r) - 1
  BY <1>1, <1>5, ModRange
<1>7. HalfA(r + 1) = HalfB(r) /\ HalfB(r + 1) = 0 .. Modulus(r) - 1
  BY RoundsAssumption DEF HalfA, HalfB, Modulus
<1> QED BY <1>1, <1>3, <1>4, <1>6, <1>7

\* No round merges two pairs of halves.
LEMMA RoundInjective ==
  ASSUME mac \in RoundMacs, NEW r \in 0 .. Rounds - 1,
         NEW g \in HalfA(r) \X HalfB(r), NEW h \in HalfA(r) \X HalfB(r),
         RoundResult(r, g) = RoundResult(r, h)
  PROVE  g = h
<1>1. /\ Modulus(r) \in Nat \ {0} /\ mac[r][g[2]] \in Nat
      /\ g[1] \in 0 .. Modulus(r) - 1 /\ h[1] \in 0 .. Modulus(r) - 1
      /\ g[2] = h[2]
      /\ (g[1] + mac[r][g[2]]) % Modulus(r) = (h[1] + mac[r][h[2]]) % Modulus(r)
  BY RoundRange
<1>2. g[1] = h[1]
  BY <1>1, AddModInjective
<1> QED BY <1>1, <1>2

\* The halves of a value of the domain are in their first ranges.
LEMMA SplitRange ==
  ASSUME NEW x \in Ff1Values
  PROVE  /\ <<x \div RadixV, x % RadixV>> \in HalfA(0) \X HalfB(0)
         /\ x = RadixV * (x \div RadixV) + (x % RadixV)
<1> USE RadixAssumption
<1>1. x \in Nat /\ x < RadixU * RadixV
  BY DEF Ff1Values
<1>2. /\ x \div RadixV \in Nat /\ x % RadixV \in 0 .. RadixV - 1
      /\ x = RadixV * (x \div RadixV) + (x % RadixV)
  BY <1>1
<1>3. x \div RadixV < RadixU
  <2> DEFINE d == x \div RadixV
  <2>1. d \in Nat /\ x >= RadixV * d
    BY <1>2
  <2> HIDE DEF d
  <2>2. ASSUME d >= RadixU PROVE FALSE
    <3>1. RadixV * d = RadixV * RadixU + RadixV * (d - RadixU)
      BY <2>1
    <3>2. RadixV * (d - RadixU) >= 0
      BY <2>1, <2>2
    <3> QED BY <1>1, <2>1, <3>1, <3>2
  <2> QED BY <2>1, <2>2 DEF d
<1> QED BY <1>2, <1>3 DEF HalfA, HalfB

\* A step of the round loop adds one pair to the halves of its call.
LEMMA RoundEffect ==
  ASSUME Ff1TypeOK, NEW e \in Encryptions, Round(e)
  PROVE  /\ round[e] \in 0 .. Rounds - 1
         /\ mac' = mac /\ plain' = plain
         /\ \A f \in Encryptions :
               round'[f] = IF f = e THEN round[e] + 1 ELSE round[f]
         /\ \A f \in Encryptions : \A r \in 0 .. Rounds :
               halves'[f][r] = IF f = e /\ r = round[e] + 1
                                 THEN RoundResult(round[e], halves[e][round[e]])
                                 ELSE halves[f][r]
<1>1. round[e] \in 0 .. Rounds - 1
  <2>1. round[e] \in -1 .. Rounds /\ round[e] >= 0 /\ round[e] # Rounds
    BY DEF Round, Running, Ready, Ff1TypeOK
  <2> QED BY <2>1, RoundsAssumption
<1>2. mac' = mac /\ plain' = plain
  BY DEF Round
<1>3. \A f \in Encryptions : round'[f] = IF f = e THEN round[e] + 1 ELSE round[f]
  BY DEF Round, Ff1TypeOK
<1>4. ASSUME NEW f \in Encryptions, NEW r \in 0 .. Rounds
      PROVE  halves'[f][r] = IF f = e /\ r = round[e] + 1
                               THEN RoundResult(round[e], halves[e][round[e]])
                               ELSE halves[f][r]
  <2> DEFINE h == RoundResult(round[e], halves[e][round[e]])
  <2>1. halves' = [halves EXCEPT ![e] = [halves[e] EXCEPT ![round[e] + 1] = h]]
    BY DEF Round
  <2>2. /\ halves'[e] = [halves[e] EXCEPT ![round[e] + 1] = h]
        /\ f # e => halves'[f] = halves[f]
    BY <2>1 DEF Ff1TypeOK
  <2> HIDE DEF h
  <2>3. [halves[e] EXCEPT ![round[e] + 1] = h][r] = IF r = round[e] + 1 THEN h ELSE halves[e][r]
    BY DEF Ff1TypeOK
  <2> QED BY <2>2, <2>3 DEF h
<1> QED BY <1>1, <1>2, <1>3, <1>4

\* The halves stay within their ranges, which alternate with the rounds.
THEOREM Ff1TypeCorrect == Ff1Spec => []Ff1TypeOK
<1>1. Ff1Init => Ff1TypeOK
  BY RadixAssumption, RoundsAssumption DEF Ff1Init, Ff1TypeOK, Ff1Values, NoHalves
<1>2. Ff1TypeOK /\ [Ff1Next]_ff1Vars => Ff1TypeOK'
  <2> SUFFICES ASSUME Ff1TypeOK, [Ff1Next]_ff1Vars PROVE Ff1TypeOK'
    OBVIOUS
  <2>0. NoHalves \in [0 .. Rounds -> Nat \X Nat]
    BY DEF NoHalves
  <2>1. ASSUME NEW e \in Encryptions, NEW x \in Ff1Values, Begin(e, x) PROVE Ff1TypeOK'
    <3> DEFINE h == <<x \div RadixV, x % RadixV>>
    <3>1. h \in HalfA(0) \X HalfB(0)
      BY SplitRange
    <3>2. h \in Nat \X Nat
      BY <3>1, RadixAssumption DEF HalfA, HalfB
    <3> HIDE DEF h
    <3>3. halves' = [halves EXCEPT ![e] = [NoHalves EXCEPT ![0] = h]]
      BY <2>1 DEF Begin, h
    <3>4. /\ [NoHalves EXCEPT ![0] = h] \in [0 .. Rounds -> Nat \X Nat]
          /\ [NoHalves EXCEPT ![0] = h][0] = h
      BY <2>0, <3>2, RoundsAssumption
    <3>5. /\ mac' \in RoundMacs
          /\ plain' \in [Encryptions -> Ff1Values]
          /\ round' = [round EXCEPT ![e] = 0]
          /\ round' \in [Encryptions -> -1 .. Rounds]
          /\ halves' \in [Encryptions -> [0 .. Rounds -> Nat \X Nat]]
      BY <2>1, <3>3, <3>4, RoundsAssumption DEF Begin, Ff1TypeOK
    <3>6. ASSUME NEW f \in Encryptions, NEW r \in 0 .. Rounds, r <= round'[f]
          PROVE  halves'[f][r] \in HalfA(r) \X HalfB(r)
      <4>1. CASE f = e
        BY <3>1, <3>3, <3>4, <3>5, <3>6, <4>1 DEF Ff1TypeOK
      <4>2. CASE f # e
        BY <3>3, <3>5, <3>6, <4>2 DEF Ff1TypeOK
      <4> QED BY <4>1, <4>2
    <3> QED BY <3>5, <3>6 DEF Ff1TypeOK
  <2>2. ASSUME NEW e \in Encryptions, Round(e) PROVE Ff1TypeOK'
    <3> DEFINE k == round[e]
               h == RoundResult(k, halves[e][k])
    <3>1. k \in 0 .. Rounds - 1
      BY <2>2, RoundEffect
    <3>2. halves[e][k] \in HalfA(k) \X HalfB(k)
      BY <3>1, RoundsAssumption DEF Ff1TypeOK
    <3>3. h \in HalfA(k + 1) \X HalfB(k + 1)
      BY <3>1, <3>2, RoundRange DEF Ff1TypeOK
    <3>4. h \in Nat \X Nat
      BY <3>3, RadixAssumption DEF HalfA, HalfB
    <3>5. mac' \in RoundMacs /\ plain' \in [Encryptions -> Ff1Values]
      BY <2>2 DEF Round, Ff1TypeOK
    <3>6. round' \in [Encryptions -> -1 .. Rounds]
      <4>1. k + 1 \in -1 .. Rounds
        BY <3>1, RoundsAssumption
      <4> QED BY <2>2, <4>1 DEF Round, Ff1TypeOK
    <3>7. halves' \in [Encryptions -> [0 .. Rounds -> Nat \X Nat]]
      <4>1. halves' = [halves EXCEPT ![e] = [halves[e] EXCEPT ![k + 1] = h]]
        BY <2>2 DEF Round
      <4> HIDE DEF h, k
      <4>2. [halves[e] EXCEPT ![k + 1] = h] \in [0 .. Rounds -> Nat \X Nat]
        BY <3>4 DEF Ff1TypeOK
      <4> QED BY <4>1, <4>2 DEF Ff1TypeOK
    <3>8. ASSUME NEW f \in Encryptions, NEW r \in 0 .. Rounds, r <= round'[f]
          PROVE  halves'[f][r] \in HalfA(r) \X HalfB(r)
      <4>1. CASE f = e /\ r = k + 1
        BY <2>2, <3>3, <4>1, RoundEffect
      <4>2. CASE ~(f = e /\ r = k + 1)
        <5>1. halves'[f][r] = halves[f][r] /\ round'[f] = (IF f = e THEN k + 1 ELSE round[f])
          BY <2>2, <4>2, RoundEffect
        <5>2. r <= round[f]
          BY <3>1, <3>8, <4>2, <5>1
        <5> QED BY <5>1, <5>2 DEF Ff1TypeOK
      <4> QED BY <4>1, <4>2
    <3> QED BY <3>5, <3>6, <3>7, <3>8 DEF Ff1TypeOK
  <2>3. ASSUME NEW E \in SUBSET Encryptions, End(E) PROVE Ff1TypeOK'
    <3>1. /\ mac' \in RoundMacs
          /\ plain' \in [Encryptions -> Ff1Values]
          /\ round' \in [Encryptions -> -1 .. Rounds]
          /\ halves' \in [Encryptions -> [0 .. Rounds -> Nat \X Nat]]
      BY <2>0, <2>3, RoundsAssumption DEF End, Ff1TypeOK
    <3>2. ASSUME NEW f \in Encryptions, NEW r \in 0 .. Rounds, r <= round'[f]
          PROVE  halves'[f][r] \in HalfA(r) \X HalfB(r)
      BY <2>3, <3>2 DEF End, Ff1TypeOK
    <3> QED BY <3>1, <3>2 DEF Ff1TypeOK
  <2>4. CASE UNCHANGED ff1Vars
    BY <2>4 DEF ff1Vars, Ff1TypeOK
  <2> QED BY <2>1, <2>2, <2>3, <2>4 DEF Ff1Next
<1> QED BY <1>1, <1>2, PTL DEF Ff1Spec

\* A value of the domain has one pair of halves: the result of ff1Encrypt
\* determines them.
LEMMA HalvesUnique ==
  ASSUME NEW p \in 0 .. RadixU - 1, NEW q \in 0 .. RadixU - 1,
         NEW x \in 0 .. RadixV - 1, NEW y \in 0 .. RadixV - 1
  PROVE  /\ p * RadixV + x \in Ff1Values
         /\ p * RadixV + x = q * RadixV + y => p = q /\ x = y
<1> USE RadixAssumption
<1>1. p * RadixV + x \in Ff1Values
  <2>1. p * RadixV >= 0 /\ (p + 1) * RadixV <= RadixU * RadixV
    OBVIOUS
  <2>2. (p + 1) * RadixV = p * RadixV + RadixV
    OBVIOUS
  <2> QED BY <2>1, <2>2 DEF Ff1Values
<1>2. ASSUME p * RadixV + x = q * RadixV + y PROVE p = q /\ x = y
  <2>1. (p - q) * RadixV = y - x
    BY <1>2
  <2>2. p - q < 1
    <3> SUFFICES ASSUME p - q >= 1 PROVE FALSE
      OBVIOUS
    <3>1. (p - q) * RadixV >= RadixV
      OBVIOUS
    <3> QED BY <2>1, <3>1
  <2>3. q - p < 1
    <3> SUFFICES ASSUME q - p >= 1 PROVE FALSE
      OBVIOUS
    <3>1. (q - p) * RadixV >= RadixV
      OBVIOUS
    <3>2. (q - p) * RadixV = x - y
      BY <1>2
    <3> QED BY <3>1, <3>2
  <2>4. p = q
    BY <2>2, <2>3
  <2> QED BY <2>4, <1>2
<1> QED BY <1>1, <1>2

\* Each pair of halves is what its round makes of the pair before it.
THEOREM TracesInvariant == Ff1Spec => []Traces
<1>1. Ff1Init => Traces
  BY DEF Ff1Init, Traces, Running
<1>2. Ff1TypeOK /\ Traces /\ [Ff1Next]_ff1Vars => Traces'
  <2> SUFFICES ASSUME Ff1TypeOK, Traces, [Ff1Next]_ff1Vars PROVE Traces'
    OBVIOUS
  <2>1. ASSUME NEW e \in Encryptions, NEW x \in Ff1Values, Begin(e, x) PROVE Traces'
    <3> SUFFICES ASSUME NEW f \in Encryptions, Running(f)'
                 PROVE  /\ halves'[f][0] = <<plain'[f] \div RadixV, plain'[f] % RadixV>>
                        /\ \A r \in 0 .. Rounds - 1 :
                              r < round'[f] => halves'[f][r + 1] = RoundResult(r, halves[f][r])'
      BY DEF Traces
    <3>1. CASE f = e
      <4>1. halves'[e][0] = <<x \div RadixV, x % RadixV>> /\ plain'[e] = x /\ round'[e] = 0
        BY <2>1, RoundsAssumption DEF Begin, NoHalves, Ff1TypeOK
      <4> QED BY <3>1, <4>1
    <3>2. CASE f # e
      <4>1. halves'[f] = halves[f] /\ plain'[f] = plain[f] /\ round'[f] = round[f] /\ mac' = mac
        BY <2>1, <3>2 DEF Begin, Ff1TypeOK
      <4> QED BY <4>1 DEF Traces, Running, RoundResult
    <3> QED BY <3>1, <3>2
  <2>2. ASSUME NEW e \in Encryptions, Round(e) PROVE Traces'
    <3> SUFFICES ASSUME NEW f \in Encryptions, Running(f)'
                 PROVE  /\ halves'[f][0] = <<plain'[f] \div RadixV, plain'[f] % RadixV>>
                        /\ \A r \in 0 .. Rounds - 1 :
                              r < round'[f] => halves'[f][r + 1] = RoundResult(r, halves[f][r])'
      BY DEF Traces
    <3> DEFINE k == round[e]
    <3>1. /\ k \in 0 .. Rounds - 1
          /\ mac' = mac /\ plain' = plain
          /\ round'[f] = IF f = e THEN k + 1 ELSE round[f]
          /\ \A r \in 0 .. Rounds :
                halves'[f][r] = IF f = e /\ r = k + 1 THEN RoundResult(k, halves[e][k])
                                                      ELSE halves[f][r]
      BY <2>2, RoundEffect
    <3> HIDE DEF k
    <3>2. Running(f)
      BY <3>1 DEF Running, k
    <3>3. halves'[f][0] = <<plain'[f] \div RadixV, plain'[f] % RadixV>>
      BY <3>1, <3>2, RoundsAssumption DEF Traces
    <3>4. ASSUME NEW r \in 0 .. Rounds - 1, r < round'[f]
          PROVE  halves'[f][r + 1] = RoundResult(r, halves'[f][r])
      <4>1. r \in 0 .. Rounds /\ r + 1 \in 0 .. Rounds
        BY RoundsAssumption
      <4>2. halves'[f][r] = halves[f][r]
        BY <3>1, <3>4, <4>1
      <4>3. CASE f = e /\ r = k
        BY <3>1, <4>1, <4>2, <4>3
      <4>4. CASE ~(f = e /\ r = k)
        <5>1. r < round[f]
          BY <3>1, <3>4, <4>4 DEF k
        <5>2. halves'[f][r + 1] = halves[f][r + 1]
          BY <3>1, <4>1, <4>4
        <5> QED BY <3>2, <4>2, <5>1, <5>2 DEF Traces
      <4> QED BY <4>3, <4>4
    <3> QED BY <3>1, <3>3, <3>4 DEF RoundResult
  <2>3. ASSUME NEW E \in SUBSET Encryptions, End(E) PROVE Traces'
    <3> SUFFICES ASSUME NEW f \in Encryptions, Running(f)'
                 PROVE  /\ halves'[f][0] = <<plain'[f] \div RadixV, plain'[f] % RadixV>>
                        /\ \A r \in 0 .. Rounds - 1 :
                              r < round'[f] => halves'[f][r + 1] = RoundResult(r, halves[f][r])'
      BY DEF Traces
    <3>1. halves'[f] = halves[f] /\ plain'[f] = plain[f] /\ round'[f] = round[f] /\ mac' = mac
      BY <2>3 DEF End, Running
    <3> QED BY <3>1 DEF Traces, Running, RoundResult
  <2>4. CASE UNCHANGED ff1Vars
    BY <2>4 DEF ff1Vars, Traces, Running, RoundResult
  <2> QED BY <2>1, <2>2, <2>3, <2>4 DEF Ff1Next
<1> QED BY <1>1, <1>2, Ff1TypeCorrect, PTL DEF Ff1Spec

\* The halves of two calls differ in a round exactly when their values do.
THEOREM RoundsNeverMerge == Ff1Spec => []NeverMerge
<1>1. Ff1Init => NeverMerge
  BY RoundsAssumption DEF Ff1Init, NeverMerge
<1>2. ASSUME Ff1TypeOK, Ff1TypeOK', Traces, Traces', NeverMerge, [Ff1Next]_ff1Vars
      PROVE  NeverMerge'
  <2> SUFFICES ASSUME NEW e \in Encryptions, NEW f \in Encryptions, NEW r \in 0 .. Rounds,
                      r <= round'[e], r <= round'[f]
               PROVE  halves'[e][r] = halves'[f][r] <=> plain'[e] = plain'[f]
    BY DEF NeverMerge
  <2>1. CASE r = 0
    <3>1. /\ halves'[e][0] = <<plain'[e] \div RadixV, plain'[e] % RadixV>>
          /\ halves'[f][0] = <<plain'[f] \div RadixV, plain'[f] % RadixV>>
          /\ plain'[e] \in Ff1Values /\ plain'[f] \in Ff1Values
      BY <1>2, <2>1 DEF Traces, Running, Ff1TypeOK
    <3>2. /\ plain'[e] = RadixV * (plain'[e] \div RadixV) + (plain'[e] % RadixV)
          /\ plain'[f] = RadixV * (plain'[f] \div RadixV) + (plain'[f] % RadixV)
      BY <3>1, SplitRange
    <3> QED BY <2>1, <3>1, <3>2
  <2>2. ASSUME r > 0, NEW g \in Encryptions, Round(g)
        PROVE  halves'[e][r] = halves'[f][r] <=> plain'[e] = plain'[f]
    <3> DEFINE s == r - 1
    <3>1. /\ round'[e] \in Int /\ round'[f] \in Int
          /\ mac' = mac /\ plain' = plain /\ mac \in RoundMacs
      BY <1>2, <2>2 DEF Round, Ff1TypeOK
    <3>2. /\ s \in 0 .. Rounds - 1 /\ s \in 0 .. Rounds /\ r = s + 1
          /\ s < round'[e] /\ s < round'[f]
      BY <2>2, <3>1, RoundsAssumption
    <3> HIDE DEF s
    <3>3. /\ halves'[e][s] \in HalfA(s) \X HalfB(s)
          /\ halves'[f][s] \in HalfA(s) \X HalfB(s)
      <4>1. s <= round'[e] /\ s <= round'[f]
        BY <3>1, <3>2
      <4> QED BY <1>2, <3>2, <4>1 DEF Ff1TypeOK
    <3>4. /\ halves'[e][r] = RoundResult(s, halves'[e][s])
          /\ halves'[f][r] = RoundResult(s, halves'[f][s])
      <4>1. Running(e)' /\ Running(f)'
        BY <3>1, <3>2 DEF Running
      <4> QED BY <1>2, <3>1, <3>2, <4>1 DEF Traces, RoundResult
    <3>5. halves'[e][r] = halves'[f][r] <=> halves'[e][s] = halves'[f][s]
      BY <3>1, <3>2, <3>3, <3>4, RoundInjective
    <3>6. ASSUME NEW h \in Encryptions, s < round'[h]
          PROVE  s <= round[h] /\ halves'[h][s] = halves[h][s]
      <4>1. /\ round[g] \in 0 .. Rounds - 1 /\ round[h] \in Int
            /\ round'[h] = IF h = g THEN round[g] + 1 ELSE round[h]
            /\ halves'[h][s] = IF h = g /\ s = round[g] + 1
                                 THEN RoundResult(round[g], halves[g][round[g]])
                                 ELSE halves[h][s]
        BY <1>2, <2>2, <3>2, RoundEffect DEF Ff1TypeOK
      <4> QED BY <3>2, <3>6, <4>1
    <3> QED BY <1>2, <3>1, <3>2, <3>5, <3>6 DEF NeverMerge
  <2>3. ASSUME r > 0, NEW g \in Encryptions, NEW x \in Ff1Values, Begin(g, x)
        PROVE  halves'[e][r] = halves'[f][r] <=> plain'[e] = plain'[f]
    <3>1. e # g /\ f # g
      BY <1>2, <2>3 DEF Begin, Ff1TypeOK
    <3>2. /\ halves'[e] = halves[e] /\ plain'[e] = plain[e] /\ round'[e] = round[e]
          /\ halves'[f] = halves[f] /\ plain'[f] = plain[f] /\ round'[f] = round[f]
      BY <1>2, <2>3, <3>1 DEF Begin, Ff1TypeOK
    <3> QED BY <1>2, <3>2 DEF NeverMerge
  <2>4. ASSUME NEW E \in SUBSET Encryptions, End(E)
        PROVE  halves'[e][r] = halves'[f][r] <=> plain'[e] = plain'[f]
    <3>1. /\ halves'[e] = halves[e] /\ plain'[e] = plain[e] /\ round'[e] = round[e]
          /\ halves'[f] = halves[f] /\ plain'[f] = plain[f] /\ round'[f] = round[f]
      BY <1>2, <2>4 DEF End, Ff1TypeOK
    <3> QED BY <1>2, <3>1 DEF NeverMerge
  <2>5. CASE UNCHANGED ff1Vars
    BY <1>2, <2>5 DEF ff1Vars, NeverMerge
  <2> QED BY <1>2, <2>1, <2>2, <2>3, <2>4, <2>5 DEF Ff1Next
<1> QED BY <1>1, <1>2, Ff1TypeCorrect, TracesInvariant, PTL DEF Ff1Spec

\* ff1Encrypt is a permutation of [0, radix^length), whatever else is being
\* encrypted at the same time.
THEOREM Ff1Permutes == Ff1Spec => []Permutes
<1>1. Ff1TypeOK /\ NeverMerge => Permutes
  <2> SUFFICES ASSUME Ff1TypeOK, NeverMerge,
                      NEW e \in Encryptions, NEW f \in Encryptions, Ready(e), Ready(f)
               PROVE  /\ Output(e) \in Ff1Values
                      /\ Output(e) = Output(f) <=> plain[e] = plain[f]
    BY DEF Permutes
  <2>1. Rounds \in 0 .. Rounds /\ Rounds <= round[e] /\ Rounds <= round[f]
    BY RoundsAssumption DEF Ready
  <2>2. /\ halves[e][Rounds] \in (0 .. RadixU - 1) \X (0 .. RadixV - 1)
        /\ halves[f][Rounds] \in (0 .. RadixU - 1) \X (0 .. RadixV - 1)
    <3>1. HalfA(Rounds) = 0 .. RadixU - 1 /\ HalfB(Rounds) = 0 .. RadixV - 1
      BY RoundsAssumption DEF HalfA, HalfB
    <3>2. /\ halves[e][Rounds] \in HalfA(Rounds) \X HalfB(Rounds)
          /\ halves[f][Rounds] \in HalfA(Rounds) \X HalfB(Rounds)
      BY <2>1 DEF Ff1TypeOK
    <3> QED BY <3>1, <3>2
  <2>3. halves[e][Rounds] = halves[f][Rounds] <=> plain[e] = plain[f]
    BY <2>1 DEF NeverMerge
  <2>4. Output(e) \in Ff1Values
    BY <2>2, HalvesUnique DEF Output
  <2>5. Output(e) = Output(f) <=> halves[e][Rounds] = halves[f][Rounds]
    BY <2>2, HalvesUnique DEF Output
  <2> QED BY <2>3, <2>4, <2>5
<1> QED BY <1>1, Ff1TypeCorrect, RoundsNeverMerge, PTL

-----------------------------------------------------------------------------
(* The allocator over a permutation *)

USE LengthAssumption, DomainAssumption

\* What FF1 gives the allocator: results in its domain, and distinct ones.
LEMMA CipherFacts ==
  ASSUME cipher \in Ciphers
  PROVE  /\ cipher \in [Values -> Values]
         /\ \A x, y \in Values : cipher[x] = cipher[y] => x = y
BY CipherAssumption

\* Every step of the allocator keeps the types.
LEMMA TypeStep ==
  ASSUME TypeOK, [Next]_vars
  PROVE  TypeOK'
<1> USE DEF TypeOK, Indices, Values
<1>1. ASSUME NEW c \in Calls, Claim(c) PROVE TypeOK'
  BY <1>1 DEF Claim
<1>2. ASSUME NEW c \in Calls, Exhausted(c) PROVE TypeOK'
  BY <1>2 DEF Exhausted
<1>3. ASSUME NEW c \in Calls, Encrypt(c) PROVE TypeOK'
  <2>1. cipher[value[c]] \in Values
    BY CipherFacts
  <2> QED BY <1>3, <2>1 DEF Encrypt
<1>4. ASSUME NEW c \in Calls, EncryptBlockRejects(c) PROVE TypeOK'
  BY <1>4 DEF EncryptBlockRejects
<1>5. ASSUME NEW c \in Calls, Issue(c) PROVE TypeOK'
  BY <1>5 DEF Issue
<1>6. CASE Restart
  BY <1>6 DEF Restart
<1>7. CASE UNCHANGED vars
  BY <1>7 DEF vars
<1> QED BY <1>1, <1>2, <1>3, <1>4, <1>5, <1>6, <1>7 DEF Next

\* The fields of the allocator and the locals of next() keep their types:
\* the position stays within the list and every value within FF1's domain.
THEOREM TypeCorrect == Spec => []TypeOK
<1>1. Init => TypeOK
  BY DEF Init, TypeOK, Indices, Values
<1>2. TypeOK /\ [Next]_vars => TypeOK'
  BY TypeStep
<1> QED BY <1>1, <1>2, PTL DEF Spec

\* One encryption of a live walk never lands on a value that another live walk
\* has been through: the common predecessor would belong to both walks.
LEMMA StepsApart ==
  ASSUME TypeOK, IndexInv,
         NEW c \in Calls, NEW d \in Calls, c # d,
         pc[c] = "walking", Live(d)
  PROVE  cipher[value[c]] \notin walked[d]
<1> USE DEF TypeOK, Indices, Values, Live
<1> SUFFICES ASSUME cipher[value[c]] \in walked[d] PROVE FALSE
  OBVIOUS
<1>1. PICK u \in Values :
         /\ cipher[u] = cipher[value[c]]
         /\ u = claimed[d] \/ (u \in walked[d] /\ u >= Length)
  BY DEF IndexInv, WalkShape
<1>2. u = value[c]
  BY <1>1, CipherFacts
<1>3. CASE walked[c] = {} /\ value[c] = claimed[c]
  BY <1>1, <1>2, <1>3 DEF IndexInv, PositionsApart
<1>4. CASE value[c] \in walked[c] /\ value[c] >= Length
  BY <1>1, <1>2, <1>4 DEF IndexInv, WalksDisjoint
<1> QED BY <1>3, <1>4 DEF IndexInv, WalkShape

\* The positions held by live calls and the walks they are on stay apart.
THEOREM IndexInvariant == Spec => []IndexInv
<1> USE DEF TypeOK, Indices, Values, Live, HandedOut
<1>1. Init => IndexInv
  BY DEF Init, IndexInv, PositionsApart, WalkShape, WalksDisjoint
<1>2. TypeOK /\ IndexInv /\ [Next]_vars => IndexInv'
  <2> SUFFICES ASSUME TypeOK, IndexInv, [Next]_vars PROVE IndexInv'
    OBVIOUS
  <2> USE DEF IndexInv
  <2>1. ASSUME NEW c \in Calls, Claim(c) PROVE IndexInv'
    <3>1. PositionsApart'
      BY <2>1 DEF Claim, PositionsApart
    <3>2. WalkShape'
      BY <2>1 DEF Claim, WalkShape
    <3>3. WalksDisjoint'
      BY <2>1 DEF Claim, WalksDisjoint, WalkShape
    <3> QED BY <3>1, <3>2, <3>3
  <2>2. ASSUME NEW c \in Calls, Exhausted(c) PROVE IndexInv'
    BY <2>2 DEF Exhausted, PositionsApart, WalkShape, WalksDisjoint
  <2>3. ASSUME NEW c \in Calls, Encrypt(c) PROVE IndexInv'
    <3>1. PositionsApart'
      BY <2>3 DEF Encrypt, PositionsApart
    <3>2. WalkShape'
      <4> SUFFICES ASSUME NEW d \in Calls PROVE WalkShape!(d)'
        BY DEF WalkShape
      <4>1. CASE d = c
        <5> DEFINE v == cipher[value[c]]
        <5>1. v \in Values
          BY CipherFacts
        <5>2. /\ pc[c] = "walking"
              /\ value'[c] = v /\ walked'[c] = walked[c] \cup {v}
              /\ pc'[c] = IF v >= Length THEN "walking" ELSE "returned"
              /\ claimed' = claimed /\ cipher' = cipher
          BY <2>3 DEF Encrypt
        <5>3. \A w \in walked[c] : w >= Length
          BY <5>2 DEF WalkShape
        <5>4. value[c] = claimed[c] \/ (value[c] \in walked[c] /\ value[c] >= Length)
          BY <5>2 DEF WalkShape
        <5>5. ASSUME NEW w \in walked[c] \cup {v}
              PROVE  \E u \in Values :
                        /\ cipher[u] = w
                        /\ u = claimed[c] \/ (u \in walked[c] \cup {v} /\ u >= Length)
          BY <5>2, <5>4 DEF WalkShape
        <5> HIDE DEF v
        <5> QED BY <4>1, <5>1, <5>2, <5>3, <5>5
      <4>2. CASE d # c
        BY <2>3, <4>2 DEF Encrypt, WalkShape
      <4> QED BY <4>1, <4>2
    <3>3. WalksDisjoint'
      BY <2>3, StepsApart DEF Encrypt, WalksDisjoint
    <3> QED BY <3>1, <3>2, <3>3
  <2>4. ASSUME NEW c \in Calls, EncryptBlockRejects(c) PROVE IndexInv'
    BY <2>4 DEF EncryptBlockRejects, PositionsApart, WalkShape, WalksDisjoint
  <2>5. ASSUME NEW c \in Calls, Issue(c) PROVE IndexInv'
    BY <2>5 DEF Issue, PositionsApart, WalkShape, WalksDisjoint
  <2>6. CASE Restart
    BY <2>6 DEF Restart, PositionsApart, WalkShape, WalksDisjoint
  <2>7. CASE UNCHANGED vars
    BY <2>7 DEF vars, PositionsApart, WalkShape, WalksDisjoint
  <2> QED BY <2>1, <2>2, <2>3, <2>4, <2>5, <2>6, <2>7 DEF Next
<1> QED BY <1>1, <1>2, TypeCorrect, PTL DEF Spec

\* No two calls of next() are handed the same index, and no two issued tokens
\* carry the same one after any number of restarts.
THEOREM NeverTwice == Spec => []NoIndexHandedOutTwice
<1>1. IndexInv => NoIndexHandedOutTwice
  BY DEF IndexInv, WalkShape, WalksDisjoint, NoIndexHandedOutTwice,
         HandedOut, Live
<1> QED BY <1>1, IndexInvariant, PTL

-----------------------------------------------------------------------------
(* The allocator over the rounds of FF1 *)

\* What round r of round functions m makes of the halves h.
RoundOf(m, r, h) == <<h[2], (h[1] + m[r][h[2]]) % Modulus(r)>>

\* t is a run of the first n rounds on x.
IsTrace(t, n, m, x) ==
    /\ t \in [0 .. n -> Nat \X Nat]
    /\ t[0] = <<x \div RadixV, x % RadixV>>
    /\ \A r \in 0 .. n - 1 : t[r + 1] = RoundOf(m, r, t[r])

\* A round of m takes halves in their ranges to halves in the next ranges, and
\* merges no two of them.
LEMMA RoundOfFacts ==
  ASSUME NEW m \in RoundMacs, NEW r \in 0 .. Rounds - 1, NEW h \in HalfA(r) \X HalfB(r)
  PROVE  /\ RoundOf(m, r, h) \in HalfA(r + 1) \X HalfB(r + 1)
         /\ \A g \in HalfA(r) \X HalfB(r) : RoundOf(m, r, g) = RoundOf(m, r, h) => g = h
<1>1. /\ Modulus(r) \in Nat \ {0}
      /\ HalfA(r) = 0 .. Modulus(r) - 1
      /\ HalfA(r + 1) = HalfB(r) /\ HalfB(r + 1) = 0 .. Modulus(r) - 1
      /\ HalfB(r) \subseteq 0 .. RadixV - 1
  BY RadixAssumption, RoundsAssumption DEF Modulus, HalfA, HalfB
<1>2. ASSUME NEW y \in HalfB(r) PROVE m[r][y] \in Nat
  <2>1. m[r] \in [0 .. RadixV - 1 -> MacValues] /\ MacValues \subseteq Nat
    BY MacAssumption
  <2>2. y \in 0 .. RadixV - 1
    BY <1>1
  <2> QED BY <2>1, <2>2
<1>3. (h[1] + m[r][h[2]]) % Modulus(r) \in 0 .. Modulus(r) - 1
  <2>1. h[1] + m[r][h[2]] \in Nat
    BY <1>1, <1>2
  <2> QED BY <1>1, <2>1, ModRange
<1>4. ASSUME NEW g \in HalfA(r) \X HalfB(r), RoundOf(m, r, g) = RoundOf(m, r, h)
      PROVE  g = h
  <2>1. /\ g[2] = h[2]
        /\ (g[1] + m[r][h[2]]) % Modulus(r) = (h[1] + m[r][h[2]]) % Modulus(r)
    BY <1>4 DEF RoundOf
  <2>2. g[1] = h[1]
    BY <1>1, <1>2, <2>1, AddModInjective
  <2> QED BY <2>1, <2>2
<1> QED BY <1>1, <1>3, <1>4 DEF RoundOf

\* Halves in their ranges are pairs of naturals.
LEMMA HalvesNat ==
  ASSUME NEW r \in Nat, NEW h \in HalfA(r) \X HalfB(r)
  PROVE  h \in Nat \X Nat
BY RadixAssumption DEF HalfA, HalfB

\* The halves of a trace are in the ranges of their rounds.
LEMMA TraceRange ==
  ASSUME NEW m \in RoundMacs, NEW x \in Ff1Values, NEW n \in 0 .. Rounds,
         NEW t, IsTrace(t, n, m, x)
  PROVE  \A r \in 0 .. n : t[r] \in HalfA(r) \X HalfB(r)
<1> DEFINE S == {r \in Nat : r <= n => t[r] \in HalfA(r) \X HalfB(r)}
<1>1. 0 \in S
  BY SplitRange DEF IsTrace
<1>2. ASSUME NEW r \in S PROVE r + 1 \in S
  <2> SUFFICES ASSUME r + 1 <= n PROVE t[r + 1] \in HalfA(r + 1) \X HalfB(r + 1)
    OBVIOUS
  <2>1. r \in 0 .. n - 1 /\ r \in 0 .. Rounds - 1 /\ t[r] \in HalfA(r) \X HalfB(r)
    BY RoundsAssumption
  <2>2. t[r + 1] = RoundOf(m, r, t[r])
    BY <2>1 DEF IsTrace
  <2> QED BY <2>1, <2>2, RoundOfFacts
<1>3. S = Nat
  <2>1. S \subseteq Nat
    OBVIOUS
  <2> HIDE DEF S
  <2> QED BY <1>1, <1>2, <2>1, SetInduction
<1> QED BY <1>3

\* Every value has a trace of every length.
LEMMA TraceExists ==
  ASSUME NEW m \in RoundMacs, NEW x \in Ff1Values
  PROVE  \E t : IsTrace(t, Rounds, m, x)
<1> DEFINE S == {n \in Nat : n <= Rounds => \E t : IsTrace(t, n, m, x)}
<1>1. 0 \in S
  <2> DEFINE h == <<x \div RadixV, x % RadixV>>
             t == [r \in 0 .. 0 |-> h]
  <2>1. h \in Nat \X Nat
    BY SplitRange, HalvesNat
  <2> HIDE DEF h
  <2>2. IsTrace(t, 0, m, x)
    BY <2>1 DEF IsTrace, h
  <2> QED BY <2>2
<1>2. ASSUME NEW n \in S PROVE n + 1 \in S
  <2> SUFFICES ASSUME n + 1 <= Rounds PROVE \E t : IsTrace(t, n + 1, m, x)
    OBVIOUS
  <2>1. n \in 0 .. Rounds /\ n \in 0 .. Rounds - 1
    BY RoundsAssumption
  <2>2. PICK t : IsTrace(t, n, m, x)
    BY <2>1
  <2> DEFINE h == RoundOf(m, n, t[n])
             u == [r \in 0 .. n + 1 |-> IF r = n + 1 THEN h ELSE t[r]]
  <2>3. h \in Nat \X Nat
    <3>1. t[n] \in HalfA(n) \X HalfB(n)
      BY <2>1, <2>2, TraceRange
    <3>2. h \in HalfA(n + 1) \X HalfB(n + 1)
      BY <2>1, <3>1, RoundOfFacts
    <3> QED BY <3>2, HalvesNat
  <2>4. u[n + 1] = RoundOf(m, n, u[n])
    BY <2>1
  <2> HIDE DEF h
  <2>5. u \in [0 .. n + 1 -> Nat \X Nat] /\ u[0] = t[0]
    BY <2>2, <2>3 DEF IsTrace
  <2>6. ASSUME NEW r \in 0 .. n PROVE u[r + 1] = RoundOf(m, r, u[r])
    <3>1. CASE r = n
      BY <3>1, <2>4
    <3>2. CASE r # n
      <4>1. r \in 0 .. n - 1 /\ u[r] = t[r] /\ u[r + 1] = t[r + 1]
        BY <3>2
      <4> QED BY <4>1, <2>2 DEF IsTrace
    <3> QED BY <3>1, <3>2
  <2>7. (n + 1) - 1 = n
    OBVIOUS
  <2>8. IsTrace(u, n + 1, m, x)
    BY <2>2, <2>5, <2>6, <2>7 DEF IsTrace
  <2> QED BY <2>8
<1>3. S = Nat
  <2>1. S \subseteq Nat
    OBVIOUS
  <2> HIDE DEF S
  <2> QED BY <1>1, <1>2, <2>1, SetInduction
<1> QED BY <1>3, RoundsAssumption

\* The two traces of one value agree.
LEMMA TraceUnique ==
  ASSUME NEW m, NEW x, NEW t, NEW u,
         IsTrace(t, Rounds, m, x), IsTrace(u, Rounds, m, x)
  PROVE  \A r \in 0 .. Rounds : t[r] = u[r]
<1> DEFINE S == {r \in Nat : r <= Rounds => t[r] = u[r]}
<1>1. 0 \in S
  BY DEF IsTrace
<1>2. ASSUME NEW r \in S PROVE r + 1 \in S
  <2> SUFFICES ASSUME r + 1 <= Rounds PROVE t[r + 1] = u[r + 1]
    OBVIOUS
  <2>1. r \in 0 .. Rounds - 1 /\ t[r] = u[r]
    BY RoundsAssumption
  <2> QED BY <2>1 DEF IsTrace
<1>3. S = Nat
  <2>1. S \subseteq Nat
    OBVIOUS
  <2> HIDE DEF S
  <2> QED BY <1>1, <1>2, <2>1, SetInduction
<1> QED BY <1>3

\* TraceOf computes the trace (its recursive definition is sound).
LEMMA TraceOfIsTrace ==
  ASSUME NEW m \in RoundMacs, NEW x \in Ff1Values
  PROVE  IsTrace(TraceOf(m, x), Rounds, m, x)
<1> DEFINE Eq(t) == t = [r \in 0 .. Rounds |->
                           IF r = 0 THEN <<x \div RadixV, x % RadixV>>
                           ELSE <<t[r - 1][2], (t[r - 1][1] + m[r - 1][t[r - 1][2]])
                                                 % (IF r % 2 = 1 THEN RadixU ELSE RadixV)>>]
<1>1. TraceOf(m, x) = CHOOSE t : Eq(t)
  BY DEF TraceOf
<1>2. ASSUME NEW r \in 1 .. Rounds
      PROVE  Modulus(r - 1) = IF r % 2 = 1 THEN RadixU ELSE RadixV
  BY RoundsAssumption DEF Modulus
<1>3. PICK t : IsTrace(t, Rounds, m, x)
  BY TraceExists
<1>4. Eq(t)
  <2>1. ASSUME NEW r \in 1 .. Rounds PROVE t[r] = RoundOf(m, r - 1, t[r - 1])
    <3>1. r - 1 \in 0 .. Rounds - 1 /\ (r - 1) + 1 = r
      BY RoundsAssumption
    <3> QED BY <1>3, <3>1 DEF IsTrace
  <2>2. t = [r \in 0 .. Rounds |-> t[r]]
    BY <1>3 DEF IsTrace
  <2>3. t[0] = <<x \div RadixV, x % RadixV>>
    BY <1>3 DEF IsTrace
  <2>4. ASSUME NEW r \in 0 .. Rounds
        PROVE  t[r] = IF r = 0 THEN <<x \div RadixV, x % RadixV>>
                      ELSE <<t[r - 1][2], (t[r - 1][1] + m[r - 1][t[r - 1][2]])
                                            % (IF r % 2 = 1 THEN RadixU ELSE RadixV)>>
    <3>1. CASE r = 0
      BY <2>3, <3>1
    <3>2. CASE r # 0
      <4>1. r \in 1 .. Rounds
        BY <3>2
      <4> QED BY <1>2, <2>1, <3>2, <4>1 DEF RoundOf
    <3> QED BY <3>1, <3>2
  <2> QED BY <2>2, <2>4, Zenon
<1>5. Eq(TraceOf(m, x))
  <2> HIDE DEF Eq
  <2> QED BY <1>1, <1>4, Zenon
<1> DEFINE u == TraceOf(m, x)
<1>6. DOMAIN u = 0 .. Rounds /\ u[0] = <<x \div RadixV, x % RadixV>>
  BY <1>5, RoundsAssumption
<1>7. ASSUME NEW r \in 0 .. Rounds - 1 PROVE u[r + 1] = RoundOf(m, r, u[r])
  <2>1. r + 1 \in 1 .. Rounds /\ r + 1 \in 0 .. Rounds /\ (r + 1) - 1 = r /\ r + 1 # 0
    BY RoundsAssumption
  <2>2. u[r + 1] = <<u[r][2], (u[r][1] + m[r][u[r][2]])
                                % (IF (r + 1) % 2 = 1 THEN RadixU ELSE RadixV)>>
    BY <1>5, <2>1
  <2> QED BY <1>2, <2>1, <2>2 DEF RoundOf
<1>8. u = [r \in 0 .. Rounds |-> u[r]]
  BY <1>5
<1> HIDE DEF u
<1>9. \A r \in 0 .. Rounds : u[r] = t[r]
  <2> DEFINE S == {r \in Nat : r <= Rounds => u[r] = t[r]}
  <2>1. 0 \in S
    BY <1>3, <1>6 DEF IsTrace
  <2>2. ASSUME NEW r \in S PROVE r + 1 \in S
    <3> SUFFICES ASSUME r + 1 <= Rounds PROVE u[r + 1] = t[r + 1]
      OBVIOUS
    <3>1. r \in 0 .. Rounds - 1 /\ u[r] = t[r]
      BY RoundsAssumption
    <3> QED BY <1>3, <1>7, <3>1 DEF IsTrace
  <2>3. S = Nat
    <3>1. S \subseteq Nat
      OBVIOUS
    <3> HIDE DEF S
    <3> QED BY <2>1, <2>2, <3>1, SetInduction
  <2> QED BY <2>3
<1>10. u \in [0 .. Rounds -> Nat \X Nat]
  BY <1>3, <1>8, <1>9 DEF IsTrace
<1> QED BY <1>6, <1>7, <1>10 DEF IsTrace, u

\* Two values whose traces meet in a round are the same value.
LEMMA TracesApart ==
  ASSUME NEW m \in RoundMacs, NEW x \in Ff1Values, NEW y \in Ff1Values,
         TraceOf(m, x)[Rounds] = TraceOf(m, y)[Rounds]
  PROVE  x = y
<1> DEFINE t == TraceOf(m, x)
           u == TraceOf(m, y)
           S == {n \in Nat : n <= Rounds => t[Rounds - n] = u[Rounds - n]}
<1>1. IsTrace(t, Rounds, m, x) /\ IsTrace(u, Rounds, m, y)
  BY TraceOfIsTrace
<1>2. \A r \in 0 .. Rounds : t[r] \in HalfA(r) \X HalfB(r) /\ u[r] \in HalfA(r) \X HalfB(r)
  <2>1. Rounds \in 0 .. Rounds
    BY RoundsAssumption
  <2> HIDE DEF t, u
  <2> QED BY <1>1, <2>1, TraceRange
<1>3. t[Rounds] = u[Rounds]
  OBVIOUS
<1> HIDE DEF t, u
<1>4. 0 \in S
  BY <1>3, RoundsAssumption
<1>5. ASSUME NEW n \in S PROVE n + 1 \in S
  <2> SUFFICES ASSUME n + 1 <= Rounds PROVE t[Rounds - (n + 1)] = u[Rounds - (n + 1)]
    OBVIOUS
  <2> DEFINE r == Rounds - (n + 1)
  <2>1. r \in 0 .. Rounds - 1 /\ r \in 0 .. Rounds /\ Rounds - n = r + 1 /\ n <= Rounds
    BY RoundsAssumption
  <2>2. t[r + 1] = u[r + 1]
    BY <2>1
  <2> HIDE DEF r
  <2>3. RoundOf(m, r, t[r]) = RoundOf(m, r, u[r])
    BY <1>1, <2>1, <2>2 DEF IsTrace
  <2>4. t[r] = u[r]
    BY <1>2, <2>1, <2>3, RoundOfFacts
  <2> QED BY <2>4 DEF r
<1>6. S = Nat
  <2>1. S \subseteq Nat
    OBVIOUS
  <2> HIDE DEF S
  <2> QED BY <1>4, <1>5, <2>1, SetInduction
<1>7. t[0] = u[0]
  <2>1. Rounds \in Nat /\ Rounds - Rounds = 0 /\ Rounds <= Rounds
    BY RoundsAssumption
  <2>2. Rounds \in S
    <3> HIDE DEF S
    <3> QED BY <1>6, <2>1
  <2> QED BY <2>1, <2>2
<1>8. x \div RadixV = y \div RadixV /\ x % RadixV = y % RadixV
  BY <1>1, <1>7 DEF IsTrace
<1> QED BY <1>8, SplitRange

\* ff1Encrypt run without interruption permutes the allocator's domain: FF1
\* keeps the assumption the allocator makes of its cipher, for every key.
THEOREM CipherOfPermutes ==
  ASSUME NEW m \in RoundMacs
  PROVE  /\ CipherOf(m) \in [Values -> Values]
         /\ \A x, y \in Values : CipherOf(m)[x] = CipherOf(m)[y] => x = y
<1>1. Values = Ff1Values
  BY DomainIsFf1s DEF Values, Ff1Values
<1>2. ASSUME NEW x \in Values
      PROVE  TraceOf(m, x)[Rounds] \in (0 .. RadixU - 1) \X (0 .. RadixV - 1)
  <2>1. IsTrace(TraceOf(m, x), Rounds, m, x) /\ Rounds \in 0 .. Rounds
    BY <1>1, TraceOfIsTrace, RoundsAssumption
  <2>2. TraceOf(m, x)[Rounds] \in HalfA(Rounds) \X HalfB(Rounds)
    BY <1>1, <2>1, TraceRange
  <2> QED BY <2>2, RoundsAssumption DEF HalfA, HalfB
<1>3. ASSUME NEW x \in Values, NEW y \in Values
      PROVE  /\ CipherOf(m)[x] \in Values
             /\ CipherOf(m)[x] = CipherOf(m)[y] => x = y
  <2> DEFINE g == TraceOf(m, x)[Rounds]
             h == TraceOf(m, y)[Rounds]
  <2>1. /\ g \in (0 .. RadixU - 1) \X (0 .. RadixV - 1)
        /\ h \in (0 .. RadixU - 1) \X (0 .. RadixV - 1)
    BY <1>2
  <2>2. CipherOf(m)[x] = g[1] * RadixV + g[2] /\ CipherOf(m)[y] = h[1] * RadixV + h[2]
    BY DEF CipherOf
  <2>3. g = h => x = y
    BY <1>1, TracesApart
  <2> HIDE DEF g, h
  <2> QED BY <1>1, <2>1, <2>2, <2>3, HalvesUnique
<1> QED BY <1>3 DEF CipherOf

-----------------------------------------------------------------------------
\* The rounds the allocator's calls run are rounds of FF1, one call of
\* ff1Encrypt per call of next() at a time.
THEOREM WalksAreFf1 == WalkSpec => Ff1Spec
<1>1. WalkInit => Ff1Init
  BY DEF WalkInit
<1>2. [WalkNext]_allVars => [Ff1Next]_ff1Vars
  <2> SUFFICES ASSUME [WalkNext]_allVars PROVE [Ff1Next]_ff1Vars
    OBVIOUS
  <2> USE DomainIsFf1s DEF Ff1Next
  <2>1. ASSUME NEW c \in Calls, NextCalled(c) PROVE [Ff1Next]_ff1Vars
    BY <2>1 DEF NextCalled, Begin
  <2>2. ASSUME NEW c \in Calls, BlockEncrypted(c) PROVE [Ff1Next]_ff1Vars
    BY <2>2 DEF BlockEncrypted
  <2>3. ASSUME NEW c \in Calls, Encrypted(c) PROVE [Ff1Next]_ff1Vars
    <3>1. Begin(c, Output(c)) \/ End({c})
      BY <2>3 DEF Encrypted
    <3>2. Begin(c, Output(c)) => Output(c) \in Ff1Values
      BY DEF Begin
    <3> QED BY <3>1, <3>2
  <2>4. ASSUME NEW c \in Calls, BlockRejected(c) PROVE [Ff1Next]_ff1Vars
    BY <2>4 DEF BlockRejected
  <2>5. CASE UNCHANGED ff1Vars
    BY <2>5
  <2>6. CASE Stopped
    BY <2>6 DEF Stopped
  <2>7. CASE UNCHANGED allVars
    BY <2>7 DEF allVars
  <2> QED BY <2>1, <2>2, <2>3, <2>4, <2>5, <2>6, <2>7 DEF WalkNext
<1> QED BY <1>1, <1>2, PTL DEF WalkSpec, Ff1Spec

\* The result of a call whose rounds are done is its value under the cipher.
LEMMA OutputIsCipher ==
  ASSUME TypeOK, Tracked, Ff1TypeOK, Traces, NEW c \in Calls, pc[c] = "walking", Ready(c)
  PROVE  Output(c) = cipher[value[c]]
<1> DEFINE x == value[c]
<1>1. /\ c \in Encryptions /\ x \in Values /\ x \in Ff1Values
      /\ mac \in RoundMacs /\ plain[c] = x /\ Running(c) /\ round[c] = Rounds
  BY DomainIsFf1s DEF TypeOK, Tracked, Ff1TypeOK, Ready, Values, Ff1Values
<1> HIDE DEF x
<1>2. IsTrace(halves[c], Rounds, mac, x)
  <2>1. halves[c] \in [0 .. Rounds -> Nat \X Nat]
    BY <1>1 DEF Ff1TypeOK
  <2>2. /\ halves[c][0] = <<x \div RadixV, x % RadixV>>
        /\ \A r \in 0 .. Rounds - 1 :
              r < Rounds => halves[c][r + 1] = RoundResult(r, halves[c][r])
    BY <1>1 DEF Traces
  <2>3. \A r \in 0 .. Rounds - 1 : r < Rounds
    BY RoundsAssumption
  <2>4. \A r \in 0 .. Rounds - 1 : halves[c][r + 1] = RoundOf(mac, r, halves[c][r])
    BY <2>2, <2>3 DEF RoundResult, RoundOf, Modulus
  <2> QED BY <2>1, <2>2, <2>4 DEF IsTrace
<1>3. halves[c][Rounds] = TraceOf(mac, x)[Rounds]
  BY <1>1, <1>2, TraceOfIsTrace, TraceUnique, RoundsAssumption
<1>4. cipher[x] = TraceOf(mac, x)[Rounds][1] * RadixV + TraceOf(mac, x)[Rounds][2]
  BY <1>1 DEF Tracked, CipherOf
<1> QED BY <1>3, <1>4 DEF Output, x

\* Every step over the rounds of FF1 is a step of the allocator or leaves its
\* variables as they are.
LEMMA WalkStep ==
  ASSUME TypeOK, Tracked, Ff1TypeOK, Traces, [WalkNext]_allVars
  PROVE  [Next]_vars
<1> USE DEF Next
<1>1. ASSUME NEW c \in Calls, NextCalled(c) PROVE [Next]_vars
  BY <1>1 DEF NextCalled
<1>2. ASSUME NEW c \in Calls, BlockEncrypted(c) PROVE [Next]_vars
  BY <1>2 DEF BlockEncrypted
<1>3. ASSUME NEW c \in Calls, Encrypted(c) PROVE [Next]_vars
  <2>1. pc[c] = "walking" /\ Ready(c)
    BY <1>3 DEF Encrypted
  <2>2. Output(c) = cipher[value[c]]
    BY <2>1, OutputIsCipher
  <2>3. pc' = [pc EXCEPT ![c] = IF Output(c) >= Length THEN "walking" ELSE "returned"]
    <3>1. CASE Output(c) >= Length
      BY <1>3, <2>1, <3>1 DEF Encrypted, TypeOK
    <3>2. CASE ~(Output(c) >= Length)
      BY <1>3, <3>2 DEF Encrypted
    <3> QED BY <3>1, <3>2
  <2>4. Encrypt(c)
    BY <1>3, <2>1, <2>2, <2>3 DEF Encrypted, Encrypt
  <2> QED BY <2>4
<1>4. ASSUME NEW c \in Calls, BlockRejected(c) PROVE [Next]_vars
  BY <1>4 DEF BlockRejected
<1>5. ASSUME NEW c \in Calls, Exhausted(c) \/ Issue(c) PROVE [Next]_vars
  BY <1>5
<1>6. CASE Stopped
  BY <1>6 DEF Stopped
<1>7. CASE UNCHANGED allVars
  BY <1>7 DEF allVars
<1> QED BY <1>1, <1>2, <1>3, <1>4, <1>5, <1>6, <1>7 DEF WalkNext

\* A walking call has an encryption of its value under way, and no other call
\* disturbs it.
LEMMA TrackedStep ==
  ASSUME TypeOK, Tracked, Ff1TypeOK, Traces, [WalkNext]_allVars
  PROVE  Tracked'
<1>1. cipher' = cipher /\ mac' = mac
  BY DEF WalkNext, NextCalled, BlockEncrypted, Encrypted, BlockRejected, Stopped, Claim,
         Exhausted, Issue, EncryptBlockRejects, Restart, Begin, Round, End, vars, ff1Vars, allVars
<1>2. (cipher = CipherOf(mac))'
  BY <1>1 DEF Tracked
<1> SUFFICES ASSUME NEW d \in Calls, pc'[d] = "walking"
             PROVE  round'[d] >= 0 /\ plain'[d] = value'[d]
  BY <1>2 DEF Tracked, Running
<1> USE DomainIsFf1s DEF TypeOK, Ff1TypeOK
<1>3. ASSUME pc[d] = "walking" PROVE round[d] >= 0 /\ plain[d] = value[d]
  BY <1>3 DEF Tracked, Running
<1>4. ASSUME NEW c \in Calls, NextCalled(c) PROVE round'[d] >= 0 /\ plain'[d] = value'[d]
  BY <1>3, <1>4 DEF NextCalled, Claim, Begin
<1>5. ASSUME NEW c \in Calls, BlockEncrypted(c) PROVE round'[d] >= 0 /\ plain'[d] = value'[d]
  BY <1>3, <1>5 DEF BlockEncrypted, Round, Running, vars
<1>6. ASSUME NEW c \in Calls, Encrypted(c) PROVE round'[d] >= 0 /\ plain'[d] = value'[d]
  <2>1. CASE Output(c) >= Length
    BY <1>3, <1>6, <2>1 DEF Encrypted, Begin
  <2>2. CASE ~(Output(c) >= Length)
    <3>1. pc'[c] = "returned" /\ d # c
      BY <1>6, <2>2 DEF Encrypted
    <3> QED BY <1>3, <1>6, <2>2, <3>1 DEF Encrypted, End
  <2> QED BY <2>1, <2>2
<1>7. ASSUME NEW c \in Calls, BlockRejected(c) PROVE round'[d] >= 0 /\ plain'[d] = value'[d]
  BY <1>3, <1>7 DEF BlockRejected, EncryptBlockRejects, End
<1>8. ASSUME NEW c \in Calls, Exhausted(c) \/ Issue(c), UNCHANGED ff1Vars
      PROVE  round'[d] >= 0 /\ plain'[d] = value'[d]
  BY <1>3, <1>8 DEF Exhausted, Issue, ff1Vars
<1>9. CASE Stopped
  BY <1>3, <1>9 DEF Stopped, Restart
<1>10. CASE UNCHANGED allVars
  BY <1>3, <1>10 DEF allVars, vars, ff1Vars
<1> QED BY <1>4, <1>5, <1>6, <1>7, <1>8, <1>9, <1>10 DEF WalkNext

\* The allocator over real FF1 rounds implements the allocator over an
\* arbitrary permutation: whatever the interleaving, the failures and the
\* restarts, each encryption looks like one atomic application of one cipher.
THEOREM WalkRefinesIndex == WalkSpec => AtomicPermutation
<1>1. WalkInit => Init /\ TypeOK /\ Tracked
  <2> SUFFICES ASSUME WalkInit PROVE Init /\ TypeOK /\ Tracked
    OBVIOUS
  <2>1. Init /\ cipher = CipherOf(mac)
    BY DEF WalkInit
  <2>2. TypeOK /\ \A c \in Calls : pc[c] = "idle"
    BY <2>1, LengthAssumption, DomainAssumption DEF Init, TypeOK, Indices, Values
  <2> QED BY <2>1, <2>2 DEF Tracked
<1>2. TypeOK /\ Tracked /\ Ff1TypeOK /\ Traces /\ [WalkNext]_allVars
        => [Next]_vars /\ TypeOK' /\ Tracked'
  BY WalkStep, TrackedStep, TypeStep
<1>3. WalkSpec => []Ff1TypeOK /\ []Traces
  BY WalksAreFf1, Ff1TypeCorrect, TracesInvariant, PTL
<1> QED BY <1>1, <1>2, <1>3, PTL DEF WalkSpec, AtomicPermutation, Spec

\* No index is handed out twice when FF1 runs round by round under the calls.
THEOREM NeverTwiceOverFf1 == WalkSpec => []NoIndexHandedOutTwice
BY WalkRefinesIndex, NeverTwice, PTL DEF AtomicPermutation

\* Nor does the allocator disturb FF1: the encryptions its calls run permute
\* the domain.
THEOREM WalksPermute == WalkSpec => []Permutes
BY WalksAreFf1, Ff1Permutes, PTL
=============================================================================
