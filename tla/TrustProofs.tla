---------------------------- MODULE TrustProofs ----------------------------
(***************************************************************************)
(* Whom to trust.  A wallet (RelyingPartyTrust): for every set of          *)
(* certificates, authorities, requests and registrations, and however the  *)
(* authorities' records and the wallet's cache change between its checks,  *)
(* the relying party it goes on with is authentic, and gets no more than   *)
(* it registered for.  A relying party (TrustLists): the anchors of a      *)
(* national list and the pins it goes on with are what the operators of    *)
(* the lists published, for any number of generations of keys and lists.   *)
(***************************************************************************)
EXTENDS RelyingPartyTrust, TrustLists, FiniteSetTheorems

(***************************************************************************)
(* A wallet that decides about a request                                   *)
(***************************************************************************)
-----------------------------------------------------------------------------
(* Enumerations and extrema *)

\* SetToSeq lists every member of a finite set.
LEMMA Enumerates ==
  ASSUME NEW S, IsFiniteSet(S)
  PROVE  /\ Cardinality(S) \in Nat
         /\ SetToSeq(S) \in [1..Cardinality(S) -> S]
         /\ \A x \in S : \E i \in 1..Cardinality(S) : SetToSeq(S)[i] = x
<1> DEFINE N == 1..Cardinality(S)
<1>1. Cardinality(S) \in Nat /\ ExistsBijection(N, S)
  BY FS_CardinalityType
<1>2. PICK b \in Bijection(N, S) : TRUE
  BY <1>1 DEF ExistsBijection
<1>3. b \in [N -> S] /\ IsInjective(b)
  BY <1>2 DEF Bijection, Injection, IsInjective
<1>4. SetToSeq(S) \in [N -> S] /\ IsInjective(SetToSeq(S))
  BY <1>3 DEF SetToSeq
<1>5. SetToSeq(S) \in Injection(N, S)
  BY <1>4 DEF Injection
<1>6. IsFiniteSet(N) /\ Cardinality(N) = Cardinality(S)
  BY <1>1, FS_Interval
<1>7. SetToSeq(S) \in Surjection(N, S)
  BY <1>5, <1>6, FS_Injection
<1> QED BY <1>1, <1>4, <1>7 DEF Surjection

\* The least number of a set of naturals is in it.
LEMMA MinMember ==
  ASSUME NEW T, T \subseteq Nat, T # {}
  PROVE  Min(T) \in T
<1>1. \E x \in T : \A y \in T : x =< y
  BY LeastNat
<1> QED BY <1>1 DEF Min

\* The greatest number of a bounded set of naturals is in it and bounds it.
LEMMA MaxMember ==
  ASSUME NEW n \in Nat, NEW T, T \subseteq 1..n, T # {}
  PROVE  Max(T) \in T /\ \A y \in T : Max(T) >= y
<1> DEFINE U == {n - y : y \in T}
<1>0. \A y \in T : y \in Nat /\ y <= n /\ n - y \in Nat
  OBVIOUS
<1>1. U \subseteq Nat /\ U # {}
  BY <1>0
<1>2. PICK x \in U : \A y \in U : x <= y
  BY <1>1, LeastNat
<1>3. PICK m \in T : x = n - m
  BY <1>2
<1>4. ASSUME NEW y \in T PROVE m >= y
  <2>1. n - m <= n - y
    BY <1>2, <1>3
  <2> QED BY <1>0, <2>1
<1> QED BY <1>3, <1>4 DEF Max

-----------------------------------------------------------------------------
(* What a published list says *)

Statuses == Reasons \cup {"valid"}

Fields == {"serial", "reason", "critical", "certificateIssuer"}

EntryOf(entry, l, reasons) ==
    /\ DOMAIN entry = Fields
    /\ entry.serial = l.serial /\ entry.reason = reasons[l] /\ ~entry.critical

\* The entries are those of the certificates in ls, with their reasons.
Lists(entries, ls, reasons) ==
    /\ DOMAIN entries \subseteq Nat
    /\ \A i \in DOMAIN entries : \E l \in ls : EntryOf(entries[i], l, reasons)
    /\ \A l \in ls : \E i \in DOMAIN entries : entries[i].serial = l.serial

\* Another issuer leaves the rest of an entry.
LEMMA EntryRenamed ==
  ASSUME NEW entry, NEW l, NEW reasons, EntryOf(entry, l, reasons), NEW other
  PROVE  /\ EntryOf([entry EXCEPT !.certificateIssuer = other], l, reasons)
         /\ [entry EXCEPT !.certificateIssuer = other].certificateIssuer = other
<1> DEFINE new == [entry EXCEPT !.certificateIssuer = other]
<1>1. DOMAIN entry = Fields
  BY DEF EntryOf
<1>2. DOMAIN new = Fields /\ new["certificateIssuer"] = other
  BY <1>1 DEF Fields
<1>3. new["serial"] = entry["serial"] /\ new["reason"] = entry["reason"]
  BY <1>1 DEF Fields
<1>4. new["critical"] = entry["critical"]
  BY <1>1 DEF Fields
<1> HIDE DEF new
<1>5. EntryOf(new, l, reasons)
  BY <1>2, <1>3, <1>4 DEF EntryOf
<1> QED BY <1>2, <1>5 DEF new

\* Entries lists the certificates it is given.
LEMMA EntriesList ==
  ASSUME NEW ls \in SUBSET Leaves, NEW iss, NEW indirect \in BOOLEAN, NEW reasons
  PROVE  Lists(Entries(ls, iss, indirect, reasons), ls, reasons)
<1> DEFINE s == SetToSeq(ls)
           N == 1..Cardinality(ls)
<1>1. IsFiniteSet(ls)
  BY LeavesAssumption, FS_Subset
<1>2. Cardinality(ls) \in Nat /\ s \in [N -> ls] /\ \A x \in ls : \E i \in N : s[i] = x
  BY <1>1, Enumerates
<1> DEFINE e == Entries(ls, iss, indirect, reasons)
<1> HIDE DEF s
<1>3. DOMAIN e = N
  BY <1>2 DEF Entries, s
<1>4. \A i \in N : EntryOf(e[i], s[i], reasons)
  BY <1>2 DEF Entries, EntryOf, Fields, s
<1> HIDE DEF e
<1>5. \A i \in N : s[i] \in ls
  BY <1>2
<1>6. \A l \in ls : \E i \in N : e[i].serial = l.serial
  BY <1>2, <1>4 DEF EntryOf
<1> QED BY <1>3, <1>4, <1>5, <1>6 DEF Lists, e

\* Filling in the issuers leaves the rest of the entries.
LEMMA RevokedList ==
  ASSUME NEW entries, NEW ls, NEW reasons, Lists(entries, ls, reasons)
  PROVE  Lists(ToRevokedCertificates(entries), ls, reasons)
<1> DEFINE r == ToRevokedCertificates(entries)
<1>1. DOMAIN r = DOMAIN entries
  BY DEF ToRevokedCertificates
<1>2. ASSUME NEW i \in DOMAIN entries, NEW l \in ls, EntryOf(entries[i], l, reasons)
      PROVE  EntryOf(r[i], l, reasons)
  <2> DEFINE named == {j \in 1..i : entries[j].certificateIssuer # Absent}
  <2>1. CASE named = {}
    BY <1>2, <2>1 DEF ToRevokedCertificates
  <2>2. CASE named # {}
    <3>1. r[i] = [entries[i] EXCEPT !.certificateIssuer = entries[Max(named)].certificateIssuer]
      BY <2>2 DEF ToRevokedCertificates
    <3> QED BY <1>2, <3>1, EntryRenamed
  <2> QED BY <2>1, <2>2
<1> HIDE DEF r
<1>3. \A i \in DOMAIN r : \E l \in ls : EntryOf(r[i], l, reasons)
  BY <1>1, <1>2 DEF Lists
<1>4. ASSUME NEW i \in DOMAIN entries PROVE r[i].serial = entries[i].serial
  <2>1. PICK l \in ls : EntryOf(entries[i], l, reasons)
    BY DEF Lists
  <2>2. EntryOf(r[i], l, reasons)
    BY <1>2, <2>1
  <2>3. r[i].serial = l.serial
    BY <2>2 DEF EntryOf
  <2>4. entries[i].serial = l.serial
    BY <2>1 DEF EntryOf
  <2> QED BY <2>3, <2>4
<1>5. DOMAIN r \subseteq Nat /\ \A l \in ls : \E i \in DOMAIN r : r[i].serial = l.serial
  BY <1>1, <1>4 DEF Lists
<1> QED BY <1>3, <1>5 DEF Lists, r

\* A status of "good" has the list in force, for the certificate.
LEMMA GoodInScope ==
  ASSUME NEW cert, NEW list, NEW iss, NEW now, CheckRevocation(cert, list, iss, now) = "good"
  PROVE  /\ ~list.delta /\ ~list.critical
         /\ IssuerMatches(cert, list) /\ Current(list, now) /\ InScope(cert, list.idp)
BY DEF CheckRevocation, GetRevocationStatus

\* A list with nothing but reasons for revocation answers "good" only if the
\* certificate is not on it and it is about all reasons.
LEMMA GoodNotListed ==
  ASSUME NEW cert, NEW list, NEW iss, NEW now, CheckRevocation(cert, list, iss, now) = "good",
         NEW ls, NEW reasons, Lists(list.entries, ls, reasons), \A l \in ls : reasons[l] \in Reasons
  PROVE  EntriesOf(cert, list) = {} /\ (list.idp # Absent => list.idp.reasons = Absent)
<1> DEFINE r == ToRevokedCertificates(list.entries)
           found == EntriesOf(cert, list)
<1>1. Lists(r, ls, reasons)
  BY RevokedList
<1>2. found \subseteq DOMAIN r
  BY DEF EntriesOf
<1>3. ASSUME found # {} PROVE FALSE
  <2>1. Min(found) \in DOMAIN r
    BY <1>1, <1>2, <1>3, MinMember DEF Lists
  <2>2. EntryStatus(r[Min(found)]) = "good"
    BY <1>3 DEF CheckRevocation, GetRevocationStatus
  <2>3. ~r[Min(found)].critical /\ r[Min(found)].reason \in Reasons
    BY <1>1, <2>1 DEF Lists, EntryOf
  <2> QED BY <2>2, <2>3 DEF EntryStatus, Reasons
<1> QED BY <1>3 DEF CheckRevocation, GetRevocationStatus

\* On an indirect list every certificate is found under its issuer: the one
\* its entry names, or the last one named before it, or that of the list.
IssuerFound(revoked, cert, iss) ==
    \E i \in DOMAIN revoked :
        /\ revoked[i].serial = cert.serial
        /\ cert.issuer = IF revoked[i].certificateIssuer = Absent THEN iss ELSE revoked[i].certificateIssuer

LEMMA IndirectIssuers ==
  ASSUME NEW ls \in SUBSET Leaves, NEW iss, NEW reasons, NEW cert \in ls
  PROVE  IssuerFound(ToRevokedCertificates(Entries(ls, iss, TRUE, reasons)), cert, iss)
<1> DEFINE s == SetToSeq(ls)
           N == 1..Cardinality(ls)
           e == Entries(ls, iss, TRUE, reasons)
           r == ToRevokedCertificates(e)
           named(i) == {j \in 1..i : e[j].certificateIssuer # Absent}
           I(i) == s[i].issuer
           C(i) == e[i].certificateIssuer
           Named(i) == /\ named(i) = {} => I(i) = iss
                       /\ named(i) # {} => C(Max(named(i))) = I(i)
           Found(k) == /\ r[k].serial = cert.serial
                       /\ cert.issuer = IF r[k].certificateIssuer = Absent THEN iss ELSE r[k].certificateIssuer
<1> SUFFICES \E k \in DOMAIN r : Found(k)
  BY DEF IssuerFound
<1>1. IsFiniteSet(ls)
  BY LeavesAssumption, FS_Subset
<1>2. Cardinality(ls) \in Nat /\ s \in [N -> ls] /\ \A x \in ls : \E i \in N : s[i] = x
  BY <1>1, Enumerates
<1>3. DOMAIN e = N
  BY <1>2 DEF Entries
<1>4. \A i \in N : C(i) = IF I(i) # (IF i = 1 THEN iss ELSE I(i - 1)) THEN I(i) ELSE Absent
  BY <1>2 DEF Entries
<1>5. \A i \in N : I(i) # Absent
  BY <1>2, LeavesAssumption
<1>6. Lists(e, ls, reasons)
  BY EntriesList
<1>7. \A i \in N : EntryOf(e[i], s[i], reasons)
  BY <1>2 DEF Entries, EntryOf, Fields
<1> HIDE DEF e, s
<1> DEFINE Done == {n \in Nat : n \in N => Named(n)}
<1>8. 0 \in Done
  OBVIOUS
<1>9. ASSUME NEW n \in Done PROVE n + 1 \in Done
  <2> SUFFICES ASSUME n + 1 \in N PROVE Named(n + 1)
    OBVIOUS
  <2>1. CASE I(n + 1) = IF n = 0 THEN iss ELSE I(n)
    <3>1. C(n + 1) = Absent
      BY <1>4, <2>1
    <3>2. named(n + 1) = named(n)
      BY <3>1
    <3>3. CASE n = 0
      BY <2>1, <3>2, <3>3
    <3>4. CASE n # 0
      <4>1. Named(n)
        BY <1>2, <3>4
      <4> QED BY <2>1, <3>2, <3>4, <4>1
    <3> QED BY <3>3, <3>4
  <2>2. CASE I(n + 1) # IF n = 0 THEN iss ELSE I(n)
    <3>1. C(n + 1) = I(n + 1)
      BY <1>4, <2>2
    <3>2. n + 1 \in named(n + 1)
      BY <1>5, <3>1
    <3>3. Max(named(n + 1)) \in named(n + 1) /\ \A y \in named(n + 1) : Max(named(n + 1)) >= y
      <4>1. n + 1 \in Nat /\ named(n + 1) \subseteq 1..(n + 1) /\ named(n + 1) # {}
        BY <3>2
      <4> HIDE DEF named
      <4> QED BY <4>1, MaxMember
    <3>4. Max(named(n + 1)) = n + 1
      BY <3>2, <3>3
    <3> QED BY <3>1, <3>2, <3>4
  <2> QED BY <2>1, <2>2
<1>10. \A n \in N : Named(n)
  <2>1. Done \subseteq Nat
    OBVIOUS
  <2> HIDE DEF Done
  <2>2. Done = Nat
    BY <1>8, <1>9, <2>1, SetInduction
  <2> TAKE n \in N
  <2>3. n \in Nat
    BY <1>2
  <2>4. n \in Done
    BY <2>2, <2>3
  <2> HIDE DEF Named
  <2> QED BY <2>4 DEF Done
<1>11. PICK i \in N : s[i] = cert
  BY <1>2
<1>12. DOMAIN r = N
  BY <1>3 DEF ToRevokedCertificates
<1>13. CASE named(i) = {}
  <2>1. r[i] = e[i]
    BY <1>3, <1>13 DEF ToRevokedCertificates
  <2>2. i \in 1..i
    BY <1>2
  <2>3. C(i) = Absent
    BY <1>13, <2>2
  <2>4. I(i) = iss
    BY <1>10, <1>13
  <2>5. r[i].serial = cert.serial
    BY <1>7, <1>11, <2>1 DEF EntryOf
  <2>6. r[i].certificateIssuer = Absent /\ cert.issuer = iss
    BY <1>11, <2>1, <2>3, <2>4
  <2> QED BY <1>12, <2>5, <2>6
<1>14. CASE named(i) # {}
  <2>1. r[i] = [e[i] EXCEPT !.certificateIssuer = e[Max(named(i))].certificateIssuer]
    BY <1>3, <1>14 DEF ToRevokedCertificates
  <2>2. EntryOf(r[i], s[i], reasons) /\ r[i].certificateIssuer = C(Max(named(i)))
    BY <1>7, <2>1, EntryRenamed
  <2>3. C(Max(named(i))) = I(i) /\ I(i) # Absent
    BY <1>5, <1>10, <1>14
  <2>4. r[i].serial = cert.serial
    BY <1>11, <2>2 DEF EntryOf
  <2>5. r[i].certificateIssuer # Absent /\ cert.issuer = r[i].certificateIssuer
    BY <1>11, <2>2, <2>3
  <2> QED BY <1>12, <2>4, <2>5
<1> QED BY <1>13, <1>14

\* What a list answers "good" for it does not list.
LEMMA GoodNotAmong ==
  ASSUME NEW ls, NEW status, \A l \in ls : status[l] \in Reasons,
         NEW list, Lists(list.entries, ls, status), ~Indirect(list),
         NEW cert, NEW iss, NEW now, CheckRevocation(cert, list, iss, now) = "good"
  PROVE  cert \notin ls /\ (list.idp # Absent => list.idp.reasons = Absent)
<1> DEFINE r == ToRevokedCertificates(list.entries)
<1>2. EntriesOf(cert, list) = {} /\ (list.idp # Absent => list.idp.reasons = Absent)
  BY GoodNotListed
<1>3. Lists(r, ls, status)
  BY RevokedList
<1>4. ASSUME cert \in ls PROVE FALSE
  <2>1. PICK i \in DOMAIN r : r[i].serial = cert.serial
    BY <1>3, <1>4 DEF Lists
  <2>2. i \in EntriesOf(cert, list)
    BY <2>1 DEF EntriesOf
  <2> QED BY <1>2, <2>2
<1> QED BY <1>2, <1>4

\* The records give every certificate a status.
RecordsInv == records \in Seq([Leaves -> Statuses]) /\ Now \in Nat

\* What a list answers "good" for, among the certificates of an authority,
\* was valid when it was made.
Sound(list, status) ==
    \A cert \in Leaves, ca, iss \in CaCertificates, now \in Int :
        /\ ~ca.delegate /\ VerifyCertificateSignature(cert, ca) /\ ~cert.ca
        /\ CheckRevocation(cert, list, iss, now) = "good"
        => status[cert] = "valid"

LEMMA StatusNow ==
  ASSUME RecordsInv
  PROVE  /\ StatusAt(Now) \in [Leaves -> Statuses]
         /\ \A l \in RevokedNow : StatusAt(Now)[l] \in Reasons
<1>1. StatusAt(Now) \in [Leaves -> Statuses]
  BY DEF RecordsInv, StatusAt, Now
<1> QED BY <1>1 DEF RevokedNow, Statuses

\* The list to which the authorities delegate theirs covers all of them.
LEMMA IndirectSound ==
  ASSUME RecordsInv, NEW c \in CaCertificates
  PROVE  Sound(IndirectList(c), StatusAt(Now))
<1> DEFINE status == StatusAt(Now)
           list == IndirectList(c)
           entries == Entries(RevokedNow, c.name, TRUE, status)
           r == ToRevokedCertificates(entries)
<1>1. RevokedNow \in SUBSET Leaves /\ \A l \in RevokedNow : status[l] \in Reasons
  BY StatusNow DEF RevokedNow
<1>2. list.entries = entries /\ list.issuer = c.name
  BY DEF IndirectList, CreateCrl
<1>3. Indirect(list)
  <2>1. [NoIdp EXCEPT !.indirect = TRUE] \in IssuingDistributionPoint
    BY DEF NoIdp, IssuingDistributionPoint
  <2>2. list.idp = [NoIdp EXCEPT !.indirect = TRUE]
    BY DEF IndirectList, CreateCrl
  <2> QED BY <2>1, <2>2, AbsentAssumption DEF Indirect, NoIdp
<1>4. Lists(entries, RevokedNow, status)
  BY <1>1, EntriesList
<1> SUFFICES ASSUME NEW cert \in Leaves, NEW iss, NEW now, CheckRevocation(cert, list, iss, now) = "good",
                    status[cert] # "valid"
             PROVE  FALSE
  BY DEF Sound
<1> HIDE DEF list, status
<1>5. EntriesOf(cert, list) = {}
  BY <1>1, <1>2, <1>4, GoodNotListed
<1>6. PICK i \in DOMAIN r : /\ r[i].serial = cert.serial
                            /\ cert.issuer = IF r[i].certificateIssuer = Absent THEN c.name ELSE r[i].certificateIssuer
  <2>1. cert \in RevokedNow
    BY DEF RevokedNow, status
  <2>2. IssuerFound(r, cert, c.name)
    BY <1>1, <2>1, IndirectIssuers
  <2> QED BY <2>2 DEF IssuerFound
<1>7. i \in EntriesOf(cert, list)
  BY <1>2, <1>3, <1>6 DEF EntriesOf
<1> QED BY <1>5, <1>7
\* The lists of an authority over its own certificates, each within its scope.
LEMMA OwnSound ==
  ASSUME RecordsInv, NEW c \in CaCertificates, ~c.delegate, NEW list \in OwnLists(c)
  PROVE  Sound(list, StatusAt(Now))
<1> DEFINE status == StatusAt(Now)
           mine == {l \in RevokedNow : l.issuer = c.name /\ l.by = c.key}
           List(idp, ls) == CreateCrl(c, Now, Now + CrlLifetime, idp, Entries(ls, c.name, FALSE, status))
           Idps == IssuingDistributionPoint
<1>1. RevokedNow \in SUBSET Leaves /\ \A l \in RevokedNow : status[l] \in Reasons
  BY StatusNow DEF RevokedNow
<1>2. list.issuer = c.name /\ list.aki = c.ski
  <2> DEFINE Made(idp, entries) == CreateCrl(c, Now, Now + CrlLifetime, idp, entries)
  <2>1. \E idp, entries : list = Made(idp, entries) \/ list = [Made(idp, entries) EXCEPT !.critical = TRUE]
    BY DEF OwnLists
  <2>2. PICK idp, entries : list = Made(idp, entries) \/ list = [Made(idp, entries) EXCEPT !.critical = TRUE]
    BY <2>1
  <2>3. CASE list = Made(idp, entries)
    BY <2>3 DEF CreateCrl
  <2>4. CASE list = [Made(idp, entries) EXCEPT !.critical = TRUE]
    BY <2>4 DEF CreateCrl
  <2> QED BY <2>2, <2>3, <2>4
<1> SUFFICES ASSUME NEW cert \in Leaves, NEW ca \in CaCertificates, NEW iss, NEW now,
                    ~ca.delegate, VerifyCertificateSignature(cert, ca), ~cert.ca,
                    CheckRevocation(cert, list, iss, now) = "good", status[cert] # "valid"
             PROVE  FALSE
  BY DEF Sound
<1>3. /\ ~list.delta /\ ~list.critical
      /\ IssuerMatches(cert, list) /\ InScope(cert, list.idp)
  BY GoodInScope
\* The certificate is one of the authority's, if the list is not indirect.
<1>4. ASSUME ~Indirect(list) PROVE cert \in mine
  <2>1. cert.issuer = c.name /\ KeyIdsAgree(c.ski, cert.aki)
    BY <1>2, <1>3, <1>4 DEF IssuerMatches
  <2>2. c.name = ca.name
    BY <2>1 DEF VerifyCertificateSignature
  <2>3. c.key = ca.key
    BY <2>1, <2>2, KeysAssumption
  <2> QED BY <2>1, <2>3 DEF VerifyCertificateSignature, RevokedNow
<1>5. ASSUME NEW idp, NEW ls \in SUBSET mine, list = List(idp, ls), idp = Absent \/ ~idp.indirect
      PROVE  cert \notin ls /\ cert \in mine /\ (idp # Absent => idp.reasons = Absent) /\ InScope(cert, idp)
  <2>1. list.entries = Entries(ls, c.name, FALSE, status) /\ list.idp = idp
    BY <1>5 DEF CreateCrl
  <2>2. ~Indirect(list)
    BY <1>5, <2>1 DEF Indirect
  <2>3. ls \in SUBSET Leaves /\ \A l \in ls : status[l] \in Reasons
    BY <1>1
  <2> DEFINE entries == Entries(ls, c.name, FALSE, status)
  <2>5. Lists(entries, ls, status)
    BY <2>3, EntriesList
  <2> HIDE DEF status, mine, entries
  <2>6. list.entries = entries
    BY <2>1 DEF entries
  <2>4. cert \notin ls /\ (list.idp # Absent => list.idp.reasons = Absent)
    BY <2>2, <2>3, <2>5, <2>6, GoodNotAmong
  <2> QED BY <1>3, <1>4, <2>1, <2>2, <2>4
<1>6. CASE list = List(Absent, mine)
  BY <1>5, <1>6
<1>7. CASE \E u \in UNION {l.dps : l \in Leaves} :
              list = List([NoIdp EXCEPT !.uris = {u}, !.user = TRUE], {l \in mine : u \in l.dps})
  <2>1. PICK u \in UNION {l.dps : l \in Leaves} :
            list = List([NoIdp EXCEPT !.uris = {u}, !.user = TRUE], {l \in mine : u \in l.dps})
    BY <1>7
  <2> DEFINE idp == [NoIdp EXCEPT !.uris = {u}, !.user = TRUE]
             ls == {l \in mine : u \in l.dps}
  <2>2. idp \in Idps /\ ~idp.indirect /\ idp.uris = {u}
    BY DEF NoIdp, IssuingDistributionPoint
  <2>5. list = List(idp, ls) /\ ls \in SUBSET mine
    BY <2>1
  <2> HIDE DEF idp, ls
  <2>6. cert \notin ls /\ cert \in mine /\ InScope(cert, idp)
    BY <1>5, <2>2, <2>5
  <2>3. cert \notin {l \in mine : u \in l.dps} /\ cert \in mine /\ InScope(cert, idp)
    BY <2>6 DEF ls
  <2>4. {u} \cap cert.dps # {}
    BY <2>2, <2>3, AbsentAssumption DEF InScope
  <2> QED BY <2>3, <2>4
<1>8. CASE list \in {List([NoIdp EXCEPT !.cas = TRUE], {}), List([NoIdp EXCEPT !.attribute = TRUE], {})}
  <2>1. PICK idp \in {[NoIdp EXCEPT !.cas = TRUE], [NoIdp EXCEPT !.attribute = TRUE]} : list = List(idp, {})
    BY <1>8
  <2>2. idp \in Idps /\ (idp.cas \/ idp.attribute)
    BY DEF NoIdp, IssuingDistributionPoint
  <2>3. list.idp = idp
    BY <2>1 DEF CreateCrl
  <2> QED BY <1>3, <2>2, <2>3, AbsentAssumption DEF InScope
<1>9. CASE \E reason \in Reasons : list = List([NoIdp EXCEPT !.reasons = {reason}], {l \in mine : status[l] = reason})
  <2>1. PICK reason \in Reasons : list = List([NoIdp EXCEPT !.reasons = {reason}], {l \in mine : status[l] = reason})
    BY <1>9
  <2> DEFINE idp == [NoIdp EXCEPT !.reasons = {reason}]
             ls == {l \in mine : status[l] = reason}
  <2>2. idp \in Idps /\ ~idp.indirect /\ idp.reasons = {reason} /\ {reason} \in SUBSET Reasons
    BY DEF NoIdp, IssuingDistributionPoint
  <2>4. list = List(idp, ls) /\ ls \in SUBSET mine
    BY <2>1
  <2> HIDE DEF idp, ls
  <2>3. idp # Absent => idp.reasons = Absent
    BY <1>5, <2>2, <2>4
  <2> QED BY <2>2, <2>3, AbsentAssumption
<1>10. CASE list = [List(Absent, {}) EXCEPT !.critical = TRUE]
  BY <1>3, <1>10 DEF CreateCrl
<1> QED BY <1>6, <1>7, <1>8, <1>9, <1>10 DEF OwnLists

\* What changed is not asked.
LEMMA DeltaSound ==
  ASSUME NEW c \in CaCertificates
  PROVE  Sound(DeltaList(c), StatusAt(Now))
<1>1. DeltaList(c).delta = TRUE
  BY DEF DeltaList, CreateCrl
<1> QED BY <1>1, GoodInScope DEF Sound
-----------------------------------------------------------------------------
(* The relying party is authentic *)

\* A request that verifies for a certificate is signed with its key, and has
\* not expired.
LEMMA RequestSigned ==
  ASSUME NEW r, NEW now, J!VerifyJwt(r, J!SignerFromHeader(r, {"x5c"}), Absent, now, Skew)
  PROVE  /\ r.x5c # Absent /\ r.signature = r.x5c.key
         /\ r.exp # Absent => r.exp + Skew > now
<1> DEFINE signer == J!SignerFromHeader(r, {"x5c"})
           valid == {method \in J!FoundSigners(r) \cap {"x5c"} : J!SignerValid(r, method)}
           chosen == CHOOSE method \in valid : TRUE
           Unique == \E method \in valid : valid = {method}
<1>1. /\ J!AlgorithmAllowed(r.alg, Absent) /\ signer # Absent /\ VerifyJws(signer, r).verified
      /\ J!ClaimsVerify(r, now, Skew)
  BY DEF J!VerifyJwt, J!SignatureVerifies
<1>2. signer = IF Unique THEN [method |-> chosen, key |-> J!SignerKey(r)[chosen]] ELSE Absent
  <2> DEFINE custom == [method |-> "custom", key |-> r.kid]
  <2>1. signer = CASE Unique -> [method |-> chosen, key |-> J!SignerKey(r)[chosen]]
                   [] J!FoundSigners(r) = {} /\ "custom" \in {"x5c"} -> custom
                   [] OTHER -> Absent
    BY DEF J!SignerFromHeader
  <2> HIDE DEF signer, valid, chosen, custom, Unique
  <2> QED BY <2>1
<1>3. Unique
  BY <1>1, <1>2
<1>4. valid # {}
  BY <1>3
<1>5. chosen \in valid
  BY <1>4
<1>6. chosen = "x5c" /\ chosen \in J!FoundSigners(r)
  BY <1>5
<1> HIDE DEF chosen, valid, Unique
<1>7. J!SignerKey(r)["x5c"] = r.x5c
  BY DEF J!SignerKey
<1>8. signer = [method |-> "x5c", key |-> r.x5c] /\ r.x5c # Absent
  BY <1>2, <1>3, <1>6, <1>7 DEF J!FoundSigners
<1>9. ~r.alg.symmetric
  BY <1>1 DEF J!AlgorithmAllowed
<1>10. r.signature = r.x5c.key
  BY <1>1, <1>8, <1>9 DEF VerifyJws
<1> QED BY <1>1, <1>8, <1>10 DEF J!ClaimsVerify

\* The list in the cache is one that an authority published at a time on record.
CrlInv ==
    crl # Absent =>
        /\ crl.thisUpdate \in 0..Now /\ crl.nextUpdate \in Int
        /\ Sound(crl, StatusAt(crl.thisUpdate))

\* The wallet has a request whose signature it verified.
SignedInv ==
    wallet.step \in {"signed", "accepted", "registered", "answered"} =>
        LET r == wallet.request
        IN  /\ r \in Requests /\ r.x5c \in Leaves /\ r.signature = r.x5c.key
            /\ r.exp # Absent => wallet.at < r.exp + Skew + Lag

\* It went on with the certificate of the request.
AcceptedInv ==
    Trusting =>
        LET cert == wallet.request.x5c
        IN  /\ \E ca \in CaCertificates : ca.name = cert.issuer /\ ca.key = cert.by
            /\ crl # Absent /\ StatusAt(crl.thisUpdate)[cert] = "valid"
            /\ Now <= crl.nextUpdate + Lag

TrustInv == RecordsInv /\ CrlInv /\ SignedInv /\ AcceptedInv

LEMMA TrustInit ==
  ASSUME WalletInit
  PROVE  TrustInv
<1>1. wallet.step = "idle"
  BY DEF WalletInit, Idle
<1>2. RecordsInv
  BY DEF WalletInit, RecordsInv, Now, Statuses
<1> QED BY <1>1, <1>2 DEF WalletInit, TrustInv, CrlInv, SignedInv, AcceptedInv, Trusting

\* Time passes while nothing has been accepted yet, and leaves the past.
LEMMA ProceedKeeps ==
  ASSUME TrustInv, NEW status \in [Leaves -> Statuses], Proceed(status)
  PROVE  TrustInv'
<1> DEFINE T == [Leaves -> Statuses]
<1>1. records \in Seq(T) /\ records' = Append(records, status) /\ Now \in Nat
  BY DEF TrustInv, RecordsInv, Proceed
<1>2. records' \in Seq(T) /\ Now' = Now + 1
  BY <1>1 DEF Now
<1>3. \A t \in 0..Now : StatusAt(t)' = StatusAt(t)
  BY <1>1 DEF Now, StatusAt
<1>4. CrlInv'
  BY <1>1, <1>2, <1>3 DEF TrustInv, CrlInv, Proceed, Sound
<1>5. SignedInv'
  BY DEF TrustInv, SignedInv, Proceed
<1>6. AcceptedInv'
  BY DEF AcceptedInv, Proceed, Trusting
<1> QED BY <1>1, <1>2, <1>4, <1>5, <1>6 DEF TrustInv, RecordsInv

\* Another list reaches the cache while nothing has been accepted yet.
LEMMA FetchKeeps ==
  ASSUME TrustInv, NEW c \in CaCertificates, FetchCrl(c)
  PROVE  TrustInv'
<1>1. RecordsInv /\ RecordsInv'
  BY DEF TrustInv, RecordsInv, FetchCrl, Now
<1>2. Sound(crl', StatusAt(Now))
  BY <1>1, IndirectSound, OwnSound, DeltaSound DEF FetchCrl
<1>3. crl'.thisUpdate = Now /\ crl'.nextUpdate = Now + CrlLifetime
  <2> DEFINE Made(idp, entries) == CreateCrl(c, Now, Now + CrlLifetime, idp, entries)
  <2>1. \E idp, entries : crl' \in {Made(idp, entries), [Made(idp, entries) EXCEPT !.critical = TRUE],
                                    [Made(idp, entries) EXCEPT !.delta = TRUE]}
    BY DEF FetchCrl, OwnLists, IndirectList, DeltaList
  <2>2. PICK idp, entries : crl' \in {Made(idp, entries), [Made(idp, entries) EXCEPT !.critical = TRUE],
                                      [Made(idp, entries) EXCEPT !.delta = TRUE]}
    BY <2>1
  <2>3. CASE crl' = Made(idp, entries)
    BY <2>3 DEF CreateCrl
  <2>4. CASE crl' = [Made(idp, entries) EXCEPT !.critical = TRUE]
    BY <2>4 DEF CreateCrl
  <2>5. CASE crl' = [Made(idp, entries) EXCEPT !.delta = TRUE]
    BY <2>5 DEF CreateCrl
  <2> QED BY <2>2, <2>3, <2>4, <2>5
<1>4. StatusAt(Now) = StatusAt(Now)' /\ Now' = Now
  BY DEF FetchCrl, StatusAt, Now
<1>5. CrlInv'
  BY <1>1, <1>2, <1>3, <1>4, TimesAssumption DEF CrlInv, RecordsInv
<1>6. SignedInv' /\ AcceptedInv'
  BY DEF TrustInv, SignedInv, AcceptedInv, FetchCrl, Trusting
<1> QED BY <1>1, <1>5, <1>6 DEF TrustInv
\* A request is verified at the wallet's time.
LEMMA VerifyRequestKeeps ==
  ASSUME TrustInv, NEW r \in Requests, VerifyRequest(r)
  PROVE  TrustInv'
<1>1. PICK lag \in 0..Lag :
          wallet' = IF J!VerifyJwt(r, J!SignerFromHeader(r, {"x5c"}), Absent, Now - lag, Skew)
                    THEN [step |-> "signed", request |-> r, at |-> Now]
                    ELSE Refused
  BY DEF VerifyRequest
<1>2. UNCHANGED <<records, crl>>
  BY DEF VerifyRequest
<1>3. RecordsInv' /\ CrlInv' /\ RecordsInv
  BY <1>2 DEF TrustInv, RecordsInv, CrlInv, Now, StatusAt, Sound
<1>4. CASE wallet' = Refused
  BY <1>3, <1>4 DEF TrustInv, SignedInv, AcceptedInv, Trusting, Refused
<1>5. CASE wallet' # Refused
  <2>1. J!VerifyJwt(r, J!SignerFromHeader(r, {"x5c"}), Absent, Now - lag, Skew)
    BY <1>1, <1>5
  <2>2. r.x5c # Absent /\ r.signature = r.x5c.key /\ (r.exp # Absent => r.exp + Skew > Now - lag)
    BY <2>1, RequestSigned
  <2>3. r.x5c \in Leaves /\ (r.exp # Absent => r.exp \in Int)
    BY <2>2, LeavesAssumption
  <2>4. wallet'.step = "signed" /\ wallet'.request = r /\ wallet'.at = Now
    BY <1>1, <2>1
  <2>5. r.exp # Absent => Now < r.exp + Skew + Lag
    BY <1>3, <2>2, <2>3, TimesAssumption DEF RecordsInv
  <2>6. SignedInv'
    BY <2>2, <2>3, <2>4, <2>5 DEF SignedInv
  <2>7. AcceptedInv'
    BY <2>4 DEF AcceptedInv, Trusting
  <2> QED BY <1>3, <2>6, <2>7 DEF TrustInv
<1> QED BY <1>4, <1>5

\* A certificate is accepted on the word of the list in the cache.
LEMMA CheckAccessCertificateKeeps ==
  ASSUME TrustInv, NEW ca \in CaCertificates, NEW iss \in CaCertificates, CheckAccessCertificate(ca, iss)
  PROVE  TrustInv'
<1> DEFINE cert == wallet.request.x5c
           Accepts(lag) == /\ ~ca.delegate /\ VerifyCertificateSignature(cert, ca)
                           /\ AccessCertificateValid(cert, Now - lag)
                           /\ CheckRevocation(cert, crl, iss, Now - lag) = "good"
<1>1. PICK lag \in 0..Lag :
          wallet' = IF Accepts(lag) THEN [step |-> "accepted", request |-> wallet.request, at |-> wallet.at] ELSE Refused
  BY DEF CheckAccessCertificate
<1>2. UNCHANGED <<records, crl>> /\ wallet.step = "signed" /\ crl # Absent
  BY DEF CheckAccessCertificate
<1>3. RecordsInv' /\ CrlInv' /\ RecordsInv /\ CrlInv /\ SignedInv
  BY <1>2 DEF TrustInv, RecordsInv, CrlInv, Now, StatusAt, Sound
<1>4. CASE ~Accepts(lag)
  BY <1>1, <1>3, <1>4 DEF TrustInv, SignedInv, AcceptedInv, Trusting, Refused
<1>5. CASE Accepts(lag)
  <2>1. wallet'.step = "accepted" /\ wallet'.request = wallet.request /\ wallet'.at = wallet.at
    BY <1>1, <1>5
  <2>2. SignedInv'
    BY <1>2, <1>3, <2>1 DEF SignedInv
  <2>3. cert \in Leaves /\ ~cert.ca
    BY <1>2, <1>3, <1>5 DEF SignedInv, AccessCertificateValid
  <2>4. Now - lag \in Int
    BY <1>3, TimesAssumption DEF RecordsInv
  <2>5. StatusAt(crl.thisUpdate)[cert] = "valid"
    BY <1>2, <1>3, <1>5, <2>3, <2>4 DEF CrlInv, Sound
  <2>6. Now - lag <= crl.nextUpdate /\ crl.nextUpdate \in Int
    BY <1>2, <1>3, <1>5, GoodInScope DEF Current, CrlInv
  <2>7. Now <= crl.nextUpdate + Lag
    BY <1>3, <2>6, TimesAssumption DEF RecordsInv
  <2>8. ca.name = cert.issuer /\ ca.key = cert.by
    BY <1>5 DEF VerifyCertificateSignature
  <2>9. Now' = Now /\ StatusAt(crl.thisUpdate)' = StatusAt(crl.thisUpdate)
    BY <1>2 DEF Now, StatusAt
  <2> HIDE DEF cert
  <2>10. wallet'.request.x5c = cert
    BY <2>1 DEF cert
  <2>11. AcceptedInv'
    BY <1>2, <2>5, <2>7, <2>8, <2>9, <2>10 DEF AcceptedInv
  <2> QED BY <1>3, <2>2, <2>11 DEF TrustInv
<1> QED BY <1>4, <1>5

\* The later checks keep the request and the list.
LEMMA LaterStepKeeps ==
  ASSUME TrustInv, UNCHANGED <<records, crl>>,
         \/ UNCHANGED wallet
         \/ wallet' = Refused
         \/ /\ Trusting
            /\ wallet'.step \in {"registered", "answered"}
            /\ wallet'.request = wallet.request /\ wallet'.at = wallet.at
  PROVE  TrustInv'
<1>1. RecordsInv' /\ CrlInv' /\ Now' = Now /\ \A t : StatusAt(t)' = StatusAt(t)
  BY DEF TrustInv, RecordsInv, CrlInv, Now, StatusAt, Sound
<1>2. CASE UNCHANGED wallet
  BY <1>1, <1>2 DEF TrustInv, SignedInv, AcceptedInv, Trusting
<1>3. CASE wallet' = Refused
  BY <1>1, <1>3 DEF TrustInv, SignedInv, AcceptedInv, Trusting, Refused
<1>4. CASE /\ Trusting
           /\ wallet'.step \in {"registered", "answered"}
           /\ wallet'.request = wallet.request /\ wallet'.at = wallet.at
  <2>1. SignedInv'
    BY <1>4 DEF TrustInv, SignedInv, Trusting
  <2>2. AcceptedInv'
    BY <1>1, <1>4 DEF TrustInv, AcceptedInv
  <2> QED BY <1>1, <2>1, <2>2 DEF TrustInv
<1> QED BY <1>2, <1>3, <1>4

LEMMA TrustStep ==
  ASSUME TrustInv, [WalletNext]_walletVars
  PROVE  TrustInv'
<1>0. StatusAt(Now) \in [Leaves -> Statuses]
  BY StatusNow DEF TrustInv
<1>1. CASE Tick
  BY <1>0, <1>1, ProceedKeeps DEF Tick
<1>2. ASSUME NEW l \in Leaves, Release(l) PROVE TrustInv'
  <2>1. [StatusAt(Now) EXCEPT ![l] = "valid"] \in [Leaves -> Statuses]
    BY <1>0 DEF Statuses
  <2> QED BY <1>2, <2>1, ProceedKeeps DEF Release
<1>3. ASSUME NEW l \in Leaves, NEW reason \in Reasons, Revoke(l, reason) PROVE TrustInv'
  <2>1. [StatusAt(Now) EXCEPT ![l] = reason] \in [Leaves -> Statuses]
    BY <1>0 DEF Statuses
  <2> QED BY <1>3, <2>1, ProceedKeeps DEF Revoke
<1>4. ASSUME NEW c \in CaCertificates, FetchCrl(c) PROVE TrustInv'
  BY <1>4, FetchKeeps
<1>5. ASSUME NEW p \in Payloads, NEW l \in Leaves, Register(p, l) PROVE TrustInv'
  BY <1>5, LaterStepKeeps DEF Register
<1>6. ASSUME NEW r \in Requests, VerifyRequest(r) PROVE TrustInv'
  BY <1>6, VerifyRequestKeeps
<1>7. ASSUME NEW ca \in CaCertificates, NEW iss \in CaCertificates, CheckAccessCertificate(ca, iss) PROVE TrustInv'
  BY <1>7, CheckAccessCertificateKeeps
<1>8. ASSUME NEW jws \in Tokens, CheckRegistration(jws) PROVE TrustInv'
  BY <1>8, LaterStepKeeps DEF CheckRegistration, Trusting
<1>9. ASSUME NEW queries \in Queries, CheckQuery(queries) PROVE TrustInv'
  BY <1>9, LaterStepKeeps DEF CheckQuery, Trusting
<1>10. CASE UNCHANGED walletVars
  BY <1>10, LaterStepKeeps DEF walletVars
<1> QED BY <1>1, <1>2, <1>3, <1>4, <1>5, <1>6, <1>7, <1>8, <1>9, <1>10 DEF WalletNext

\* verifyJwt, verifyCertificateSignature, checkRevocation: for all
\* certificates, authorities and requests, whatever list is in the cache and
\* whatever the authorities do between two checks, the relying party the
\* wallet goes on with holds the key of a certificate of a trusted CA that
\* was neither revoked nor on hold when the list was made.
THEOREM RelyingPartyIsAuthentic == WalletSpec => []AuthenticRelyingParty
<1>1. WalletInit => TrustInv
  BY TrustInit
<1>2. TrustInv /\ [WalletNext]_walletVars => TrustInv'
  BY TrustStep
<1>3. TrustInv => AuthenticRelyingParty
  BY DEF TrustInv, SignedInv, AcceptedInv, AuthenticRelyingParty, Trusting
<1> QED BY <1>1, <1>2, <1>3, PTL DEF WalletSpec
-----------------------------------------------------------------------------
(* Nothing is disclosed beyond the registration *)

\* The registrar signed a payload of its own.
RegisteredInv ==
    \A jws \in registered : \E p \in Payloads : \E t : jws = SignRegistrationCertificate(RegistrarKey, p, t)

\* What a signed registration is.
LEMMA RegistrationSigned ==
  ASSUME NEW p, NEW t
  PROVE  \E h : /\ h.sigD = Absent
                /\ SignRegistrationCertificate(RegistrarKey, p, t)
                     = [header |-> h, payload |-> p, signature |-> [key |-> RegistrarKey, header |-> h, payload |-> p]]
<1> DEFINE header == [typ |-> "rc-wrp+jwt", certified |-> TRUE, iat |-> t, sigT |-> Absent, crit |-> {}, sigD |-> Absent]
           h == FinalHeader(header)
<1>1. header.sigD = Absent /\ h.sigD = Absent
  BY DEF FinalHeader
<1>2. SignRegistrationCertificate(RegistrarKey, p, t) = SignToken(RegistrarKey, header, p)
  BY DEF SignRegistrationCertificate
<1> HIDE DEF header
<1>3. SignToken(RegistrarKey, header, p)
        = [header |-> h, payload |-> p, signature |-> [key |-> RegistrarKey, header |-> h, payload |-> p]]
  BY <1>1, AbsentAssumption DEF SignToken, SigningPayload
<1> HIDE DEF h
<1> QED BY <1>1, <1>2, <1>3

\* A token that verifies and decodes carries what the registrar signed for the
\* subject: a payload in the place of another breaks the signature, and no
\* other document of the registrar has the type of a registration.
LEMMA TokenRegistered ==
  ASSUME RegisteredInv, NEW jws \in Tokens, NEW sub,
         JadesVerifies(jws, RegistrarKey), RegistrationCertificateDecodes(jws, sub, Year)
  PROVE  \E g \in registered : g.payload = jws.payload /\ PresentedBy(jws.payload) = sub
<1>1. PresentedBy(jws.payload) = sub /\ jws.header.typ = "rc-wrp+jwt"
  BY DEF RegistrationCertificateDecodes, PayloadValid
<1>2. CASE jws \in registered
  BY <1>1, <1>2
<1>3. CASE \E g \in registered, p \in Payloads : jws = [g EXCEPT !.payload = p]
  <2>1. PICK g \in registered, p \in Payloads : jws = [g EXCEPT !.payload = p]
    BY <1>3
  <2>2. PICK q, t : g = SignRegistrationCertificate(RegistrarKey, q, t)
    BY DEF RegisteredInv
  <2>3. PICK h : /\ h.sigD = Absent
                 /\ g = [header |-> h, payload |-> q, signature |-> [key |-> RegistrarKey, header |-> h, payload |-> q]]
    BY <2>2, RegistrationSigned
  <2> DEFINE signature == [key |-> RegistrarKey, header |-> h, payload |-> q]
  <2>4. signature.payload = q
    OBVIOUS
  <2> HIDE DEF signature
  <2>5. g = [header |-> h, payload |-> q, signature |-> signature]
    BY <2>3 DEF signature
  <2>6. jws = [header |-> h, payload |-> p, signature |-> signature]
    BY <2>1, <2>5
  <2>7. jws.header = h /\ jws.payload = p /\ jws.signature = signature /\ g.payload = q
    BY <2>5, <2>6
  <2>8. signature = [key |-> RegistrarKey, header |-> h, payload |-> SigningPayload(h, p)]
    BY <2>7 DEF JadesVerifies
  <2>9. signature.payload = p
    BY <2>3, <2>8, AbsentAssumption DEF SigningPayload
  <2> QED BY <1>1, <2>4, <2>7, <2>9
<1>4. CASE \E h \in OtherDocuments, p \in Payloads : jws = [SignToken(RegistrarKey, h, p) EXCEPT !.payload = p]
  <2>1. PICK h \in OtherDocuments, p \in Payloads : jws = [SignToken(RegistrarKey, h, p) EXCEPT !.payload = p]
    BY <1>4
  <2>2. jws.header = FinalHeader(h)
    BY <2>1 DEF SignToken
  <2>3. FinalHeader(h).typ = h.typ
    BY DocumentsAssumption DEF FinalHeader
  <2> QED BY <1>1, <2>2, <2>3, DocumentsAssumption
<1> QED BY <1>2, <1>3, <1>4 DEF Tokens

\* A claim without an issue is covered by a registered one.
LEMMA ClaimCovered ==
  ASSUME NEW q, NEW credentials, QueryIssues(q, credentials) = {}, q.claims # Absent, NEW c \in q.claims
  PROVE  \E r \in Matching(q, credentials) :
            /\ r.claims # Absent
            /\ \E g \in r.claims : PathCovered(c.path, g.path) /\ ValuesAllowed(c.values, g.values)
<1> DEFINE matching == Matching(q, credentials)
           Claims == UNION {r.claims : r \in matching}
           Covering(d) == {g \in Claims : PathCovered(d.path, g.path)}
           wanting == {d \in q.claims : ~\E g \in Covering(d) : ValuesAllowed(d.values, g.values)}
           Issue(d) == IF Covering(d) = {} THEN "claim_not_registered" ELSE "claim_values_not_registered"
<1>1. matching # {} /\ ~\E r \in matching : r.claims = Absent
  BY DEF QueryIssues
<1>2. QueryIssues(q, credentials) = {Issue(d) : d \in wanting}
  BY <1>1 DEF QueryIssues
<1>3. wanting = {}
  <2> HIDE DEF wanting, Issue
  <2> QED BY <1>2
<1>4. PICK g \in Covering(c) : ValuesAllowed(c.values, g.values)
  BY <1>3
<1>5. PICK r \in matching : g \in r.claims
  BY <1>4
<1> QED BY <1>1, <1>4, <1>5

\* What a covered claim takes from a credential the registered one covers.
LEMMA CoversRegistered ==
  ASSUME NEW p \in Payloads, p.credentials # Absent, NEW r \in p.credentials, r.claims # Absent, NEW g \in r.claims,
         NEW queries \in Queries, NEW q \in queries, q.claims # Absent, NEW c \in q.claims,
         NEW cred \in Credentials, Admits(r, cred), NEW leaf \in DOMAIN cred.claims,
         PathCovered(c.path, g.path), ValuesAllowed(c.values, g.values), Covers(c, cred, leaf)
  PROVE  Covers(g, cred, leaf)
<1> DEFINE cp == c.path
           gp == g.path
<1>1. IsPath(cp) /\ IsPath(gp) /\ IsPath(leaf)
  BY PathsAssumption
<1>2. Len(gp) <= Len(cp) /\ Len(cp) <= Len(leaf) /\ Len(gp) \in Nat /\ Len(cp) \in Nat /\ Len(leaf) \in Nat
  BY <1>1 DEF IsPath, PathCovered, Covers, Selects
<1>3. DOMAIN gp = 1..Len(gp) /\ DOMAIN cp = 1..Len(cp) /\ DOMAIN leaf = 1..Len(leaf)
  BY <1>1 DEF IsPath
<1>4. \A i \in DOMAIN gp : /\ i \in DOMAIN cp /\ gp[i] \in {Null, cp[i]}
                           /\ IF cp[i] = Null THEN leaf[i] \in Indexes ELSE cp[i] = leaf[i]
  BY <1>2, <1>3 DEF PathCovered, Covers, Selects
<1>5. ASSUME NEW i \in DOMAIN gp PROVE IF gp[i] = Null THEN leaf[i] \in Indexes ELSE gp[i] = leaf[i]
  <2>1. CASE gp[i] # Null
    BY <1>4, <2>1
  <2>2. CASE gp[i] = Null
    <3>1. ASSUME NEW j \in 1 .. i - 1 PROVE gp[j] \in {Null, leaf[j]}
      <4>1. j \in DOMAIN gp
        BY <1>2, <1>3
      <4>2. gp[j] \in {Null, cp[j]} /\ IF cp[j] = Null THEN leaf[j] \in Indexes ELSE cp[j] = leaf[j]
        BY <1>4, <4>1
      <4> QED BY <4>2
    <3>2. i \in DOMAIN gp \cap DOMAIN leaf
      BY <1>2, <1>3
    <3>3. leaf[i] \in Indexes
      BY <2>2, <3>1, <3>2, PathsAssumption
    <3> QED BY <2>2, <3>3
  <2> QED BY <2>1, <2>2
<1>6. Selects(gp, leaf)
  BY <1>2, <1>5 DEF Selects
<1> QED BY <1>6 DEF Covers, ValuesAllowed

\* A registered credential that matches a query admits what the query admits.
LEMMA MatchingAdmits ==
  ASSUME NEW q, NEW credentials, NEW r \in Matching(q, credentials), NEW cred, Admits(q, cred)
  PROVE  Admits(r, cred)
BY DEF Matching, MetaCovered, Admits
\* A query without an issue takes nothing from any credential that the
\* registration does not cover.
LEMMA NothingBeyond ==
  ASSUME NEW queries \in Queries, NEW payload \in Payloads, OverAskingIssues(queries, payload.credentials) = {},
         NEW g \in registered, g.payload = payload, NEW sub, PresentedBy(payload) = sub,
         NEW q \in queries, NEW cred \in Credentials, NEW leaf \in Disclosed(q, cred)
  PROVE  RegisteredFor(sub, cred, leaf)
<1> DEFINE credentials == IF payload.credentials = Absent THEN {} ELSE payload.credentials
<1>1. QueryIssues(q, credentials) = {}
  BY DEF OverAskingIssues
<1>2. q.claims # Absent /\ Admits(q, cred) /\ leaf \in DOMAIN cred.claims /\ \E c \in q.claims : Covers(c, cred, leaf)
  BY DEF Disclosed, Answers
<1>3. PICK c \in q.claims : Covers(c, cred, leaf)
  BY <1>2
<1> HIDE DEF credentials
<1>4. PICK r \in Matching(q, credentials) :
            /\ r.claims # Absent
            /\ \E h \in r.claims : PathCovered(c.path, h.path) /\ ValuesAllowed(c.values, h.values)
  BY <1>1, <1>2, ClaimCovered
<1>5. PICK h \in r.claims : PathCovered(c.path, h.path) /\ ValuesAllowed(c.values, h.values)
  BY <1>4
<1>6. r \in credentials
  BY DEF Matching
<1>7. payload.credentials # Absent /\ r \in payload.credentials
  BY <1>6 DEF credentials
<1>8. Admits(r, cred)
  BY <1>2, MatchingAdmits
<1>9. Covers(h, cred, leaf)
  BY <1>2, <1>3, <1>4, <1>5, <1>7, <1>8, CoversRegistered
<1> QED BY <1>4, <1>7, <1>8, <1>9 DEF RegisteredFor

\* The wallet holds a registration that the registrar signed for the subject
\* of the access certificate.
PayloadInv ==
    /\ RegisteredInv
    /\ wallet.step = "registered" =>
          \E g \in registered : /\ g.payload = wallet.payload
                                /\ PresentedBy(wallet.payload) = SubjectIdentifier(wallet.request.x5c)
    /\ DisclosedWithinRegistration

LEMMA PayloadStep ==
  ASSUME PayloadInv, [WalletNext]_walletVars
  PROVE  PayloadInv'
<1>1. CASE UNCHANGED <<registered, wallet>>
  BY <1>1 DEF PayloadInv, RegisteredInv, DisclosedWithinRegistration, RegisteredFor
<1>2. ASSUME UNCHANGED registered, wallet'.step \notin {"registered", "answered"} PROVE PayloadInv'
  BY <1>2 DEF PayloadInv, RegisteredInv, DisclosedWithinRegistration
<1>3. CASE Tick \/ \E l \in Leaves : Release(l) \/ \E reason \in Reasons : Revoke(l, reason)
  BY <1>1, <1>3 DEF Tick, Release, Revoke, Proceed
<1>4. CASE \E c \in CaCertificates : FetchCrl(c)
  BY <1>1, <1>4 DEF FetchCrl
<1>5. ASSUME NEW p \in Payloads, NEW l \in Leaves, Register(p, l) PROVE PayloadInv'
  <2>1. wallet' = wallet /\ wallet.step = "accepted"
    BY <1>5 DEF Register
  <2>2. RegisteredInv'
    BY <1>5 DEF Register, RegisteredInv
  <2> QED BY <2>1, <2>2 DEF PayloadInv, DisclosedWithinRegistration
<1>6. ASSUME NEW r \in Requests, VerifyRequest(r) PROVE PayloadInv'
  BY <1>2, <1>6 DEF VerifyRequest, Refused
<1>7. ASSUME NEW ca \in CaCertificates, NEW iss \in CaCertificates, CheckAccessCertificate(ca, iss) PROVE PayloadInv'
  BY <1>2, <1>7 DEF CheckAccessCertificate, Refused
<1>8. ASSUME NEW jws \in Tokens, CheckRegistration(jws) PROVE PayloadInv'
  <2> DEFINE sub == SubjectIdentifier(wallet.request.x5c)
  <2>1. UNCHANGED registered
    BY <1>8 DEF CheckRegistration
  <2>2. CASE wallet' = Refused
    BY <1>2, <2>1, <2>2 DEF Refused
  <2>3. CASE wallet' # Refused
    <3>1. JadesVerifies(jws, RegistrarKey) /\ RegistrationCertificateDecodes(jws, sub, Year)
      BY <1>8, <2>3 DEF CheckRegistration
    <3>2. wallet' = [step |-> "registered", request |-> wallet.request, at |-> wallet.at, payload |-> jws.payload]
      BY <1>8, <2>3 DEF CheckRegistration
    <3>3. wallet'.step = "registered" /\ wallet'.request = wallet.request /\ wallet'.payload = jws.payload
      BY <3>2
    <3>4. PICK g \in registered : g.payload = jws.payload /\ PresentedBy(jws.payload) = sub
      BY <3>1, TokenRegistered DEF PayloadInv
    <3>5. RegisteredInv'
      BY <2>1 DEF PayloadInv, RegisteredInv
    <3>6. DisclosedWithinRegistration'
      BY <3>3 DEF DisclosedWithinRegistration
    <3> QED BY <2>1, <3>3, <3>4, <3>5, <3>6 DEF PayloadInv
  <2> QED BY <2>2, <2>3
<1>9. ASSUME NEW queries \in Queries, CheckQuery(queries) PROVE PayloadInv'
  <2> DEFINE payload == wallet.payload
             issues == OverAskingIssues(queries, payload.credentials)
             sub == SubjectIdentifier(wallet.request.x5c)
  <2>1. UNCHANGED registered /\ wallet.step = "registered"
    BY <1>9 DEF CheckQuery
  <2>2. CASE wallet' = Refused
    BY <1>2, <2>1, <2>2 DEF Refused
  <2>3. CASE wallet' # Refused
    <3>1. wallet' = [step |-> "answered", request |-> wallet.request, at |-> wallet.at,
                     queries |-> queries, warned |-> issues # {}]
      BY <1>9, <2>3 DEF CheckQuery
    <3>2. /\ wallet'.step = "answered" /\ wallet'.request = wallet.request /\ wallet'.queries = queries
          /\ ~wallet'.warned => issues = {}
      BY <3>1
    <3>3. PICK g \in registered : g.payload = payload /\ PresentedBy(payload) = sub
      BY <2>1 DEF PayloadInv
    <3>4. PICK p, t : p \in Payloads /\ g = SignRegistrationCertificate(RegistrarKey, p, t)
      BY DEF PayloadInv, RegisteredInv
    <3>5. payload \in Payloads
      BY <3>3, <3>4, RegistrationSigned
    <3> HIDE DEF payload, sub
    <3>6. ASSUME issues = {}, NEW q \in queries, NEW cred \in Credentials, NEW leaf \in Disclosed(q, cred)
          PROVE  RegisteredFor(sub, cred, leaf)
      BY <3>3, <3>5, <3>6, NothingBeyond
    <3>7. RegisteredInv'
      BY <2>1 DEF PayloadInv, RegisteredInv
    <3>8. DisclosedWithinRegistration'
      BY <2>1, <3>2, <3>6 DEF DisclosedWithinRegistration, RegisteredFor, sub
    <3> QED BY <3>2, <3>7, <3>8 DEF PayloadInv
  <2> QED BY <2>2, <2>3
<1>10. CASE UNCHANGED walletVars
  BY <1>1, <1>10 DEF walletVars
<1> QED BY <1>3, <1>4, <1>5, <1>6, <1>7, <1>8, <1>9, <1>10 DEF WalletNext

\* checkOverAsking, decodeRegistrationCertificate, verify: for all queries,
\* registrations and credentials, whatever tokens come with a request, an
\* answer without a warning takes from any credential only what one
\* registration signed for the subject of the access certificate covers,
\* value by value.
THEOREM DisclosureStaysWithin == WalletSpec => []DisclosedWithinRegistration
<1>1. WalletInit => PayloadInv
  BY DEF WalletInit, Idle, PayloadInv, RegisteredInv, DisclosedWithinRegistration
<1>2. PayloadInv /\ [WalletNext]_walletVars => PayloadInv'
  BY PayloadStep
<1>3. PayloadInv => DisclosedWithinRegistration
  BY DEF PayloadInv
<1> QED BY <1>1, <1>2, <1>3, PTL DEF WalletSpec

(***************************************************************************)
(* A relying party that follows the trusted lists                          *)
(***************************************************************************)
-----------------------------------------------------------------------------
(* What the parser makes of a list *)

\* The first value given is one of those there, if there is any.
LEMMA FirstGivenIs ==
  ASSUME NEW T, NEW seq \in Seq(T), NEW field
  PROVE  /\ FirstGiven(seq, field) = None \/ \E i \in DOMAIN seq : FirstGiven(seq, field) = seq[i][field]
         /\ (\E i \in DOMAIN seq : seq[i][field] # None) => FirstGiven(seq, field) # None
<1> DEFINE S == {e \in ToSet(seq) : e[field] # None}
           given == Within(seq, S)
<1>1. Given(seq, field) = given
  BY DEF Given
<1>2. ToSet(seq) = {seq[i] : i \in DOMAIN seq}
  BY DEF ToSet
<1>3. given \in Seq(T \cap S) /\ \A k \in DOMAIN seq : seq[k] \in S => \E m \in DOMAIN given : given[m] = seq[k]
  <2> HIDE DEF S
  <2> QED BY WithinKeeps
<1>4. FirstGiven(seq, field) = IF given = <<>> THEN None ELSE given[1][field]
  BY <1>1 DEF FirstGiven
<1> HIDE DEF given
<1>5. given # <<>> => given[1] \in S
  BY <1>3
<1>6. given # <<>> => given[1][field] # None /\ \E i \in DOMAIN seq : given[1] = seq[i]
  BY <1>2, <1>5
<1>7. (\E i \in DOMAIN seq : seq[i][field] # None) => given # <<>>
  <2> SUFFICES ASSUME NEW i \in DOMAIN seq, seq[i][field] # None PROVE given # <<>>
    OBVIOUS
  <2>1. seq[i] \in S
    BY <1>2
  <2>2. PICK m \in DOMAIN given : given[m] = seq[i]
    BY <1>3, <2>1
  <2> QED BY <1>3, <2>2
<1> QED BY <1>4, <1>6, <1>7

\* The certificate of an identity, however it is written, is its key; embedded,
\* its key identifier is that of the certificate.
LEMMA IdentityRead ==
  ASSUME NEW key
  PROVE  /\ \A m \in BOOLEAN : MergedIdentity(IdentityOf(key, m)).cert \in {None, key}
         /\ MergedIdentity(<<>>).cert = None
         /\ key # None =>
              /\ MergedIdentity(IdentityOf(key, TRUE)).cert = key
              /\ MergedIdentity(IdentityOf(key, TRUE)).ski = IF SkiOf[key] # None THEN SkiOf[key] ELSE key
<1> DEFINE byId == [cert |-> None, subject |-> None, ski |-> key]
           byCert == [cert |-> key, subject |-> None, ski |-> None]
           bySubject == [cert |-> None, subject |-> key, ski |-> key]
           both == <<byId, byCert>>
           one == <<bySubject>>
           T == {byId, byCert, bySubject}
<1>1. both \in Seq(T) /\ one \in Seq(T) /\ <<>> \in Seq(T)
  OBVIOUS
<1>2. IdentityOf(key, TRUE) = both /\ IdentityOf(key, FALSE) = one
  BY Zenon DEF IdentityOf
<1>3. /\ DOMAIN both = {1, 2} /\ both[1].cert = None /\ both[2].cert = key
      /\ both[1].ski = key /\ both[2].ski = None
      /\ DOMAIN one = {1} /\ one[1].cert = None
  OBVIOUS
<1> HIDE DEF both, one, T
<1>4. FirstGiven(both, "cert") \in {None, key} /\ (key # None => FirstGiven(both, "cert") = key)
  BY <1>1, <1>3, FirstGivenIs
<1>5. key # None => FirstGiven(both, "ski") = key
  BY <1>1, <1>3, FirstGivenIs
<1>6. FirstGiven(one, "cert") = None
  BY <1>1, <1>3, FirstGivenIs
<1>7. FirstGiven(<<>>, "cert") = None
  <2>1. DOMAIN <<>> = {}
    OBVIOUS
  <2> QED BY <1>1, <2>1, FirstGivenIs, Zenon
<1>8. \A ids : /\ MergedIdentity(ids).cert = FirstGiven(ids, "cert")
               /\ MergedIdentity(ids).ski =
                    IF FirstGiven(ids, "cert") # None /\ SkiOf[FirstGiven(ids, "cert")] # None
                    THEN SkiOf[FirstGiven(ids, "cert")] ELSE FirstGiven(ids, "ski")
  BY DEF MergedIdentity
<1>9. ASSUME NEW m \in BOOLEAN PROVE MergedIdentity(IdentityOf(key, m)).cert \in {None, key}
  <2>1. IdentityOf(key, m) \in {both, one}
    BY <1>2, <1>9
  <2> QED BY <1>4, <1>6, <1>8, <2>1
<1> QED BY <1>2, <1>4, <1>5, <1>7, <1>8, <1>9

\* Every identity that is read is one of those there.
LEMMA IdentitiesRead ==
  ASSUME NEW n \in Nat, NEW ids, DOMAIN ids = 1 .. n, NEW e \in ToSet(parseDigitalIdentities(ids))
  PROVE  \E i \in 1 .. n : e = MergedIdentity(ids[i])
<1> DEFINE merged == [i \in DOMAIN ids |-> MergedIdentity(ids[i])]
           S == ToSet(merged) \ {NoIdentity}
           T == {MergedIdentity(ids[i]) : i \in 1 .. n}
           kept == Within(merged, S)
<1>1. parseDigitalIdentities(ids) = kept
  BY DEF parseDigitalIdentities
<1>2. merged \in Seq(T)
  OBVIOUS
<1> HIDE DEF merged, S, T
<1>3. kept \in Seq(T \cap S)
  BY <1>2, WithinKeeps, Zenon
<1>4. e \in {kept[k] : k \in DOMAIN kept}
  BY <1>1 DEF ToSet
<1> HIDE DEF kept
<1>5. e \in T
  BY <1>3, <1>4
<1> QED BY <1>5 DEF T

\* Every pointer that is read is one of those there, with its identities read.
LEMMA PointersRead ==
  ASSUME NEW T, NEW pointers \in Seq(T), \A q \in T : "ids" \in DOMAIN q,
         NEW p \in ToSet(parsePointers(pointers))
  PROVE  \E q \in T : \E i \in DOMAIN pointers :
            q = pointers[i] /\ p = [q EXCEPT !.ids = parseDigitalIdentities(q.ids)]
<1> DEFINE S == {e \in ToSet(pointers) : e["location"] # None}
           located == Within(pointers, S)
<1>1. Given(pointers, "location") = located
  BY DEF Given
<1>2. located \in Seq(T \cap S)
  <2> HIDE DEF S
  <2> QED BY WithinKeeps
<1> HIDE DEF located
<1>3. PICK k \in DOMAIN located : p = [located[k] EXCEPT !.ids = parseDigitalIdentities(located[k].ids)]
  BY <1>1 DEF parsePointers, ToSet
<1>4. located[k] \in T /\ located[k] \in S
  BY <1>2, <1>3
<1>5. \E i \in DOMAIN pointers : located[k] = pointers[i]
  BY <1>4 DEF ToSet
<1> QED BY <1>3, <1>4, <1>5

SelfPointer == [AnyPointer EXCEPT !.tslType = EUlistofthelists]

\* The certificates a LOTL publishes for itself are among the keys its
\* operator put there.
LEMMA SelfCertificates ==
  ASSUME NEW n \in Nat, NEW self, DOMAIN self = 1 .. n, NEW embedded \in BOOLEAN, NEW sequence, NEW nationalKeys,
         NEW lotl, lotl.pointers = parsePointers(LotlList(sequence, self, embedded, nationalKeys).pointers)
  PROVE  getPointerSigningCertificates(lotl, SelfPointer) \subseteq {self[i] : i \in 1 .. n}
<1> DEFINE toItself == Pointer("lotl", <<"EUlistofthelists", "https">>, <<"EU", "upper">>, self, embedded)
           nowhere == Pointer(None, EUgeneric, <<"ES", "upper">>, <<Attacker>>, TRUE)
           national == Pointer("list", EUgeneric, <<"ES", "lower">>, nationalKeys, TRUE)
           T == {toItself, nowhere, national}
           pointers == <<toItself, nowhere, national>>
<1>1. pointers = LotlList(sequence, self, embedded, nationalKeys).pointers
  BY DEF LotlList
<1>2. /\ toItself.ids = [i \in 1 .. n |-> IdentityOf(self[i], embedded)]
      /\ nowhere.tslType = <<"EUgeneric", "http">> /\ national.tslType = <<"EUgeneric", "http">>
      /\ \A q \in T : DOMAIN q = {"location", "tslType", "territory", "ids"}
  BY DEF Pointer, EUgeneric, Http
<1> HIDE DEF toItself, nowhere, national
<1>3. pointers \in Seq(T)
  OBVIOUS
<1> SUFFICES ASSUME NEW c \in getPointerSigningCertificates(lotl, SelfPointer)
             PROVE  c \in {self[i] : i \in 1 .. n}
  OBVIOUS
<1>4. SelfPointer.tslType # Omitted /\ SelfPointer.tslType[1] = "EUlistofthelists"
  BY ListKeysAssumption DEF SelfPointer, AnyPointer, EUlistofthelists, Http
<1>5. PICK p \in ToSet(lotl.pointers) : \E id \in ToSet(p.ids) :
         PointerMatches(p, SelfPointer) /\ c = id.cert /\ c # None
  BY DEF getPointerSigningCertificates
<1>6. p.tslType[1] = "EUlistofthelists"
  BY <1>4, <1>5 DEF PointerMatches
<1>7. PICK q \in T : p = [q EXCEPT !.ids = parseDigitalIdentities(q.ids)]
  <2> HIDE DEF T, pointers
  <2>1. p \in ToSet(parsePointers(pointers))
    BY <1>1, <1>5
  <2>2. \A q \in T : "ids" \in DOMAIN q
    BY <1>2
  <2> QED BY <1>3, <2>1, <2>2, PointersRead
<1>8. p.tslType = q.tslType /\ p.ids = parseDigitalIdentities(q.ids)
  BY <1>2, <1>7
<1>9. q = toItself
  BY <1>2, <1>6, <1>8
<1>10. PICK id \in ToSet(p.ids) : c = id.cert
  BY <1>5
<1>11. PICK i \in 1 .. n : id = MergedIdentity(toItself.ids[i])
  <2>1. DOMAIN toItself.ids = 1 .. n
    BY <1>2
  <2>2. id \in ToSet(parseDigitalIdentities(toItself.ids))
    BY <1>8, <1>9, <1>10
  <2> QED BY <2>1, <2>2, IdentitiesRead
<1>12. id = MergedIdentity(IdentityOf(self[i], embedded))
  BY <1>2, <1>11
<1>13. id.cert \in {None, self[i]}
  BY <1>12, IdentityRead
<1> QED BY <1>5, <1>10, <1>13

-----------------------------------------------------------------------------
(* What a signature says *)

\* A list is accepted only with one signature, of the root and made over this
\* list with one of the keys that are trusted.
LEMMA VerifiedBy ==
  ASSUME NEW doc, NEW T, doc.sigs[1].certs \in Seq(T), NEW anchors, anchors # Omitted,
         verifyTrustedListSignature(doc, anchors)
  PROVE  /\ Len(doc.sigs) = 1 /\ doc.sigs[1].place = "root"
         /\ doc.sigs[1].key \in anchors /\ doc.sigs[1].over = doc.list
<1> DEFINE certs == doc.sigs[1].certs
           candidates == Within(certs, anchors)
<1>1. SignerCandidates(certs, anchors) = candidates
  BY DEF SignerCandidates
<1>2. candidates \in Seq(T \cap anchors)
  BY WithinKeeps
<1> HIDE DEF candidates
<1>3. PICK i \in DOMAIN candidates : VerifiesWith(doc.sigs[1], doc.list, candidates[i])
  BY <1>1 DEF verifyTrustedListSignature
<1>4. candidates[i] \in anchors
  BY <1>2
<1>5. Len(doc.sigs) = 1 /\ doc.sigs[1].place = "root"
  BY DEF verifyTrustedListSignature
<1> QED BY <1>3, <1>4, <1>5 DEF VerifiesWith

\* A document as an operator publishes it.
Signed(d, list, key) ==
    /\ DOMAIN d = {"root", "list", "sigs"}
    /\ d.root = "TrustServiceStatusList" /\ d.list = list
    /\ d.sigs = <<d.sigs[1]>> /\ Len(d.sigs) = 1
    /\ DOMAIN d.sigs[1] = {"place", "certs", "key", "over", "object"}
    /\ d.sigs[1].certs = <<Intermediate, key>> /\ d.sigs[1].key = key
    /\ d.sigs[1].over = list /\ d.sigs[1].place = "root"
    /\ d.sigs[1].certs \in Seq({Intermediate, key})

Published(d) == \E list, key : Signed(d, list, key)

LEMMA SignedFields ==
  ASSUME NEW list, NEW key
  PROVE  Signed(SignedBy(list, key), list, key)
<1> DEFINE d == SignedBy(list, key)
<1> DEFINE sig == [place |-> "root", certs |-> <<Intermediate, key>>, key |-> key, over |-> list, object |-> None]
<1>1. /\ sig.certs = <<Intermediate, key>> /\ sig.key = key /\ sig.over = list /\ sig.place = "root"
      /\ DOMAIN sig = {"place", "certs", "key", "over", "object"}
  OBVIOUS
<1>2. d = [root |-> "TrustServiceStatusList", list |-> list, sigs |-> <<sig>>]
  BY Zenon DEF SignedBy
<1>3. <<Intermediate, key>> \in Seq({Intermediate, key})
  OBVIOUS
<1> HIDE DEF sig, d
<1>4. DOMAIN d = {"root", "list", "sigs"} /\ d.root = "TrustServiceStatusList" /\ d.list = list /\ d.sigs = <<sig>>
  BY <1>2
<1>5. d.sigs[1] = sig /\ Len(d.sigs) = 1
  BY <1>4
<1>6. Signed(d, list, key)
  BY <1>1, <1>3, <1>4, <1>5 DEF Signed
<1> QED BY <1>6 DEF d

\* It carries a published list, which was signed with one of these keys.
Authentic(doc, published, anchors) == \E d \in published : doc.list = d.list /\ d.sigs[1].key \in anchors

\* Of what the network makes of published documents, only one is accepted with
\* keys that are its owners' alone: a published list under its own signature.
LEMMA ForgeriesRejected ==
  ASSUME NEW published, \A d \in published : Published(d),
         NEW forged, \A d \in published : d.list # forged,
         NEW keys, Attacker \in keys, NEW doc \in published \cup Forgeries(published, forged, keys),
         NEW anchors, anchors # Omitted, anchors \cap keys = {}, verifyTrustedListSignature(doc, anchors),
         doc.root = "TrustServiceStatusList"
  PROVE  Authentic(doc, published, anchors)
<1> SUFFICES \E d \in published : doc.list = d.list /\ d.sigs[1].key \in anchors
  BY DEF Authentic
<1>1. CASE doc \in published
  <2>1. PICK list, key : Signed(doc, list, key)
    BY <1>1 DEF Published
  <2>2. doc.sigs[1].certs \in Seq({Intermediate, key})
    BY <2>1 DEF Signed
  <2> QED BY <1>1, <2>2, VerifiedBy
<1>2. ASSUME NEW k \in keys, doc = SignedBy(forged, k) PROVE FALSE
  <2>1. doc.sigs[1].certs \in Seq({Intermediate, k}) /\ doc.sigs[1].key = k
    <3>1. Signed(doc, forged, k)
      BY <1>2, SignedFields
    <3> QED BY <3>1 DEF Signed
  <2>2. k \in anchors
    BY <2>1, VerifiedBy
  <2> QED BY <2>2
<1>3. ASSUME NEW d \in published,
             doc = [SignedBy(forged, Attacker) EXCEPT !.sigs[1].certs = d.sigs[1].certs \o @]
      PROVE  FALSE
  <2>1. PICK list, key : Signed(d, list, key)
    BY <1>3 DEF Published
  <2>2. d.sigs[1].certs = <<Intermediate, key>>
    BY <2>1 DEF Signed
  <2>3. /\ doc.sigs[1].certs = <<Intermediate, key>> \o <<Intermediate, Attacker>>
        /\ doc.sigs[1].key = Attacker
    <3> DEFINE base == SignedBy(forged, Attacker)
               more == d.sigs[1].certs \o base.sigs[1].certs
    <3>1. doc = [base EXCEPT !.sigs = [base.sigs EXCEPT ![1] = [base.sigs[1] EXCEPT !.certs = more]]]
      BY <1>3
    <3>2. /\ "sigs" \in DOMAIN base /\ DOMAIN base.sigs = 1 .. 1 /\ base.sigs[1].certs = <<Intermediate, Attacker>>
          /\ base.sigs[1].key = Attacker /\ "certs" \in DOMAIN base.sigs[1]
      <4>1. Signed(base, forged, Attacker)
        BY SignedFields
      <4> HIDE DEF base
      <4> QED BY <4>1 DEF Signed
    <3> HIDE DEF base, more
    <3>3. doc.sigs[1] = [base.sigs[1] EXCEPT !.certs = more]
      BY <3>1, <3>2
    <3>4. doc.sigs[1].certs = more /\ doc.sigs[1].key = Attacker
      BY <3>2, <3>3
    <3> QED BY <2>2, <3>2, <3>4 DEF more
  <2>4. doc.sigs[1].certs \in Seq({Intermediate, key, Attacker})
    BY <2>3
  <2>5. Attacker \in anchors
    BY <2>3, <2>4, VerifiedBy
  <2> QED BY <2>5
<1>4. ASSUME NEW d \in published, doc = [d EXCEPT !.list = forged] PROVE FALSE
  <2>1. PICK list, key : Signed(d, list, key)
    BY <1>4 DEF Published
  <2>2. /\ doc.list = forged /\ doc.sigs[1].over = list /\ d.list = list
        /\ doc.sigs[1].certs \in Seq({Intermediate, key})
    BY <1>4, <2>1 DEF Signed
  <2>3. doc.sigs[1].over = doc.list
    BY <2>2, VerifiedBy
  <2> QED BY <2>2, <2>3
<1>5. ASSUME NEW d \in published, doc = [d EXCEPT !.sigs[1].object = forged]
      PROVE  doc.list = d.list /\ d.sigs[1].key \in anchors
  <2>1. PICK list, key : Signed(d, list, key)
    BY <1>5 DEF Published
  <2>2. /\ doc.list = d.list /\ doc.sigs[1].key = d.sigs[1].key
        /\ doc.sigs[1].certs = <<Intermediate, key>>
    BY <1>5, <2>1 DEF Signed
  <2>3. doc.sigs[1].certs \in Seq({Intermediate, key})
    BY <2>2
  <2> QED BY <2>2, <2>3, VerifiedBy
<1>6. ASSUME NEW d \in published,
             doc = [d EXCEPT !.sigs = Append(@, [SignedBy(forged, Attacker).sigs[1] EXCEPT !.object = forged])]
      PROVE  FALSE
  <2>1. PICK list, key : Signed(d, list, key)
    BY <1>6 DEF Published
  <2>2. Len(doc.sigs) = 2
    <3> DEFINE extra == [SignedBy(forged, Attacker).sigs[1] EXCEPT !.object = forged]
    <3>1. "sigs" \in DOMAIN d /\ d.sigs = <<d.sigs[1]>>
      BY <2>1 DEF Signed
    <3>2. doc.sigs = Append(d.sigs, extra)
      BY <1>6, <3>1
    <3> DEFINE sig == d.sigs[1]
    <3>3. d.sigs = <<sig>>
      BY <3>1
    <3> HIDE DEF extra, sig
    <3>4. Len(Append(<<sig>>, extra)) = 2
      OBVIOUS
    <3> QED BY <3>2, <3>3, <3>4
  <2> QED BY <2>2 DEF verifyTrustedListSignature
<1>7. ASSUME NEW d \in published, doc = [d EXCEPT !.list = forged, !.sigs[1].place = "nested"] PROVE FALSE
  <2>1. PICK list, key : Signed(d, list, key)
    BY <1>7 DEF Published
  <2>2. doc.sigs[1].place = "nested"
    BY <1>7, <2>1 DEF Signed
  <2> QED BY <2>2 DEF verifyTrustedListSignature
<1>8. ASSUME NEW d \in published, doc = [d EXCEPT !.list = forged, !.sigs = <<>>] PROVE FALSE
  <2>1. PICK list, key : Signed(d, list, key)
    BY <1>8 DEF Published
  <2>2. Len(doc.sigs) = 0
    BY <1>8, <2>1 DEF Signed
  <2> QED BY <2>2 DEF verifyTrustedListSignature
<1>9. ASSUME NEW d \in published, doc = [d EXCEPT !.root = "other"] PROVE FALSE
  <2>1. PICK list, key : Signed(d, list, key)
    BY <1>9 DEF Published
  <2>2. doc.root = "other"
    BY <1>9, <2>1 DEF Signed
  <2> QED BY <2>2
<1> HIDE DEF Published
<1> QED BY <1>1, <1>2, <1>3, <1>4, <1>5, <1>6, <1>7, <1>8, <1>9 DEF Forgeries

\* What the network serves carries a published list or the forged one.
LEMMA ListsOnNetwork ==
  ASSUME NEW published, \A d \in published : Published(d), NEW forged, NEW keys,
         NEW doc \in published \cup Forgeries(published, forged, keys)
  PROVE  doc.list = forged \/ \E d \in published : doc.list = d.list
<1>1. ASSUME NEW d \in published PROVE "list" \in DOMAIN d
  BY <1>1 DEF Published, Signed
<1>2. ASSUME NEW k \in keys, doc = SignedBy(forged, k) PROVE doc.list = forged
  BY <1>2 DEF SignedBy
<1>3. ASSUME NEW d \in published,
             doc = [SignedBy(forged, Attacker) EXCEPT !.sigs[1].certs = d.sigs[1].certs \o @]
      PROVE  doc.list = forged
  BY <1>3 DEF SignedBy
<1>4. ASSUME NEW d \in published, doc = [d EXCEPT !.list = forged] PROVE doc.list = forged
  BY <1>1, <1>4
<1>5. ASSUME NEW d \in published, doc = [d EXCEPT !.sigs[1].object = forged] PROVE doc.list = d.list
  BY <1>1, <1>5
<1>6. ASSUME NEW d \in published,
             doc = [d EXCEPT !.sigs = Append(@, [SignedBy(forged, Attacker).sigs[1] EXCEPT !.object = forged])]
      PROVE  doc.list = d.list
  BY <1>1, <1>6
<1>7. ASSUME NEW d \in published, doc = [d EXCEPT !.list = forged, !.sigs[1].place = "nested"]
      PROVE  doc.list = forged
  BY <1>1, <1>7
<1>8. ASSUME NEW d \in published, doc = [d EXCEPT !.list = forged, !.sigs = <<>>] PROVE doc.list = forged
  BY <1>1, <1>8
<1>9. ASSUME NEW d \in published, doc = [d EXCEPT !.root = "other"] PROVE doc.list = d.list
  BY <1>1, <1>9
<1> QED BY <1>2, <1>3, <1>4, <1>5, <1>6, <1>7, <1>8, <1>9 DEF Forgeries

-----------------------------------------------------------------------------
(* Anchors of a national list *)

\* The anchors that are read from a list of the national operator are the
\* certificates of its services in force, with their own key identifiers.
LEMMA AnchorsRead ==
  ASSUME NEW statuses, DOMAIN statuses = 1 .. 2, NEW key, NEW doc, doc.list = NationalList(statuses, key),
         doc.root = "TrustServiceStatusList",
         NEW a \in getTrustAnchors(parseTrustedList(doc), ActiveCertificates)
  PROVE  /\ \A d : d.list = doc.list => a.cert \in InForce(d)
         /\ a.ski = IF SkiOf[a.cert] = None THEN a.cert ELSE SkiOf[a.cert]
<1> DEFINE first == [type |-> Http("CA/QC"), status |-> None, ids |-> <<IdentityOf(Attacker, TRUE)>>,
                     history |-> <<Http("granted")>>]
           ofAuthority(i) == [type |-> Http("CA/QC"), status |-> statuses[i], history |-> <<Http("granted"), None>>,
                          ids |-> <<IdentityOf(Authority(i), TRUE), <<>>>>]
           own == [i \in DOMAIN statuses |-> ofAuthority(i)]
           T == {first} \cup {ofAuthority(i) : i \in 1 .. 2}
           services == <<first>> \o own
           S == {s \in ToSet(services) : s.type # None /\ s.status # None}
           complete == Within(services, S)
           list == parseTrustedList(doc)
<1>1. doc.list.providers = <<services>>
  <2> DEFINE pointers == <<Pointer("lotl", EUlistofthelists, <<"EU", "upper">>, <<key>>, TRUE)>>
  <2>1. doc.list = [tslType |-> EUgeneric, sequence |-> 1, territory |-> <<"ES", "upper">>,
                    pointers |-> pointers, providers |-> <<services>>]
    BY Zenon DEF NationalList
  <2> HIDE DEF services, pointers
  <2> QED BY <2>1
<1>2. /\ first.status = None
      /\ \A i \in 1 .. 2 : /\ DOMAIN ofAuthority(i) = {"type", "status", "history", "ids"}
                           /\ ofAuthority(i).status = statuses[i]
                           /\ DOMAIN ofAuthority(i).ids = 1 .. 2
                           /\ ofAuthority(i).ids[1] = IdentityOf(Authority(i), TRUE)
                           /\ ofAuthority(i).ids[2] = <<>>
  <2>1. \A x, y : DOMAIN <<x, y>> = 1 .. 2 /\ <<x, y>>[1] = x /\ <<x, y>>[2] = y
    OBVIOUS
  <2>2. \A i \in 1 .. 2 : /\ DOMAIN ofAuthority(i) = {"type", "status", "history", "ids"}
                         /\ ofAuthority(i).status = statuses[i]
    OBVIOUS
  <2>3. \A i \in 1 .. 2 : ofAuthority(i).ids = <<IdentityOf(Authority(i), TRUE), <<>>>>
    BY Zenon
  <2> QED BY <2>1, <2>2, <2>3
<1> HIDE DEF first, service
<1>3. services \in Seq(T)
  <2>1. own \in Seq(T)
    OBVIOUS
  <2> HIDE DEF own
  <2> QED BY <2>1
<1> HIDE DEF services
<1>4. complete \in Seq(T \cap S)
  <2> HIDE DEF T, S
  <2> QED BY <1>3, WithinKeeps
<1>5. parseServices(services) =
         [i \in DOMAIN complete |->
            [complete[i] EXCEPT !.ids = parseDigitalIdentities(@), !.history = parseHistory(@)]]
  BY DEF parseServices
<1> HIDE DEF complete
<1>6. list.providers = [i \in 1 .. 1 |-> parseServices(services)]
  <2>1. list.providers = [i \in DOMAIN doc.list.providers |-> parseServices(doc.list.providers[i])]
    BY DEF parseTrustedList
  <2>2. DOMAIN <<services>> = 1 .. 1 /\ <<services>>[1] = services
    OBVIOUS
  <2> QED BY <1>1, <2>1, <2>2
<1> HIDE DEF list
<1>7. PICK s \in UNION {ToSet(p) : p \in ToSet(list.providers)} :
         /\ ServiceMatches(s, ActiveCertificates)
         /\ \E id \in {i \in ToSet(s.ids) : ActiveCertificates.requireCertificate => i.cert # None} :
               a = [cert |-> id.cert, ski |-> id.ski, type |-> s.type, status |-> s.status]
  BY DEF getTrustAnchors, list
<1>8. s.status \in ACTIVE_SERVICE_STATUSES
  BY <1>7, ListKeysAssumption DEF ServiceMatches, ActiveCertificates
<1>9. PICK id \in ToSet(s.ids) : id.cert # None /\ a.cert = id.cert /\ a.ski = id.ski
  BY <1>7 DEF ActiveCertificates
<1>10. PICK n \in DOMAIN complete :
          s = [complete[n] EXCEPT !.ids = parseDigitalIdentities(@), !.history = parseHistory(@)]
  <2>1. s \in ToSet(parseServices(services))
    BY <1>6, <1>7 DEF ToSet
  <2> QED BY <1>5, <2>1 DEF ToSet
<1>11. complete[n] \in T /\ complete[n] \in S
  <2>1. complete[n] \in T \cap S
    <3> HIDE DEF T, S
    <3> QED BY <1>4, <1>10
  <2> QED BY <2>1
<1>12. PICK i \in 1 .. 2 : complete[n] = ofAuthority(i)
  BY <1>2, <1>11
<1>13. s.status = statuses[i] /\ s.ids = parseDigitalIdentities(ofAuthority(i).ids)
  BY <1>2, <1>10, <1>12
<1>14. id = MergedIdentity(IdentityOf(Authority(i), TRUE))
  <2> DEFINE ids == ofAuthority(i).ids
  <2>1. DOMAIN ids = 1 .. 2 /\ ids[1] = IdentityOf(Authority(i), TRUE) /\ ids[2] = <<>>
    BY <1>2
  <2>2. id \in ToSet(parseDigitalIdentities(ids))
    BY <1>9, <1>13
  <2> HIDE DEF ids
  <2>3. PICK k \in 1 .. 2 : id = MergedIdentity(ids[k])
    <3>1. 2 \in Nat /\ DOMAIN ids = 1 .. 2
      BY <2>1
    <3> QED BY <2>2, <3>1, IdentitiesRead, Zenon
  <2>4. k # 2
    BY <1>9, <2>1, <2>3, IdentityRead
  <2>5. k = 1
    BY <2>4
  <2> QED BY <2>1, <2>3, <2>5
<1>15. /\ a.cert = Authority(i)
       /\ a.ski = IF SkiOf[Authority(i)] # None THEN SkiOf[Authority(i)] ELSE Authority(i)
  <2>1. Authority(i) # None
    BY ListKeysAssumption
  <2> QED BY <1>9, <1>14, <2>1, IdentityRead
<1>16. ASSUME NEW d, d.list = doc.list PROVE a.cert \in InForce(d)
  <2>1. complete[n] \in ToSet(services) /\ services \in ToSet(doc.list.providers)
    BY <1>1, <1>11 DEF ToSet
  <2>2. complete[n].status \in ACTIVE_SERVICE_STATUSES
    BY <1>2, <1>8, <1>12, <1>13
  <2>3. complete[n].ids[1][2].cert = Authority(i)
    <3>1. complete[n].ids[1] = IdentityOf(Authority(i), TRUE)
      BY <1>2, <1>12
    <3>2. IdentityOf(Authority(i), TRUE)[2].cert = Authority(i)
      BY DEF IdentityOf
    <3> QED BY <3>1, <3>2
  <2>4. complete[n].ids[1][2].cert \in InForce(d)
    BY <1>16, <2>1, <2>2 DEF InForce
  <2> QED BY <1>15, <2>3, <2>4
<1> QED BY <1>15, <1>16

-----------------------------------------------------------------------------
(* The pinned keys *)

PinsOk(pins) == pins = Omitted \/ pins \subseteq LotlKeys

LEMMA LotlKeyFields ==
  /\ \A g : LotlKey(g)[1] = "lotl" /\ LotlKey(g)[2] = g
  /\ Attacker[1] = "attacker"
BY DEF LotlKey, Attacker

\* g is the lowest generation among keys.
IsOldest(g, keys) ==
    /\ g \in 1 .. MaxGeneration + 1
    /\ \A key \in keys : key[1] = "lotl" => g <= key[2]
    /\ g = MaxGeneration + 1 \/ LotlKey(g) \in keys

\* There is a lowest generation among pinned keys.
LEMMA OldestPinIs ==
  ASSUME NEW pins, PinsOk(pins)
  PROVE  IsOldest(OldestPin(pins), LotlAnchors(pins, Shipped))
<1> DEFINE keys == LotlAnchors(pins, Shipped)
           G == {g \in 1 .. MaxGeneration : LotlKey(g) \in keys}
<1>1. MaxGeneration \in Nat /\ MaxGeneration >= 1
  BY ListKeysAssumption
<1>2. keys \subseteq LotlKeys
  BY <1>1 DEF LotlAnchors, PinsOk, Shipped, LotlKeys
<1>3. OldestPin(pins) = CHOOSE g \in 1 .. MaxGeneration + 1 :
                           /\ \A key \in keys : key[1] = "lotl" => g <= key[2]
                           /\ g = MaxGeneration + 1 \/ LotlKey(g) \in keys
  BY Zenon DEF OldestPin, LotlAnchors
<1> HIDE DEF keys
<1>4. \A key \in keys : key[1] = "lotl" => key[2] \in G
  <2> SUFFICES ASSUME NEW key \in keys, key[1] = "lotl" PROVE key[2] \in G
    OBVIOUS
  <2>1. PICK g \in 1 .. MaxGeneration : key = LotlKey(g)
    BY <1>2, LotlKeyFields DEF LotlKeys
  <2>2. key[2] = g
    BY <2>1, LotlKeyFields
  <2> QED BY <2>1, <2>2
<1>5. \E g \in 1 .. MaxGeneration + 1 :
         /\ \A key \in keys : key[1] = "lotl" => g <= key[2]
         /\ g = MaxGeneration + 1 \/ LotlKey(g) \in keys
  <2>1. CASE G = {}
    <3>1. MaxGeneration + 1 \in 1 .. MaxGeneration + 1
      BY <1>1
    <3> QED BY <1>4, <2>1, <3>1
  <2>2. CASE G # {}
    <3>1. G \subseteq Nat
      OBVIOUS
    <3>2. PICK g \in G : \A h \in G : g <= h
      <4> HIDE DEF G
      <4> QED BY <2>2, <3>1, LeastNat
    <3>3. g \in 1 .. MaxGeneration + 1 /\ LotlKey(g) \in keys
      BY <1>1, <3>2
    <3>4. \A key \in keys : key[1] = "lotl" => g <= key[2]
      BY <1>4, <3>2
    <3> QED BY <3>3, <3>4
  <2> QED BY <2>1, <2>2
<1>6. IsOldest(OldestPin(pins), keys)
  <2> DEFINE P(g) == /\ \A key \in keys : key[1] = "lotl" => g <= key[2]
                     /\ g = MaxGeneration + 1 \/ LotlKey(g) \in keys
  <2>1. OldestPin(pins) = CHOOSE g \in 1 .. MaxGeneration + 1 : P(g)
    BY <1>3
  <2>2. \E g \in 1 .. MaxGeneration + 1 : P(g)
    BY <1>5
  <2> HIDE DEF P
  <2>3. OldestPin(pins) \in 1 .. MaxGeneration + 1 /\ P(OldestPin(pins))
    BY <2>1, <2>2, Zenon
  <2> QED BY <2>3 DEF IsOldest, P
<1> QED BY <1>6 DEF keys

\* Pins that name generation g have nothing older than pins that name none before.
LEMMA OlderPins ==
  ASSUME NEW g \in 1 .. MaxGeneration, NEW old, PinsOk(old), LotlKey(g) \in LotlAnchors(old, Shipped),
         NEW new, \A key \in new : \E h \in g .. MaxGeneration : key = LotlKey(h)
  PROVE  OldestPin(new) >= OldestPin(old)
<1>1. MaxGeneration \in Nat /\ MaxGeneration >= 1
  BY ListKeysAssumption
<1>2. \A key \in new : \E h \in 1 .. MaxGeneration : key = LotlKey(h) /\ h >= g
  BY <1>1
<1>3. new \subseteq LotlKeys
  BY <1>2 DEF LotlKeys
<1>4. new # Omitted
  BY <1>3, ListKeysAssumption
<1>5. IsOldest(OldestPin(old), LotlAnchors(old, Shipped)) /\ IsOldest(OldestPin(new), new)
  <2>1. PinsOk(new) /\ LotlAnchors(new, Shipped) = new
    BY <1>3, <1>4 DEF PinsOk, LotlAnchors
  <2> QED BY <2>1, OldestPinIs
<1>6. OldestPin(old) <= g
  BY <1>5, LotlKeyFields DEF IsOldest
<1>7. OldestPin(new) >= g
  <2>1. CASE OldestPin(new) = MaxGeneration + 1
    BY <1>1, <2>1
  <2>2. CASE LotlKey(OldestPin(new)) \in new
    <3>1. PICK h \in 1 .. MaxGeneration : LotlKey(OldestPin(new)) = LotlKey(h) /\ h >= g
      BY <1>2, <2>2
    <3>2. OldestPin(new) = h
      BY <3>1, LotlKeyFields
    <3> QED BY <3>1, <3>2
  <2> QED BY <1>5, <2>1, <2>2 DEF IsOldest
<1>8. OldestPin(new) \in Int /\ OldestPin(old) \in Int
  BY <1>1, <1>5 DEF IsOldest
<1> QED BY <1>6, <1>7, <1>8

-----------------------------------------------------------------------------
(* What the operators publish *)

LotlOf(d) ==
    \E sequence : \E g \in 1 .. MaxGeneration, announced \in BOOLEAN, embedded \in BOOLEAN, n \in 1 .. 2 :
       /\ announced => g < MaxGeneration
       /\ d = SignedBy(LotlList(sequence, SelfKeys(g, announced), embedded, <<NationalKey(n)>>), LotlKey(g))

NationalOf(d) ==
    \E statuses, g, n :
       /\ DOMAIN statuses = 1 .. 2
       /\ d = SignedBy(NationalList(statuses, LotlKey(g)), NationalKey(n))

SchemeFields ==
    {"lotls", "latest", "generation", "announced", "nationals", "national", "nationalGeneration", "statuses", "leaked"}

SchemeInv ==
    /\ DOMAIN scheme = SchemeFields
    /\ scheme.generation \in 1 .. MaxGeneration /\ scheme.announced \in BOOLEAN
    /\ scheme.announced => scheme.generation < MaxGeneration
    /\ scheme.nationalGeneration \in 1 .. 2
    /\ DOMAIN scheme.statuses = 1 .. 2
    /\ \A d \in scheme.lotls : LotlOf(d)
    /\ \A d \in scheme.nationals : NationalOf(d)

\* Nothing published is taken back, and what is known to others stays known.
Grows ==
    /\ scheme.lotls \subseteq scheme'.lotls /\ scheme.nationals \subseteq scheme'.nationals
    /\ AttackerKeys \subseteq AttackerKeys'

\* The certificate of the last pointer of a LOTL, and of the pointer of a
\* national list.
LEMMA PointedTo ==
  /\ \A sequence, self, embedded, key : LotlList(sequence, self, embedded, <<key>>).pointers[3].ids[1][2].cert = key
  /\ \A statuses, key : NationalList(statuses, key).pointers[1].ids[1][2].cert = key
  /\ ForgedNational.pointers[1].ids[1][2].cert = Attacker
<1>1. \A key : IdentityOf(key, TRUE)[2].cert = key
  BY DEF IdentityOf
<1>2. \A location, type, territory, key :
         Pointer(location, type, territory, <<key>>, TRUE).ids[1] = IdentityOf(key, TRUE)
  <2> SUFFICES ASSUME NEW location, NEW type, NEW territory, NEW key
               PROVE  Pointer(location, type, territory, <<key>>, TRUE).ids[1] = IdentityOf(key, TRUE)
    BY Zenon
  <2> DEFINE keys == <<key>>
  <2>1. DOMAIN keys = 1 .. 1 /\ keys[1] = key
    OBVIOUS
  <2> HIDE DEF keys
  <2> DEFINE ids == [i \in 1 .. 1 |-> IdentityOf(keys[i], TRUE)]
  <2>2. Pointer(location, type, territory, keys, TRUE).ids = ids
    BY <2>1 DEF Pointer
  <2>3. ids[1] = IdentityOf(keys[1], TRUE)
    OBVIOUS
  <2> HIDE DEF ids
  <2>4. Pointer(location, type, territory, keys, TRUE).ids[1] = IdentityOf(key, TRUE)
    BY <2>1, <2>2, <2>3
  <2> QED BY <2>4 DEF keys
<1>3. ASSUME NEW sequence, NEW self, NEW embedded, NEW key
      PROVE  LotlList(sequence, self, embedded, <<key>>).pointers[3]
                = Pointer("list", EUgeneric, <<"ES", "lower">>, <<key>>, TRUE)
  BY DEF LotlList
<1>4. ASSUME NEW statuses, NEW key
      PROVE  NationalList(statuses, key).pointers[1]
                = Pointer("lotl", EUlistofthelists, <<"EU", "upper">>, <<key>>, TRUE)
  BY DEF NationalList
<1>5. ForgedNational.pointers = NationalList(<<Http("granted")>>, Attacker).pointers
  BY DEF ForgedNational, NationalList
<1>6. \A sequence, self, embedded, key :
         LotlList(sequence, self, embedded, <<key>>).pointers[3].ids[1][2].cert = key
  <2> SUFFICES ASSUME NEW sequence, NEW self, NEW embedded, NEW key
               PROVE  LotlList(sequence, self, embedded, <<key>>).pointers[3].ids[1][2].cert = key
    BY Zenon
  <2> DEFINE pointer == Pointer("list", EUgeneric, <<"ES", "lower">>, <<key>>, TRUE)
  <2>1. pointer.ids[1] = IdentityOf(key, TRUE)
    BY <1>2, Zenon
  <2>2. LotlList(sequence, self, embedded, <<key>>).pointers[3] = pointer
    BY <1>3
  <2> HIDE DEF pointer
  <2> QED BY <1>1, <2>1, <2>2
<1>7. \A statuses, key : NationalList(statuses, key).pointers[1].ids[1][2].cert = key
  <2> SUFFICES ASSUME NEW statuses, NEW key
               PROVE  NationalList(statuses, key).pointers[1].ids[1][2].cert = key
    BY Zenon
  <2> DEFINE pointer == Pointer("lotl", EUlistofthelists, <<"EU", "upper">>, <<key>>, TRUE)
  <2>1. pointer.ids[1] = IdentityOf(key, TRUE)
    BY <1>2, Zenon
  <2>2. NationalList(statuses, key).pointers[1] = pointer
    BY <1>4
  <2> HIDE DEF pointer
  <2> QED BY <1>1, <2>1, <2>2
<1>8. ForgedNational.pointers[1].ids[1][2].cert = Attacker
  <2>1. NationalList(<<Http("granted")>>, Attacker).pointers[1].ids[1][2].cert = Attacker
    BY <1>7
  <2> QED BY <1>5, <2>1
<1> QED BY <1>6, <1>7, <1>8, Zenon

LEMMA NotForged ==
  /\ \A d : LotlOf(d) => Published(d) /\ d.list # ForgedLotl
  /\ \A d : NationalOf(d) => Published(d) /\ d.list # ForgedNational
<1>1. \A n, g : NationalKey(n) # Attacker /\ LotlKey(g) # Attacker
  BY DEF NationalKey, LotlKey, Attacker
<1>2. ASSUME NEW d, LotlOf(d) PROVE Published(d) /\ d.list # ForgedLotl
  <2>1. PICK sequence, self, embedded, n, g :
           d = SignedBy(LotlList(sequence, self, embedded, <<NationalKey(n)>>), LotlKey(g))
    BY <1>2 DEF LotlOf
  <2> DEFINE list == LotlList(sequence, self, embedded, <<NationalKey(n)>>)
  <2>2. list.pointers[3].ids[1][2].cert = NationalKey(n)
    BY PointedTo
  <2>3. ForgedLotl.pointers[3].ids[1][2].cert = Attacker
    <3>1. \A sequence_, self_, embedded_ :
             LotlList(sequence_, self_, embedded_, <<Attacker>>).pointers[3].ids[1][2].cert = Attacker
      BY PointedTo
    <3> QED BY <3>1, Zenon DEF ForgedLotl
  <2> HIDE DEF list
  <2>4. Signed(d, list, LotlKey(g))
    BY <2>1, SignedFields DEF list
  <2> QED BY <1>1, <2>2, <2>3, <2>4 DEF Published, Signed
<1>3. ASSUME NEW d, NationalOf(d) PROVE Published(d) /\ d.list # ForgedNational
  <2>1. PICK statuses, g, n : d = SignedBy(NationalList(statuses, LotlKey(g)), NationalKey(n))
    BY <1>3 DEF NationalOf
  <2> DEFINE list == NationalList(statuses, LotlKey(g))
  <2>2. list.pointers[1].ids[1][2].cert = LotlKey(g)
    BY PointedTo
  <2> HIDE DEF list
  <2>3. Signed(d, list, NationalKey(n))
    BY <2>1, SignedFields DEF list
  <2> QED BY <1>1, <2>2, <2>3, PointedTo DEF Published, Signed
<1> QED BY <1>2, <1>3

LEMMA SchemeInit == Init => SchemeInv
<1> SUFFICES ASSUME Init PROVE SchemeInv
  OBVIOUS
<1>1. MaxGeneration \in Nat /\ MaxGeneration >= 1
  BY ListKeysAssumption
<1>2. /\ DOMAIN scheme = SchemeFields /\ scheme.lotls = {FirstLotl} /\ scheme.nationals = {FirstNational}
      /\ scheme.generation = 1 /\ scheme.announced = FALSE /\ scheme.nationalGeneration = 1
      /\ scheme.statuses = <<Http("granted"), Http("granted")>>
  BY DEF Init, SchemeFields
<1>3. LotlOf(FirstLotl)
  <2>1. FirstLotl = SignedBy(LotlList(1, SelfKeys(1, FALSE), TRUE, <<NationalKey(1)>>), LotlKey(1))
    BY Zenon DEF FirstLotl
  <2>2. 1 \in 1 .. MaxGeneration /\ 1 \in 1 .. 2 /\ TRUE \in BOOLEAN /\ FALSE \in BOOLEAN
    BY <1>1
  <2>3. FALSE => 1 < MaxGeneration
    OBVIOUS
  <2> QED BY <2>1, <2>2, <2>3, Zenon DEF LotlOf
<1>4. NationalOf(FirstNational)
  <2>1. DOMAIN <<Http("granted"), Http("granted")>> = 1 .. 2
    OBVIOUS
  <2> QED BY <2>1, Zenon DEF NationalOf, FirstNational
<1>5. DOMAIN scheme.statuses = 1 .. 2
  BY <1>2
<1>6. /\ scheme.generation \in 1 .. MaxGeneration /\ scheme.announced \in BOOLEAN
      /\ scheme.announced => scheme.generation < MaxGeneration
      /\ scheme.nationalGeneration \in 1 .. 2
  <2>1. 1 \in 1 .. MaxGeneration /\ 1 \in 1 .. 2
    BY <1>1
  <2>2. scheme.announced \in BOOLEAN /\ ~scheme.announced
    BY <1>2, Zenon
  <2> QED BY <1>2, <2>1, <2>2, Zenon
<1>7. (\A d \in scheme.lotls : LotlOf(d)) /\ \A d \in scheme.nationals : NationalOf(d)
  BY <1>2, <1>3, <1>4
<1> QED BY <1>2, <1>5, <1>6, <1>7 DEF SchemeInv

\* What publishing changes, and what it leaves.
AddsLotl(new, doc) ==
    /\ DOMAIN new = SchemeFields /\ new.lotls = scheme.lotls \cup {doc}
    /\ \A f \in SchemeFields \ {"lotls", "latest"} : new[f] = scheme[f]

AddsNational(new, s, doc, statuses, n) ==
    /\ DOMAIN new = SchemeFields /\ new.nationals = s.nationals \cup {doc}
    /\ new.statuses = statuses /\ new.nationalGeneration = n
    /\ \A f \in {"lotls", "generation", "announced", "leaked"} : new[f] = s[f]

LEMMA PublishLotlFields ==
  ASSUME DOMAIN scheme = SchemeFields, NEW g, NEW selfKeys, NEW embedded, NEW n
  PROVE  \E sequence :
           AddsLotl(PublishLotl(g, selfKeys, embedded, n),
                    SignedBy(LotlList(sequence, selfKeys, embedded, <<NationalKey(n)>>), LotlKey(g)))
<1> DEFINE sequence == scheme.latest.list.sequence + 1
           doc == SignedBy(LotlList(sequence, selfKeys, embedded, <<NationalKey(n)>>), LotlKey(g))
           new == PublishLotl(g, selfKeys, embedded, n)
<1>1. new = [scheme EXCEPT !.lotls = @ \cup {doc}, !.latest = doc]
  BY Zenon DEF PublishLotl
<1>2. AddsLotl(new, doc)
  <2> HIDE DEF doc, new
  <2> QED BY <1>1 DEF AddsLotl, SchemeFields
<1> QED BY <1>2, Zenon

LEMMA PublishNationalFields ==
  ASSUME NEW s, DOMAIN s = SchemeFields, NEW statuses, NEW n
  PROVE  AddsNational(PublishNational(s, statuses, n), s,
                      SignedBy(NationalList(statuses, LotlKey(s.generation)), NationalKey(n)), statuses, n)
<1> DEFINE doc == SignedBy(NationalList(statuses, LotlKey(s.generation)), NationalKey(n))
           new == PublishNational(s, statuses, n)
<1>1. new =
        [s EXCEPT !.nationals = @ \cup {doc}, !.national = doc, !.statuses = statuses, !.nationalGeneration = n]
  BY Zenon DEF PublishNational
<1>2. AddsNational(new, s, doc, statuses, n)
  <2> HIDE DEF doc, new
  <2> QED BY <1>1 DEF AddsNational, SchemeFields
<1> QED BY <1>2, Zenon

\* The catalogue and the list of entities have nothing to do with the lists of
\* the schemes and with what is pinned or taken from them.
LEMMA OthersKeepLists ==
  VerifyEntry \/ Fetch \/ BuildQuery \/ CheckIssuer \/ FollowAuthority
    \/ CreateLote \/ AddEntity \/ RemoveEntity \/ UpdateVersion
  => UNCHANGED <<scheme, party>>
<1>1. VerifyEntry \/ Fetch => UNCHANGED <<scheme, party>>
  BY DEF VerifyEntry, Fetch
<1>2. BuildQuery => UNCHANGED <<scheme, party>>
  BY DEF BuildQuery
<1>3. CheckIssuer \/ FollowAuthority => UNCHANGED <<scheme, party>>
  BY DEF CheckIssuer, FollowAuthority
<1>4. CreateLote \/ AddEntity \/ RemoveEntity => UNCHANGED <<scheme, party>>
  BY DEF CreateLote, AddEntity, RemoveEntity
<1>5. UpdateVersion => UNCHANGED <<scheme, party>>
  BY DEF UpdateVersion
<1> QED BY <1>1, <1>2, <1>3, <1>4, <1>5

LEMMA SchemeStep == SchemeInv /\ [Next]_vars => SchemeInv' /\ Grows
<1> SUFFICES ASSUME SchemeInv, [Next]_vars PROVE SchemeInv' /\ Grows
  OBVIOUS
<1>1. MaxGeneration \in Nat /\ MaxGeneration >= 1
  BY ListKeysAssumption
<1> DEFINE g == scheme.generation
<1>2. DOMAIN scheme = SchemeFields /\ g \in 1 .. MaxGeneration
  BY DEF SchemeInv
<1>3. CASE AnnounceLotlKey
  <2>1. PICK embedded \in BOOLEAN :
           scheme' = [PublishLotl(g, SelfKeys(g, TRUE), embedded, scheme.nationalGeneration) EXCEPT !.announced = TRUE]
    BY <1>3 DEF AnnounceLotlKey
  <2>2. g < MaxGeneration
    BY <1>3 DEF AnnounceLotlKey
  <2>3. PICK sequence : AddsLotl(PublishLotl(g, SelfKeys(g, TRUE), embedded, scheme.nationalGeneration),
                                 SignedBy(LotlList(sequence, SelfKeys(g, TRUE), embedded,
                                                   <<NationalKey(scheme.nationalGeneration)>>), LotlKey(g)))
    BY <1>2, PublishLotlFields, Zenon
  <2> DEFINE doc == SignedBy(LotlList(sequence, SelfKeys(g, TRUE), embedded,
                                      <<NationalKey(scheme.nationalGeneration)>>), LotlKey(g))
             published == PublishLotl(g, SelfKeys(g, TRUE), embedded, scheme.nationalGeneration)
  <2>4. AddsLotl(published, doc)
    BY <2>3, Zenon
  <2>5. LotlOf(doc)
    <3>1. /\ g \in 1 .. MaxGeneration /\ TRUE \in BOOLEAN /\ embedded \in BOOLEAN /\ g < MaxGeneration
          /\ scheme.nationalGeneration \in 1 .. 2
      BY <1>2, <2>2 DEF SchemeInv
    <3> QED BY <3>1, Zenon DEF LotlOf
  <2> HIDE DEF doc, published
  <2>6. scheme' = [published EXCEPT !.announced = TRUE]
    BY <2>1, Zenon DEF published
  <2>7. /\ DOMAIN scheme' = SchemeFields /\ scheme'.lotls = scheme.lotls \cup {doc}
        /\ scheme'.announced \in BOOLEAN
        /\ \A f \in {"generation", "nationals", "nationalGeneration", "statuses", "leaked"} : scheme'[f] = scheme[f]
    BY <2>4, <2>6 DEF AddsLotl, SchemeFields
  <2> QED BY <1>2, <2>2, <2>5, <2>7 DEF SchemeInv, Grows, AttackerKeys
<1>4. CASE RotateLotlKey
  <2>1. scheme' = [PublishLotl(g + 1, SelfKeys(g + 1, FALSE), TRUE, scheme.nationalGeneration)
                     EXCEPT !.announced = FALSE, !.generation = @ + 1]
    BY <1>4 DEF RotateLotlKey
  <2>2. g < MaxGeneration
    BY <1>4 DEF RotateLotlKey, SchemeInv
  <2>3. PICK sequence : AddsLotl(PublishLotl(g + 1, SelfKeys(g + 1, FALSE), TRUE, scheme.nationalGeneration),
                                 SignedBy(LotlList(sequence, SelfKeys(g + 1, FALSE), TRUE,
                                                   <<NationalKey(scheme.nationalGeneration)>>), LotlKey(g + 1)))
    BY <1>2, PublishLotlFields, Zenon
  <2> DEFINE doc == SignedBy(LotlList(sequence, SelfKeys(g + 1, FALSE), TRUE,
                                      <<NationalKey(scheme.nationalGeneration)>>), LotlKey(g + 1))
             published == PublishLotl(g + 1, SelfKeys(g + 1, FALSE), TRUE, scheme.nationalGeneration)
  <2>4. AddsLotl(published, doc)
    BY <2>3, Zenon
  <2>5. LotlOf(doc)
    <3>1. /\ g + 1 \in 1 .. MaxGeneration /\ TRUE \in BOOLEAN /\ FALSE \in BOOLEAN
          /\ scheme.nationalGeneration \in 1 .. 2
      BY <1>1, <1>2, <2>2 DEF SchemeInv
    <3>2. FALSE => g + 1 < MaxGeneration
      OBVIOUS
    <3> QED BY <3>1, <3>2, Zenon DEF LotlOf
  <2> HIDE DEF doc, published
  <2>6. scheme' = [published EXCEPT !.announced = FALSE, !.generation = @ + 1]
    BY <2>1, Zenon DEF published
  <2>7. /\ DOMAIN scheme' = SchemeFields /\ scheme'.lotls = scheme.lotls \cup {doc}
        /\ scheme'.announced \in BOOLEAN /\ ~scheme'.announced /\ scheme'.generation = g + 1
        /\ \A f \in {"nationals", "nationalGeneration", "statuses", "leaked"} : scheme'[f] = scheme[f]
    BY <2>4, <2>6 DEF AddsLotl, SchemeFields
  <2>8. scheme'.generation \in 1 .. MaxGeneration
    BY <1>1, <1>2, <2>2, <2>7
  <2> QED BY <1>2, <2>5, <2>7, <2>8 DEF SchemeInv, Grows, AttackerKeys
<1>5. CASE RotateNationalKey
  <2> DEFINE self == SelfKeys(g, scheme.announced)
             published == PublishLotl(g, self, TRUE, 2)
  <2>1. scheme' = PublishNational(published, scheme.statuses, 2)
    BY <1>5 DEF RotateNationalKey
  <2>2. PICK sequence :
           AddsLotl(published, SignedBy(LotlList(sequence, self, TRUE, <<NationalKey(2)>>), LotlKey(g)))
    BY <1>2, PublishLotlFields, Zenon
  <2> DEFINE doc == SignedBy(LotlList(sequence, self, TRUE, <<NationalKey(2)>>), LotlKey(g))
  <2>3. AddsLotl(published, doc)
    BY <2>2, Zenon
  <2>4. LotlOf(doc)
    <3>1. /\ g \in 1 .. MaxGeneration /\ TRUE \in BOOLEAN /\ scheme.announced \in BOOLEAN
          /\ (scheme.announced => g < MaxGeneration) /\ 2 \in 1 .. 2
      BY <1>2 DEF SchemeInv
    <3> QED BY <3>1, Zenon DEF LotlOf
  <2> HIDE DEF doc, published
  <2>5. /\ DOMAIN published = SchemeFields /\ published.lotls = scheme.lotls \cup {doc}
        /\ \A f \in SchemeFields \ {"lotls", "latest"} : published[f] = scheme[f]
    BY <2>3 DEF AddsLotl
  <2> DEFINE other == SignedBy(NationalList(scheme.statuses, LotlKey(published.generation)), NationalKey(2))
  <2>6. AddsNational(scheme', published, other, scheme.statuses, 2)
    BY <2>1, <2>5, PublishNationalFields, Zenon
  <2>7. NationalOf(other)
    BY Zenon DEF NationalOf, SchemeInv
  <2> HIDE DEF other
  <2>8. /\ DOMAIN scheme' = SchemeFields /\ scheme'.lotls = scheme.lotls \cup {doc}
        /\ scheme'.nationals = scheme.nationals \cup {other} /\ scheme'.nationalGeneration = 2
        /\ scheme'.statuses = scheme.statuses
        /\ \A f \in {"generation", "announced", "leaked"} : scheme'[f] = scheme[f]
    BY <2>5, <2>6 DEF AddsNational, SchemeFields
  <2>9. /\ scheme'.announced \in BOOLEAN /\ (scheme'.announced => scheme'.generation < MaxGeneration)
        /\ scheme'.generation \in 1 .. MaxGeneration /\ scheme'.nationalGeneration \in 1 .. 2
    <3>1. scheme'.announced = scheme.announced /\ scheme'.generation = scheme.generation
      BY <2>8
    <3> QED BY <2>8, <3>1 DEF SchemeInv
  <2> QED BY <1>2, <2>4, <2>7, <2>8, <2>9 DEF SchemeInv, Grows, AttackerKeys
<1>6. CASE ChangeStatus
  <2>1. PICK i \in DOMAIN scheme.statuses, status \in {Http("withdrawn"), Http("undersupervision")} :
           scheme' = PublishNational(scheme, [scheme.statuses EXCEPT ![i] = status], scheme.nationalGeneration)
    BY <1>6 DEF ChangeStatus
  <2> DEFINE statuses == [scheme.statuses EXCEPT ![i] = status]
  <2>2. DOMAIN statuses = 1 .. 2
    BY DEF SchemeInv
  <2> HIDE DEF statuses
  <2> DEFINE doc == SignedBy(NationalList(statuses, LotlKey(g)), NationalKey(scheme.nationalGeneration))
  <2>3. AddsNational(scheme', scheme, doc, statuses, scheme.nationalGeneration)
    <3>1. scheme' = PublishNational(scheme, statuses, scheme.nationalGeneration)
      BY <2>1 DEF statuses
    <3> QED BY <1>2, <3>1, PublishNationalFields, Zenon
  <2>4. NationalOf(doc)
    BY <2>2, Zenon DEF NationalOf
  <2> HIDE DEF doc
  <2>5. /\ DOMAIN scheme' = SchemeFields /\ scheme'.nationals = scheme.nationals \cup {doc}
        /\ scheme'.statuses = statuses
        /\ \A f \in {"lotls", "generation", "announced", "nationalGeneration", "leaked"} : scheme'[f] = scheme[f]
    BY <2>3 DEF AddsNational
  <2>6. /\ scheme'.announced \in BOOLEAN /\ (scheme'.announced => scheme'.generation < MaxGeneration)
        /\ scheme'.generation \in 1 .. MaxGeneration /\ scheme'.nationalGeneration \in 1 .. 2
    <3>1. /\ scheme'.announced = scheme.announced /\ scheme'.generation = scheme.generation
          /\ scheme'.nationalGeneration = scheme.nationalGeneration
      BY <2>5
    <3> QED BY <3>1 DEF SchemeInv
  <2> QED BY <1>2, <2>2, <2>4, <2>5, <2>6 DEF SchemeInv, Grows, AttackerKeys
<1>7. CASE LeakRetiredKey
  <2>1. PICK key : scheme' = [scheme EXCEPT !.leaked = @ \cup {key}]
    BY <1>7 DEF LeakRetiredKey
  <2>2. /\ DOMAIN scheme' = SchemeFields /\ scheme'.leaked = scheme.leaked \cup {key}
        /\ \A f \in SchemeFields \ {"leaked"} : scheme'[f] = scheme[f]
    BY <1>2, <2>1 DEF SchemeFields
  <2>3. /\ scheme'.announced = scheme.announced /\ scheme'.generation = scheme.generation
        /\ scheme'.nationalGeneration = scheme.nationalGeneration /\ scheme'.statuses = scheme.statuses
        /\ scheme'.lotls = scheme.lotls /\ scheme'.nationals = scheme.nationals
    BY <2>2 DEF SchemeFields
  <2> QED BY <2>2, <2>3 DEF SchemeInv, Grows, AttackerKeys
<1>8. CASE UNCHANGED scheme
  BY <1>8 DEF SchemeInv, Grows, AttackerKeys
<1>9. CASE VerifyEntry \/ Fetch \/ BuildQuery \/ CheckIssuer \/ FollowAuthority
           \/ CreateLote \/ AddEntity \/ RemoveEntity \/ UpdateVersion
  BY <1>8, <1>9, OthersKeepLists
<1>10. CASE LoadLotl \/ RefreshPins \/ LoadNational \/ Restart \/ TrustEntities
  BY <1>8, <1>10 DEF LoadLotl, RefreshPins, LoadNational, Restart, TrustEntities
<1>11. CASE UNCHANGED vars
  BY <1>8, <1>11 DEF vars
<1> QED BY <1>3, <1>4, <1>5, <1>6, <1>7, <1>9, <1>10, <1>11 DEF Next

-----------------------------------------------------------------------------
(* What the relying party holds *)

\* The certificates a list publishes for itself.
OwnKeys(lotl) == getPointerSigningCertificates(lotl, SelfPointer)

\* It names no key before g.
NamesFrom(g, lotl) == \A key \in OwnKeys(lotl) : \E h \in g .. MaxGeneration : key = LotlKey(h)

\* A LOTL signed with one key names none before it.
LEMMA OwnKeysRead ==
  ASSUME NEW d, LotlOf(d), NEW doc, doc.list = d.list, doc.root = "TrustServiceStatusList"
  PROVE  \E g \in 1 .. MaxGeneration : d.sigs[1].key = LotlKey(g) /\ NamesFrom(g, parseTrustedList(doc))
<1>1. MaxGeneration \in Nat
  BY ListKeysAssumption
<1>2. PICK sequence : \E g \in 1 .. MaxGeneration, announced \in BOOLEAN, embedded \in BOOLEAN, n \in 1 .. 2 :
         /\ announced => g < MaxGeneration
         /\ d = SignedBy(LotlList(sequence, SelfKeys(g, announced), embedded, <<NationalKey(n)>>), LotlKey(g))
  BY Zenon DEF LotlOf
<1>3. PICK g \in 1 .. MaxGeneration, announced \in BOOLEAN, embedded \in BOOLEAN, n \in 1 .. 2 :
         /\ announced => g < MaxGeneration
         /\ d = SignedBy(LotlList(sequence, SelfKeys(g, announced), embedded, <<NationalKey(n)>>), LotlKey(g))
  BY <1>2, Zenon
<1> DEFINE self == SelfKeys(g, announced)
           nationalKeys == <<NationalKey(n)>>
           list == LotlList(sequence, self, embedded, nationalKeys)
           lotl == parseTrustedList(doc)
<1>4. Signed(d, list, LotlKey(g))
  BY <1>3, SignedFields, Zenon
<1>5. d.list = list /\ d.sigs[1].key = LotlKey(g)
  <2> HIDE DEF list
  <2> QED BY <1>4 DEF Signed
<1>6. PICK m \in 1 .. 2 : /\ DOMAIN self = 1 .. m
                          /\ \A i \in 1 .. m : \E h \in g .. MaxGeneration : self[i] = LotlKey(h)
  <2>1. CASE announced
    <3>1. self = <<LotlKey(g), LotlKey(g + 1)>>
      BY <2>1 DEF SelfKeys
    <3>2. g \in g .. MaxGeneration /\ g + 1 \in g .. MaxGeneration
      BY <1>1, <1>3, <2>1
    <3> HIDE DEF self
    <3>3. DOMAIN self = 1 .. 2 /\ self[1] = LotlKey(g) /\ self[2] = LotlKey(g + 1)
      BY <3>1
    <3>4. \A i \in 1 .. 2 : \E h \in g .. MaxGeneration : self[i] = LotlKey(h)
      BY <3>2, <3>3
    <3> QED BY <3>3, <3>4
  <2>2. CASE ~announced
    <3>1. self = <<LotlKey(g)>>
      BY <2>2 DEF SelfKeys
    <3>2. g \in g .. MaxGeneration
      BY <1>1
    <3> HIDE DEF self
    <3>3. DOMAIN self = 1 .. 1 /\ self[1] = LotlKey(g)
      BY <3>1
    <3>4. \A i \in 1 .. 1 : \E h \in g .. MaxGeneration : self[i] = LotlKey(h)
      BY <3>2, <3>3
    <3> QED BY <3>3, <3>4
  <2> QED BY <2>1, <2>2
<1> HIDE DEF self, nationalKeys
<1>7. lotl.pointers = parsePointers(LotlList(sequence, self, embedded, nationalKeys).pointers)
  <2> HIDE DEF list
  <2>1. lotl.pointers = parsePointers(list.pointers)
    BY <1>5 DEF parseTrustedList
  <2> QED BY <2>1 DEF list
<1> HIDE DEF lotl
<1>8. OwnKeys(lotl) \subseteq {self[i] : i \in 1 .. m}
  <2>1. m \in Nat
    OBVIOUS
  <2>2. getPointerSigningCertificates(lotl, SelfPointer) \subseteq {self[i] : i \in 1 .. m}
    BY <1>6, <1>7, <2>1, SelfCertificates
  <2> QED BY <2>2 DEF OwnKeys
<1>9. NamesFrom(g, lotl)
  BY <1>6, <1>8 DEF NamesFrom
<1> QED BY <1>5, <1>9 DEF lotl

\* A forged LOTL names no key but the forger's.
LEMMA ForgedOwnKeys ==
  ASSUME NEW doc, doc.list = ForgedLotl, doc.root = "TrustServiceStatusList"
  PROVE  OwnKeys(parseTrustedList(doc)) \subseteq {Attacker}
<1> DEFINE self == <<Attacker>>
           embedded == TRUE
           sequence == 9
           list == LotlList(sequence, self, embedded, self)
           lotl == parseTrustedList(doc)
<1>1. DOMAIN self = 1 .. 1 /\ self[1] = Attacker /\ 1 \in Nat /\ embedded \in BOOLEAN
  OBVIOUS
<1>2. doc.list = list
  BY Zenon DEF ForgedLotl
<1> HIDE DEF self, embedded, sequence
<1>3. lotl.pointers = parsePointers(LotlList(sequence, self, embedded, self).pointers)
  <2> HIDE DEF list
  <2>1. lotl.pointers = parsePointers(list.pointers)
    BY <1>2 DEF parseTrustedList
  <2> QED BY <2>1 DEF list
<1> HIDE DEF lotl
<1>4. getPointerSigningCertificates(lotl, SelfPointer) \subseteq {self[i] : i \in 1 .. 1}
  BY <1>1, <1>3, SelfCertificates
<1>5. OwnKeys(lotl) \subseteq {Attacker}
  BY <1>1, <1>4 DEF OwnKeys
<1> QED BY <1>5 DEF lotl

PartyFields == {"pins", "lotl", "lotlBy", "anchors", "anchorsBy", "refreshed", "entities"}

\* The list held names no key before the one it was accepted with, which was
\* pinned then, and is still unless the list's own keys are.
PinsInv ==
    /\ PinsOk(party.pins)
    /\ party.lotl # Missing => OwnKeys(party.lotl) \subseteq LotlKeys
    /\ party.lotl # Missing /\ party.lotlBy \cap AttackerKeys = {} =>
         \E g \in 1 .. MaxGeneration :
           /\ LotlKey(g) \in party.lotlBy /\ NamesFrom(g, party.lotl)
           /\ party.lotlBy = LotlAnchors(party.pins, Shipped) \/ party.pins = OwnKeys(party.lotl)

ListsInv == SchemeInv /\ DOMAIN party = PartyFields /\ PinsInv /\ AnchorsAuthentic

\* A LOTL that is loaded.
LEMMA LotlLoaded ==
  ASSUME SchemeInv, PinsOk(party.pins), NEW doc \in LotlsOnNetwork,
         NEW lotl, lotl = loadEuLotl(doc, party.pins, Shipped), lotl # Rejected
  PROVE  /\ OwnKeys(lotl) \subseteq LotlKeys
         /\ LotlAnchors(party.pins, Shipped) \cap AttackerKeys = {} =>
              \E g \in 1 .. MaxGeneration : LotlKey(g) \in LotlAnchors(party.pins, Shipped) /\ NamesFrom(g, lotl)
<1> DEFINE anchors == LotlAnchors(party.pins, Shipped)
           lotls == scheme.lotls
<1>1. MaxGeneration \in Nat /\ MaxGeneration >= 1
  BY ListKeysAssumption
<1>2. anchors # Omitted
  BY <1>1, ListKeysAssumption DEF LotlAnchors, PinsOk, Shipped, LotlKeys
<1>3. /\ verifyTrustedListSignature(doc, anchors) /\ doc.root = "TrustServiceStatusList"
      /\ lotl = parseTrustedList(doc)
  <2>1. verifyTrustedListSignature(doc, anchors) /\ lotl = parseTrustedList(doc)
    BY Zenon DEF loadEuLotl
  <2>2. doc.root = "TrustServiceStatusList"
    BY <2>1 DEF parseTrustedList
  <2> QED BY <2>1, <2>2
<1>4. \A d \in lotls : LotlOf(d)
  BY DEF SchemeInv
<1>5. (\A d \in lotls : Published(d)) /\ \A d \in lotls : d.list # ForgedLotl
  BY <1>4, NotForged, Zenon
<1> DEFINE forged == ForgedLotl
           keys == AttackerKeys
<1>6. doc \in lotls \cup Forgeries(lotls, forged, keys) /\ Attacker \in keys
  BY DEF LotlsOnNetwork, AttackerKeys
<1> HIDE DEF anchors, lotls, forged, keys
<1>7. OwnKeys(lotl) \subseteq LotlKeys
  <2>1. doc.list = forged \/ \E d \in lotls : doc.list = d.list
    BY <1>5, <1>6, ListsOnNetwork
  <2>2. CASE doc.list = forged
    <3>1. OwnKeys(parseTrustedList(doc)) \subseteq {Attacker}
      BY <1>3, <2>2, ForgedOwnKeys DEF forged
    <3> QED BY <1>3, <3>1 DEF LotlKeys
  <2>3. ASSUME NEW d \in lotls, doc.list = d.list PROVE OwnKeys(lotl) \subseteq LotlKeys
    <3>1. PICK g \in 1 .. MaxGeneration : NamesFrom(g, parseTrustedList(doc))
      BY <1>3, <1>4, <2>3, OwnKeysRead
    <3> QED BY <1>1, <1>3, <3>1 DEF NamesFrom, LotlKeys
  <2> QED BY <2>1, <2>2, <2>3
<1>8. ASSUME anchors \cap keys = {}
      PROVE  \E g \in 1 .. MaxGeneration : LotlKey(g) \in anchors /\ NamesFrom(g, lotl)
  <2>1. PICK d \in lotls : doc.list = d.list /\ d.sigs[1].key \in anchors
    <3>1. \A d \in lotls : d.list # forged
      BY <1>5 DEF forged
    <3>2. Authentic(doc, lotls, anchors)
      BY <1>2, <1>3, <1>5, <1>6, <1>8, <3>1, ForgeriesRejected
    <3> QED BY <3>2 DEF Authentic
  <2>2. PICK g \in 1 .. MaxGeneration : d.sigs[1].key = LotlKey(g) /\ NamesFrom(g, parseTrustedList(doc))
    BY <1>3, <1>4, <2>1, OwnKeysRead
  <2> QED BY <1>3, <2>1, <2>2
<1> QED BY <1>7, <1>8 DEF anchors, keys

\* The anchors taken from a national list that is loaded.
LEMMA NationalLoaded ==
  ASSUME SchemeInv, NEW doc \in NationalsOnNetwork, NEW signers, signers \cap AttackerKeys = {},
         NEW list, list = loadTrustedList(doc, signers), list # Rejected,
         NEW a \in getTrustAnchors(list, ActiveCertificates)
  PROVE  /\ \E d \in scheme.nationals : a.cert \in InForce(d)
         /\ a.ski = IF SkiOf[a.cert] = None THEN a.cert ELSE SkiOf[a.cert]
<1> DEFINE nationals == scheme.nationals
           forged == ForgedNational
           keys == AttackerKeys
<1>1. signers # Omitted /\ verifyTrustedListSignature(doc, signers) /\ list = parseTrustedList(doc)
  BY Zenon DEF loadTrustedList
<1>2. doc.root = "TrustServiceStatusList"
  BY <1>1 DEF parseTrustedList
<1>3. \A d \in nationals : NationalOf(d)
  BY DEF SchemeInv
<1>4. (\A d \in nationals : Published(d)) /\ \A d \in nationals : d.list # forged
  BY <1>3, NotForged, Zenon
<1>5. doc \in nationals \cup Forgeries(nationals, forged, keys) /\ Attacker \in keys
  BY DEF NationalsOnNetwork, AttackerKeys
<1> HIDE DEF nationals, forged, keys
<1>6. PICK d \in nationals : doc.list = d.list
  <2>1. Authentic(doc, nationals, signers)
    <3>1. signers \cap keys = {}
      BY DEF keys
    <3> QED BY <1>1, <1>2, <1>4, <1>5, <3>1, ForgeriesRejected
  <2> QED BY <2>1 DEF Authentic
<1>7. PICK statuses, g, n : /\ DOMAIN statuses = 1 .. 2
                            /\ d = SignedBy(NationalList(statuses, LotlKey(g)), NationalKey(n))
  BY <1>3, <1>6, Zenon DEF NationalOf
<1> DEFINE published == NationalList(statuses, LotlKey(g))
<1>8. Signed(d, published, NationalKey(n))
  BY <1>7, SignedFields, Zenon
<1>9. doc.list = NationalList(statuses, LotlKey(g))
  <2> HIDE DEF published
  <2>1. doc.list = published
    BY <1>6, <1>8 DEF Signed
  <2> QED BY <2>1 DEF published
<1>10. /\ \A e : e.list = doc.list => a.cert \in InForce(e)
       /\ a.ski = IF SkiOf[a.cert] = None THEN a.cert ELSE SkiOf[a.cert]
  <2>1. a \in getTrustAnchors(parseTrustedList(doc), ActiveCertificates)
    BY <1>1
  <2> QED BY <1>2, <1>7, <1>9, <2>1, AnchorsRead
<1>11. a.cert \in InForce(d)
  BY <1>6, <1>10
<1> QED BY <1>6, <1>10, <1>11 DEF nationals

LEMMA ListsInit == Init => ListsInv
<1> SUFFICES ASSUME Init PROVE ListsInv
  OBVIOUS
<1>1. /\ DOMAIN party = PartyFields /\ party.pins = Omitted /\ party.lotl = Missing /\ party.anchors = {}
  BY DEF Init, PartyFields
<1>2. PinsInv
  BY <1>1 DEF PinsInv, PinsOk
<1>3. AnchorsAuthentic
  BY <1>1 DEF AnchorsAuthentic
<1> QED BY <1>1, <1>2, <1>3, SchemeInit DEF ListsInv

LEMMA ListsStep == ListsInv /\ [Next]_vars => ListsInv'
<1> SUFFICES ASSUME ListsInv, [Next]_vars PROVE ListsInv'
  OBVIOUS
<1>1. SchemeInv /\ SchemeInv' /\ Grows
  BY SchemeStep DEF ListsInv
<1>2. DOMAIN party = PartyFields /\ PinsInv /\ AnchorsAuthentic
  BY DEF ListsInv
<1> DEFINE Anchored(a) == /\ \E doc \in scheme.nationals : a.cert \in InForce(doc)
                          /\ a.ski = IF SkiOf[a.cert] = None THEN a.cert ELSE SkiOf[a.cert]
<1>3. ASSUME party'.anchors = party.anchors, party'.anchorsBy = party.anchorsBy PROVE AnchorsAuthentic'
  <2>1. \A a \in party'.anchors : Anchored(a) => Anchored(a)'
    BY <1>1, Zenon DEF Grows, InForce
  <2>2. party'.anchorsBy \cap AttackerKeys' = {} => party.anchorsBy \cap AttackerKeys = {}
    BY <1>1, <1>3 DEF Grows
  <2>3. party'.anchorsBy \cap AttackerKeys' = {} => \A a \in party'.anchors : Anchored(a)
    BY <1>2, <1>3, <2>2 DEF AnchorsAuthentic
  <2> HIDE DEF Anchored
  <2>4. party'.anchorsBy \cap AttackerKeys' = {} => \A a \in party'.anchors : Anchored(a)'
    BY <2>1, <2>3
  <2> QED BY <2>4 DEF AnchorsAuthentic, Anchored
<1>4. CASE LoadLotl
  <2> DEFINE anchors == LotlAnchors(party.pins, Shipped)
  <2>1. PICK doc \in LotlsOnNetwork :
           /\ loadEuLotl(doc, party.pins, Shipped) # Rejected
           /\ party' = [party EXCEPT !.lotl = loadEuLotl(doc, party.pins, Shipped), !.lotlBy = anchors]
    BY <1>4, Zenon DEF LoadLotl
  <2> DEFINE lotl == loadEuLotl(doc, party.pins, Shipped)
  <2>2. /\ OwnKeys(lotl) \subseteq LotlKeys
        /\ anchors \cap AttackerKeys = {} =>
             \E g \in 1 .. MaxGeneration : LotlKey(g) \in anchors /\ NamesFrom(g, lotl)
    <3> HIDE DEF lotl
    <3>1. lotl = loadEuLotl(doc, party.pins, Shipped) /\ lotl # Rejected
      BY <2>1 DEF lotl
    <3> QED BY <1>1, <1>2, <3>1, LotlLoaded DEF PinsInv
  <2> HIDE DEF lotl
  <2>3. /\ DOMAIN party' = PartyFields /\ party'.lotl = lotl /\ party'.lotlBy = anchors
        /\ party'.pins = party.pins /\ party'.anchors = party.anchors /\ party'.anchorsBy = party.anchorsBy
    <3> HIDE DEF anchors
    <3>1. party' = [party EXCEPT !.lotl = lotl, !.lotlBy = anchors]
      BY <2>1 DEF lotl
    <3> QED BY <1>2, <3>1 DEF PartyFields
  <2>4. AttackerKeys' = AttackerKeys
    BY <1>4 DEF LoadLotl, AttackerKeys
  <2>5. PinsInv'
    BY <1>2, <2>2, <2>3, <2>4 DEF PinsInv, NamesFrom, OwnKeys
  <2> QED BY <1>1, <1>3, <2>3, <2>5 DEF ListsInv
<1>5. CASE RefreshPins
  <2>1. /\ party.lotl # Missing
        /\ party' = [party EXCEPT !.pins = OwnKeys(party.lotl), !.refreshed = party.lotl.sequence]
    BY <1>5, Zenon DEF RefreshPins, OwnKeys, SelfPointer
  <2>2. /\ DOMAIN party' = PartyFields /\ party'.pins = OwnKeys(party.lotl)
        /\ party'.lotl = party.lotl /\ party'.lotlBy = party.lotlBy
        /\ party'.anchors = party.anchors /\ party'.anchorsBy = party.anchorsBy
    BY <1>2, <2>1 DEF PartyFields
  <2>3. AttackerKeys' = AttackerKeys
    BY <1>5 DEF RefreshPins, AttackerKeys
  <2>4. PinsInv'
    <3>1. PinsOk(party'.pins)
      BY <1>2, <2>1, <2>2 DEF PinsInv, PinsOk
    <3> QED BY <1>2, <2>1, <2>2, <2>3, <3>1 DEF PinsInv, NamesFrom, OwnKeys
  <2> QED BY <1>1, <1>3, <2>2, <2>4 DEF ListsInv
<1>6. CASE LoadNational
  <2> DEFINE signers == NationalAnchors(party.lotl)
  <2>1. PICK doc \in NationalsOnNetwork :
           /\ loadTrustedList(doc, signers) # Rejected
           /\ party' = [party EXCEPT !.anchors = getTrustAnchors(loadTrustedList(doc, signers), ActiveCertificates),
                                     !.anchorsBy = party.lotlBy \cup signers]
    BY <1>6, Zenon DEF LoadNational
  <2> DEFINE list == loadTrustedList(doc, signers)
             taken == getTrustAnchors(list, ActiveCertificates)
  <2>2. ASSUME signers \cap AttackerKeys = {}, NEW a \in taken PROVE Anchored(a)
    <3>1. list = loadTrustedList(doc, signers) /\ list # Rejected
      BY <2>1
    <3> HIDE DEF list, signers
    <3> QED BY <1>1, <2>2, <3>1, NationalLoaded
  <2>3. /\ DOMAIN party' = PartyFields /\ party'.anchors = taken /\ party'.anchorsBy = party.lotlBy \cup signers
        /\ party'.pins = party.pins /\ party'.lotl = party.lotl /\ party'.lotlBy = party.lotlBy
    <3>1. party' = [party EXCEPT !.anchors = taken, !.anchorsBy = party.lotlBy \cup signers]
      BY <2>1
    <3> HIDE DEF taken, signers
    <3> QED BY <1>2, <3>1 DEF PartyFields
  <2>4. AttackerKeys' = AttackerKeys /\ scheme' = scheme
    BY <1>6 DEF LoadNational, AttackerKeys
  <2>5. PinsInv'
    BY <1>2, <2>3, <2>4 DEF PinsInv, NamesFrom, OwnKeys
  <2>6. AnchorsAuthentic'
    <3> HIDE DEF signers, taken
    <3>1. \A a \in party'.anchors : party'.anchorsBy \cap AttackerKeys' = {} => Anchored(a)
      BY <2>2, <2>3, <2>4
    <3> QED BY <2>4, <3>1 DEF AnchorsAuthentic
  <2> QED BY <1>1, <2>3, <2>5, <2>6 DEF ListsInv
<1>7. CASE Restart
  <2>1. /\ DOMAIN party' = PartyFields /\ party'.lotl = Missing /\ party'.anchors = {}
        /\ party'.pins = party.pins
    BY <1>2, <1>7 DEF Restart, PartyFields
  <2>2. PinsInv'
    BY <1>2, <2>1 DEF PinsInv
  <2>3. AnchorsAuthentic'
    BY <2>1 DEF AnchorsAuthentic
  <2> QED BY <1>1, <2>1, <2>2, <2>3 DEF ListsInv
<1>8. CASE TrustEntities
  <2>1. /\ DOMAIN party' = PartyFields
        /\ \A f \in {"pins", "lotl", "lotlBy", "anchors", "anchorsBy"} : party'[f] = party[f]
    BY <1>2, <1>8 DEF TrustEntities, PartyFields
  <2>2. /\ party'.pins = party.pins /\ party'.lotl = party.lotl /\ party'.lotlBy = party.lotlBy
        /\ party'.anchors = party.anchors /\ party'.anchorsBy = party.anchorsBy
    BY <2>1
  <2>3. AttackerKeys' = AttackerKeys
    BY <1>8 DEF TrustEntities, AttackerKeys
  <2>4. PinsInv'
    BY <1>2, <2>2, <2>3 DEF PinsInv, NamesFrom, OwnKeys
  <2> QED BY <1>1, <1>3, <2>1, <2>2, <2>4 DEF ListsInv
<1>9. CASE UNCHANGED party
  <2>1. party'.lotlBy \cap AttackerKeys' = {} => party.lotlBy \cap AttackerKeys = {}
    BY <1>1, <1>9 DEF Grows
  <2>2. PinsInv'
    BY <1>2, <1>9, <2>1 DEF PinsInv, NamesFrom, OwnKeys
  <2> QED BY <1>1, <1>2, <1>3, <1>9, <2>2 DEF ListsInv
<1>10. CASE VerifyEntry \/ Fetch \/ BuildQuery \/ CheckIssuer \/ FollowAuthority
            \/ CreateLote \/ AddEntity \/ RemoveEntity \/ UpdateVersion
  BY <1>9, <1>10, OthersKeepLists
<1>11. CASE AnnounceLotlKey \/ RotateLotlKey \/ RotateNationalKey \/ ChangeStatus \/ LeakRetiredKey
  BY <1>9, <1>11 DEF AnnounceLotlKey, RotateLotlKey, RotateNationalKey, ChangeStatus, LeakRetiredKey
<1>12. CASE UNCHANGED vars
  BY <1>9, <1>12 DEF vars
<1> QED BY <1>4, <1>5, <1>6, <1>7, <1>8, <1>10, <1>11, <1>12 DEF Next

\* The anchors a relying party takes from a national list are services that
\* some published list has in force, each with its own key identifier, unless
\* a key it relied on is known to others: whatever the network makes of the
\* published documents, through every rotation of the operators' keys
\* (verifyTrustedListSignature, parseTrustedList, loadEuLotl,
\* getPointerSigningCertificates, getTrustAnchors).
THEOREM AnchorsAreAuthentic == Spec => []AnchorsAuthentic
<1>1. ListsInv => AnchorsAuthentic
  BY DEF ListsInv
<1> QED BY ListsInit, ListsStep, <1>1, PTL DEF Spec

\* Refreshing the pinned keys from the list held never goes behind the oldest
\* key pinned, unless the list was accepted with a key known to others: for
\* any number of generations, with every older list still on the network
\* (loadEuLotl, verifyEuLotlSignature, getPointerSigningCertificates).
THEOREM NoPinComesBack == Spec => NoPinRevival
<1>1. ASSUME ListsInv, [Next]_vars, party.lotlBy \cap AttackerKeys = {}
      PROVE  OldestPin(party'.pins) >= OldestPin(party.pins)
  <2>1. DOMAIN party = PartyFields /\ PinsInv
    BY <1>1 DEF ListsInv
  <2>2. CASE RefreshPins
    <3>1. party.lotl # Missing /\ party'.pins = OwnKeys(party.lotl)
      BY <2>1, <2>2 DEF RefreshPins, OwnKeys, SelfPointer, PartyFields
    <3>2. PICK g \in 1 .. MaxGeneration :
             /\ LotlKey(g) \in party.lotlBy /\ NamesFrom(g, party.lotl)
             /\ party.lotlBy = LotlAnchors(party.pins, Shipped) \/ party.pins = OwnKeys(party.lotl)
      BY <1>1, <2>1, <3>1 DEF PinsInv
    <3>3. CASE party.lotlBy = LotlAnchors(party.pins, Shipped)
      BY <2>1, <3>1, <3>2, <3>3, OlderPins DEF PinsInv, NamesFrom
    <3>4. CASE party.pins = OwnKeys(party.lotl)
      <4>1. party'.pins = party.pins
        BY <3>1, <3>4
      <4>2. OldestPin(party.pins) \in Int
        BY <2>1, OldestPinIs, ListKeysAssumption DEF PinsInv, IsOldest
      <4> QED BY <4>1, <4>2
    <3> QED BY <3>2, <3>3, <3>4
  <2>3. CASE party'.pins = party.pins
    <3>1. OldestPin(party.pins) \in Int
      BY <2>1, OldestPinIs, ListKeysAssumption DEF PinsInv, IsOldest
    <3> QED BY <2>3, <3>1
  <2>4. LoadLotl \/ LoadNational \/ Restart \/ TrustEntities => party'.pins = party.pins
    BY <2>1 DEF LoadLotl, LoadNational, Restart, TrustEntities, PartyFields
  <2>5. AnnounceLotlKey \/ RotateLotlKey \/ RotateNationalKey \/ ChangeStatus \/ LeakRetiredKey \/ UNCHANGED vars
          => party'.pins = party.pins
    BY DEF AnnounceLotlKey, RotateLotlKey, RotateNationalKey, ChangeStatus, LeakRetiredKey, vars
  <2> QED BY <1>1, <2>2, <2>3, <2>4, <2>5, OthersKeepLists DEF Next
<1>2. ListsInv /\ [Next]_vars =>
        [party.lotlBy \cap AttackerKeys = {} => OldestPin(party'.pins) >= OldestPin(party.pins)]_party
  BY <1>1
<1> QED BY ListsInit, ListsStep, <1>2, PTL DEF Spec, NoPinRevival
============================================================================
