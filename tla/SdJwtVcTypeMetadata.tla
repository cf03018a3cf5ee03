-------------------------- MODULE SdJwtVcTypeMetadata --------------------------
(***************************************************************************)
(* Type metadata of packages/sd-jwt-vc: how the documents of an extends    *)
(* chain are merged, what integrity metadata accepts, and how the claims   *)
(* of a credential, packed and only partly disclosed, are held against the *)
(* merged document.  A document names its type (vct), the type it extends  *)
(* or None, what the extended document must hash to, and its claims        *)
(* ("claims" is None when it has none).                                    *)
(***************************************************************************)
EXTENDS SdJwt

(* The null of a claim path, for every element of an array. *)
EveryElement == "null"

(* Integrity metadata: entries of an algorithm, the greater the stronger,  *)
(* and the document its value is the hash of.  None when there is none;    *)
(* entries of algorithms that are not supported are as good as no match.   *)
IntegrityHolds(entries, document) ==
    \/ entries = None
    \/ \E entry \in entries :
          /\ \A other \in entries : other.alg <= entry.alg
          /\ entry.of = document

-------------------------------------------------------------------------------
(* Merging. *)
ClaimAt(claims, path) ==
    LET places == {i \in DOMAIN claims : claims[i].path = path}
    IN IF places = {} THEN None ELSE claims[Min(places)]

(* What an extending claim may not do to the sd of the claim it overrides. *)
ClaimExtensionFails(base, extending) ==
    /\ base.sd \in {"always", "never"}
    /\ extending.sd # None
    /\ extending.sd # base.sd

ClaimsOf(document) == IF document.claims = None THEN <<>> ELSE document.claims

MergeFails(base, extending) ==
    \E i \in DOMAIN ClaimsOf(extending) :
       LET claim == ClaimsOf(extending)[i]
           overridden == ClaimAt(ClaimsOf(base), claim.path)
       IN overridden # None /\ ClaimExtensionFails(overridden, claim)

(* Base claims in their order, overridden where the extending document has *)
(* the same path, and then what it adds.                                   *)
MergedClaims(base, extending) ==
    LET override(acc, claim) ==
            LET places == {i \in DOMAIN acc.rest : acc.rest[i].path = claim.path}
            IN IF places = {} THEN [acc EXCEPT !.merged = Append(@, claim)]
               ELSE [merged |-> Append(acc.merged, acc.rest[Min(places)]),
                     rest |-> RemoveAt(acc.rest, Min(places))]
        all == FoldLeft(override, [merged |-> <<>>, rest |-> extending], base)
    IN all.merged \o all.rest

MergeTypeMetadata(base, extending) ==
    [extending EXCEPT !.claims =
        IF base.claims = None /\ extending.claims = None THEN None
        ELSE MergedClaims(ClaimsOf(base), ClaimsOf(extending))]

(* A chain of documents from the type of the credential to its root is     *)
(* merged from the root.                                                   *)
MergedChain(chain) == FoldRight(LAMBDA document, base : MergeTypeMetadata(base, document), Front(chain), Last(chain))

ChainMergeFails(chain) ==
    \E i \in 1 .. Len(chain) - 1 : MergeFails(MergedChain(SubSeq(chain, i + 1, Len(chain))), chain[i])

-------------------------------------------------------------------------------
(* Claims against the merged document. *)
RegisteredClaims == {"iss", "nbf", "exp", "iat", "sub", "cnf", "vct", "vct#integrity", "status"}

IsIndex(segment) == segment \in ToSet(IndexNames)

SegmentsMatch(claimPath, path, length) ==
    \A i \in 1 .. length : IF claimPath[i] = EveryElement THEN IsIndex(path[i]) ELSE claimPath[i] = path[i]

ClaimPathMatches(claimPath, path) ==
    Len(claimPath) = Len(path) /\ SegmentsMatch(claimPath, path, Len(path))

(* The members and elements that can be seen, and whether some cannot. *)
ChildEntries(v, segment, map) ==
    LET container == IF segment = EveryElement THEN "arr" ELSE "obj"
        digests == CASE v.t = "obj" -> ToSet(v.sd)
                     [] v.t = "arr" -> {v.e[i].d : i \in {j \in DOMAIN v.e : v.e[j].t = "digest"}}
                     [] OTHER -> {}
    IN IF v.t # container THEN [present |-> {}, hidden |-> FALSE]
       ELSE [present |-> {entry.value : entry \in {x \in Entries(v, map) : segment \in {EveryElement, x.key}}},
             hidden |-> digests \ map # {}]

(* A claim that is nowhere to be seen may be behind a digest that was not  *)
(* opened, unless its metadata says that it never is.                      *)
AbsentStatus(hidden, sd) == IF hidden /\ sd # "never" THEN "undisclosed" ELSE "missing"

MandatoryClaimStatus(path, claims, payload, map) ==
    LET status[depth \in 0 .. Len(path), v \in OpenValues(payload, map)] ==
            IF depth = Len(path) THEN "present"
            ELSE LET segment == path[depth + 1]
                     entries == ChildEntries(v, segment, map)
                     below == {status[depth + 1, child] : child \in entries.present}
                     at == ClaimAt(claims, SubSeq(path, 1, depth + 1))
                     seen == IF "undisclosed" \in below THEN "undisclosed" ELSE "present"
                 IN IF "missing" \in below THEN "missing"
                    ELSE IF segment = EveryElement
                         THEN IF v.t # "arr" THEN "missing"
                              ELSE IF entries.present = {} /\ entries.hidden THEN "undisclosed" ELSE seen
                    ELSE IF entries.present # {} THEN seen
                    ELSE AbsentStatus(entries.hidden, IF at = None THEN None ELSE at.sd)
    IN status[0, payload]

(* collectPresentClaims: every claim that can be seen and whether it was   *)
(* behind a digest.                                                        *)
PresentClaims(payload, map) ==
    {[path |-> p.path, sd |-> p.digest # None]
     : p \in {q \in OpenPlaces(payload, map) : q.path # <<>> /\ None \notin ToSet(q.path)}}

(* A claim no metadata is for is no extra one if metadata is for something *)
(* inside it, or for something it is inside of without details.            *)
Covered(path, claims) ==
    \/ path[1] \in RegisteredClaims /\ \A i \in DOMAIN claims : claims[i].path[1] # path[1]
    \/ \E i \in DOMAIN claims :
          LET own == claims[i].path
              detailed == \E j \in DOMAIN claims : IsStrictPrefix(own, claims[j].path)
          IN \/ Len(path) < Len(own) /\ SegmentsMatch(own, path, Len(path))
             \/ Len(path) > Len(own) /\ SegmentsMatch(own, path, Len(own)) /\ ~detailed

Canonical(path) == [i \in DOMAIN path |-> IF IsIndex(path[i]) THEN EveryElement ELSE path[i]]

Outermost(paths) == {p \in paths : \A q \in paths : ~IsStrictPrefix(q, p)}

(* verifyClaimsAgainstTypeMetadata *)
ClaimIssues(document, payload, map) ==
    LET claims == ClaimsOf(document)
        present == PresentClaims(payload, map)
        about(p) == {i \in DOMAIN claims : ClaimPathMatches(claims[i].path, p.path)}
        mandatory == {i \in DOMAIN claims : claims[i].mandatory}
        status(i) == MandatoryClaimStatus(claims[i].path, claims, payload, map)
        wrong(sd, isSd) == {claims[i].path : i \in {j \in DOMAIN claims :
                               /\ claims[j].sd = sd
                               /\ \E p \in present : p.sd = isSd /\ ClaimPathMatches(claims[j].path, p.path)}}
    IN [extra |-> IF document.claims = None THEN {}
                  ELSE Outermost({Canonical(p.path) : p \in {q \in present : about(q) = {} /\ ~Covered(q.path, claims)}}),
        missing |-> {claims[i].path : i \in {j \in mandatory : status(j) = "missing"}},
        undisclosed |-> {claims[i].path : i \in {j \in mandatory : status(j) = "undisclosed"}},
        notDisclosable |-> wrong("always", FALSE),
        disclosable |-> wrong("never", TRUE)]
================================================================================
