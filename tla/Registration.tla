---------------------------- MODULE Registration ----------------------------
(***************************************************************************)
(* Registration certificates of wallet-relying parties: signing one as a   *)
(* JAdES token (@owf/eudi-jades), verifying and decoding it, and the       *)
(* comparison of a request with it (@owf/eudi-registration-certificate).   *)
(* It is bound to the subject of an access certificate (Revocation).       *)
(*                                                                         *)
(* A JWS is [header, payload, signature]; a signature is [key, header,     *)
(* payload], what it was made with and over.  A header is [typ, certified, *)
(* iat, sigT, crit, sigD].  A path is a sequence of keys, array indexes    *)
(* and Null, the null of a claims path.                                    *)
(***************************************************************************)
EXTENDS Revocation

CONSTANT Null        \* null in a claims path

-----------------------------------------------------------------------------
(* JAdES *)

ByUriHash == "ObjectIdByURIHash"

\* parseSignature, getSigningPayloadSegment: with sigD of the hash mechanism
\* the signature covers no payload.
SigningPayload(header, payload) == IF header.sigD = ByUriHash THEN Absent ELSE payload

\* buildFinalHeader: the extensions that are there become critical.
FinalHeader(header) == [header EXCEPT !.crit = @ \cup (IF header.sigD # Absent THEN {"sigD"} ELSE {})]

\* zProtectedHeader: a certificate, one signing time, and sigD marked critical.
\* crit is a set and b64 is not used; that an entry of crit is the name of a
\* parameter that is there is part of the flag certified.
HeaderValid(header) ==
    /\ header.certified
    /\ (header.iat = Absent) # (header.sigT = Absent)
    /\ header.sigD # Absent => "sigD" \in header.crit

\* Token.sign and toString; a detached payload is not carried along.
SignToken(key, header, payload) ==
    LET final == FinalHeader(header)
    IN  [header |-> final,
         payload |-> IF header.sigD # Absent THEN Absent ELSE payload,
         signature |-> [key |-> key, header |-> final, payload |-> SigningPayload(final, payload)]]

\* verifyCompact, with no critical parameters of the caller's own
JadesVerifies(jws, key) ==
    /\ HeaderValid(jws.header)
    /\ jws.header.crit \subseteq {"sigD", "b64"}
    /\ jws.signature = [key |-> key, header |-> jws.header, payload |-> SigningPayload(jws.header, jws.payload)]

\* validateBB, as far as a compact token without etsiU can fail it
BaselineProfile(header) == HeaderValid(header)

-----------------------------------------------------------------------------
(* The payload *)

\* validateEntitlementRequirements, the errors
EntitlementsValid(payload) ==
    /\ payload.entitlements # {}
    /\ "sub_entitlement" \in payload.entitlements => "Service_Provider" \in payload.entitlements

\* The subject whose access certificate presents the registration: the
\* intermediary, if there is one.
PresentedBy(payload) == IF payload.intermediary # Absent THEN payload.intermediary ELSE payload.sub

\* validateRegistrationCertificatePayload; year is twelve months after iat.
PayloadValid(payload, accessCertificateSub, year) ==
    /\ EntitlementsValid(payload)
    /\ payload.semantic                 \* validateSemanticIdentifier
    /\ payload.exp # Absent => payload.iat < payload.exp /\ payload.exp <= payload.iat + year
    /\ accessCertificateSub = PresentedBy(payload)

\* signRegistrationCertificate, for a payload that is valid
SignRegistrationCertificate(key, payload, now) ==
    SignToken(key,
              [typ |-> "rc-wrp+jwt", certified |-> TRUE, iat |-> now, sigT |-> Absent, crit |-> {}, sigD |-> Absent],
              payload)

\* decodeRegistrationCertificate, without the signature
RegistrationCertificateDecodes(jws, sub, year) ==
    /\ jws.header.typ = "rc-wrp+jwt"
    /\ BaselineProfile(jws.header)
    /\ jws.payload # Absent
    /\ PayloadValid(jws.payload, sub, year)

-----------------------------------------------------------------------------
(* Over-asking *)

\* metaCovered: meta is Absent ({}) or the set of the types that are meant.
MetaCovered(requested, registered) == registered # Absent => requested # Absent /\ requested \subseteq registered

\* Mutant: the comparison stops at the shorter of the two paths.
PathCoveredByCommonPart(requested, registered) ==
    \A i \in DOMAIN registered \cap DOMAIN requested : registered[i] \in {Null, requested[i]}

\* pathCovered: equal or a parent; null registers every element.
PathCovered(requested, registered) ==
    /\ Len(registered) <= Len(requested)
    /\ \A i \in DOMAIN registered : registered[i] \in {Null, requested[i]}

\* A registered claim without values allows any value.
ValuesAllowed(requested, registered) ==
    registered # Absent => requested # Absent /\ requested \subseteq registered

Matching(query, registered) ==
    {r \in registered : r.format = query.format /\ MetaCovered(query.meta, r.meta)}

\* The issues of one credential query of checkOverAsking
QueryIssues(query, registered) ==
    LET matching == Matching(query, registered)
        Claims == UNION {r.claims : r \in matching}
        Covering(c) == {g \in Claims : PathCovered(c.path, g.path)}
    IN  IF matching = {} THEN {"credential_not_registered"}
        ELSE IF query.claims = Absent THEN {}
        ELSE IF \E r \in matching : r.claims = Absent THEN {"claims_not_listed"}
        ELSE {IF Covering(c) = {} THEN "claim_not_registered" ELSE "claim_values_not_registered" :
                 c \in {d \in query.claims : ~\E g \in Covering(d) : ValuesAllowed(d.values, g.values)}}

\* checkOverAsking; credentials is Absent in a payload that registers none.
OverAskingIssues(queries, credentials) ==
    UNION {QueryIssues(q, IF credentials = Absent THEN {} ELSE credentials) : q \in queries}

\* The one issue that is a warning.
Warnings == {"claims_not_listed"}
OverAskingValid(issues) == issues \subseteq Warnings
=============================================================================
