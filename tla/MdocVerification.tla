-------------------------- MODULE MdocVerification --------------------------
(***************************************************************************)
(* The checks a verifier makes on one document of a device response:       *)
(* DeviceAuth.verify, IssuerSigned.verify with IssuerAuth.verify and the   *)
(* revocation lists, and the docType (mdoc/src/mdoc/models).  The first    *)
(* half is about the tokens of revocation lists and what makes one count:  *)
(* verifyStatusListToken and verifyIdentifierListToken, with Cwt and Sign1 *)
(* below them, and the JWT format a status list may have instead.          *)
(*                                                                         *)
(* A document is a record                                                  *)
(*   docType, items    its label and its issuer-signed items;              *)
(*   deviceItems, auth the device-signed items, and what the device        *)
(*                     signature covers: [key, transcript, docType, items] *)
(*   x5chain           the unprotected certificates, leaf first, each      *)
(*                     named for the party that holds its key              *)
(*   mso               [docType, signer, deviceKey, digests, authorized,   *)
(*                     id, status, signed, validFrom, validUntil], where   *)
(*                     status is a sequence of references [kind, uri]: the *)
(*                     status list before the identifier list.             *)
(* A token is a record                                                     *)
(*   contentType       what it is served as: "status+cwt", "status+jwt",   *)
(*                     "identifier+cwt", or NotGiven                       *)
(*   typ               the same in its protected header                    *)
(*   protected, unprotected, x5t                                           *)
(*                     the leaf of the x5chain of either header, and the   *)
(*                     one the protected x5t hashes, named for the party   *)
(*                     that holds its key                                  *)
(*   proof, signer     "signature" or "tag", and who made it               *)
(*   sub, iat, nbf, exp  the claims                                        *)
(*   revoked           the identifiers whose status is not Valid.          *)
(* A reference is [kind, uri], its kind "status" or "identifier".          *)
(* Signatures are ideal: signer and key name who made them.                *)
(***************************************************************************)
EXTENDS Integers, FiniteSets, Sequences, SequencesExt

CONSTANTS NotGiven,      \* a claim or header that is not there
          SkewTime,      \* the allowed clock skew
          Anchors,       \* the trust anchors, each naming an issuer
          KeyIds,        \* the authority key identifiers of an anchor's chain
          StatusSigners, \* per anchor the signers of its revocation lists
          CertValidity   \* per certificate [notBefore, notAfter]

ASSUME SkewAssumption == SkewTime \in Nat

ASSUME VerificationAssumption ==
    Anchors \subseteq DOMAIN KeyIds \cap DOMAIN StatusSigners \cap DOMAIN CertValidity

-----------------------------------------------------------------------------
(* Cwt.verify                                                              *)

\* VerifyCwtClaimsOptions
ClaimsOptions(uri, required, now) == [subject |-> uri, required |-> required, now |-> now, skew |-> SkewTime]

\* verifyClaimMatches: an absent claim is a mismatch.
ClaimMatches(value, expected) == value # NotGiven /\ value = expected

NotInFuture(value, options) == value # NotGiven => value - options.skew <= options.now

\* CwtPayload.verifyClaims: exp is the first instant at which a token is no
\* longer valid.
VerifyClaims(token, options) ==
    /\ \A claim \in options.required : token[claim] # NotGiven
    /\ ClaimMatches(token.sub, options.subject)
    /\ token.exp # NotGiven => token.exp + options.skew > options.now
    /\ NotInFuture(token.nbf, options)
    /\ NotInFuture(token.iat, options)

\* Sign1.verifySignature: the signature covers the protected header and the
\* payload as it was received.
VerifySignature(token, key) == token.signer = key

\* Only a signature has a verification context, not the tag of a COSE_Mac0.
CwtVerifies(token, key, options) ==
    token.proof = "signature" /\ VerifySignature(token, key) /\ VerifyClaims(token, options)

-----------------------------------------------------------------------------
(* The signer                                                              *)

\* verifyX5t: the protected header binds an unprotected leaf.
X5tBinds(token, leaf) == token.x5t # NotGiven /\ token.x5t = leaf

\* getIntegrityProtectedX5Chain; NotGiven when there is none or it is not bound.
IntegrityProtectedX5Chain(token) ==
    IF token.protected # NotGiven THEN token.protected
    ELSE IF X5tBinds(token, token.unprotected) THEN token.unprotected
    ELSE NotGiven

\* verifyRevocationListSigner, for the leaf of a chain
SignerTrusted(leaf, trusted) == leaf # NotGiven /\ leaf \in trusted

-----------------------------------------------------------------------------
(* The two kinds of list.  trusted are the status certificates of the      *)
(* anchor the credential was issued under.                                 *)

\* StatusListCwt.fromToken with its header and payload schemas
StatusListDecodes(token) == token.typ = "status+cwt" /\ token.sub # NotGiven /\ token.iat # NotGiven

\* StatusListCwtPayload.verifyClaims, and the exp that mdoc adds
StatusListClaims(uri, now) == ClaimsOptions(uri, {"sub", "iat"} \cup {"exp"}, now)

StatusListCwtVerifies(token, uri, trusted, now) ==
    /\ StatusListDecodes(token)
    /\ SignerTrusted(IntegrityProtectedX5Chain(token), trusted)
    /\ CwtVerifies(token, IntegrityProtectedX5Chain(token), StatusListClaims(uri, now))

\* decodeStatusListJwt
StatusListJwtDecodes(token) == token.typ = "status+jwt" /\ token.sub # NotGiven /\ token.iat # NotGiven

\* verifyStatusListJwt of @owf/token-status-list; mdoc requires the exp.
TokenStatusListJwtVerifies(token, uri, key, now) ==
    /\ StatusListJwtDecodes(token)
    /\ token.proof = "signature" /\ VerifySignature(token, key)
    /\ VerifyClaims(token, StatusListClaims(uri, now))

\* verifyStatusListJwt of mdoc: every header parameter of a JWT is protected.
StatusListJwtVerifies(token, uri, trusted, now) ==
    /\ SignerTrusted(token.protected, trusted)
    /\ TokenStatusListJwtVerifies(token, uri, token.protected, now)

\* assertStatusValid
StatusValid(token, id) == id \notin token.revoked

\* fetchStatusList: the content type decides how a token is read.
StatusListFails(token, uri, id, trusted, now) ==
    \/ ~ CASE token.contentType = "status+cwt" -> StatusListCwtVerifies(token, uri, trusted, now)
           [] token.contentType = "status+jwt" -> StatusListJwtVerifies(token, uri, trusted, now)
           [] OTHER -> FALSE
    \/ ~ StatusValid(token, id)

\* IdentifierListCwt.fetch and fromToken: the schema has exp as well.
IdentifierListDecodes(token) ==
    /\ token.contentType \in {NotGiven, "identifier+cwt"}
    /\ token.typ = "identifier+cwt"
    /\ token.sub # NotGiven /\ token.iat # NotGiven /\ token.exp # NotGiven

\* IdentifierListCwtPayload.verifyClaims
IdentifierListClaims(uri, now) == ClaimsOptions(uri, {"sub", "iat", "exp"}, now)

\* IdentifierListCwt.includes: a listed identifier is revoked.
Includes(token, id) == id \in token.revoked

\* verifyIdentifierListToken: only a protected x5chain counts.
IdentifierListFails(token, uri, id, trusted, now) ==
    \/ ~ IdentifierListDecodes(token)
    \/ ~ SignerTrusted(token.protected, trusted)
    \/ ~ CwtVerifies(token, token.protected, IdentifierListClaims(uri, now))
    \/ Includes(token, id)

-----------------------------------------------------------------------------
\* A token made for a reference with `create`: sub is the URI, iat the
\* instant, and the chain of the signer is in the protected header.
CreateList(reference, signer, iat, exp, revoked) ==
    LET type == IF reference.kind = "status" THEN "status+cwt" ELSE "identifier+cwt"
    IN  [contentType |-> type, typ |-> type, protected |-> signer, unprotected |-> NotGiven, x5t |-> NotGiven,
         proof |-> "signature", signer |-> signer, sub |-> reference.uri, iat |-> iat, nbf |-> NotGiven,
         exp |-> exp, revoked |-> revoked]

-----------------------------------------------------------------------------
(* One document                                                            *)

Leaf(document) == document.x5chain[1]

-----------------------------------------------------------------------------
(* External: X.509 path validation                                         *)

\* The anchors a chain that starts with the leaf ends in; what else the
\* x5chain carries is ignored.
VerifyCertificateChain(document, now) ==
    {a \in Anchors : /\ Leaf(document) = a
                     /\ now \in CertValidity[a].notBefore .. CertValidity[a].notAfter}

-----------------------------------------------------------------------------
(* DeviceAuth.verify, with a device signature; the device MAC is left out  *)

\* Mutant: the transcript is not part of what the device signs.
DeviceAuthUnbound(document, transcript) ==
    [document.auth EXCEPT !.transcript = transcript]
        # [key |-> document.mso.deviceKey, transcript |-> transcript,
           docType |-> document.docType, items |-> document.deviceItems]

DeviceAuthFails(document, transcript) ==
    LET authorized == document.mso.authorized
    IN \/ \E i \in document.deviceItems :
              /\ i.element[1] \notin authorized.namespaces
              /\ i.element \notin authorized.elements
       \/ document.auth # [key |-> document.mso.deviceKey, transcript |-> transcript,
                           docType |-> document.docType, items |-> document.deviceItems]

-----------------------------------------------------------------------------
(* IssuerAuth.verify.  options is [disableChain, disableStatus, throws]:   *)
(* throws is the default callback, which ends at the first FAILED check.   *)

SignatureIsValid(document) == Leaf(document) = document.mso.signer

\* Left out: that the certificate has a country, that a protected x5t matches
\* it, and that issuing_country and issuing_jurisdiction agree with its subject.
\* These hold of every certificate and item an issuer of the model uses.
\*
\* The validated chain, unless validation is disabled or failed.
TrustedIssuanceChain(document, options, now) ==
    IF options.disableChain THEN {} ELSE VerifyCertificateChain(document, now)

TrustedStatusCertificates(document, options, now) ==
    UNION {StatusSigners[a] : a \in TrustedIssuanceChain(document, options, now)}

\* Mutant: the signature of the MSO is enough to look up its status.
FetchedOnSignature(document, options, now) ==
    ~ options.disableStatus /\ SignatureIsValid(document) /\ document.mso.status # <<>>

\* Whether verifyStatus gets to the network: it asks for no list while there
\* is no status certificate to validate it with (assertTrustedCertificates).
StatusIsFetched(document, options, now) ==
    /\ ~ options.disableStatus /\ ~ options.disableChain
    /\ SignatureIsValid(document)
    /\ document.mso.status # <<>>
    /\ TrustedStatusCertificates(document, options, now) # {}

\* verifyStatusListToken or verifyIdentifierListToken, with the token that was
\* served for the reference: {} when it could not be fetched.
ListFails(document, reference, options, now, served) ==
    LET id == document.mso.id
        trusted == TrustedStatusCertificates(document, options, now)
    IN  served = {} \/ \E token \in served :
            IF reference.kind = "status" THEN StatusListFails(token, reference.uri, id, trusted, now)
            ELSE IdentifierListFails(token, reference.uri, id, trusted, now)

\* verifyStatus: the lists asked for, the second only after the first has
\* verified.
FetchedUris(document, options, now, served) ==
    LET lists == document.mso.status
    IN IF ~ StatusIsFetched(document, options, now) THEN {}
       ELSE {lists[n].uri : n \in {n \in DOMAIN lists :
                 \A m \in 1 .. n - 1 : ~ ListFails(document, lists[m], options, now, served[lists[m]])}}

StatusFails(document, options, now, served) ==
    /\ ~ options.disableStatus /\ ~ options.disableChain
    /\ SignatureIsValid(document) /\ document.mso.status # <<>>
    /\ \/ TrustedStatusCertificates(document, options, now) = {}
       \/ \E reference \in Range(document.mso.status) :
              ListFails(document, reference, options, now, served[reference])

\* Signed strictly within the certificate's validity; valid now.
ValidityFails(document, now) ==
    LET mso == document.mso
        cert == CertValidity[Leaf(document)]
    IN \/ mso.signed <= cert.notBefore - SkewTime \/ mso.signed >= cert.notAfter + SkewTime
       \/ now < mso.validFrom - SkewTime \/ now > mso.validUntil + SkewTime

ChainFails(document, options, now) ==
    ~ options.disableChain /\ TrustedIssuanceChain(document, options, now) = {}

-----------------------------------------------------------------------------
(* IssuerSigned.verify: every item against its digest                      *)

DigestsFail(document) ==
    \/ ~ (document.items \subseteq document.mso.digests)
    \/ \E i, j \in document.items : i.element = j.element /\ i # j

\* The docType of a document is not signed.
DocTypeFails(document) == document.docType # document.mso.docType

-----------------------------------------------------------------------------
(* One round of the loop of DeviceResponse.verify: whether a check FAILED, *)
(* and the URIs asked for.  A throwing callback asks for none once a check *)
(* before the status has failed.                                           *)

DocumentFails(document, transcript, options, now, served) ==
    \/ DeviceAuthFails(document, transcript)
    \/ ChainFails(document, options, now)
    \/ ~ SignatureIsValid(document)
    \/ StatusFails(document, options, now, served)
    \/ ValidityFails(document, now)
    \/ DigestsFail(document)
    \/ DocTypeFails(document)

DocumentFetches(document, transcript, options, now, served) ==
    IF options.throws /\ (DeviceAuthFails(document, transcript) \/ ChainFails(document, options, now))
    THEN {} ELSE FetchedUris(document, options, now, served)
=============================================================================
