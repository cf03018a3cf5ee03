------------------------- MODULE CredentialRequests -------------------------
(***************************************************************************)
(* How a wallet encodes a (deferred) credential request and how an issuer  *)
(* reads it (openid4vci): which requests are encrypted, which responses    *)
(* must be, and which key proofs an issuer accepts.                        *)
(*                                                                         *)
(* m is the issuer's metadata as both sides parsed it:                     *)
(*   version  the draft detected from it;                                  *)
(*   reqEnc   credential_request_encryption, or None:                      *)
(*            [required, keys (a sequence of [kid, use]), encs];           *)
(*   respEnc  credential_response_encryption, or None:                     *)
(*            [required, algs, encs];                                      *)
(*   batch    batch_size, or None.                                         *)
(* An encryption request is [to, jwkAlg, alg, enc, zip]: the key it names  *)
(* is known by its owner.                                                  *)
(***************************************************************************)
EXTENDS Basics, Sequences, Naturals

CONSTANT None

Refuse(bad, error) == IF bad THEN error ELSE Ok

ById == {"Draft15", "V1"}

\* zCredentialIssuerMetadataWithDraftVersion: request encryption and
\* credential_metadata are signs of 1.0, the rest of what a configuration
\* holds tells draft 15 from 14; credentials_supported is draft 11's.
DetectedVersion(issuer) ==
    CASE issuer.legacy -> "Draft11"
      [] ~issuer.legacy /\ (issuer.reqEnc # None \/ issuer.sign = "V1") -> "V1"
      [] ~issuer.legacy /\ issuer.reqEnc = None /\ issuer.sign = "Draft15" -> "Draft15"
      [] OTHER -> "Draft14"

-----------------------------------------------------------------------------
(* The wallet *)

\* retrieveCredentialsWith..., retrieveCredentials: what is refused before
\* the request is encoded. Draft 14 to 11 drops nothing the model keeps.
RequestError(m, w) ==
    FirstError(<<
        Refuse(w.by = "id" /\ m.version \notin ById, "id_not_supported"),
        Refuse(w.by = "format" /\ m.version \in ById, "format_not_supported"),
        Refuse(w.proofs > 1 /\ m.version = "Draft11", "no_batch"),
        Refuse(w.proofs > (IF m.batch = None THEN 1 ELSE m.batch), "batch_size") >>)

\* jwk.alg ?? alg
AlgOf(e) == IF e.jwkAlg # None THEN e.jwkAlg ELSE e.alg

\* withCredentialResponseEncryptionAlg
WithAlg(e, version) ==
    IF version = "V1" THEN [e EXCEPT !.jwkAlg = AlgOf(e)] ELSE [e EXCEPT !.alg = AlgOf(e)]

Usable(key) == key.use \in {None, "enc"}

\* The advertised key with the kid asked for, or the first usable one.
EncryptionKey(m, opt) ==
    LET wanted == {n \in DOMAIN m.reqEnc.keys :
                     /\ Usable(m.reqEnc.keys[n])
                     /\ opt = None \/ opt.kid = None \/ m.reqEnc.keys[n].kid = opt.kid}
    IN  IF wanted = {} THEN None ELSE m.reqEnc.keys[CHOOSE n \in wanted : \A k \in wanted : n <= k]

\* The two forms the condition takes when half of it is forgotten.
ResponseNeedsNothing(m, w) == FALSE
ResponseNeedsAdvertised(m, w) == w.respEnc # None /\ m.reqEnc # None

\* responseEncryptionRequiresEncryptedRequest
ResponseNeedsEncryptedRequest(m, w) == w.respEnc # None /\ (m.reqEnc # None \/ m.version = "V1")

ShouldEncrypt(m, w) ==
    \/ m.reqEnc # None /\ m.reqEnc.required
    \/ ResponseNeedsEncryptedRequest(m, w)
    \/ w.reqEnc # None

EncOf(m, w) == IF w.reqEnc # None /\ w.reqEnc.enc # None THEN w.reqEnc.enc ELSE Head(m.reqEnc.encs)

\* encodeCredentialRequest: an error, or the request on the wire.
EncodeError(m, w) ==
    LET applies == m.version # "Draft11"
    IN  IF \/ applies /\ w.respEnc = None /\ m.respEnc # None /\ m.respEnc.required
           \/ applies /\ w.respEnc # None /\ AlgOf(w.respEnc) = None
        THEN "response_encryption"
        ELSE IF ~ShouldEncrypt(m, w) THEN Ok
        ELSE IF m.reqEnc = None THEN "request_encryption_unsupported"
        ELSE FirstError(<<
               Refuse(~w.encryptJwe, "no_encryptJwe"),
               Refuse(EncryptionKey(m, w.reqEnc) = None, "no_key"),
               Refuse(\A n \in DOMAIN m.reqEnc.encs : m.reqEnc.encs[n] # EncOf(m, w), "enc") >>)

\* The response encryption as the request names it, which the version decides.
Named(m, w) == IF w.respEnc # None /\ m.version # "Draft11" THEN WithAlg(w.respEnc, m.version) ELSE w.respEnc
Encoded(m, w, body) ==
    LET full == [body EXCEPT !.respEnc = Named(m, w)]
    IN  IF ShouldEncrypt(m, w)
        THEN [type |-> "jwt", kid |-> EncryptionKey(m, w.reqEnc).kid, enc |-> EncOf(m, w), zip |-> FALSE, body |-> full]
        ELSE [type |-> "json", kid |-> None, enc |-> None, zip |-> FALSE, body |-> full]

-----------------------------------------------------------------------------
(* The issuer *)

\* verifyCredentialRequestEncryption, decryptCredentialRequest.  zip stands
\* for all that may not be in the header: zip, crit, and an alg other than
\* that of the key, which encodeCredentialRequest always takes.
DecryptError(m, canDecrypt, r) ==
    IF m.reqEnc = None THEN "invalid_encryption_parameters"
    ELSE FirstError(<<
           Refuse(\A n \in DOMAIN m.reqEnc.keys : m.reqEnc.keys[n].kid # r.kid, "invalid_encryption_parameters"),
           Refuse(\A n \in DOMAIN m.reqEnc.encs : m.reqEnc.encs[n] # r.enc, "invalid_encryption_parameters"),
           Refuse(r.zip, "invalid_encryption_parameters"),
           Refuse(~canDecrypt, "server_error") >>)

\* verifyCredentialResponseEncryption
ResponseEncryptionError(m, e) ==
    LET bad == IF e = None THEN m.respEnc # None /\ m.respEnc.required
               ELSE IF m.respEnc = None THEN TRUE
               ELSE \/ AlgOf(e) \notin m.respEnc.algs
                    \/ e.enc \notin m.respEnc.encs
                    \/ e.zip
    IN  Refuse(bad, "invalid_encryption_parameters")

\* parseCredentialRequestPayload, parseDeferredCredentialRequestPayload
PayloadError(m, body) ==
    FirstError(<<
        ResponseEncryptionError(m, body.respEnc),
        Refuse(body.kind = "credential" /\ body.by = "id" /\ body.config \notin m.configs,
               "unknown_credential_configuration") >>)

\* validatePlaintextCredentialRequestEncryption
PlaintextError(m, body) ==
    FirstError(<<
        Refuse(body.respEnc # None /\ m.version = "V1" /\ m.respEnc # None /\ m.reqEnc = None, "server_error"),
        Refuse(body.respEnc # None /\ (m.reqEnc # None \/ m.version = "V1"), "invalid_encryption_parameters") >>)

\* parseCredentialRequest, parseDeferredCredentialRequest
ParseError(m, canDecrypt, r) ==
    IF r.type = "jwt"
    THEN LET d == DecryptError(m, canDecrypt, r) IN IF d # Ok THEN d ELSE PayloadError(m, r.body)
    ELSE FirstError(<<
           Refuse(m.reqEnc # None /\ m.reqEnc.required, "invalid_encryption_parameters"),
           PayloadError(m, r.body),
           PlaintextError(m, r.body) >>)

\* getCredentialConfigurationsMatchingRequestFormat: vc+sd-jwt requests also
\* find dc+sd-jwt configurations; the type must be the same.
MatchingConfigurations(configs, request) ==
    {c \in configs : /\ c.format = request.format \/ (c.format = "dc+sd-jwt" /\ request.format = "vc+sd-jwt")
                     /\ c.type = request.type}

-----------------------------------------------------------------------------
(* Key proofs: [type, sig, jwk, aud, iss, nonce, att], with att a key        *)
(* attestation [by, keys, storage], or None                                  *)

\* verifyKeyAttestationRequirements
RequirementsError(att, required) ==
    FirstError(<<
        Refuse(required # None /\ att = None, "key_attestation"),
        Refuse(required # None /\ att # None /\ att.storage \cap required = {}, "key_attestation") >>)

\* verifyKeyAttestationJwt: the attester's key may not come from a jwk header
AttestationTrusted(att) == att.by = "attester"
KeyAttestationError(att, nonce, required) ==
    FirstError(<<
        Refuse(~AttestationTrusted(att), "key_attestation"),
        Refuse(nonce # None /\ att.nonce # nonce, "nonce"),
        RequirementsError(att, required) >>)

\* The audience left to the application.
AudienceUnchecked(p, issuer) == Ok

AudienceError(p, issuer) == Refuse(p.aud # issuer, "aud")

\* verifyCredentialRequestJwtProof
JwtProofError(p, issuer, client, nonce, required) ==
    FirstError(<<
        Refuse(nonce # None /\ p.nonce # nonce, "nonce"),
        AudienceError(p, issuer),
        Refuse(client # None /\ p.iss # client, "iss"),
        Refuse(p.sig # p.jwk, "signature"),
        IF p.att = None THEN RequirementsError(None, required) ELSE KeyAttestationError(p.att, None, required),
        Refuse(p.att # None /\ p.jwk \notin (IF p.att = None THEN {} ELSE p.att.keys), "not_attested") >>)

\* verifyCredentialRequestDiVpProof: domain and challenge
DiVpProofError(p, issuer, nonce) ==
    FirstError(<< Refuse(p.aud # issuer, "aud"), Refuse(p.nonce # nonce, "nonce"), Refuse(p.sig # p.jwk, "signature") >>)

\* verifyCredentialRequestAttestationProof
AttestationProofError(p, nonce, required) == KeyAttestationError(p.att, nonce, required)

ProofError(p, issuer, client, nonce, required) ==
    CASE p.type = "jwt" -> JwtProofError(p, issuer, client, nonce, required)
      [] p.type = "di_vp" -> DiVpProofError(p, issuer, nonce)
      [] p.type = "attestation" -> AttestationProofError(p, nonce, required)

\* The keys a credential is bound to.
ProvedKeys(p) == IF p.type = "attestation" THEN p.att.keys ELSE {p.jwk}
=============================================================================
