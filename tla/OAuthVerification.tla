------------------------- MODULE OAuthVerification -------------------------
(***************************************************************************)
(* What @owf/oauth2 verifies on the server side: DPoP proofs, client       *)
(* attestations, PKCE, and from these the requests to the authorization    *)
(* and token endpoints and to a resource.  Everything here is a function   *)
(* of one request and of the options the server passes.                    *)
(*                                                                         *)
(* A signature is the key it was made with; a thumbprint is the key; a     *)
(* hash keeps its argument.  A JWT that does not decode, or is outside its *)
(* validity, is the same as one whose signature does not verify.           *)
(*                                                                         *)
(* The options are records:                                                *)
(*   dpop: [required, htu, ath, jkt, nonce, used]                          *)
(*   att:  [required, clientId, cnf, challenge, matchKeys, methods], the     *)
(*         last token_endpoint_auth_methods_supported of the server          *)
(***************************************************************************)
EXTENDS Basics, Naturals, Sequences, FiniteSets

CONSTANT None       \* a parameter that is not there

\* A condition whose failure is answered with the error.
Check(cond, error) == IF cond THEN Ok ELSE error

-----------------------------------------------------------------------------
(* DPoP *)

\* verifyDpopJwt up to the replay check.
DpopVerifies(proof, o) ==
    /\ proof.htu = o.htu
    /\ o.ath # None => proof.ath = o.ath
    /\ o.jkt # None => proof.jwk = o.jkt
    /\ proof.sig = proof.jwk
    /\ o.nonce # None => proof.nonce = o.nonce

\* verifyDpopJwt: the replay check comes last.
DpopAccepted(proof, o) == DpopVerifies(proof, o) /\ proof.jti \notin o.used

\* Mutant: the replay check comes first, and remembers what it is asked.
JtiRememberedFirst(proof, o) == {proof.jti}
\* The jti values assertJtiUniqueness remembers after the verification.
JtiRemembered(proof, o) == IF DpopVerifies(proof, o) THEN {proof.jti} ELSE {}

-----------------------------------------------------------------------------
(* PKCE *)

\* calculateCodeChallenge
CodeChallenge(method, verifier) == [method |-> method, of |-> verifier]

\* Mutant: a code_verifier that no challenge asks for is ignored.
PkceErrorLenient(challenge, verifier) ==
    Check(challenge # None => verifier # None /\ CodeChallenge(challenge.method, verifier) = challenge,
          "invalid_grant")

\* verifyAccessTokenRequestPkce
PkceError(challenge, verifier) ==
    FirstError(<<Check(challenge = None => verifier = None, "invalid_grant"),
                 Check(challenge # None => verifier # None, "invalid_grant"),
                 Check(challenge # None => CodeChallenge(challenge.method, verifier) = challenge,
                       "invalid_grant")>>)

-----------------------------------------------------------------------------
(* Client attestation *)

\* verifyClientAttestationJwt: signed by a trusted attester, not by a key of
\* its own header, for the expected client and the expected instance key.
AttestationVerifies(att, o) ==
    /\ att.by = "attester"
    /\ o.clientId # None => att.sub = o.clientId
    /\ o.cnf # None => att.cnf = o.cnf

\* verifyClientAttestationPopJwt
PopVerifies(pop, att, o) ==
    /\ pop.sig = att.cnf
    /\ o.challenge # None => pop.challenge = o.challenge

\* verifyClientAttestation, and the keys compared when the server asks for it
AttestationWithPopError(q, o, dpopJkt) ==
    FirstError(<<Check(AttestationVerifies(q.att, o) /\ PopVerifies(q.pop, q.att, o), "invalid_client"),
                 Check(o.matchKeys /\ dpopJkt # None => q.att.cnf = dpopJkt, "invalid_request")>>)

\* verifyAuthorizationRequestClientAttestation; dpopJkt is the key of the
\* proof, or dpop_jkt, or None.
AuthorizationAttestationError(q, o, dpopJkt) ==
    IF q.att # None /\ q.pop # None THEN AttestationWithPopError(q, o, dpopJkt)
    ELSE Check(~o.required /\ o.cnf = None /\ q.att = None /\ q.pop = None, "invalid_client")

\* verifyAccessTokenRequestClientAttestationDpop: the DPoP proof stands for
\* the proof of possession.
AttestationDpopBoundError(q, o, dpopJkt) ==
    FirstError(<<Check(o.methods # None => "attest_dpop" \in o.methods, "invalid_client"),
                 Check(dpopJkt # None, "invalid_client"),
                 Check(AttestationVerifies(q.att, o), "invalid_client"),
                 Check(q.att.cnf = dpopJkt, "invalid_request")>>)

\* verifyAccessTokenRequestClientAttestation
TokenAttestationError(q, o, dpopJkt) ==
    IF q.att = None THEN Check(~o.required /\ o.cnf = None /\ q.pop = None, "invalid_client")
    ELSE IF q.pop = None THEN AttestationDpopBoundError(q, o, dpopJkt)
    ELSE AttestationWithPopError(q, o, dpopJkt)

-----------------------------------------------------------------------------
(* Request objects (JAR) *)

\* createJarAuthorizationRequest: parameters under a signature
RequestObject(client_id, code_challenge, dpop_jkt, by) ==
    [client_id |-> client_id, code_challenge |-> code_challenge, dpop_jkt |-> dpop_jkt, by |-> by,
     typ |-> "oauth-authz-req+jwt", form |-> "jwt", fresh |-> TRUE]

\* parsePushedAuthorizationRequest up to the headers: request_uri is refused
\* before anything is fetched, and a request object has to be a JWS.
PushedParseError(q) ==
    FirstError(<<Check(~q.byReference, "invalid_request"),
                 Check(q.jar # None => q.jar.form = "jwt", "invalid_request")>>)

\* The request that parsePushedAuthorizationRequest returns: that of the
\* request object, whatever parameters were pushed next to it.
AuthorizationRequest(q) ==
    IF q.jar = None THEN q
    ELSE [q EXCEPT !.client_id = q.jar.client_id, !.code_challenge = q.jar.code_challenge, !.dpop_jkt = q.jar.dpop_jkt]

\* verifyJarRequestObject, for the signer the server expects of the client
VerifiedRequestObject(jar, signer) ==
    jar.by = signer /\ jar.fresh /\ jar.typ \in {"oauth-authz-req+jwt", "jwt"}

\* verifyJarRequest: the client is compared with that of the parsed request.
JarError(q, signer) ==
    IF q.jar = None THEN Ok
    ELSE FirstError(<<Check(VerifiedRequestObject(q.jar, signer), "invalid_request_object"),
                      Check(AuthorizationRequest(q).client_id = q.jar.client_id, "invalid_request")>>)

-----------------------------------------------------------------------------
(* Whole requests *)

\* extractClientAttestationJwtsFromHeaders, in parseAuthorizationRequest and
\* parseAccessTokenRequest
ParseError(q) == Check(q.att = None => q.pop = None, "invalid_client")

ProofKey(q) == IF q.proof = None THEN None ELSE q.proof.jwk

\* verifyAuthorizationRequestDpop
AuthorizationDpopError(q, o) ==
    FirstError(<<Check(o.required => q.proof # None \/ q.dpop_jkt # None, "invalid_dpop_proof"),
                 Check(q.proof # None => DpopAccepted(q.proof, o), "invalid_dpop_proof"),
                 Check(q.proof # None /\ q.dpop_jkt # None => q.dpop_jkt = ProofKey(q), "invalid_dpop_proof")>>)

\* The key verifyAuthorizationRequest returns, for the session to be bound to.
SessionKey(q) == IF q.proof # None THEN ProofKey(q) ELSE q.dpop_jkt

\* verifyAuthorizationRequest, also through PAR and the challenge endpoint;
\* verifyPushedAuthorizationRequest verifies the request object before.
AuthorizationRequestError(q, signer, dpop, att) ==
    FirstError(<<PushedParseError(q),
                 ParseError(q),
                 JarError(q, signer),
                 AuthorizationDpopError(q, dpop),
                 AuthorizationAttestationError(q, att, SessionKey(q))>>)

\* verifyAccessTokenRequestDpop
TokenDpopError(q, o) ==
    FirstError(<<Check(o.required => q.proof # None, "invalid_dpop_proof"),
                 Check(q.proof # None => DpopAccepted(q.proof, o), "invalid_dpop_proof")>>)

\* What the grant itself is checked against: the code or token the session
\* holds, its transaction code, and its expiry.
GrantError(q, s) ==
    FirstError(<<Check(q.grant \in s.grants, "invalid_grant"),
                 Check(q.grant = "pre-authorized_code" /\ s.tx_code = None => q.tx_code = None, "invalid_request"),
                 Check(q.grant = "pre-authorized_code" /\ s.tx_code # None => q.tx_code # None, "invalid_request"),
                 Check(q.grant = "pre-authorized_code" => q.tx_code = s.tx_code, "invalid_grant"),
                 Check(~s.expired, "invalid_grant")>>)

\* verifyAuthorizationCodeAccessTokenRequest, and its siblings for a
\* pre-authorized code and a refresh token.
AccessTokenRequestError(q, s, challenge, dpop, att) ==
    FirstError(<<ParseError(q),
                 PkceError(challenge, q.code_verifier),
                 TokenDpopError(q, dpop),
                 TokenAttestationError(q, att, ProofKey(q)),
                 GrantError(q, s)>>)

\* Mutant: the scheme of the request alone tells whether DPoP was used.
NeedsDpopByScheme(q, token) == q.scheme = "DPoP"
\* DPoP is needed when the scheme or the type of the token says so, or the
\* token is bound to a key.
NeedsDpop(q, token) == q.scheme = "DPoP" \/ token.type = "DPoP" \/ token.jkt # None

\* verifyResourceRequest, given the token that verifyJwtProfileAccessToken
\* or introspection found, or None.
ResourceRequestError(q, token, o) ==
    IF token = None THEN "invalid_token"
    ELSE IF ~NeedsDpop(q, token) THEN Ok
    ELSE FirstError(<<Check(q.proof # None, "invalid_dpop_proof"),
                      Check(token.jkt # None, "invalid_token"),
                      Check(q.proof # None => DpopAccepted(q.proof, [o EXCEPT !.jkt = token.jkt]),
                            "invalid_dpop_proof")>>)
=============================================================================
