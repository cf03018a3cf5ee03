-------------------------------- MODULE Jose --------------------------------
(***************************************************************************)
(* verifyJwt of @owf/jose: the critical headers, the algorithm policy, the *)
(* signer read from the header, the application's verification callback    *)
(* with the check of the key it returns, and the claims.                   *)
(*                                                                         *)
(* A JWT is a record of its header (alg, x5c, trust_chain, kid, jwk, crit, *)
(* b64), its claims (iss, aud, iat, nbf, exp) and its signature, which is  *)
(* the key it was made with.  An algorithm is [named, kty, symmetric], its *)
(* kty (with the curve) Absent when it is not registered.  A kid is [form, *)
(* did], its form "did", "fragment" or "name".                             *)
(***************************************************************************)
EXTENDS Integers, Sequences, FiniteSets

CONSTANTS Absent,   \* a header parameter, claim or option that is not there
          Dids,     \* the issuers that are DIDs
          Verify(_, _)  \* the application's callback for a signer and a JWT: [verified, jwk]

-----------------------------------------------------------------------------
\* assertCriticalHeaderParameters for a caller that understands no extension
CriticalParametersUnderstood(jwt) == jwt.crit = {}

\* decodeJwt
Decodes(jwt) == CriticalParametersUnderstood(jwt) /\ jwt.b64

\* assertJwsAlgorithmAllowed with the defaults
AlgorithmAllowed(alg, allowed) ==
    /\ alg.named                            \* not none, not a case variant
    /\ allowed # Absent => alg \in allowed
    /\ ~alg.symmetric

\* assertKeyAllowedForSignatureAlgorithm; use stands for key_ops as well.
KeyAllowed(jwk, alg) ==
    /\ jwk.alg # Absent => jwk.alg = alg
    /\ jwk.use \in {Absent, "sig"}
    /\ alg.kty # Absent => jwk.kty = alg.kty

KidForm(jwt) == IF jwt.kid = Absent THEN Absent ELSE jwt.kid.form

\* A DID in kid is the issuer, if one is named; a DID in iss needs a kid that
\* is a fragment.
DidKidValid(jwt) == IF KidForm(jwt) = "did" THEN jwt.iss \in {Absent, jwt.kid.did} ELSE KidForm(jwt) = "fragment"

\* What each way of naming a signer finds in the header, Absent where the
\* header does not use it.
SignerKey(jwt) ==
    [x5c |-> jwt.x5c, federation |-> jwt.trust_chain, jwk |-> jwt.jwk,
     did |-> IF KidForm(jwt) = "did" THEN jwt.kid.did ELSE IF jwt.iss \in Dids THEN jwt.iss ELSE Absent]

FoundSigners(jwt) == {method \in DOMAIN SignerKey(jwt) : SignerKey(jwt)[method] # Absent}

SignerValid(jwt, method) ==
    /\ method = "federation" => jwt.kid # Absent
    /\ method = "did" => DidKidValid(jwt)

\* jwsSignerFromHeader: exactly one allowed way, or no way at all and a
\* custom signer; Absent when it throws.
SignerFromHeader(jwt, methods) ==
    LET valid == {method \in FoundSigners(jwt) \cap methods : SignerValid(jwt, method)}
        Signer(method) == [method |-> method, key |-> SignerKey(jwt)[method]]
    IN  CASE \E method \in valid : valid = {method}          -> Signer(CHOOSE method \in valid : TRUE)
          [] FoundSigners(jwt) = {} /\ "custom" \in methods  -> [method |-> "custom", key |-> jwt.kid]
          [] OTHER                                           -> Absent

\* verifyJwsSignature: the policy before the callback, the key it answers
\* with after it.
SignatureVerifies(jwt, signer, allowed) ==
    /\ AlgorithmAllowed(jwt.alg, allowed)
    /\ signer # Absent
    /\ Verify(signer, jwt).verified
    /\ KeyAllowed(Verify(signer, jwt).jwk, jwt.alg)

\* verifyClaimNotInFuture: nbf and iat are the first instant of validity.
NotInFuture(claim, now, skew) == claim # Absent => claim - skew <= now

\* verifyJwtClaims: exp is the first instant at which the token has expired;
\* the skew widens both ends.
ClaimsVerify(jwt, now, skew) ==
    /\ jwt.exp # Absent => jwt.exp + skew > now
    /\ NotInFuture(jwt.nbf, now, skew)
    /\ NotInFuture(jwt.iat, now, skew)

\* verifyJwt
VerifyJwt(jwt, signer, allowed, now, skew) ==
    /\ Decodes(jwt)
    /\ SignatureVerifies(jwt, signer, allowed)
    /\ ClaimsVerify(jwt, now, skew)
=============================================================================
