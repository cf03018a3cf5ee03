-------------------------- MODULE OAuthFlowProofs ---------------------------
(***************************************************************************)
(* For every configuration of wallet and server, however many requests the *)
(* other client sends and however often the servers replace their nonces:  *)
(* a proof counts once, a bound token serves the holder of its key, and a  *)
(* grant is redeemed by the client it was made for.                        *)
(***************************************************************************)
EXTENDS OAuthFlow, TLAPS

-----------------------------------------------------------------------------
(* A proof counts once *)

\* The server remembers exactly the proofs it accepted.
ProofInv == accepted = jtis /\ ProofOnce

\* Looking at a proof keeps this, if the options carry the remembered jtis.
LEMMA NoteProofKeeps ==
  ASSUME ProofInv, NEW q, NEW o, o.used = jtis, NEW reached, NoteProof(q, o, reached)
  PROVE  ProofInv'
<1>1. CASE UNCHANGED <<jtis, accepted, again, refused>>
  BY <1>1 DEF ProofInv, ProofOnce
<1>2. CASE /\ jtis' = jtis \cup JtiRemembered(q.proof, o)
           /\ accepted' = IF DpopAccepted(q.proof, o) THEN accepted \cup {q.proof.jti} ELSE accepted
           /\ again' = IF DpopAccepted(q.proof, o) /\ q.proof.jti \in accepted
                       THEN again \cup {q.proof.jti} ELSE again
           /\ refused' = IF DpopVerifies(q.proof, o) /\ ~DpopAccepted(q.proof, o) /\ q.from = "w"
                         THEN refused \cup {q.proof.jti} ELSE refused
  BY <1>2 DEF ProofInv, ProofOnce, JtiRemembered, DpopAccepted
<1> QED BY <1>1, <1>2 DEF NoteProof

\* So does every request a server takes.
LEMMA TakesKeepsProofs ==
  ASSUME ProofInv, NEW q, NEW opens, Takes(q, opens)
  PROVE  ProofInv'
<1>1. ASSUME NEW jkt PROVE DpopOptions(q, jkt).used = jtis
  BY DEF DpopOptions
<1>2. CASE TakesAuthorization(q, opens)
  BY <1>1, <1>2, NoteProofKeeps DEF TakesAuthorization
<1>3. CASE TakesToken(q)
  BY <1>1, <1>3, NoteProofKeeps DEF TakesToken, TokenDpop
<1>4. CASE TakesResource(q)
  BY <1>1, <1>4, NoteProofKeeps DEF TakesResource
<1> QED BY <1>2, <1>3, <1>4 DEF Takes

LEMMA ProofStep ==
  ASSUME ProofInv, [Next]_vars
  PROVE  ProofInv'
<1>1. ASSUME UNCHANGED <<jtis, accepted, again, refused>> PROVE ProofInv'
  BY <1>1 DEF ProofInv, ProofOnce
<1>2. CASE WalletSteps \/ ConnectionFails
  BY <1>1, <1>2 DEF WalletSteps, ConnectionFails, Discover, RetryWithNonce, RetryWithChallenge, CallFails,
     AfterChallenge, AfterPar, AfterToken, AfterResource, server
<1>3. CASE ServerAnswers
  BY <1>3, TakesKeepsProofs DEF ServerAnswers, Answer
<1>4. CASE Duplicate
  BY <1>4, TakesKeepsProofs DEF Duplicate
<1>5. CASE Expire \/ (\E k \in {"as", "rs", "challenge"} : Rotate(k)) \/ UserActs \/ Ended
  BY <1>1, <1>5 DEF Expire, Rotate, UserActs, Authorize, Redirected, Ended, vars, server
<1>6. CASE OtherClient
  <2>1. CASE \E request, auth : OtherAuthorizes(request, auth)
    BY <1>1, <2>1 DEF OtherAuthorizes
  <2>2. ASSUME NEW code, NEW grant, NEW verifier, NEW proof, NEW auth,
               OtherRedeems(code, grant, verifier, proof, auth)
        PROVE  ProofInv'
    BY <2>2, TakesKeepsProofs DEF OtherRedeems, Takes, OtherTokenRequest
  <2>3. ASSUME NEW token, NEW scheme, NEW proof, OtherUses(token, scheme, proof)
        PROVE  ProofInv'
    <3> DEFINE r == OtherTokenRequest(token, None, None, proof, [att |-> None, pop |-> None])
               q == [r EXCEPT !.to = "resource", !.scheme = scheme]
    <3>1. q.to = "resource" /\ TakesResource(q)
      BY <2>3 DEF OtherUses, OtherTokenRequest
    <3> HIDE DEF q
    <3>2. Takes(q, TRUE)
      BY <3>1 DEF Takes
    <3> QED BY <3>2, TakesKeepsProofs
  <2> QED BY <1>6, <2>1, <2>2, <2>3 DEF OtherClient
<1>7. CASE UNCHANGED vars
  BY <1>1, <1>7 DEF vars
<1> QED BY <1>2, <1>3, <1>4, <1>5, <1>6, <1>7 DEF Next

\* verifyDpopJwt accepts no proof twice and refuses as a replay only what it
\* accepted, whatever is sent, lost, repeated or delivered twice.
THEOREM ProofsCountOnce == Spec => []ProofOnce
<1>1. Init => ProofInv
  BY DEF Init, ProofInv, ProofOnce
<1>2. ProofInv /\ [Next]_vars => ProofInv'
  BY ProofStep
<1>3. ProofInv => ProofOnce
  BY DEF ProofInv
<1> QED BY <1>1, <1>2, <1>3, PTL DEF Spec

-----------------------------------------------------------------------------
(* A bound token serves the holder of its key *)

\* A client signs its proofs with its own key, whatever key they name.
SignedByOwner(q) == q.proof # None => q.proof.sig = KeyOf[q.from]

HolderInv ==
    /\ TokenServesItsHolder
    /\ net # None => SignedByOwner(net)
    /\ dup # None => SignedByOwner(dup)

\* A resource server that serves a bound token saw a proof of its key.
LEMMA ServedByKey ==
  ASSUME NEW q, ResourceVerdict(q) = Ok, q.code.jkt # None
  PROVE  q.proof # None /\ q.proof.sig = q.code.jkt
<1> DEFINE o == DpopOptions(q, None)
           p == [o EXCEPT !.jkt = q.code.jkt]
<1>1. ResourceRequestError(q, VerifiedToken(q.code), o) = Ok
  BY TwoOk DEF ResourceVerdict
<1>2. VerifiedToken(q.code) = q.code
  BY <1>1 DEF VerifiedToken, ResourceRequestError, Ok
<1>3. NeedsDpop(q, q.code)
  BY DEF NeedsDpop
<1> DEFINE a == Check(q.proof # None, "invalid_dpop_proof")
           b == Check(q.code.jkt # None, "invalid_token")
           c == Check(q.proof # None => DpopAccepted(q.proof, p), "invalid_dpop_proof")
<1>4. FirstError(<<a, b, c>>) = Ok
  BY <1>1, <1>2, <1>3 DEF ResourceRequestError, Ok
<1>5. a = Ok /\ c = Ok
  <2> HIDE DEF a, b, c
  <2> QED BY <1>4, ThreeOk
<1>6. q.proof # None /\ DpopAccepted(q.proof, p)
  BY <1>5 DEF Check, Ok
<1>7. p.jkt = q.code.jkt
  BY DEF DpopOptions
<1> QED BY <1>6, <1>7 DEF DpopAccepted, DpopVerifies

LEMMA TakesKeepsServed ==
  ASSUME TokenServesItsHolder, NEW q, NEW opens, SignedByOwner(q), Takes(q, opens)
  PROVE  TokenServesItsHolder'
<1>1. CASE served' = served
  BY <1>1 DEF TokenServesItsHolder
<1>2. CASE TakesResource(q)
  BY <1>1, <1>2, ServedByKey DEF TakesResource, TokenServesItsHolder, SignedByOwner
<1> QED BY <1>1, <1>2 DEF Takes, TakesAuthorization, TakesToken

\* The wallet signs every proof of its requests with its key.
LEMMA RequestSigned ==
  ASSUME NEW c
  PROVE  SignedByOwner(Request(c))
<1>1. Request(c).from = "w" /\ Request(c).proof = DpopHeader(c)
  BY DEF Request
<1>2. DpopHeader(c) = None \/ DpopHeader(c).sig = "kW"
  BY DEF DpopHeader, Proof
<1> QED BY <1>1, <1>2 DEF SignedByOwner, KeyOf

LEMMA OtherSigned ==
  ASSUME NEW to, NEW n, NEW ath, NEW proof \in OtherProofs(to, n, ath)
  PROVE  proof = None \/ proof.sig = "kX"
BY DEF OtherProofs, Proof

LEMMA HolderStep ==
  ASSUME HolderInv, [Next]_vars
  PROVE  HolderInv'
<1>1. ASSUME UNCHANGED <<served, dup>>, net' = net \/ net' = None \/ \E c : net' = Request(c)
      PROVE  HolderInv'
  BY <1>1, RequestSigned DEF HolderInv, TokenServesItsHolder, SignedByOwner
<1>2. CASE WalletSteps \/ ConnectionFails
  <2>1. UNCHANGED <<served, dup>>
    BY <1>2 DEF WalletSteps, ConnectionFails, Discover, RetryWithNonce, RetryWithChallenge, CallFails,
       AfterChallenge, AfterPar, AfterToken, AfterResource, server
  <2>2. net' = net \/ net' = None \/ \E c : net' = Request(c)
    BY <1>2 DEF WalletSteps, ConnectionFails, Discover, RetryWithNonce, RetryWithChallenge, CallFails,
       AfterChallenge, AfterPar, AfterToken, AfterResource, Fails, CreateAuthorizationRequestUrl, Begin, Send
  <2> QED BY <1>1, <2>1, <2>2
<1>3. CASE ServerAnswers
  <2>1. PICK opens : net # None /\ Takes(net, opens) /\ net' = None /\ (dup' = dup \/ dup' = net)
    BY <1>3 DEF ServerAnswers, Answer
  <2>2. TokenServesItsHolder'
    BY <2>1, TakesKeepsServed DEF HolderInv
  <2> QED BY <2>1, <2>2 DEF HolderInv, SignedByOwner
<1>4. CASE Duplicate
  <2>1. dup # None /\ Takes(dup, TRUE) /\ dup' = None /\ net' = net
    BY <1>4 DEF Duplicate
  <2>2. TokenServesItsHolder'
    BY <2>1, TakesKeepsServed DEF HolderInv
  <2> QED BY <2>1, <2>2 DEF HolderInv, SignedByOwner
<1>5. CASE Expire \/ (\E k \in {"as", "rs", "challenge"} : Rotate(k)) \/ UserActs \/ Ended
  <2>1. UNCHANGED <<served, dup>>
    BY <1>5 DEF Expire, Rotate, UserActs, Authorize, Redirected, Ended, vars, server
  <2>2. net' = net \/ net' = None \/ \E c : net' = Request(c)
    BY <1>5 DEF Expire, Rotate, UserActs, Authorize, Redirected, Ended, vars, Begin, Send
  <2> QED BY <1>1, <2>1, <2>2
<1>6. CASE OtherClient
  <2>1. UNCHANGED <<net, dup>>
    BY <1>6 DEF OtherClient, OtherAuthorizes, OtherRedeems, OtherUses, OtherMoves
  <2>2. CASE served' = served
    BY <2>1, <2>2 DEF HolderInv, TokenServesItsHolder, SignedByOwner
  <2>3. CASE served' # served
    <3>1. PICK token, scheme, proof :
                 /\ proof \in OtherProofs("resource", ExpectedNonce([to |-> "resource"]), token)
                 /\ OtherUses(token, scheme, proof)
      <4>1. ASSUME NEW request, NEW auth, OtherAuthorizes(request, auth) PROVE FALSE
        BY <2>3, <4>1 DEF OtherAuthorizes
      <4>2. ASSUME NEW code, NEW grant, NEW verifier, NEW proof, NEW auth,
                   OtherRedeems(code, grant, verifier, proof, auth)
            PROVE  FALSE
        BY <2>3, <4>2 DEF OtherRedeems, TakesToken
      <4> QED BY <1>6, <4>1, <4>2, Zenon DEF OtherClient
    <3> DEFINE r == OtherTokenRequest(token, None, None, proof, [att |-> None, pop |-> None])
               q == [r EXCEPT !.to = "resource", !.scheme = scheme]
    <3>2. q.from = "x" /\ q.proof = proof /\ q.to = "resource"
      BY DEF OtherTokenRequest
    <3>3. TakesResource(q)
      BY <3>1 DEF OtherUses
    <3> HIDE DEF q
    <3>4. SignedByOwner(q)
      BY <3>1, <3>2, OtherSigned DEF SignedByOwner, KeyOf
    <3>5. Takes(q, TRUE)
      BY <3>2, <3>3 DEF Takes
    <3>6. TokenServesItsHolder'
      BY <3>4, <3>5, TakesKeepsServed DEF HolderInv
    <3> QED BY <2>1, <3>6 DEF HolderInv, SignedByOwner
  <2> QED BY <2>2, <2>3
<1>7. CASE UNCHANGED vars
  BY <1>1, <1>7 DEF vars
<1> QED BY <1>2, <1>3, <1>4, <1>5, <1>6, <1>7 DEF Next

\* verifyResourceRequest serves a token bound to a key to the client that
\* signs with this key, in every configuration.
THEOREM HolderIsServed == Spec => []TokenServesItsHolder
<1>1. Init => HolderInv
  BY DEF Init, HolderInv, TokenServesItsHolder
<1>2. HolderInv /\ [Next]_vars => HolderInv'
  BY HolderStep
<1>3. HolderInv => TokenServesItsHolder
  BY DEF HolderInv
<1> QED BY <1>1, <1>2, <1>3, PTL DEF Spec

-----------------------------------------------------------------------------
(* A grant is redeemed by the client it was made for *)

\* The wallet has not yet come back from the authorization.
Early == at \in {"discover", "browser"} \/ (at = "calling" /\ call.to \in {"par", "challenge"})

WalletChallenge == CodeChallenge(cfg.pkce, "vW")

\* A request has these fields, and so has a call.
RequestShape(q) ==
    q = [from |-> q.from, to |-> q.to, proof |-> q.proof, client_id |-> q.client_id, byReference |-> q.byReference,
         jar |-> q.jar, att |-> q.att, pop |-> q.pop, dpop_jkt |-> q.dpop_jkt, code_challenge |-> q.code_challenge,
         code_verifier |-> q.code_verifier, tx_code |-> q.tx_code, code |-> q.code, grant |-> q.grant,
         scheme |-> q.scheme]
CallShape(c) ==
    /\ c = [to |-> c.to, nonce |-> c.nonce, challenge |-> c.challenge, dpopRetried |-> c.dpopRetried,
            challengeRetried |-> c.challengeRetried, code |-> c.code, grant |-> c.grant]
    /\ c.to \in {"none", "par", "challenge", "token", "resource"}
    /\ c.to = "token" => c.code \in Sessions

\* What every request of the wallet carries.
WalletMade(q) ==
    /\ RequestShape(q)
    /\ q.from = "w"
    /\ SignedByOwner(q)
    /\ q.dpop_jkt = None
    /\ q.jar # None => q.to = "par" /\ q.jar = WalletRequestObject
    /\ q.to \in {"par", "challenge"} /\ cfg.pkce # None => q.code_challenge = WalletChallenge
    /\ q.to # "resource" /\ cfg.auth # "public" => q.att = WalletAttestation
    /\ q.to = "token" => /\ q.code \in Sessions
                         /\ q.grant = "authorization_code" /\ cfg.pkce # None => q.code_verifier = "vW"

\* The wallet refreshes a grant of the other client only after redeeming it.
RefreshesItsOwn(q) ==
    q.to = "token" /\ q.code = "other" /\ q.grant = "refresh_token" =>
        \E t \in tokens : t.session = "other" /\ t.to = "w"

CallInv ==
    /\ net # None \/ resp # None => at = "calling"
    /\ net # None => /\ WalletMade(net) /\ RefreshesItsOwn(net)
                     /\ net.to = call.to /\ net.code = call.code
    /\ dup # None => /\ WalletMade(dup) /\ RefreshesItsOwn(dup)
                     /\ dup.to \in {"token", "resource"} /\ ~Early
    /\ CallShape(call)
    /\ RefreshesItsOwn(call)
    /\ resp # None /\ call.to = "token" /\ resp.error = Ok =>
          \E t \in tokens : t.session = call.code /\ t.to = "w"

\* A wallet that pushes its request comes to the browser with a session.
PushedInv ==
    /\ resp # None /\ call.to = "par" /\ resp.error = Ok => Pushed
    /\ resp # None /\ call.to = "challenge" /\ resp.result = "request_uri" => Pushed
    /\ at = "browser" /\ cfg.par => Pushed
    /\ Early /\ cfg.grant = "pre-authorized_code" => at = "discover"

\* What an authorization of the wallet leaves in its session.
BoundToWallet(s) ==
    /\ cfg.pkce # None => s.challenge = WalletChallenge
    /\ cfg.dpop /\ cfg.requireDpop => s.jkt = "kW"
    /\ cfg.par /\ cfg.auth = "attest" => s.cnf = "kW"

\* What a token request of the wallet leaves there.
RefreshBound(s) ==
    /\ cfg.dpop /\ cfg.requireDpop => s.jkt = "kW"
    /\ cfg.auth # "public" => s.cnf = "kW"

WalletSession(s) ==
    /\ s.grants \subseteq {"authorization_code", "pre-authorized_code", "refresh_token"}
    /\ Early => s.grants \subseteq {cfg.grant} \cap {"pre-authorized_code"}
    /\ Early /\ s.by = "w" => BoundToWallet(s)
    /\ "authorization_code" \in s.grants => cfg.grant = "authorization_code" /\ BoundToWallet(s)
    /\ "pre-authorized_code" \in s.grants => cfg.grant = "pre-authorized_code" /\ s.tx_code = cfg.tx_code
    /\ "refresh_token" \in s.grants /\ Protected(cfg.grant) => RefreshBound(s)

OtherSession(s) ==
    /\ s.grants \subseteq {"authorization_code", "refresh_token"}
    /\ s.by = None => s.grants = {} /\ \A t \in tokens : t.session # "other"
    /\ s.by # None /\ s.signedFor # "cW" => s.challenge \in {None, CodeChallenge("S256", "vX")}
    /\ "authorization_code" \in s.grants /\ s.signedFor = "cW" =>
          /\ cfg.pkce # None => s.challenge = WalletChallenge
          /\ cfg.dpop => s.jkt = "kW"
          /\ ~cfg.requireAttestation
    /\ "refresh_token" \in s.grants /\ s.signedFor = "cW" /\ ObjectProtected("authorization_code") =>
          RefreshBound(s)

\* session is a function of the sessions to records of these fields.
SessionRecord(r) ==
    r = [by |-> r.by, grants |-> r.grants, challenge |-> r.challenge, jkt |-> r.jkt, clientId |-> r.clientId,
         cnf |-> r.cnf, expired |-> r.expired, signedFor |-> r.signedFor, tx_code |-> r.tx_code]
SessionShape ==
    /\ session = [s \in Sessions |-> session[s]]
    /\ \A s \in Sessions : SessionRecord(session[s])

GrantsInv ==
    /\ SessionShape
    /\ WalletSession(session["wallet"])
    /\ OtherSession(session["other"])
    /\ RedeemedByItsClient

RedeemInv == cfg \in Configs /\ CallInv /\ PushedInv /\ GrantsInv

\* What the constants give.
LEMMA NoneFacts ==
  /\ None # "w" /\ None # "x" /\ None # "kW" /\ None # "vW" /\ None # "vX" /\ None # "cW" /\ None # "issuer"
  /\ None # WalletAttestation
  /\ cfg \in Configs /\ cfg.pkce # None => None # WalletChallenge
  /\ cfg \in Configs /\ cfg.pkce # None => CodeChallenge("S256", "vX") # WalletChallenge
<1>1. None # "w" /\ None # "x" /\ None # "kW" /\ None # "vW" /\ None # "vX" /\ None # "cW" /\ None # "issuer"
  BY NoneAssumption
<1>2. None # WalletAttestation
  BY NoneAssumption DEF WalletAttestation, Attestation
<1>3. cfg \in Configs /\ cfg.pkce # None => None # WalletChallenge
  BY NoneAssumption, ConfigAssumption DEF WalletChallenge, CodeChallenge
<1>4. cfg \in Configs /\ cfg.pkce # None => CodeChallenge("S256", "vX") # WalletChallenge
  BY DEF WalletChallenge, CodeChallenge
<1> QED BY <1>1, <1>2, <1>3, <1>4

\* verifyAccessTokenRequestPkce
LEMMA PkceAccepted ==
  ASSUME NEW challenge, NEW verifier, PkceError(challenge, verifier) = Ok
  PROVE  /\ challenge = None => verifier = None
         /\ challenge # None => verifier # None /\ CodeChallenge(challenge.method, verifier) = challenge
<1> DEFINE a == Check(challenge = None => verifier = None, "invalid_grant")
           b == Check(challenge # None => verifier # None, "invalid_grant")
           c == Check(challenge # None => CodeChallenge(challenge.method, verifier) = challenge, "invalid_grant")
<1>1. FirstError(<<a, b, c>>) = Ok
  BY DEF PkceError
<1>2. a = Ok /\ b = Ok /\ c = Ok
  <2> HIDE DEF a, b, c
  <2> QED BY <1>1, ThreeOk
<1> QED BY <1>2 DEF Check, Ok

\* verifyAccessTokenRequest: what an accepted request had to satisfy.
LEMMA TokenAccepted ==
  ASSUME NEW q, TokenVerdict(q) = Ok
  PROVE  /\ q.grant \in session[q.code].grants
         /\ q.grant = "pre-authorized_code" => q.tx_code = session[q.code].tx_code
         /\ PkceError(Challenge(q), q.code_verifier) = Ok
         /\ cfg.requireDpop => q.proof # None
         /\ q.proof # None => DpopAccepted(q.proof, TokenDpop(q))
         /\ TokenAttestationError(q, AttestationOptions(q, session[q.code].clientId, session[q.code].cnf),
                                  ProofKey(q)) = Ok
<1> DEFINE s == session[q.code]
           o == AttestationOptions(q, s.clientId, s.cnf)
           pkce == PkceError(Challenge(q), q.code_verifier)
           dpop == TokenDpopError(q, TokenDpop(q))
           att == TokenAttestationError(q, o, ProofKey(q))
           grant == GrantError(q, s)
<1>1. AccessTokenRequestError(q, s, Challenge(q), TokenDpop(q), o) = Ok
  <2> DEFINE b == AccessTokenRequestError(q, s, Challenge(q), TokenDpop(q), o)
  <2>1. FirstError(<<AskedFor(q), b>>) = Ok
    BY DEF TokenVerdict
  <2> HIDE DEF b
  <2> QED BY <2>1, TwoOk DEF b
<1>2. pkce = Ok /\ dpop = Ok /\ att = Ok /\ grant = Ok
  <2>1. FirstError(<<ParseError(q), pkce, dpop, att, grant>>) = Ok
    BY <1>1 DEF AccessTokenRequestError
  <2> HIDE DEF pkce, dpop, att, grant
  <2> QED BY <2>1, FiveOk
<1>3. /\ cfg.requireDpop => q.proof # None
      /\ q.proof # None => DpopAccepted(q.proof, TokenDpop(q))
  <2> DEFINE a == Check(TokenDpop(q).required => q.proof # None, "invalid_dpop_proof")
             b == Check(q.proof # None => DpopAccepted(q.proof, TokenDpop(q)), "invalid_dpop_proof")
  <2>1. FirstError(<<a, b>>) = Ok
    BY <1>2 DEF TokenDpopError
  <2>2. a = Ok /\ b = Ok
    <3> HIDE DEF a, b
    <3> QED BY <2>1, TwoOk
  <2>3. TokenDpop(q).required = cfg.requireDpop
    BY DEF TokenDpop, DpopOptions
  <2> QED BY <2>2, <2>3 DEF Check, Ok
<1>4. q.grant \in s.grants /\ (q.grant = "pre-authorized_code" => q.tx_code = s.tx_code)
  <2> DEFINE a == Check(q.grant \in s.grants, "invalid_grant")
             b == Check(q.grant = "pre-authorized_code" /\ s.tx_code = None => q.tx_code = None, "invalid_request")
             c == Check(q.grant = "pre-authorized_code" /\ s.tx_code # None => q.tx_code # None, "invalid_request")
             d == Check(q.grant = "pre-authorized_code" => q.tx_code = s.tx_code, "invalid_grant")
             e == Check(~s.expired, "invalid_grant")
  <2>1. FirstError(<<a, b, c, d, e>>) = Ok
    BY <1>2 DEF GrantError
  <2>2. a = Ok /\ d = Ok
    <3> HIDE DEF a, b, c, d, e
    <3> QED BY <2>1, FiveOk
  <2> QED BY <2>2 DEF Check, Ok
<1> QED BY <1>2, <1>3, <1>4

\* The token request of the other client for a grant of session s: it can
\* prove neither the wallet's verifier nor its keys.
OtherMade(q) ==
    /\ q.from = "x" /\ q.to = "token" /\ q.tx_code = None
    /\ q.code \in Sessions
    /\ q.code_verifier \in {None, "vX"}
    /\ q.proof # None => q.proof.sig = "kX"
    /\ q.att \in {None, OtherAttestation, WalletAttestation, Attestation("cW", "kX", "self")}
    /\ q.pop # None => q.pop.sig = "kX"

LEMMA AttestationAccepted ==
  ASSUME NEW q, NEW o, NEW jkt, q.att # None, q.pop # None,
         AttestationWithPopError(q, o, jkt) = Ok
  PROVE  AttestationVerifies(q.att, o) /\ PopVerifies(q.pop, q.att, o)
<1> DEFINE a == Check(AttestationVerifies(q.att, o) /\ PopVerifies(q.pop, q.att, o), "invalid_client")
           b == Check(o.matchKeys /\ jkt # None => q.att.cnf = jkt, "invalid_request")
<1>1. FirstError(<<a, b>>) = Ok
  BY DEF AttestationWithPopError
<1>2. a = Ok
  <2> HIDE DEF a, b
  <2> QED BY <1>1, TwoOk
<1> QED BY <1>2 DEF Check, Ok

LEMMA OtherRefused ==
  ASSUME cfg \in Configs, NEW q, OtherMade(q), TokenVerdict(q) = Ok
  PROVE  /\ q.grant = "authorization_code" /\ cfg.pkce # None => session[q.code].challenge # WalletChallenge
         /\ q.grant = "pre-authorized_code" => session[q.code].tx_code = None
         /\ cfg.requireDpop => session[q.code].jkt # "kW"
         /\ session[q.code].cnf # "kW"
<1> DEFINE s == session[q.code]
           o == AttestationOptions(q, s.clientId, s.cnf)
<1>1. ASSUME q.grant = "authorization_code", cfg.pkce # None, s.challenge = WalletChallenge PROVE FALSE
  <2>1. PkceError(s.challenge, q.code_verifier) = Ok
    BY <1>1, TokenAccepted DEF Challenge
  <2>2. s.challenge # None
    BY <1>1, NoneFacts
  <2>3. q.code_verifier = "vX" /\ CodeChallenge(s.challenge.method, "vX") = s.challenge
    BY <2>1, <2>2, PkceAccepted DEF OtherMade
  <2> QED BY <1>1, <2>3 DEF WalletChallenge, CodeChallenge
<1>2. q.grant = "pre-authorized_code" => s.tx_code = None
  BY TokenAccepted DEF OtherMade
<1>3. ASSUME cfg.requireDpop, s.jkt = "kW" PROVE FALSE
  <2>1. q.proof # None /\ DpopAccepted(q.proof, TokenDpop(q))
    BY <1>3, TokenAccepted
  <2>2. TokenDpop(q).jkt = "kW"
    BY <1>3 DEF TokenDpop, DpopOptions
  <2> QED BY <2>1, <2>2, NoneFacts DEF DpopAccepted, DpopVerifies, OtherMade
<1>4. ASSUME s.cnf = "kW" PROVE FALSE
  <2>1. TokenAttestationError(q, o, ProofKey(q)) = Ok
    BY TokenAccepted
  <2>2. o.cnf = "kW" /\ o.cnf # None
    BY <1>4, NoneFacts DEF AttestationOptions
  <2>3. q.att # None
    BY <2>1, <2>2 DEF TokenAttestationError, Check, Ok
  <2>4. CASE q.pop # None
    <3>1. AttestationVerifies(q.att, o) /\ PopVerifies(q.pop, q.att, o)
      BY <2>1, <2>3, <2>4, AttestationAccepted DEF TokenAttestationError
    <3>2. q.att.cnf = "kW" /\ q.pop.sig = q.att.cnf
      BY <2>2, <3>1 DEF AttestationVerifies, PopVerifies
    <3> QED BY <2>4, <3>2 DEF OtherMade
  <2>5. CASE q.pop = None
    <3> DEFINE m == Check(o.methods # None => "attest_dpop" \in o.methods, "invalid_client")
               a == Check(ProofKey(q) # None, "invalid_client")
               b == Check(AttestationVerifies(q.att, o), "invalid_client")
               c == Check(q.att.cnf = ProofKey(q), "invalid_request")
    <3>1. FirstError(<<m, a, b, c>>) = Ok
      BY <2>1, <2>3, <2>5 DEF TokenAttestationError, AttestationDpopBoundError
    <3>2. a = Ok /\ b = Ok /\ c = Ok
      <4> HIDE DEF m, a, b, c
      <4> QED BY <3>1, FourOk
    <3>3. ProofKey(q) # None /\ AttestationVerifies(q.att, o) /\ q.att.cnf = ProofKey(q)
      BY <3>2 DEF Check, Ok
    <3>4. q.proof # None /\ q.proof.jwk = "kW"
      BY <2>2, <3>3 DEF AttestationVerifies, ProofKey
    <3>5. DpopAccepted(q.proof, TokenDpop(q))
      BY <3>4, TokenAccepted
    <3> QED BY <3>4, <3>5 DEF DpopAccepted, DpopVerifies, OtherMade
  <2> QED BY <2>4, <2>5
<1> QED BY <1>1, <1>2, <1>3, <1>4

LEMMA WalletRedeems ==
  ASSUME cfg \in Configs, NEW q, WalletMade(q), q.to = "token", TokenVerdict(q) = Ok
  PROVE  /\ q.grant = "authorization_code" /\ cfg.pkce # None =>
               session[q.code].challenge \notin {None, CodeChallenge("S256", "vX")}
         /\ cfg.requireDpop => ProofKey(q) = "kW"
         /\ cfg.auth # "public" => q.att # None /\ q.att.cnf = "kW"
<1> DEFINE s == session[q.code]
<1>1. ASSUME q.grant = "authorization_code", cfg.pkce # None, s.challenge \in {None, CodeChallenge("S256", "vX")}
      PROVE  FALSE
  <2>1. PkceError(s.challenge, q.code_verifier) = Ok /\ q.code_verifier = "vW"
    BY <1>1, TokenAccepted DEF Challenge, WalletMade
  <2>2. s.challenge # None
    BY <2>1, PkceAccepted, NoneFacts
  <2>3. CodeChallenge(s.challenge.method, "vW") = CodeChallenge("S256", "vX")
    BY <1>1, <2>1, <2>2, PkceAccepted
  <2> QED BY <2>3 DEF CodeChallenge
<1>2. ASSUME cfg.requireDpop PROVE ProofKey(q) = "kW"
  BY <1>2, TokenAccepted DEF WalletMade, SignedByOwner, KeyOf, DpopAccepted, DpopVerifies, ProofKey
<1>3. ASSUME cfg.auth # "public" PROVE q.att # None /\ q.att.cnf = "kW"
  <2>1. q.att = WalletAttestation
    BY <1>3 DEF WalletMade
  <2> QED BY <2>1, NoneFacts DEF WalletAttestation, Attestation
<1> QED BY <1>1, <1>2, <1>3

LEMMA SessionReplaced ==
  ASSUME SessionShape, NEW c \in Sessions, NEW n, SessionRecord(n), session' = [session EXCEPT ![c] = n]
  PROVE  /\ SessionShape'
         /\ session'[c] = n
         /\ \A s \in Sessions \ {c} : session'[s] = session[s]
<1>1. session' = [s \in Sessions |-> session'[s]]
  BY DEF SessionShape
<1>2. session'[c] = n /\ \A s \in Sessions \ {c} : session'[s] = session[s]
  BY DEF SessionShape
<1>3. ASSUME NEW s \in Sessions PROVE SessionRecord(session'[s])
  BY <1>2 DEF SessionShape
<1>4. SessionShape'
  BY <1>1, <1>3, Zenon DEF SessionShape, SessionRecord
<1> QED BY <1>2, <1>4

\* A session whose grants or expiry are set keeps the rest.
LEMMA SessionSet ==
  ASSUME NEW r, SessionRecord(r), NEW g
  PROVE  /\ LET n == [r EXCEPT !.grants = g]
            IN  /\ SessionRecord(n) /\ n.grants = g /\ n.by = r.by /\ n.challenge = r.challenge /\ n.jkt = r.jkt
                /\ n.cnf = r.cnf /\ n.signedFor = r.signedFor /\ n.tx_code = r.tx_code
         /\ LET n == [r EXCEPT !.expired = g]
            IN  /\ SessionRecord(n) /\ n.grants = r.grants /\ n.by = r.by /\ n.challenge = r.challenge
                /\ n.jkt = r.jkt /\ n.cnf = r.cnf /\ n.signedFor = r.signedFor /\ n.tx_code = r.tx_code
<1> DEFINE Rec(by, grants, challenge, jkt, clientId, cnf, expired, signedFor, tx_code) ==
               [by |-> by, grants |-> grants, challenge |-> challenge, jkt |-> jkt, clientId |-> clientId,
                cnf |-> cnf, expired |-> expired, signedFor |-> signedFor, tx_code |-> tx_code]
<1>1. PICK by, grants, challenge, jkt, clientId, cnf, expired, signedFor, tx_code :
         r = Rec(by, grants, challenge, jkt, clientId, cnf, expired, signedFor, tx_code)
  <2> HIDE DEF Rec
  <2>1. r = Rec(r.by, r.grants, r.challenge, r.jkt, r.clientId, r.cnf, r.expired, r.signedFor, r.tx_code)
    BY Zenon DEF SessionRecord, Rec
  <2> QED BY <2>1
<1>2. [r EXCEPT !.grants = g] = Rec(by, g, challenge, jkt, clientId, cnf, expired, signedFor, tx_code)
  BY <1>1
<1>3. [r EXCEPT !.expired = g] = Rec(by, grants, challenge, jkt, clientId, cnf, g, signedFor, tx_code)
  BY <1>1
<1>4. ASSUME NEW a, NEW b
      PROVE  SessionRecord(Rec(by, a, challenge, jkt, clientId, cnf, b, signedFor, tx_code))
  BY DEF SessionRecord
<1>5. SessionRecord([r EXCEPT !.grants = g]) /\ SessionRecord([r EXCEPT !.expired = g])
  <2> HIDE DEF Rec
  <2> QED BY <1>2, <1>3, <1>4
<1>6. LET n == [r EXCEPT !.grants = g]
      IN  /\ n.grants = g /\ n.by = r.by /\ n.challenge = r.challenge /\ n.jkt = r.jkt
          /\ n.cnf = r.cnf /\ n.signedFor = r.signedFor /\ n.tx_code = r.tx_code
  BY <1>1, <1>2
<1>7. LET n == [r EXCEPT !.expired = g]
      IN  /\ n.grants = r.grants /\ n.by = r.by /\ n.challenge = r.challenge /\ n.jkt = r.jkt
          /\ n.cnf = r.cnf /\ n.signedFor = r.signedFor /\ n.tx_code = r.tx_code
  BY <1>1, <1>3
<1> QED BY <1>5, <1>6, <1>7, Zenon

\* What the token endpoint leaves behind.
LEMMA TokenTaken ==
  ASSUME SessionShape, NEW q, q.code \in Sessions, TakesToken(q), TokenVerdict(q) = Ok
  PROVE  /\ tokens' = tokens \cup {Token(q)}
         /\ SessionShape'
         /\ \A s \in Sessions \ {q.code} : session'[s] = session[s]
         /\ session'[q.code].grants = (IF cfg.refresh THEN {"refresh_token"} ELSE {})
         /\ session'[q.code].jkt = ProofKey(q)
         /\ session'[q.code].cnf = (IF q.att = None THEN None ELSE q.att.cnf)
         /\ session'[q.code].by = session[q.code].by
         /\ session'[q.code].challenge = session[q.code].challenge
         /\ session'[q.code].signedFor = session[q.code].signedFor
<1> DEFINE g == IF cfg.refresh THEN {"refresh_token"} ELSE {}
           k == IF q.att = None THEN None ELSE q.att.cnf
           r == session[q.code]
           Rec(by, grants, challenge, jkt, clientId, cnf, expired, signedFor, tx_code) ==
               [by |-> by, grants |-> grants, challenge |-> challenge, jkt |-> jkt, clientId |-> clientId,
                cnf |-> cnf, expired |-> expired, signedFor |-> signedFor, tx_code |-> tx_code]
<1>1. /\ tokens' = tokens \cup {Token(q)}
      /\ session' = [session EXCEPT ![q.code].grants = g, ![q.code].jkt = ProofKey(q), ![q.code].cnf = k]
  BY DEF TakesToken
<1>2. PICK by, grants, challenge, jkt, clientId, cnf, expired, signedFor, tx_code :
         r = Rec(by, grants, challenge, jkt, clientId, cnf, expired, signedFor, tx_code)
  <2> HIDE DEF Rec
  <2>1. r = Rec(r.by, r.grants, r.challenge, r.jkt, r.clientId, r.cnf, r.expired, r.signedFor, r.tx_code)
    BY Zenon DEF SessionShape, SessionRecord, Rec
  <2> HIDE DEF r
  <2> QED BY <2>1
<1> DEFINE n == Rec(by, g, challenge, ProofKey(q), clientId, k, expired, signedFor, tx_code)
<1> HIDE DEF g, k
<1>3. session' = [session EXCEPT ![q.code] = n]
  <2> HIDE DEF r
  <2>1. [[[r EXCEPT !.grants = g] EXCEPT !.jkt = ProofKey(q)] EXCEPT !.cnf = k] = n
    <3>1. [r EXCEPT !.grants = g] = Rec(by, g, challenge, jkt, clientId, cnf, expired, signedFor, tx_code)
      BY <1>2
    <3>2. [Rec(by, g, challenge, jkt, clientId, cnf, expired, signedFor, tx_code) EXCEPT !.jkt = ProofKey(q)]
             = Rec(by, g, challenge, ProofKey(q), clientId, cnf, expired, signedFor, tx_code)
      OBVIOUS
    <3>3. [Rec(by, g, challenge, ProofKey(q), clientId, cnf, expired, signedFor, tx_code) EXCEPT !.cnf = k] = n
      OBVIOUS
    <3> HIDE DEF Rec
    <3> QED BY <3>1, <3>2, <3>3
  <2> QED BY <1>1, <2>1 DEF SessionShape, r
<1>4. SessionRecord(n)
  BY DEF SessionRecord
<1>5. n.by = r.by /\ n.grants = g /\ n.challenge = r.challenge /\ n.jkt = ProofKey(q) /\ n.cnf = k
      /\ n.signedFor = r.signedFor
  <2> HIDE DEF r
  <2> QED BY <1>2
<1>6. SessionShape' /\ session'[q.code] = n /\ \A s \in Sessions \ {q.code} : session'[s] = session[s]
  <2> HIDE DEF n
  <2> QED BY <1>3, <1>4, SessionReplaced
<1> HIDE DEF n
<1> QED BY <1>1, <1>5, <1>6 DEF g, k

LEMMA GrantsKept ==
  ASSUME GrantsInv, UNCHANGED <<cfg, session, tokens>>, Early' => Early
  PROVE  GrantsInv'
<1>1. SessionShape'
  BY Zenon DEF GrantsInv, SessionShape, SessionRecord
<1>2. WalletSession(session["wallet"])'
  BY DEF GrantsInv, WalletSession, BoundToWallet, RefreshBound, WalletChallenge, Protected
<1>3. OtherSession(session["other"])'
  BY DEF GrantsInv, OtherSession, RefreshBound, WalletChallenge, Protected, ObjectProtected
<1>4. RedeemedByItsClient'
  BY DEF GrantsInv, RedeemedByItsClient, Protected, ObjectProtected
<1> QED BY <1>1, <1>2, <1>3, <1>4 DEF GrantsInv

\* A token request of the wallet, delivered once or twice.
LEMMA WalletTakesToken ==
  ASSUME cfg \in Configs, cfg' = cfg, GrantsInv, ~Early, ~Early',
         NEW q, WalletMade(q), RefreshesItsOwn(q), q.to = "token", TakesToken(q)
  PROVE  GrantsInv'
<1> DEFINE old == session[q.code]
           new == session'[q.code]
<1>1. q.code \in Sessions /\ SessionShape
  BY DEF WalletMade, GrantsInv
<1>2. CASE TokenVerdict(q) # Ok
  BY <1>2, GrantsKept DEF TakesToken
<1>3. CASE TokenVerdict(q) = Ok
  <2>1. /\ tokens' = tokens \cup {Token(q)} /\ SessionShape'
        /\ \A s \in Sessions \ {q.code} : session'[s] = session[s]
        /\ new.grants \subseteq {"refresh_token"}
        /\ new.by = old.by /\ new.challenge = old.challenge /\ new.signedFor = old.signedFor
    BY <1>1, <1>3, TokenTaken
  <2>2. RefreshBound(new)
    <3>1. cfg.requireDpop => new.jkt = "kW"
      BY <1>1, <1>3, TokenTaken, WalletRedeems
    <3>2. cfg.auth # "public" => new.cnf = "kW"
      BY <1>1, <1>3, TokenTaken, WalletRedeems
    <3> QED BY <3>1, <3>2 DEF RefreshBound
  <2>3. Token(q).session = q.code /\ Token(q).to = "w" /\ Token(q).grant = q.grant
    BY DEF Token, WalletMade
  <2>4. q.grant \in old.grants
    BY <1>3, TokenAccepted
  <2> HIDE DEF new, old
  <2>5. CASE q.code = "wallet"
    <3>1. session'["other"] = session["other"] /\ session'["wallet"] = new
      BY <2>1, <2>5 DEF Sessions, new
    <3>2. WalletSession(session["wallet"])'
      BY <2>1, <2>2, <3>1 DEF WalletSession, RefreshBound
    <3>3. OtherSession(session["other"])'
      BY <2>1, <2>3, <2>5, <3>1
         DEF GrantsInv, OtherSession, RefreshBound, WalletChallenge, Protected, ObjectProtected
    <3>4. RedeemedByItsClient'
      BY <2>1, <2>3, <2>5, <3>1 DEF GrantsInv, RedeemedByItsClient, Protected, ObjectProtected
    <3> QED BY <2>1, <3>2, <3>3, <3>4 DEF GrantsInv
  <2>6. CASE q.code = "other"
    <3>1. session'["wallet"] = session["wallet"] /\ session'["other"] = new /\ old = session["other"]
      BY <2>1, <2>6 DEF Sessions, new, old
    <3>2. WalletSession(session["wallet"])'
      BY <3>1 DEF GrantsInv, WalletSession, BoundToWallet, RefreshBound, WalletChallenge, Protected
    <3>3. old.by # None
      BY <2>4, <3>1 DEF GrantsInv, OtherSession
    <3>4. OtherSession(session["other"])'
      BY <2>1, <2>2, <3>1, <3>3 DEF GrantsInv, OtherSession, RefreshBound
    <3>5. cfg.pkce = None \/ old.signedFor = "cW"
      <4> SUFFICES ASSUME cfg.pkce # None, old.signedFor # "cW" PROVE FALSE
        OBVIOUS
      <4>1. CASE q.grant = "authorization_code"
        <5>1. old.challenge \notin {None, CodeChallenge("S256", "vX")}
          BY <1>3, <4>1, WalletRedeems DEF old
        <5> QED BY <3>1, <3>3, <5>1 DEF GrantsInv, OtherSession
      <4>2. CASE q.grant = "refresh_token"
        <5>1. PICK t \in tokens : t.session = "other" /\ t.to = "w"
          BY <2>6, <4>2 DEF RefreshesItsOwn
        <5> QED BY <3>1, <5>1 DEF GrantsInv, RedeemedByItsClient
      <4> QED BY <2>4, <3>1, <4>1, <4>2 DEF GrantsInv, OtherSession
    <3>6. RedeemedByItsClient'
      BY <2>1, <2>3, <2>6, <3>1, <3>5 DEF GrantsInv, RedeemedByItsClient, Protected, ObjectProtected
    <3> QED BY <2>1, <3>2, <3>4, <3>6 DEF GrantsInv
  <2> QED BY <1>1, <2>5, <2>6 DEF Sessions
<1> QED BY <1>2, <1>3

\* A token request of the other client.
LEMMA OtherTakesToken ==
  ASSUME cfg \in Configs, UNCHANGED <<cfg, at, call>>, GrantsInv,
         ~(Early /\ cfg.grant = "pre-authorized_code"), NEW q, OtherMade(q), TakesToken(q)
  PROVE  GrantsInv'
<1> DEFINE old == session[q.code]
           new == session'[q.code]
<1>1. q.code \in Sessions /\ SessionShape
  BY DEF OtherMade, GrantsInv
<1>2. Early' <=> Early
  BY DEF Early
<1>3. CASE TokenVerdict(q) # Ok
  BY <1>2, <1>3, GrantsKept DEF TakesToken
<1>4. CASE TokenVerdict(q) = Ok
  <2>1. /\ tokens' = tokens \cup {Token(q)} /\ SessionShape'
        /\ \A s \in Sessions \ {q.code} : session'[s] = session[s]
        /\ new.grants \subseteq {"refresh_token"}
        /\ new.by = old.by /\ new.challenge = old.challenge /\ new.signedFor = old.signedFor
    BY <1>1, <1>4, TokenTaken
  <2>2. Token(q).session = q.code /\ Token(q).to = "x" /\ Token(q).grant = q.grant
    BY DEF Token, OtherMade
  <2>3. q.grant \in old.grants
    BY <1>4, TokenAccepted
  <2>4. /\ q.grant = "authorization_code" /\ cfg.pkce # None => old.challenge # WalletChallenge
        /\ q.grant = "pre-authorized_code" => old.tx_code = None
        /\ cfg.requireDpop => old.jkt # "kW"
        /\ old.cnf # "kW"
    BY <1>4, OtherRefused
  <2>5. ASSUME RefreshBound(old) PROVE ~Protected("refresh_token") /\ RefreshBound(new)
    BY <2>4, <2>5 DEF RefreshBound, Protected
  <2> HIDE DEF new, old
  <2>6. CASE q.code = "wallet"
    <3>1. session'["other"] = session["other"] /\ session'["wallet"] = new /\ old = session["wallet"]
      BY <2>1, <2>6 DEF Sessions, new, old
    <3>2. ~Early
      BY <2>3, <3>1 DEF GrantsInv, WalletSession
    <3>3. /\ ~Protected(q.grant) \/ (q.grant = "refresh_token" /\ ~Protected(cfg.grant))
          /\ Protected(cfg.grant) => RefreshBound(new)
      <4>1. CASE q.grant = "authorization_code"
        <5>1. BoundToWallet(old) /\ cfg.grant = "authorization_code"
          BY <2>3, <3>1, <4>1 DEF GrantsInv, WalletSession
        <5> QED BY <2>4, <4>1, <5>1 DEF BoundToWallet, Protected
      <4>2. CASE q.grant = "pre-authorized_code"
        <5>1. old.tx_code = cfg.tx_code /\ cfg.grant = "pre-authorized_code"
          BY <2>3, <3>1, <4>2 DEF GrantsInv, WalletSession
        <5> QED BY <2>4, <4>2, <5>1 DEF Protected
      <4>3. CASE q.grant = "refresh_token"
        <5>1. Protected(cfg.grant) => RefreshBound(old)
          BY <2>3, <3>1, <4>3 DEF GrantsInv, WalletSession
        <5> QED BY <2>5, <4>3, <5>1
      <4> QED BY <2>3, <3>1, <4>1, <4>2, <4>3 DEF GrantsInv, WalletSession
    <3>4. WalletSession(session["wallet"])'
      BY <1>2, <2>1, <3>1, <3>2, <3>3 DEF WalletSession, Protected, RefreshBound
    <3>5. OtherSession(session["other"])'
      BY <2>1, <2>2, <2>6, <3>1
         DEF GrantsInv, OtherSession, RefreshBound, WalletChallenge, Protected, ObjectProtected
    <3>6. RedeemedByItsClient'
      BY <2>1, <2>2, <2>6, <3>1, <3>3 DEF GrantsInv, RedeemedByItsClient, Protected, ObjectProtected
    <3> QED BY <2>1, <3>4, <3>5, <3>6 DEF GrantsInv
  <2>7. CASE q.code = "other"
    <3>1. session'["wallet"] = session["wallet"] /\ session'["other"] = new /\ old = session["other"]
      BY <2>1, <2>7 DEF Sessions, new, old
    <3>2. WalletSession(session["wallet"])'
      BY <1>2, <3>1 DEF GrantsInv, WalletSession, BoundToWallet, RefreshBound, WalletChallenge, Protected
    <3>3. old.by # None
      BY <2>3, <3>1 DEF GrantsInv, OtherSession
    <3>4. ASSUME old.signedFor = "cW"
          PROVE  /\ ~ObjectProtected(q.grant) \/ (q.grant = "refresh_token" /\ ~ObjectProtected("authorization_code"))
                 /\ ObjectProtected("authorization_code") => RefreshBound(new)
      <4>1. CASE q.grant = "authorization_code"
        <5>1. /\ cfg.pkce # None => old.challenge = WalletChallenge
              /\ cfg.dpop => old.jkt = "kW"
              /\ ~cfg.requireAttestation
          BY <2>3, <3>1, <3>4, <4>1 DEF GrantsInv, OtherSession
        <5> QED BY <2>4, <4>1, <5>1 DEF ObjectProtected
      <4>2. CASE q.grant = "refresh_token"
        <5>1. ObjectProtected("authorization_code") => RefreshBound(old)
          BY <2>3, <3>1, <3>4, <4>2 DEF GrantsInv, OtherSession
        <5> QED BY <2>5, <4>2, <5>1 DEF ObjectProtected
      <4> QED BY <2>3, <3>1, <4>1, <4>2 DEF GrantsInv, OtherSession
    <3>5. OtherSession(session["other"])'
      BY <2>1, <3>1, <3>3, <3>4 DEF GrantsInv, OtherSession, ObjectProtected, Protected, RefreshBound
    <3>6. RedeemedByItsClient'
      BY <2>1, <2>2, <2>7, <3>1, <3>4 DEF GrantsInv, RedeemedByItsClient, Protected, ObjectProtected
    <3> QED BY <2>1, <3>2, <3>5, <3>6 DEF GrantsInv
  <2> QED BY <1>1, <2>6, <2>7 DEF Sessions
<1> QED BY <1>3, <1>4

\* parsePushedAuthorizationRequest: what stays of a request and what its
\* request object replaces.
LEMMA ParsedRequest ==
  ASSUME NEW q, RequestShape(q)
  PROVE  /\ AuthorizationRequest(q).proof = q.proof
         /\ AuthorizationRequest(q).att = q.att
         /\ AuthorizationRequest(q).pop = q.pop
         /\ AuthorizationRequest(q).jar = q.jar
         /\ q.jar = None => AuthorizationRequest(q) = q
         /\ q.jar # None => /\ AuthorizationRequest(q).client_id = q.jar.client_id
                            /\ AuthorizationRequest(q).code_challenge = q.jar.code_challenge
                            /\ AuthorizationRequest(q).dpop_jkt = q.jar.dpop_jkt
<1> DEFINE Rec(from, to, proof, client_id, byReference, jar, att, pop, dpop_jkt, code_challenge, code_verifier,
               tx_code, code, grant, scheme) ==
               [from |-> from, to |-> to, proof |-> proof, client_id |-> client_id, byReference |-> byReference,
                jar |-> jar, att |-> att, pop |-> pop, dpop_jkt |-> dpop_jkt, code_challenge |-> code_challenge,
                code_verifier |-> code_verifier, tx_code |-> tx_code, code |-> code, grant |-> grant,
                scheme |-> scheme]
<1>1. PICK from, to, proof, client_id, byReference, jar, att, pop, dpop_jkt, code_challenge, code_verifier,
           tx_code, code, grant, scheme :
         q = Rec(from, to, proof, client_id, byReference, jar, att, pop, dpop_jkt, code_challenge, code_verifier,
                 tx_code, code, grant, scheme)
  <2> HIDE DEF Rec
  <2>1. q = Rec(q.from, q.to, q.proof, q.client_id, q.byReference, q.jar, q.att, q.pop, q.dpop_jkt,
                q.code_challenge, q.code_verifier, q.tx_code, q.code, q.grant, q.scheme)
    BY Zenon DEF RequestShape, Rec
  <2> QED BY <2>1
<1>2. CASE q.jar = None
  BY <1>2 DEF AuthorizationRequest
<1>3. CASE q.jar # None
  <2>1. AuthorizationRequest(q) =
           [q EXCEPT !.client_id = q.jar.client_id, !.code_challenge = q.jar.code_challenge,
                     !.dpop_jkt = q.jar.dpop_jkt]
    BY <1>3 DEF AuthorizationRequest
  <2>2. [q EXCEPT !.client_id = q.jar.client_id] =
           Rec(from, to, proof, q.jar.client_id, byReference, jar, att, pop, dpop_jkt, code_challenge,
               code_verifier, tx_code, code, grant, scheme)
    BY <1>1
  <2>3. [Rec(from, to, proof, q.jar.client_id, byReference, jar, att, pop, dpop_jkt, code_challenge,
             code_verifier, tx_code, code, grant, scheme) EXCEPT !.code_challenge = q.jar.code_challenge] =
           Rec(from, to, proof, q.jar.client_id, byReference, jar, att, pop, dpop_jkt, q.jar.code_challenge,
               code_verifier, tx_code, code, grant, scheme)
    OBVIOUS
  <2>4. [Rec(from, to, proof, q.jar.client_id, byReference, jar, att, pop, dpop_jkt, q.jar.code_challenge,
             code_verifier, tx_code, code, grant, scheme) EXCEPT !.dpop_jkt = q.jar.dpop_jkt] =
           Rec(from, to, proof, q.jar.client_id, byReference, jar, att, pop, q.jar.dpop_jkt,
               q.jar.code_challenge, code_verifier, tx_code, code, grant, scheme)
    OBVIOUS
  <2>5. AuthorizationRequest(q) =
           Rec(from, to, proof, q.jar.client_id, byReference, jar, att, pop, q.jar.dpop_jkt,
               q.jar.code_challenge, code_verifier, tx_code, code, grant, scheme)
    <3> HIDE DEF Rec
    <3> QED BY <2>1, <2>2, <2>3, <2>4
  <2> QED BY <1>1, <1>3, <2>5
<1> QED BY <1>2, <1>3

\* verifyAuthorizationRequest: what an accepted request had to satisfy.
LEMMA AuthorizationAccepted ==
  ASSUME NEW q, AuthorizationVerdict(q) = Ok, NEW r, r = AuthorizationRequest(q)
  PROVE  /\ JarError(r, ExpectedSigner(q)) = Ok
         /\ cfg.requireDpop => r.proof # None \/ r.dpop_jkt # None
         /\ r.proof # None => DpopAccepted(r.proof, DpopOptions(q, None))
         /\ AuthorizationAttestationError(r, AttestationOptions(q, r.client_id, None), SessionKey(r)) = Ok
<1> DEFINE o == DpopOptions(q, None)
           dpop == AuthorizationDpopError(r, o)
           jar == JarError(r, ExpectedSigner(q))
           att == AuthorizationAttestationError(r, AttestationOptions(q, r.client_id, None), SessionKey(r))
<1>1. FirstError(<<PushedParseError(r), ParseError(r), jar, dpop, att>>) = Ok
  <2> DEFINE b == FirstError(<<PushedParseError(r), ParseError(r), jar, dpop, att>>)
  <2>1. FirstError(<<AskedFor(q), b>>) = Ok
    BY DEF AuthorizationVerdict, AuthorizationRequestError
  <2> HIDE DEF b
  <2> QED BY <2>1, TwoOk DEF b
<1>2. jar = Ok /\ dpop = Ok /\ att = Ok
  <2> HIDE DEF jar, dpop, att
  <2> QED BY <1>1, FiveOk
<1>3. /\ cfg.requireDpop => r.proof # None \/ r.dpop_jkt # None
      /\ r.proof # None => DpopAccepted(r.proof, o)
  <2> DEFINE a == Check(o.required => r.proof # None \/ r.dpop_jkt # None, "invalid_dpop_proof")
             b == Check(r.proof # None => DpopAccepted(r.proof, o), "invalid_dpop_proof")
             c == Check(r.proof # None /\ r.dpop_jkt # None => r.dpop_jkt = ProofKey(r), "invalid_dpop_proof")
  <2>1. FirstError(<<a, b, c>>) = Ok
    BY <1>2 DEF AuthorizationDpopError
  <2>2. a = Ok /\ b = Ok
    <3> HIDE DEF a, b, c
    <3> QED BY <2>1, ThreeOk
  <2>3. o.required = cfg.requireDpop
    BY DEF DpopOptions
  <2> QED BY <2>2, <2>3 DEF Check, Ok
<1> QED BY <1>2, <1>3

LEMMA WalletObject ==
  /\ WalletRequestObject.code_challenge = IF cfg.pkce = None THEN None ELSE WalletChallenge
  /\ WalletRequestObject.dpop_jkt = IF cfg.dpop THEN "kW" ELSE None
BY DEF WalletRequestObject, RequestObject, WalletChallenge

\* A pushed request or a challenge request of the wallet binds the session to
\* the wallet.
LEMMA WalletBound ==
  ASSUME cfg \in Configs, NEW q, WalletMade(q), q.to \in {"par", "challenge"}, AuthorizationVerdict(q) = Ok
  PROVE  BoundToWallet(Bound(q))
<1> DEFINE r == AuthorizationRequest(q)
<1>1. /\ r.proof = q.proof
      /\ q.jar = None => r = q
      /\ q.jar # None => r.code_challenge = q.jar.code_challenge /\ r.dpop_jkt = q.jar.dpop_jkt
  BY ParsedRequest DEF WalletMade
<1> DEFINE b == Bound(q)
<1>2. b.challenge = r.code_challenge /\ b.jkt = SessionKey(r) /\ b.cnf = IF q.att = None THEN None ELSE q.att.cnf
  BY DEF Bound
<1>3. q.jar # None => q.jar = WalletRequestObject
  BY DEF WalletMade
<1>4. ASSUME cfg.pkce # None PROVE r.code_challenge = WalletChallenge
  BY <1>1, <1>3, <1>4, WalletObject DEF WalletMade
<1>5. ASSUME cfg.dpop, cfg.requireDpop PROVE SessionKey(r) = "kW"
  <2>1. /\ r.proof # None \/ r.dpop_jkt # None
        /\ r.proof # None => DpopAccepted(r.proof, DpopOptions(q, None))
    BY <1>5, AuthorizationAccepted
  <2>2. CASE r.proof # None
    BY <1>1, <2>1, <2>2 DEF WalletMade, SignedByOwner, KeyOf, DpopAccepted, DpopVerifies, SessionKey, ProofKey
  <2>3. CASE r.proof = None
    <3>1. q.jar # None
      BY <1>1, <2>1, <2>3 DEF WalletMade
    <3>2. r.dpop_jkt = "kW"
      BY <1>1, <1>3, <1>5, <3>1, WalletObject
    <3> QED BY <2>3, <3>2 DEF SessionKey
  <2> QED BY <2>2, <2>3
<1>6. ASSUME cfg.auth = "attest" PROVE b.cnf = "kW"
  <2>1. q.att = WalletAttestation
    BY <1>6 DEF WalletMade
  <2> QED BY <1>2, <2>1, NoneFacts DEF WalletAttestation, Attestation
<1> QED BY <1>2, <1>4, <1>5, <1>6 DEF BoundToWallet

LEMMA BoundFields ==
  ASSUME NEW q
  PROVE  /\ Bound(q).by = q.from /\ Bound(q).grants = {}
         /\ Bound(q).challenge = AuthorizationRequest(q).code_challenge
         /\ Bound(q).jkt = SessionKey(AuthorizationRequest(q))
         /\ Bound(q).signedFor = IF q.jar = None THEN None ELSE q.jar.client_id
BY DEF Bound

LEMMA BoundRecord ==
  ASSUME NEW q
  PROVE  SessionRecord(Bound(q))
BY DEF Bound, SessionRecord

\* The authorization endpoints take a request of the wallet.
LEMMA WalletTakesAuthorization ==
  ASSUME cfg \in Configs, cfg' = cfg, GrantsInv, Early' <=> Early, NEW q, NEW opens, WalletMade(q),
         q.to \in {"par", "challenge"}, TakesAuthorization(q, opens)
  PROVE  /\ GrantsInv'
         /\ Pushed => Pushed'
         /\ opens /\ AuthorizationVerdict(q) = Ok => Pushed'
         /\ tokens' = tokens
<1>1. tokens' = tokens
  BY DEF TakesAuthorization
<1>2. CASE session' = session
  <2>1. ~(opens /\ AuthorizationVerdict(q) = Ok) \/ Pushed'
    <3> SUFFICES ASSUME opens, AuthorizationVerdict(q) = Ok PROVE Pushed'
      OBVIOUS
    <3>1. session' = [session EXCEPT !["wallet"] = Bound(q)]
      BY DEF TakesAuthorization, SessionOf, WalletMade
    <3>2. session'["wallet"] = Bound(q)
      BY <3>1, SessionReplaced, BoundRecord DEF GrantsInv, Sessions
    <3> QED BY <3>2, BoundFields DEF Pushed, WalletMade
  <2>2. Pushed => Pushed'
    BY <1>2 DEF Pushed
  <2> QED BY <1>1, <1>2, <2>1, <2>2, GrantsKept
<1>3. CASE session' # session
  <2>1. AuthorizationVerdict(q) = Ok /\ session' = [session EXCEPT !["wallet"] = Bound(q)]
    BY <1>3 DEF TakesAuthorization, SessionOf, WalletMade
  <2>2. SessionShape' /\ session'["wallet"] = Bound(q) /\ session'["other"] = session["other"]
    BY <2>1, SessionReplaced, BoundRecord DEF GrantsInv, Sessions
  <2>3. Bound(q).grants = {} /\ Bound(q).by = "w"
    BY BoundFields DEF WalletMade
  <2>4. WalletSession(session["wallet"])'
    <3>1. BoundToWallet(Bound(q))
      BY <2>1, WalletBound
    <3> HIDE DEF Bound
    <3> QED BY <2>2, <2>3, <3>1 DEF WalletSession, BoundToWallet, WalletChallenge
  <2>5. OtherSession(session["other"])'
    BY <1>1, <2>2 DEF GrantsInv, OtherSession, RefreshBound, WalletChallenge, Protected, ObjectProtected
  <2>6. RedeemedByItsClient'
    BY <1>1, <2>2 DEF GrantsInv, RedeemedByItsClient, Protected, ObjectProtected
  <2> QED BY <1>1, <2>2, <2>3, <2>4, <2>5, <2>6 DEF GrantsInv, Pushed
<1> QED BY <1>2, <1>3

\* The user approves.
LEMMA AuthorizeKeeps ==
  ASSUME cfg \in Configs, PushedInv, GrantsInv, Authorize
  PROVE  GrantsInv' /\ ~Early'
<1>1. UNCHANGED <<cfg, tokens>> /\ at = "browser" /\ at' \in {"redirect", "failed"}
  BY DEF Authorize
<1>2. ~Early' /\ Early /\ cfg.grant = "authorization_code"
  BY <1>1, ConfigAssumption DEF Early, PushedInv
<1>3. CASE session' = session
  BY <1>1, <1>2, <1>3, GrantsKept
<1>4. CASE session' # session
  <2> DEFINE s == IF Pushed THEN session["wallet"] ELSE Bound(WalletFrontRequest)
             g == {"authorization_code"}
             n == [s EXCEPT !.grants = g]
  <2>1. session' = [session EXCEPT !["wallet"] = n]
    BY <1>4 DEF Authorize
  <2>2. SessionRecord(s)
    BY BoundRecord DEF GrantsInv, SessionShape, Sessions
  <2>3. BoundToWallet(s)
    <3>1. CASE Pushed
      BY <1>2, <3>1 DEF GrantsInv, WalletSession, Pushed
    <3>2. CASE ~Pushed
      <4> DEFINE q == WalletFrontRequest
      <4>1. /\ q.jar = None /\ q.proof = None
            /\ cfg.pkce # None => q.code_challenge = WalletChallenge
            /\ cfg.dpop => q.dpop_jkt = "kW"
        BY DEF WalletFrontRequest, FrontRequest, WalletChallenge
      <4> HIDE DEF q
      <4>2. AuthorizationRequest(q) = q /\ SessionKey(q) = q.dpop_jkt
        BY <4>1 DEF AuthorizationRequest, SessionKey
      <4>3. s = Bound(q)
        BY <3>2 DEF q
      <4>4. s.challenge = q.code_challenge /\ s.jkt = q.dpop_jkt
        BY <4>2, <4>3, BoundFields
      <4>5. ~cfg.par
        BY <1>1, <3>2 DEF PushedInv
      <4> HIDE DEF s
      <4> QED BY <4>1, <4>4, <4>5 DEF BoundToWallet
    <3> QED BY <3>1, <3>2
  <2> HIDE DEF s
  <2>4. /\ SessionRecord(n) /\ n.grants = g
        /\ n.challenge = s.challenge /\ n.jkt = s.jkt /\ n.cnf = s.cnf
    <3> HIDE DEF g
    <3> QED BY <2>2, SessionSet, ZenonT(30)
  <2> HIDE DEF n
  <2>5. SessionShape' /\ session'["wallet"] = n /\ session'["other"] = session["other"]
    BY <2>1, <2>4, SessionReplaced DEF GrantsInv, Sessions
  <2>6. WalletSession(session["wallet"])'
    BY <1>1, <1>2, <2>3, <2>4, <2>5 DEF WalletSession, BoundToWallet, WalletChallenge
  <2>7. OtherSession(session["other"])'
    BY <1>1, <2>5 DEF GrantsInv, OtherSession, RefreshBound, WalletChallenge, Protected, ObjectProtected
  <2>8. RedeemedByItsClient'
    BY <1>1, <2>5 DEF GrantsInv, RedeemedByItsClient, Protected, ObjectProtected
  <2> QED BY <1>2, <2>5, <2>6, <2>7, <2>8 DEF GrantsInv
<1> QED BY <1>3, <1>4

LEMMA ExpireKeeps ==
  ASSUME GrantsInv, Expire
  PROVE  GrantsInv' /\ (Pushed => Pushed')
<1> DEFINE s == session["wallet"]
           n == [s EXCEPT !.expired = TRUE]
<1>1. /\ UNCHANGED <<cfg, tokens, at, call>>
      /\ session' = [session EXCEPT !["wallet"].expired = TRUE]
  BY DEF Expire, wallet
<1>2. session' = [session EXCEPT !["wallet"] = n] /\ (Early' <=> Early)
  BY <1>1 DEF Early
<1>3. SessionRecord(s)
  BY DEF GrantsInv, SessionShape, Sessions
<1>4. /\ SessionRecord(n) /\ n.grants = s.grants /\ n.by = s.by /\ n.challenge = s.challenge /\ n.jkt = s.jkt
      /\ n.cnf = s.cnf /\ n.tx_code = s.tx_code
  <2> HIDE DEF s
  <2> QED BY <1>3, SessionSet, Zenon
<1> HIDE DEF n
<1>5. SessionShape' /\ session'["wallet"] = n /\ session'["other"] = session["other"]
  BY <1>2, <1>4, SessionReplaced DEF GrantsInv, Sessions
<1>6. WalletSession(session["wallet"])'
  BY <1>1, <1>2, <1>4, <1>5 DEF GrantsInv, WalletSession, BoundToWallet, RefreshBound, WalletChallenge, Protected
<1>7. OtherSession(session["other"])'
  BY <1>1, <1>5 DEF GrantsInv, OtherSession, RefreshBound, WalletChallenge, Protected, ObjectProtected
<1>8. RedeemedByItsClient'
  BY <1>1, <1>5 DEF GrantsInv, RedeemedByItsClient, Protected, ObjectProtected
<1> QED BY <1>4, <1>5, <1>6, <1>7, <1>8 DEF GrantsInv, Pushed

-----------------------------------------------------------------------------
\* An authorization request of the other client: its own, or with a request
\* object that the wallet signed.
OtherChallenge == CodeChallenge("S256", "vX")
OtherAsks(q) ==
    /\ RequestShape(q)
    /\ q.from = "x" /\ q.proof = None
    /\ q.att \in {None, OtherAttestation, WalletAttestation, Attestation("cW", "kX", "self")}
    /\ q.pop # None => q.pop.sig = "kX"
    /\ q.jar = None => q.code_challenge \in {None, OtherChallenge}
    /\ q.jar # None =>
          /\ q.to = "par"
          /\ \/ q.jar.by = "kX" /\ q.jar.code_challenge \in {None, OtherChallenge}
             \/ /\ q.jar.by = "kW" /\ q.jar.client_id = "cW"
                /\ q.jar.code_challenge = WalletRequestObject.code_challenge
                /\ q.jar.dpop_jkt = WalletRequestObject.dpop_jkt

LEMMA OtherBound ==
  ASSUME cfg \in Configs, NEW q, OtherAsks(q), AuthorizationVerdict(q) = Ok
  PROVE  LET b == Bound(q)
         IN  /\ b.by = "x"
             /\ b.signedFor # "cW" => b.challenge \in {None, OtherChallenge}
             /\ b.signedFor = "cW" => /\ cfg.pkce # None => b.challenge = WalletChallenge
                                      /\ cfg.dpop => b.jkt = "kW"
                                      /\ ~cfg.requireAttestation
<1> DEFINE b == Bound(q)
           r == AuthorizationRequest(q)
<1>1. /\ b.by = "x" /\ b.challenge = r.code_challenge /\ b.jkt = SessionKey(r)
      /\ b.signedFor = IF q.jar = None THEN None ELSE q.jar.client_id
  BY BoundFields DEF OtherAsks
<1>2. /\ r.proof = None /\ r.att = q.att /\ r.pop = q.pop /\ r.jar = q.jar
      /\ q.jar = None => r = q
      /\ q.jar # None => /\ r.client_id = q.jar.client_id
                         /\ r.code_challenge = q.jar.code_challenge /\ r.dpop_jkt = q.jar.dpop_jkt
  BY ParsedRequest DEF OtherAsks
<1> HIDE DEF b
<1>3. CASE q.jar = None
  BY <1>1, <1>2, <1>3, NoneFacts DEF OtherAsks, b
<1>4. CASE q.jar # None /\ q.jar.client_id # "cW"
  BY <1>1, <1>2, <1>4 DEF OtherAsks, b
<1>5. CASE q.jar # None /\ q.jar.client_id = "cW"
  <2>1. q.jar.by = "kW"
    <3> DEFINE signer == ExpectedSigner(q)
               c == Check(VerifiedRequestObject(r.jar, signer), "invalid_request_object")
               d == Check(AuthorizationRequest(r).client_id = r.jar.client_id, "invalid_request")
    <3>1. FirstError(<<c, d>>) = Ok
      <4>1. JarError(r, signer) = Ok
        BY AuthorizationAccepted
      <4> QED BY <1>2, <1>5, <4>1 DEF JarError
    <3>2. c = Ok
      <4> HIDE DEF c, d
      <4> QED BY <3>1, TwoOk
    <3>3. signer = "kW"
      BY <1>2, <1>5 DEF ExpectedSigner, RegisteredKey
    <3> HIDE DEF signer
    <3> QED BY <1>2, <3>2, <3>3 DEF Check, Ok, VerifiedRequestObject
  <2>2. /\ q.jar.code_challenge = WalletRequestObject.code_challenge
        /\ q.jar.dpop_jkt = WalletRequestObject.dpop_jkt
    BY <1>5, <2>1 DEF OtherAsks
  <2>3. ASSUME cfg.requireAttestation PROVE FALSE
    <3> DEFINE o == AttestationOptions(q, r.client_id, None)
    <3>1. AuthorizationAttestationError(r, o, SessionKey(r)) = Ok
      BY AuthorizationAccepted
    <3>2. o.required /\ o.clientId = "cW"
      BY <1>2, <1>5, <2>3 DEF AttestationOptions, OtherAsks
    <3>3. r.att # None /\ r.pop # None /\ AttestationWithPopError(r, o, SessionKey(r)) = Ok
      BY <3>1, <3>2 DEF AuthorizationAttestationError, Check, Ok
    <3>4. AttestationVerifies(r.att, o) /\ PopVerifies(r.pop, r.att, o)
      BY <3>3, AttestationAccepted
    <3>5. q.att.by = "attester" /\ q.att.sub = "cW" /\ q.pop.sig = q.att.cnf
      BY <1>2, <3>2, <3>4, NoneFacts DEF AttestationVerifies, PopVerifies
    <3> QED BY <1>2, <3>3, <3>5 DEF OtherAsks, OtherAttestation, WalletAttestation, Attestation
  <2>4. SessionKey(r) = r.dpop_jkt
    BY <1>2 DEF SessionKey
  <2> QED BY <1>1, <1>2, <1>5, <2>2, <2>3, <2>4, WalletObject DEF b
<1> QED BY <1>3, <1>4, <1>5

\* The requests the other client sends are of these kinds.
LEMMA OtherAuthFacts ==
  ASSUME NEW auth \in OtherClientAuth
  PROVE  /\ auth.att \in {None, OtherAttestation, WalletAttestation, Attestation("cW", "kX", "self")}
         /\ auth.pop # None => auth.pop.sig = "kX"
<1>1. CASE ~cfg.requireAttestation
  BY <1>1 DEF OtherClientAuth
<1>2. CASE cfg.requireAttestation
  <2>1. PICK a \in {OtherAttestation, WalletAttestation, Attestation("cW", "kX", "self")} :
              auth = [att |-> a, pop |-> [sig |-> "kX", challenge |-> current.challenge]]
    BY <1>2, Zenon DEF OtherClientAuth
  <2>2. auth.att = a /\ auth.pop.sig = "kX"
    BY <2>1
  <2> QED BY <2>2
<1> QED BY <1>1, <1>2

LEMMA OtherMakes ==
  ASSUME NEW auth \in OtherClientAuth, NEW code \in Sessions, NEW grant, NEW verifier \in {None, "vX"}, NEW n,
         NEW proof \in OtherProofs("token", n, None)
  PROVE  OtherMade(OtherTokenRequest(code, grant, verifier, proof, auth))
<1> DEFINE q == OtherTokenRequest(code, grant, verifier, proof, auth)
<1>1. /\ q.from = "x" /\ q.to = "token" /\ q.tx_code = None /\ q.code = code /\ q.code_verifier = verifier
      /\ q.proof = proof /\ q.att = auth.att /\ q.pop = auth.pop
  BY DEF OtherTokenRequest
<1> HIDE DEF q
<1>2. proof = None \/ proof.sig = "kX"
  BY OtherSigned
<1>3. OtherMade(q)
  BY <1>1, <1>2, OtherAuthFacts DEF OtherMade
<1> QED BY <1>3 DEF q

\* The authorization requests of the other client.
OtherRequest(to, byReference, object, challenge, jkt, att, pop) ==
    [from |-> "x", to |-> to, proof |-> None, att |-> att, pop |-> pop, dpop_jkt |-> jkt, client_id |-> "cX",
     byReference |-> byReference, jar |-> object, code_challenge |-> challenge, code_verifier |-> None,
     tx_code |-> None, code |-> None, grant |-> None, scheme |-> None]

\* A request object that the other client can push: signed with its own key
\* and with its own challenge, or the wallet's.
OtherObject(object, challenge) ==
    \/ object.by = "kX" /\ object.code_challenge = challenge
    \/ /\ object.by = "kW" /\ object.client_id = "cW"
       /\ object.code_challenge = WalletRequestObject.code_challenge
       /\ object.dpop_jkt = WalletRequestObject.dpop_jkt

LEMMA OtherRequestKinds ==
  ASSUME NEW challenge \in {None, OtherChallenge}, NEW request \in OtherRequests(challenge)
  PROVE  \E to, byReference, object, jkt :
            /\ request = OtherRequest(to, byReference, object, challenge, jkt, None, None)
            /\ object # None => to = "par" /\ OtherObject(object, challenge)
<1> DEFINE jkt == IF cfg.requireDpop THEN "kX" ELSE None
           no == FALSE
           yes == TRUE
           q == FrontRequest("x", challenge, jkt)
           own == RequestObject("cX", challenge, q.dpop_jkt, "kX")
           par == [q EXCEPT !.to = "par"]
           With(object) == [q EXCEPT !.to = "par", !.jar = object]
           Rec(to, byReference, object) == OtherRequest(to, byReference, object, challenge, jkt, None, None)
<1> HIDE DEF jkt
<1>1. q = Rec("front", no, None)
  BY DEF FrontRequest, OtherRequest
<1> HIDE DEF q, no, yes
<1>2. ASSUME NEW object PROVE With(object) = Rec("par", no, object)
  <2>1. par = Rec("par", no, None)
    BY <1>1 DEF OtherRequest
  <2>2. With(object) = [par EXCEPT !.jar = object]
    OBVIOUS
  <2> HIDE DEF par
  <2>3. [par EXCEPT !.jar = object] = Rec("par", no, object)
    BY <2>1 DEF OtherRequest
  <2> QED BY <2>2, <2>3
<1>3. ASSUME NEW object PROVE [With(object) EXCEPT !.byReference = TRUE] = Rec("par", yes, object)
  <2> DEFINE w == With(object)
  <2>1. w = Rec("par", no, object)
    BY <1>2
  <2> HIDE DEF w
  <2>2. [w EXCEPT !.byReference = yes] = Rec("par", yes, object)
    BY <2>1 DEF OtherRequest
  <2> QED BY <2>2 DEF w, yes
<1>4. ASSUME NEW to PROVE [q EXCEPT !.to = to] = Rec(to, no, None)
  BY <1>1 DEF OtherRequest
<1>5. /\ OtherObject(own, challenge) /\ OtherObject([own EXCEPT !.typ = "at+jwt"], challenge)
      /\ OtherObject([own EXCEPT !.form = "jwe"], challenge)
      /\ OtherObject([own EXCEPT !.client_id = "cW"], challenge)
  BY DEF RequestObject, OtherObject
<1>6. OtherObject(WalletRequestObject, challenge) /\ OtherObject([WalletRequestObject EXCEPT !.fresh = FALSE], challenge)
  BY DEF WalletRequestObject, RequestObject, OtherObject
<1>7. CASE cfg.jar
  <2>1. request \in {With(own), [With(own) EXCEPT !.byReference = TRUE], With([own EXCEPT !.typ = "at+jwt"]),
              With([own EXCEPT !.form = "jwe"]), With(WalletRequestObject),
              With([WalletRequestObject EXCEPT !.fresh = FALSE]), With([own EXCEPT !.client_id = "cW"])}
    BY <1>7, Zenon DEF OtherRequests, q, jkt
  <2>2. \E byReference, object : request = Rec("par", byReference, object) /\ OtherObject(object, challenge)
    <3> HIDE DEF With, own, Rec
    <3> QED BY <1>2, <1>3, <1>5, <1>6, <2>1
  <2> QED BY <2>2
<1>8. CASE ~cfg.jar
  <2>1. \E to : request = Rec(to, no, None)
    <3>1. \E to : request = [q EXCEPT !.to = to]
      BY <1>8, Zenon DEF OtherRequests, q, jkt
    <3> HIDE DEF Rec
    <3> QED BY <1>4, <3>1
  <2> QED BY <2>1
<1> QED BY <1>7, <1>8

LEMMA OtherAsksSo ==
  ASSUME NEW auth \in OtherClientAuth, NEW challenge \in {None, OtherChallenge},
         NEW request \in OtherRequests(challenge)
  PROVE  OtherAsks([request EXCEPT !.att = auth.att, !.pop = auth.pop])
<1>1. PICK to, byReference, object, jkt :
            /\ request = OtherRequest(to, byReference, object, challenge, jkt, None, None)
            /\ object # None => to = "par" /\ OtherObject(object, challenge)
  BY OtherRequestKinds
<1> DEFINE q == OtherRequest(to, byReference, object, challenge, jkt, auth.att, auth.pop)
<1>2. [request EXCEPT !.att = auth.att, !.pop = auth.pop] = q
  <2> DEFINE p == [request EXCEPT !.att = auth.att]
  <2>1. p = OtherRequest(to, byReference, object, challenge, jkt, auth.att, None)
    BY <1>1 DEF OtherRequest
  <2>2. [request EXCEPT !.att = auth.att, !.pop = auth.pop] = [p EXCEPT !.pop = auth.pop]
    OBVIOUS
  <2> HIDE DEF p
  <2>3. [p EXCEPT !.pop = auth.pop] = q
    BY <2>1 DEF OtherRequest
  <2> QED BY <2>2, <2>3
<1>3. /\ q.from = "x" /\ q.to = to /\ q.proof = None /\ q.att = auth.att /\ q.pop = auth.pop /\ q.jar = object
      /\ q.code_challenge = challenge
  BY DEF OtherRequest
<1>4. RequestShape(q)
  BY DEF OtherRequest, RequestShape
<1> HIDE DEF q
<1>5. OtherAsks(q)
  BY <1>1, <1>3, <1>4, OtherAuthFacts DEF OtherAsks, OtherObject
<1> QED BY <1>2, <1>5

LEMMA BoundGrants ==
  ASSUME NEW q, NEW g
  PROVE  LET n == [Bound(q) EXCEPT !.grants = g]
         IN  /\ SessionRecord(n) /\ n.grants = g /\ n.by = Bound(q).by /\ n.challenge = Bound(q).challenge
             /\ n.jkt = Bound(q).jkt /\ n.signedFor = Bound(q).signedFor
BY BoundRecord, SessionSet, ZenonT(30)

LEMMA OtherAuthorizesKeeps ==
  ASSUME cfg \in Configs, GrantsInv, NEW challenge \in {None, OtherChallenge}, NEW auth \in OtherClientAuth,
         NEW request \in OtherRequests(challenge), OtherAuthorizes(request, auth)
  PROVE  GrantsInv' /\ (Pushed => Pushed')
<1> DEFINE q == [request EXCEPT !.att = auth.att, !.pop = auth.pop]
           b == Bound(q)
           g == {"authorization_code"}
           n == [b EXCEPT !.grants = g]
<1>1. /\ UNCHANGED <<cfg, at, call, tokens>> /\ session["other"].by = None
      /\ AuthorizationVerdict(q) = Ok /\ session' = [session EXCEPT !["other"] = n]
  BY DEF OtherAuthorizes, OtherMoves, wallet
<1>2. OtherAsks(q)
  BY OtherAsksSo
<1> HIDE DEF q
<1>3. /\ b.by = "x"
      /\ b.signedFor # "cW" => b.challenge \in {None, OtherChallenge}
      /\ b.signedFor = "cW" => /\ cfg.pkce # None => b.challenge = WalletChallenge
                               /\ cfg.dpop => b.jkt = "kW"
                               /\ ~cfg.requireAttestation
  BY <1>1, <1>2, OtherBound
<1> HIDE DEF g
<1>4. /\ SessionRecord(n) /\ n.grants = g /\ n.by = b.by /\ n.challenge = b.challenge
      /\ n.jkt = b.jkt /\ n.signedFor = b.signedFor
  BY BoundGrants, Zenon
<1> HIDE DEF b
<1> HIDE DEF n
<1>5. SessionShape' /\ session'["other"] = n /\ session'["wallet"] = session["wallet"]
  BY <1>1, <1>4, SessionReplaced DEF GrantsInv, Sessions
<1>7. WalletSession(session["wallet"])'
  BY <1>1, <1>5
     DEF GrantsInv, WalletSession, BoundToWallet, RefreshBound, WalletChallenge, Protected, Early
<1>8. OtherSession(session["other"])'
  <2>1. n.by # None
    BY <1>3, <1>4, NoneFacts
  <2> QED BY <1>1, <1>3, <1>4, <1>5, <2>1 DEF OtherSession, WalletChallenge, OtherChallenge, g
<1>9. RedeemedByItsClient'
  <2>1. \A t \in tokens : t.session # "other"
    BY <1>1 DEF GrantsInv, OtherSession
  <2> QED BY <1>1, <1>5, <2>1 DEF GrantsInv, RedeemedByItsClient, Protected
<1> QED BY <1>5, <1>7, <1>8, <1>9 DEF GrantsInv, Pushed

-----------------------------------------------------------------------------
\* The wallet's requests are what its calls make of them.
LEMMA RequestMade ==
  ASSUME cfg \in Configs, NEW c, CallShape(c)
  PROVE  /\ WalletMade(Request(c))
         /\ Request(c).to = c.to /\ Request(c).code = c.code /\ Request(c).grant = c.grant
<1> DEFINE q == Request(c)
<1>1. RequestShape(q)
  BY DEF Request, RequestShape
<1>2. /\ q.from = "w" /\ q.to = c.to /\ q.code = c.code /\ q.grant = c.grant /\ q.dpop_jkt = None
      /\ q.jar = IF c.to = "par" /\ cfg.jar THEN WalletRequestObject ELSE None
      /\ q.code_challenge = IF c.to \in {"par", "challenge"} /\ cfg.pkce # None THEN WalletChallenge ELSE None
      /\ q.code_verifier = IF c.to = "token" /\ c.grant = "authorization_code" /\ cfg.pkce # None THEN "vW" ELSE None
      /\ q.att = IF c.to # "resource" /\ cfg.auth \in {"attest", "attest_dpop"} THEN WalletAttestation ELSE None
  BY DEF Request, WalletChallenge
<1>3. SignedByOwner(q)
  BY RequestSigned
<1> HIDE DEF q
<1>4. WalletMade(q)
  BY <1>1, <1>2, <1>3, ConfigAssumption DEF WalletMade, CallShape
<1> QED BY <1>2, <1>4 DEF q

\* A retry is for the same request.
LEMMA RetryCall ==
  ASSUME NEW d, CallShape(d), NEW n, NEW h, NEW c,
         \/ c = [d EXCEPT !.nonce = n, !.dpopRetried = TRUE]
         \/ c = [d EXCEPT !.nonce = n, !.challenge = h, !.challengeRetried = TRUE, !.dpopRetried = FALSE]
  PROVE  c.to = d.to /\ c.code = d.code /\ c.grant = d.grant /\ CallShape(c)
<1> DEFINE Rec(to, nn, challenge, dr, cr, code, grant) ==
             [to |-> to, nonce |-> nn, challenge |-> challenge, dpopRetried |-> dr, challengeRetried |-> cr,
              code |-> code, grant |-> grant]
<1>1. PICK to, nn, challenge, dr, cr, code, grant : d = Rec(to, nn, challenge, dr, cr, code, grant)
  <2> HIDE DEF Rec
  <2>1. d = Rec(d.to, d.nonce, d.challenge, d.dpopRetried, d.challengeRetried, d.code, d.grant)
    BY Zenon DEF CallShape, Rec
  <2> QED BY <2>1
<1>2. CASE c = [d EXCEPT !.nonce = n, !.dpopRetried = TRUE]
  <2> DEFINE e == [d EXCEPT !.nonce = n]
  <2>1. e = Rec(to, n, challenge, dr, cr, code, grant)
    BY <1>1
  <2>2. c = [e EXCEPT !.dpopRetried = TRUE]
    BY <1>2
  <2> HIDE DEF e
  <2>3. c = Rec(to, n, challenge, TRUE, cr, code, grant)
    BY <2>1, <2>2
  <2>4. c.to = to /\ c.code = code /\ c.grant = grant /\ d.to = to /\ d.code = code /\ d.grant = grant
    BY <1>1, <2>3
  <2>5. c = [to |-> c.to, nonce |-> c.nonce, challenge |-> c.challenge, dpopRetried |-> c.dpopRetried,
             challengeRetried |-> c.challengeRetried, code |-> c.code, grant |-> c.grant]
    BY <2>3
  <2> QED BY <2>4, <2>5, Zenon DEF CallShape
<1>3. CASE c = [d EXCEPT !.nonce = n, !.challenge = h, !.challengeRetried = TRUE, !.dpopRetried = FALSE]
  <2> DEFINE yes == TRUE
             no == FALSE
             e == [d EXCEPT !.nonce = n]
             f == [e EXCEPT !.challenge = h]
             g == [f EXCEPT !.challengeRetried = yes]
  <2>1. e = Rec(to, n, challenge, dr, cr, code, grant)
    BY <1>1
  <2>2. c = [g EXCEPT !.dpopRetried = no]
    BY <1>3
  <2> HIDE DEF e, yes, no
  <2>3. f = Rec(to, n, h, dr, cr, code, grant)
    BY <2>1
  <2> HIDE DEF f
  <2>4. g = Rec(to, n, h, dr, yes, code, grant)
    BY <2>3
  <2> HIDE DEF g
  <2>5. c = Rec(to, n, h, no, yes, code, grant)
    BY <2>2, <2>4
  <2>6. c.to = to /\ c.code = code /\ c.grant = grant /\ d.to = to /\ d.code = code /\ d.grant = grant
    BY <1>1, <2>5
  <2>7. c = [to |-> c.to, nonce |-> c.nonce, challenge |-> c.challenge, dpopRetried |-> c.dpopRetried,
             challengeRetried |-> c.challengeRetried, code |-> c.code, grant |-> c.grant]
    BY <2>5
  <2> QED BY <2>6, <2>7, Zenon DEF CallShape
<1> QED BY <1>2, <1>3

\* The wallet sends the request of a call.
LEMMA Sent ==
  ASSUME RedeemInv, NEW c, CallShape(c), Send(c), at' = "calling", UNCHANGED <<cfg, session, tokens, dup>>,
         RefreshesItsOwn(c), c.to \in {"par", "challenge"} => Early /\ cfg.grant # "pre-authorized_code"
  PROVE  RedeemInv'
<1> DEFINE q == Request(c)
<1>1. call' = c /\ net' = q /\ resp' = None
  BY DEF Send
<1>2. WalletMade(q) /\ q.to = c.to /\ q.code = c.code /\ q.grant = c.grant
  BY RequestMade DEF RedeemInv
<1>3. Early' => Early /\ cfg.grant # "pre-authorized_code"
  BY <1>1 DEF Early
<1>4. GrantsInv'
  BY <1>3, GrantsKept DEF RedeemInv
<1> HIDE DEF q
<1>5. WalletMade(net)' /\ (dup # None => WalletMade(dup))'
  BY <1>1, <1>2
     DEF WalletMade, SignedByOwner, WalletChallenge, WalletRequestObject, RedeemInv, CallInv
<1>6. RefreshesItsOwn(net)' /\ RefreshesItsOwn(call)'
  BY <1>1, <1>2 DEF RefreshesItsOwn
<1>7. dup' # None => RefreshesItsOwn(dup)' /\ dup'.to \in {"token", "resource"} /\ ~Early'
  BY <1>3 DEF RedeemInv, CallInv, RefreshesItsOwn
<1>8. CallShape(call)'
  BY <1>1
<1>9. CallInv'
  BY <1>1, <1>2, <1>5, <1>6, <1>7, <1>8 DEF CallInv
<1>10. PushedInv'
  BY <1>1, <1>3 DEF PushedInv
<1> QED BY <1>4, <1>9, <1>10 DEF RedeemInv

\* The wallet has nothing under way.
LEMMA Rests ==
  ASSUME RedeemInv, net' = None, resp' = None, call' \in {call, NoCall}, at' \in {"browser", "failed", "done"},
         UNCHANGED <<cfg, session, tokens, dup>>,
         at' = "browser" => Early /\ cfg.grant # "pre-authorized_code" /\ (cfg.par => Pushed)
  PROVE  RedeemInv'
<1>1. Early' => Early /\ cfg.grant # "pre-authorized_code" /\ (cfg.par => Pushed)
  BY DEF Early
<1>2. GrantsInv'
  BY <1>1, GrantsKept DEF RedeemInv
<1>3. (dup # None => WalletMade(dup))'
  BY DEF WalletMade, SignedByOwner, WalletChallenge, WalletRequestObject, RedeemInv, CallInv
<1>4. dup' # None => RefreshesItsOwn(dup)' /\ dup'.to \in {"token", "resource"} /\ ~Early'
  BY <1>1 DEF RedeemInv, CallInv, RefreshesItsOwn
<1>5. CallShape(call)' /\ RefreshesItsOwn(call)'
  <2>1. CallShape(NoCall) /\ NoCall.to = "none"
    BY DEF CallShape, NoCall
  <2>2. CASE call' = NoCall
    BY <2>1, <2>2 DEF RefreshesItsOwn
  <2>3. CASE call' = call
    BY <2>3 DEF RedeemInv, CallInv, RefreshesItsOwn
  <2> QED BY <2>2, <2>3
<1>6. CallInv'
  BY <1>3, <1>4, <1>5 DEF CallInv
<1>7. PushedInv'
  BY <1>1 DEF PushedInv, Pushed
<1> QED BY <1>2, <1>6, <1>7 DEF RedeemInv

\* A step that leaves the wallet alone.
LEMMA CallKept ==
  ASSUME CallInv, PushedInv, UNCHANGED <<cfg, at, call, net, resp>>, dup' \in {dup, None},
         tokens \subseteq tokens', Pushed => Pushed'
  PROVE  CallInv' /\ PushedInv'
<1>1. Early' <=> Early
  BY DEF Early
<1>2. (net # None => WalletMade(net))' /\ (dup # None => WalletMade(dup))'
  BY DEF WalletMade, SignedByOwner, WalletChallenge, WalletRequestObject, CallInv
<1>3. CallInv'
  BY <1>1, <1>2 DEF CallInv, RefreshesItsOwn
<1>4. PushedInv'
  BY <1>1 DEF PushedInv
<1> QED BY <1>3, <1>4

-----------------------------------------------------------------------------
(* One step *)

\* The token endpoint only adds tokens.
LEMMA TokensGrow ==
  ASSUME SessionShape, NEW q, q.code \in Sessions, TakesToken(q)
  PROVE  tokens \subseteq tokens' /\ (Pushed => Pushed')
<1>1. CASE TokenVerdict(q) = Ok
  BY <1>1, TokenTaken DEF Pushed, Sessions
<1>2. CASE TokenVerdict(q) # Ok
  BY <1>2 DEF TakesToken, Pushed
<1> QED BY <1>1, <1>2

LEMMA BegunCall ==
  ASSUME RedeemInv, NEW to \in {"par", "challenge", "token", "resource"}, NEW code, NEW grant, NEW n,
         to = "token" => code \in Sessions, Begin(to, code, grant, n), at' = "calling",
         UNCHANGED <<cfg, session, tokens, dup>>,
         to = "token" /\ code = "other" /\ grant = "refresh_token" => \E t \in tokens : t.session = "other" /\ t.to = "w",
         to \in {"par", "challenge"} => Early /\ cfg.grant # "pre-authorized_code"
  PROVE  RedeemInv'
<1>1. PICK c : c = [NoCall EXCEPT !.to = to, !.nonce = n, !.code = code, !.grant = grant] /\ Send(c)
  BY Zenon DEF Begin
<1>2. c.to = to /\ c.code = code /\ c.grant = grant /\ CallShape(c)
  <2>1. c = [NoCall EXCEPT !.to = to, !.nonce = n, !.code = code, !.grant = grant]
    BY <1>1, Zenon
  <2>2. c = [to |-> to, nonce |-> n, challenge |-> None, dpopRetried |-> FALSE, challengeRetried |-> FALSE,
             code |-> code, grant |-> grant]
    BY <2>1 DEF NoCall
  <2> QED BY <2>2 DEF CallShape
<1>3. RefreshesItsOwn(c)
  BY <1>2 DEF RefreshesItsOwn
<1> QED BY <1>1, <1>2, <1>3, Sent

LEMMA UrlCreated ==
  ASSUME RedeemInv, NEW n, CreateAuthorizationRequestUrl(n), UNCHANGED <<cfg, session, tokens, dup>>,
         Early, cfg.grant # "pre-authorized_code"
  PROVE  RedeemInv'
<1>1. CASE cfg.par
  BY <1>1, BegunCall DEF CreateAuthorizationRequestUrl
<1>2. CASE ~cfg.par
  BY <1>2, Rests DEF CreateAuthorizationRequestUrl
<1> QED BY <1>1, <1>2

LEMMA WalletStepKeeps ==
  ASSUME RedeemInv, WalletSteps \/ ConnectionFails
  PROVE  RedeemInv'
<1> USE DEF server
<1>1. ASSUME Discover PROVE RedeemInv'
  <2>1. Early /\ net = None /\ resp = None /\ UNCHANGED <<cfg, session, tokens, dup>>
    BY <1>1 DEF Discover, Early, RedeemInv, CallInv
  <2>2. CASE at' = "failed" /\ UNCHANGED <<call, net, resp, seq>>
    BY <2>1, <2>2, Rests
  <2>3. CASE cfg.grant = "pre-authorized_code" /\ at' = "calling" /\ Begin("token", "wallet", cfg.grant, nonce)
    BY <2>1, <2>3, BegunCall DEF Sessions
  <2>4. CASE cfg.grant # "pre-authorized_code" /\ at' = "calling" /\ Begin("challenge", None, None, nonce)
    BY <2>1, <2>4, BegunCall
  <2>5. CASE cfg.grant # "pre-authorized_code" /\ CreateAuthorizationRequestUrl(nonce)
    BY <2>1, <2>5, UrlCreated
  <2> QED BY <1>1, <2>2, <2>3, <2>4, <2>5 DEF Discover
<1>2. ASSUME RetryWithNonce PROVE RedeemInv'
  <2> DEFINE c == [call EXCEPT !.nonce = resp.nonce, !.dpopRetried = TRUE]
  <2>1. Send(c) /\ at = "calling" /\ UNCHANGED <<cfg, at, session, tokens, dup>>
    BY <1>2 DEF RetryWithNonce
  <2>2. c.to = call.to /\ c.code = call.code /\ c.grant = call.grant /\ CallShape(c)
    BY RetryCall DEF RedeemInv, CallInv
  <2> HIDE DEF c
  <2>3. RefreshesItsOwn(c)
    BY <2>2 DEF RefreshesItsOwn, RedeemInv, CallInv
  <2>4. c.to \in {"par", "challenge"} => Early /\ cfg.grant # "pre-authorized_code"
    BY <2>1, <2>2 DEF Early, RedeemInv, PushedInv
  <2> QED BY <2>1, <2>2, <2>3, <2>4, Sent
<1>3. ASSUME RetryWithChallenge PROVE RedeemInv'
  <2> DEFINE c == RetryOfCall
  <2>1. Send(c) /\ at = "calling" /\ UNCHANGED <<cfg, at, session, tokens, dup>>
    BY <1>3 DEF RetryWithChallenge
  <2>2. c.to = call.to /\ c.code = call.code /\ c.grant = call.grant /\ CallShape(c)
    BY RetryCall DEF RedeemInv, CallInv, RetryOfCall
  <2> HIDE DEF c
  <2>3. RefreshesItsOwn(c)
    BY <2>2 DEF RefreshesItsOwn, RedeemInv, CallInv
  <2>4. c.to \in {"par", "challenge"} => Early /\ cfg.grant # "pre-authorized_code"
    BY <2>1, <2>2 DEF Early, RedeemInv, PushedInv
  <2> QED BY <2>1, <2>2, <2>3, <2>4, Sent
<1>4. ASSUME CallFails \/ ConnectionFails PROVE RedeemInv'
  <2>1. net' = None /\ resp' = None /\ call' = call /\ at' = "failed" /\ UNCHANGED <<cfg, session, tokens, dup>>
    BY <1>4 DEF CallFails, ConnectionFails, Fails
  <2> QED BY <2>1, Rests
<1>5. ASSUME AfterChallenge PROVE RedeemInv'
  <2>1. /\ at = "calling" /\ call.to = "challenge" /\ resp # None
        /\ UNCHANGED <<cfg, session, tokens, dup>>
    BY <1>5 DEF AfterChallenge
  <2>2. Early /\ cfg.grant # "pre-authorized_code"
    BY <2>1 DEF Early, RedeemInv, PushedInv
  <2>3. CASE resp.result = "request_uri" /\ at' = "browser" /\ call' = NoCall /\ net' = None /\ resp' = None
    <3>1. Pushed
      BY <2>1, <2>3 DEF RedeemInv, PushedInv
    <3> QED BY <2>1, <2>2, <2>3, <3>1, Rests
  <2>4. ASSUME NEW n, CreateAuthorizationRequestUrl(n) PROVE RedeemInv'
    BY <2>1, <2>2, <2>4, UrlCreated
  <2> QED BY <1>5, <2>3, <2>4 DEF AfterChallenge
<1>6. ASSUME AfterPar PROVE RedeemInv'
  <2>1. /\ at = "calling" /\ call.to = "par" /\ resp # None /\ resp.error = Ok
        /\ at' = "browser" /\ call' = NoCall /\ net' = None /\ resp' = None
        /\ UNCHANGED <<cfg, session, tokens, dup>>
    BY <1>6 DEF AfterPar
  <2>2. Early /\ cfg.grant # "pre-authorized_code" /\ Pushed
    BY <2>1 DEF Early, RedeemInv, PushedInv
  <2> QED BY <2>1, <2>2, Rests
<1>7. ASSUME AfterToken PROVE RedeemInv'
  <2>1. /\ at = "calling" /\ call.to = "token" /\ resp # None /\ resp.error = Ok /\ at' = "calling"
        /\ UNCHANGED <<cfg, session, tokens, dup>>
    BY <1>7 DEF AfterToken
  <2>2. call.code \in Sessions /\ \E t \in tokens : t.session = call.code /\ t.to = "w"
    BY <2>1 DEF RedeemInv, CallInv, CallShape
  <2>3. ASSUME NEW n, Begin("token", call.code, "refresh_token", n) PROVE RedeemInv'
    BY <2>1, <2>2, <2>3, BegunCall
  <2>4. ASSUME NEW n, Begin("resource", resp.result, None, n) PROVE RedeemInv'
    BY <2>1, <2>4, BegunCall
  <2> QED BY <1>7, <2>3, <2>4 DEF AfterToken
<1>8. ASSUME AfterResource PROVE RedeemInv'
  <2>1. /\ at' = "done" /\ call' = NoCall /\ net' = None /\ resp' = None
        /\ UNCHANGED <<cfg, session, tokens, dup>>
    BY <1>8 DEF AfterResource
  <2> QED BY <2>1, Rests
<1> QED BY <1>1, <1>2, <1>3, <1>4, <1>5, <1>6, <1>7, <1>8 DEF WalletSteps

LEMMA AnswerKeeps ==
  ASSUME RedeemInv, NEW header \in BOOLEAN, NEW result \in {"code", "request_uri", "neither"}, Answer(header, result)
  PROVE  RedeemInv'
<1> DEFINE v == Verdict(net)
           opens == net.to # "challenge" \/ result = "request_uri"
<1>1. /\ net # None /\ Takes(net, opens) /\ net' = None
      /\ UNCHANGED <<cfg, at, call>>
      /\ net.to # "challenge" \/ v # Ok => result = "code"
      /\ dup' = dup \/ (net.to \in {"token", "resource"} /\ dup' = net)
  BY DEF Answer, wallet
<1>2. /\ resp'.error = IF v = Ok /\ net.to = "challenge" /\ result # "code" THEN "redirect_to_web" ELSE v
      /\ resp'.result = IF v = Ok /\ net.to = "token" THEN Token(net) ELSE result
  BY DEF Answer
<1>3. /\ at = "calling" /\ WalletMade(net) /\ RefreshesItsOwn(net) /\ net.to = call.to /\ net.code = call.code
      /\ cfg \in Configs /\ GrantsInv /\ CallShape(call) /\ RefreshesItsOwn(call)
      /\ dup # None => WalletMade(dup) /\ RefreshesItsOwn(dup) /\ dup.to \in {"token", "resource"} /\ ~Early
  BY <1>1 DEF RedeemInv, CallInv
<1>4. /\ Early' <=> Early
      /\ Early <=> net.to \in {"par", "challenge"}
      /\ Early => cfg.grant # "pre-authorized_code"
  BY <1>1, <1>3 DEF Early, RedeemInv, PushedInv
<1>5. \A q : WalletMade(q) => WalletMade(q)'
  BY <1>1 DEF WalletMade, SignedByOwner, WalletChallenge, WalletRequestObject
<1>6. \A q : tokens \subseteq tokens' /\ RefreshesItsOwn(q) => RefreshesItsOwn(q)'
  BY DEF RefreshesItsOwn
<1>7. CallShape(call)'
  BY <1>1, <1>3
<1> HIDE DEF v, opens
<1>8. CASE net.to \in {"par", "challenge"}
  <2>1. TakesAuthorization(net, opens) /\ v = AuthorizationVerdict(net)
    BY <1>1, <1>8 DEF Takes, Verdict, v
  <2>2. GrantsInv' /\ (Pushed => Pushed') /\ (opens /\ v = Ok => Pushed') /\ tokens' = tokens
    BY <1>1, <1>3, <1>4, <1>8, <2>1, WalletTakesAuthorization
  <2>3. dup = None /\ dup' = None
    BY <1>1, <1>3, <1>4, <1>8
  <2>4. CallInv'
    BY <1>1, <1>3, <1>6, <1>7, <1>8, <2>2, <2>3 DEF CallInv
  <2>5. PushedInv'
    BY <1>1, <1>2, <1>3, <1>4, <1>8, <2>2 DEF PushedInv, opens
  <2> QED BY <1>1, <1>3, <2>2, <2>4, <2>5 DEF RedeemInv
<1>9. CASE net.to = "token"
  <2>1. TakesToken(net) /\ v = TokenVerdict(net) /\ net.code \in Sessions
    BY <1>1, <1>3, <1>9 DEF Takes, Verdict, v, WalletMade
  <2>2. GrantsInv'
    BY <1>1, <1>3, <1>4, <1>9, <2>1, WalletTakesToken
  <2>3. tokens \subseteq tokens' /\ (Pushed => Pushed')
    BY <1>3, <2>1, TokensGrow DEF GrantsInv
  <2>4. v = Ok => \E t \in tokens' : t.session = net.code /\ t.to = "w"
    <3>1. Token(net).session = net.code /\ Token(net).to = "w"
      BY <1>3 DEF Token, WalletMade
    <3> QED BY <1>3, <2>1, <3>1, TokenTaken DEF GrantsInv
  <2>5. CallInv'
    BY <1>1, <1>2, <1>3, <1>4, <1>5, <1>6, <1>7, <1>9, <2>3, <2>4 DEF CallInv
  <2>6. PushedInv'
    BY <1>1, <1>3, <1>4, <1>9 DEF PushedInv
  <2> QED BY <1>1, <1>3, <2>2, <2>5, <2>6 DEF RedeemInv
<1>10. CASE net.to \in {"resource", "none"}
  <2>1. UNCHANGED <<session, tokens>>
    BY <1>1, <1>10 DEF Takes, TakesResource
  <2>2. GrantsInv'
    BY <1>1, <1>3, <1>4, <2>1, GrantsKept
  <2>3. CallInv'
    BY <1>1, <1>3, <1>4, <1>5, <1>6, <1>7, <1>10, <2>1 DEF CallInv
  <2>4. PushedInv'
    BY <1>1, <1>3, <1>4, <1>10 DEF PushedInv
  <2> QED BY <1>1, <1>3, <2>2, <2>3, <2>4 DEF RedeemInv
<1> QED BY <1>3, <1>8, <1>9, <1>10 DEF CallShape

LEMMA DuplicateKeeps ==
  ASSUME RedeemInv, Duplicate
  PROVE  RedeemInv'
<1>1. /\ dup # None /\ dup' = None /\ Takes(dup, TRUE)
      /\ UNCHANGED <<cfg, at, call, net, resp>>
  BY DEF Duplicate, wallet
<1>2. /\ WalletMade(dup) /\ RefreshesItsOwn(dup) /\ dup.to \in {"token", "resource"} /\ ~Early
      /\ cfg \in Configs /\ GrantsInv /\ CallInv /\ PushedInv
  BY <1>1 DEF RedeemInv, CallInv
<1>3. ~Early'
  BY <1>1, <1>2 DEF Early
<1>4. CASE dup.to = "token"
  <2>1. TakesToken(dup) /\ dup.code \in Sessions
    BY <1>1, <1>2, <1>4 DEF Takes, WalletMade
  <2>2. GrantsInv'
    BY <1>1, <1>2, <1>3, <1>4, <2>1, WalletTakesToken
  <2>3. tokens \subseteq tokens' /\ (Pushed => Pushed')
    BY <1>2, <2>1, TokensGrow DEF GrantsInv
  <2> QED BY <1>1, <1>2, <2>2, <2>3, CallKept DEF RedeemInv
<1>5. CASE dup.to = "resource"
  <2>1. UNCHANGED <<session, tokens>>
    BY <1>1, <1>5 DEF Takes, TakesResource
  <2>2. GrantsInv'
    BY <1>1, <1>2, <1>3, <2>1, GrantsKept
  <2>3. Pushed => Pushed'
    BY <2>1 DEF Pushed
  <2> QED BY <1>1, <1>2, <2>1, <2>2, <2>3, CallKept DEF RedeemInv
<1> QED BY <1>2, <1>4, <1>5

LEMMA UserKeeps ==
  ASSUME RedeemInv, UserActs
  PROVE  RedeemInv'
<1>1. ASSUME Authorize PROVE RedeemInv'
  <2>1. /\ at = "browser" /\ at' \in {"redirect", "failed"}
        /\ UNCHANGED <<cfg, call, net, resp, tokens, dup>>
    BY <1>1 DEF Authorize
  <2>2. net = None /\ resp = None /\ dup = None
    BY <2>1 DEF RedeemInv, CallInv, Early
  <2>3. GrantsInv' /\ ~Early'
    BY <1>1, AuthorizeKeeps DEF RedeemInv
  <2>4. CallInv'
    BY <2>1, <2>2, NoneFacts DEF RedeemInv, CallInv, RefreshesItsOwn
  <2>5. PushedInv'
    BY <2>1, <2>2, <2>3 DEF PushedInv
  <2> QED BY <2>1, <2>3, <2>4, <2>5 DEF RedeemInv
<1>2. ASSUME NEW code \in Sessions, NEW iss, Redirected(code, iss) PROVE RedeemInv'
  <2>1. at = "redirect" /\ UNCHANGED <<cfg, session, tokens, dup>>
    BY <1>2 DEF Redirected, server
  <2>2. CASE at' = "calling" /\ Begin("token", code, "authorization_code", nonce)
    BY <2>1, <2>2, BegunCall
  <2>3. CASE at' = "failed" /\ UNCHANGED <<call, net, resp, seq>>
    <3>1. net' = None /\ resp' = None
      BY <2>1, <2>3 DEF RedeemInv, CallInv
    <3> QED BY <2>1, <2>3, <3>1, Rests
  <2> QED BY <1>2, <2>2, <2>3 DEF Redirected
<1> QED BY <1>1, <1>2 DEF UserActs

LEMMA OtherKeeps ==
  ASSUME RedeemInv, OtherClient
  PROVE  RedeemInv'
<1>1. ASSUME GrantsInv', tokens \subseteq tokens', Pushed => Pushed', UNCHANGED <<cfg, wallet, net, resp, current, dup>>
      PROVE  RedeemInv'
  BY <1>1, CallKept DEF RedeemInv, wallet
<1>2. ASSUME NEW challenge \in {None, CodeChallenge("S256", "vX")}, NEW auth \in OtherClientAuth,
             NEW request \in OtherRequests(challenge), OtherAuthorizes(request, auth)
      PROVE  RedeemInv'
  <2>1. challenge \in {None, OtherChallenge}
    BY DEF OtherChallenge
  <2>2. GrantsInv' /\ (Pushed => Pushed')
    BY <1>2, <2>1, OtherAuthorizesKeeps DEF RedeemInv
  <2>3. tokens' = tokens /\ UNCHANGED <<cfg, wallet, net, resp, current, dup>>
    BY <1>2 DEF OtherAuthorizes, OtherMoves
  <2> QED BY <1>1, <2>2, <2>3
<1>3. ASSUME NEW code \in Sessions, NEW verifier \in {None, "vX"}, NEW auth \in OtherClientAuth, NEW n,
             NEW proof \in OtherProofs("token", n, None), NEW grant, OtherRedeems(code, grant, verifier, proof, auth)
      PROVE  RedeemInv'
  <2> DEFINE q == OtherTokenRequest(code, grant, verifier, proof, auth)
  <2>1. OtherMade(q)
    BY OtherMakes
  <2>2. q.code \in Sessions
    BY DEF OtherTokenRequest
  <2>3. TakesToken(q) /\ at # "discover" /\ UNCHANGED <<cfg, wallet, net, resp, current, dup>>
    BY <1>3 DEF OtherRedeems, OtherMoves, OtherMayMove
  <2> HIDE DEF q
  <2>4. ~(Early /\ cfg.grant = "pre-authorized_code")
    BY <2>3 DEF RedeemInv, PushedInv
  <2>5. UNCHANGED <<cfg, at, call>>
    BY <2>3 DEF wallet
  <2>6. GrantsInv'
    BY <2>1, <2>3, <2>4, <2>5, OtherTakesToken DEF RedeemInv
  <2>7. tokens \subseteq tokens' /\ (Pushed => Pushed')
    BY <2>2, <2>3, TokensGrow DEF RedeemInv, GrantsInv
  <2> QED BY <1>1, <2>3, <2>6, <2>7
<1>4. ASSUME NEW token, NEW scheme, NEW proof, OtherUses(token, scheme, proof) PROVE RedeemInv'
  <2>1. UNCHANGED <<session, tokens, cfg, wallet, net, resp, current, dup>>
    BY <1>4 DEF OtherUses, TakesResource, OtherMoves
  <2>2. GrantsInv' /\ (Pushed => Pushed')
    BY <2>1, GrantsKept DEF RedeemInv, Pushed, wallet, Early
  <2> QED BY <1>1, <2>1, <2>2
<1> QED BY <1>2, <1>3, <1>4 DEF OtherClient

LEMMA RedeemStep ==
  ASSUME RedeemInv, [Next]_vars
  PROVE  RedeemInv'
<1>1. CASE WalletSteps \/ ConnectionFails
  BY <1>1, WalletStepKeeps
<1>2. CASE ServerAnswers
  BY <1>2, AnswerKeeps DEF ServerAnswers
<1>3. CASE Duplicate
  BY <1>3, DuplicateKeeps
<1>4. CASE Expire
  <2>1. UNCHANGED <<cfg, at, call, net, resp, tokens, dup>>
    BY <1>4 DEF Expire, wallet
  <2>2. GrantsInv' /\ (Pushed => Pushed')
    BY <1>4, ExpireKeeps DEF RedeemInv
  <2> QED BY <2>1, <2>2, CallKept DEF RedeemInv
<1>5. CASE (\E k \in {"as", "rs", "challenge"} : Rotate(k)) \/ Ended \/ UNCHANGED vars
  <2>1. UNCHANGED <<cfg, at, call, net, resp, session, tokens, dup>>
    BY <1>5 DEF Rotate, wallet, server, Ended, vars
  <2>2. GrantsInv' /\ (Pushed => Pushed')
    BY <2>1, GrantsKept DEF RedeemInv, Pushed, Early
  <2> QED BY <2>1, <2>2, CallKept DEF RedeemInv
<1>6. CASE UserActs
  BY <1>6, UserKeeps
<1>7. CASE OtherClient
  BY <1>7, OtherKeeps
<1> QED BY <1>1, <1>2, <1>3, <1>4, <1>5, <1>6, <1>7 DEF Next

LEMMA RedeemInit == Init => RedeemInv
<1> SUFFICES ASSUME Init PROVE RedeemInv
  OBVIOUS
<1>1. cfg \in Configs /\ CallInv /\ PushedInv
  BY NoneFacts DEF Init, CallInv, PushedInv, Early, NoCall, CallShape, RefreshesItsOwn
<1>2. SessionShape
  BY DEF Init, SessionShape, SessionRecord
<1>3. /\ session["wallet"].by \in {None, "issuer"}
      /\ session["wallet"].grants = IF cfg.grant = "pre-authorized_code" THEN {cfg.grant} ELSE {}
      /\ session["wallet"].tx_code = cfg.tx_code
      /\ session["other"].by = None /\ session["other"].grants = {}
      /\ tokens = {}
  BY DEF Init, Sessions
<1>4. WalletSession(session["wallet"])
  <2> DEFINE s == session["wallet"]
  <2>1. s.by # "w" /\ s.tx_code = cfg.tx_code
    BY <1>3, NoneFacts
  <2>2. \A g \in s.grants : g = "pre-authorized_code" /\ cfg.grant = "pre-authorized_code"
    BY <1>3
  <2> HIDE DEF s
  <2>3. WalletSession(s)
    BY <2>1, <2>2 DEF WalletSession
  <2> QED BY <2>3 DEF s
<1>5. OtherSession(session["other"]) /\ RedeemedByItsClient
  BY <1>3 DEF OtherSession, RedeemedByItsClient
<1> QED BY <1>1, <1>2, <1>4, <1>5 DEF RedeemInv, GrantsInv

(***************************************************************************)
(* verifyAuthorizationCodeAccessTokenRequest and its siblings for the      *)
(* other grants redeem a protected grant only for the client it was made   *)
(* for, in every order of the requests of the two clients, of retries,     *)
(* duplicates, rotations and expiry, for every configuration and however   *)
(* often the other client tries.                                           *)
(***************************************************************************)
THEOREM GrantsRedeemedByTheirClient == Spec => []RedeemedByItsClient
<1>1. RedeemInv => RedeemedByItsClient
  BY DEF RedeemInv, GrantsInv
<1> QED BY <1>1, RedeemInit, RedeemStep, PTL DEF Spec
=============================================================================
