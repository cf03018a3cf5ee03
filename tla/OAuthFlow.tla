----------------------------- MODULE OAuthFlow -----------------------------
(***************************************************************************)
(* A wallet built on Oauth2Client obtains a token from a server built on   *)
(* Oauth2AuthorizationServer and uses it at a resource server built on     *)
(* Oauth2ResourceServer, while a second client that may know the wallet's  *)
(* codes and tokens sends requests of its own.                             *)
(*                                                                         *)
(* The library keeps no sessions: the server's sessions, the nonces and    *)
(* challenges it hands out and the jti values it remembers belong to the   *)
(* application and are modelled as the options of the library require.     *)
(***************************************************************************)
EXTENDS OAuthVerification

CONSTANTS
    Configs,            \* what server and wallet support and ask for
    MaxRotations,       \* how often the servers replace a nonce or challenge
    MaxMoves            \* how many requests the other client sends

\* A parameter that is not there is different from every one that is.
ASSUME NoneAssumption ==
    /\ None \notin {"w", "x", "issuer", "cW", "cX", "kW", "kX", "vW", "vX"}
    /\ None \notin [method : {"plain", "S256"}, of : {"vW", "vX"}]
    /\ None \notin [sub : {"cW", "cX"}, cnf : {"kW", "kX"}, by : {"attester", "self"}]

ASSUME ConfigAssumption ==
    \A c \in Configs :
        /\ c.grant \in {"authorization_code", "pre-authorized_code"}
        /\ c.auth \in {"public", "attest", "attest_dpop"}
        /\ c.pkce \in {None, "plain", "S256"}

Sessions == {"wallet", "other"}
KeyOf == [w |-> "kW", x |-> "kX"]
RegisteredKey == [cW |-> "kW", cX |-> "kX"]
VerifierOf == [w |-> "vW", x |-> "vX"]

VARIABLES
    cfg,        \* the configuration
    at,         \* where the wallet is
    nonce,      \* dpop.nonce the wallet holds between calls
    call,       \* the call in progress, with its retries
    net,        \* the wallet's request that is under way, or None
    resp,       \* the response to it, or None
    seq,        \* proofs the wallet made so far: the next jti
    session,    \* the server's sessions
    current,    \* [as, rs, challenge]: nonces and challenge valid now
    jtis,       \* jti values assertJtiUniqueness remembers
    tokens,     \* history: access tokens issued, and to whom
    served,     \* history: tokens accepted at the resource, and from whom
    accepted,   \* history: jti of the proofs accepted
    again,      \* history: jti of the proofs accepted a second time
    refused,    \* history: jti of the wallet's proofs refused as replays
    dup,        \* a request of the wallet that the network will deliver again
    moves,      \* requests of the other client
    excuse      \* history: what happened that may fail an honest wallet

server == <<session, jtis, tokens, served, accepted, again, refused>>
wallet == <<at, nonce, call, seq>>
vars == <<cfg, at, nonce, call, net, resp, seq, session, current, jtis, tokens,
          served, accepted, again, refused, dup, moves, excuse>>

-----------------------------------------------------------------------------
(* The wallet's requests *)

NoCall == [to |-> "none", nonce |-> None, challenge |-> None, dpopRetried |-> FALSE,
           challengeRetried |-> FALSE, code |-> None, grant |-> None]

\* createDpopJwt: a fresh jti for every proof
Proof(key, sig, to, n, jti, ath) == [jwk |-> key, sig |-> sig, htu |-> to, nonce |-> n, jti |-> jti, ath |-> ath]

Attestation(sub, cnf, by) == [sub |-> sub, cnf |-> cnf, by |-> by]
WalletAttestation == Attestation("cW", "kW", "attester")

\* createDpopHeadersForRequest, then the clientAuthentication callback, which
\* for the DPoP-bound attestation sets the DPoP header anew.
DpopHeader(c) ==
    LET ath == IF c.to = "resource" THEN c.code ELSE None
    IN  CASE c.to # "resource" /\ cfg.auth = "attest_dpop" ->
                 Proof("kW", "kW", c.to, c.challenge, seq + 1, None)
          [] cfg.dpop /\ ~(c.to # "resource" /\ cfg.auth = "attest_dpop") ->
                 Proof("kW", "kW", c.to, c.nonce, seq + 1, ath)
          [] OTHER -> None

\* What a wallet signs that pushes a request object.
WalletRequestObject ==
    RequestObject("cW", IF cfg.pkce = None THEN None ELSE CodeChallenge(cfg.pkce, "vW"),
                  IF cfg.dpop THEN "kW" ELSE None, "kW")

\* Authenticated with an attestation of its own or none; the body and
\* parameters are those of the call.
Request(c) ==
    LET attested == c.to # "resource" /\ cfg.auth \in {"attest", "attest_dpop"}
    IN  [from |-> "w", to |-> c.to, proof |-> DpopHeader(c), client_id |-> "cW", byReference |-> FALSE,
         jar |-> IF c.to = "par" /\ cfg.jar THEN WalletRequestObject ELSE None,
         att |-> IF attested THEN WalletAttestation ELSE None,
         pop |-> IF attested /\ cfg.auth = "attest" THEN [sig |-> "kW", challenge |-> c.challenge] ELSE None,
         dpop_jkt |-> None,
         code_challenge |-> IF c.to \in {"par", "challenge"} /\ cfg.pkce # None
                            THEN CodeChallenge(cfg.pkce, "vW") ELSE None,
         code_verifier |-> IF c.to = "token" /\ c.grant = "authorization_code" /\ cfg.pkce # None
                           THEN "vW" ELSE None,
         tx_code |-> IF c.grant = "pre-authorized_code" THEN cfg.tx_code ELSE None,
         code |-> c.code, grant |-> c.grant,
         scheme |-> IF cfg.dpop THEN "DPoP" ELSE "Bearer"]

Send(c) ==
    /\ call' = c
    /\ net' = Request(c)
    /\ seq' = seq + 1
    /\ resp' = None

\* A call starts with the nonce the wallet holds and no challenge.
Begin(to, code, grant, n) ==
    Send([NoCall EXCEPT !.to = to, !.nonce = n, !.code = code, !.grant = grant])

-----------------------------------------------------------------------------
(* The wallet *)

\* fetchAuthorizationServerMetadata: three places are tried; a response that
\* is an error ends the search, and a request that fails does not.
MetadataFound(meta) ==
    LET Ends(u) == meta[u] \in {"found", "wrong_issuer", "library_error"}
        tried == IF cfg.subpath THEN <<"oauth", "legacy", "openid">> ELSE <<"oauth", "openid">>
        ending == {n \in DOMAIN tried : Ends(tried[n])}
    IN  ending # {} /\ meta[tried[CHOOSE n \in ending : \A m \in ending : n <= m]] = "found"

Init ==
    /\ cfg \in Configs
    /\ at = "discover"
    /\ nonce = None
    /\ call = NoCall
    /\ net = None
    /\ resp = None
    /\ seq = 0
    /\ session = [s \in Sessions |->
          [by |-> IF s = "wallet" /\ cfg.grant = "pre-authorized_code" THEN "issuer" ELSE None,
           grants |-> IF s = "wallet" /\ cfg.grant = "pre-authorized_code" THEN {cfg.grant} ELSE {},
           challenge |-> None, jkt |-> None, clientId |-> None, cnf |-> None, expired |-> FALSE,
           signedFor |-> None, tx_code |-> cfg.tx_code]]
    /\ current = [as |-> 1, rs |-> 101, challenge |-> 201]
    /\ jtis = {} /\ accepted = {} /\ again = {} /\ refused = {}
    /\ tokens = {} /\ served = {}
    /\ dup = None
    /\ moves = 0
    /\ excuse = {}

\* createAuthorizationRequestUrl: push the request where the server takes
\* pushed requests, or put it into the url.
CreateAuthorizationRequestUrl(n) ==
    IF cfg.par
    THEN at' = "calling" /\ Begin("par", None, None, n)
    ELSE at' = "browser" /\ call' = NoCall /\ net' = None /\ resp' = None /\ UNCHANGED seq

\* The wallet reads the metadata and then starts: initiateAuthorization, or
\* the token request with the code of an offer.
Discover ==
    /\ at = "discover"
    /\ \/ ~MetadataFound(cfg.meta) /\ at' = "failed" /\ UNCHANGED <<call, net, resp, seq>>
       \/ /\ MetadataFound(cfg.meta)
          /\ CASE cfg.grant = "pre-authorized_code" ->
                    at' = "calling" /\ Begin("token", "wallet", cfg.grant, nonce)
               [] cfg.grant # "pre-authorized_code" /\ cfg.challengeEndpoint ->
                    at' = "calling" /\ Begin("challenge", None, None, nonce)
               [] OTHER -> CreateAuthorizationRequestUrl(nonce)
    /\ UNCHANGED <<cfg, nonce, server, current, dup, moves, excuse>>

Fails ==
    at' = "failed" /\ net' = None /\ resp' = None /\ UNCHANGED <<nonce, call, seq>>

\* fetch rejects: the request or its response is lost.
ConnectionFails ==
    /\ at = "calling"
    /\ net # None \/ resp # None
    /\ Fails
    /\ excuse' = excuse \cup {"lost"}
    /\ UNCHANGED <<cfg, server, current, dup, moves>>

\* authorizationServerRequestWithDpopRetry, and the retry of resourceRequest:
\* once, with the nonce of the response.
CanRetryWithNonce == cfg.dpop /\ resp.error = "use_dpop_nonce" /\ resp.nonce # None /\ ~call.dpopRetried

RetryWithNonce ==
    /\ at = "calling" /\ resp # None
    /\ CanRetryWithNonce
    /\ Send([call EXCEPT !.nonce = resp.nonce, !.dpopRetried = TRUE])
    /\ UNCHANGED <<cfg, at, nonce, server, current, dup, moves, excuse>>

\* authorizationServerRequestWithClientAttestationChallengeRetry, around the
\* former: once, with the challenge of the response; the DPoP nonce and its
\* retry start over.
CanRetryWithChallenge ==
    /\ call.to = "token"
    /\ resp.error = "use_attestation_challenge"
    /\ resp.challenge # None
    /\ ~call.challengeRetried

\* Mutant: the retry for a nonce is not available again.
RetryOfCallOnce == [call EXCEPT !.nonce = nonce, !.challenge = resp.challenge, !.challengeRetried = TRUE]
RetryOfCall ==
    [call EXCEPT !.nonce = nonce, !.challenge = resp.challenge, !.challengeRetried = TRUE,
                 !.dpopRetried = FALSE]

RetryWithChallenge ==
    /\ at = "calling" /\ resp # None
    /\ CanRetryWithChallenge
    /\ Send(RetryOfCall)
    /\ UNCHANGED <<cfg, at, nonce, server, current, dup, moves, excuse>>

\* An error that is not retried is thrown; initiateAuthorization goes on
\* after redirect_to_web.
CallFails ==
    /\ at = "calling" /\ resp # None
    /\ resp.error # Ok
    /\ ~CanRetryWithNonce /\ ~CanRetryWithChallenge
    /\ ~(call.to = "challenge" /\ resp.error = "redirect_to_web")
    /\ Fails
    /\ UNCHANGED <<cfg, server, current, dup, moves, excuse>>

HeldNonce == IF cfg.dpop /\ resp.nonce # None THEN resp.nonce ELSE nonce

\* initiateAuthorization after the challenge endpoint answered: with a
\* request_uri the url is ready; otherwise the usual request follows, also
\* when the answer was a code.
AfterChallenge ==
    /\ at = "calling" /\ resp # None /\ call.to = "challenge"
    /\ \/ /\ resp.error = "redirect_to_web"
          /\ nonce' = HeldNonce
          /\ IF resp.result = "request_uri"
             THEN at' = "browser" /\ call' = NoCall /\ net' = None /\ resp' = None /\ UNCHANGED seq
             ELSE CreateAuthorizationRequestUrl(nonce')
       \/ /\ resp.error = Ok
          /\ CreateAuthorizationRequestUrl(nonce) /\ UNCHANGED nonce
    /\ UNCHANGED <<cfg, server, current, dup, moves, excuse>>

\* createAuthorizationRequestUrl after the request was pushed
AfterPar ==
    /\ at = "calling" /\ resp # None /\ call.to = "par" /\ resp.error = Ok
    /\ at' = "browser" /\ nonce' = HeldNonce
    /\ call' = NoCall /\ net' = None /\ resp' = None
    /\ UNCHANGED <<cfg, seq, server, current, dup, moves, excuse>>

\* retrieveAccessToken returns, the nonce replaced by that of the response;
\* the wallet refreshes once if it can, and then uses the token.
AfterToken ==
    /\ at = "calling" /\ resp # None /\ call.to = "token" /\ resp.error = Ok
    /\ nonce' = IF cfg.dpop THEN resp.nonce ELSE None
    /\ IF cfg.refresh /\ call.grant # "refresh_token"
       THEN Begin("token", call.code, "refresh_token", nonce')
       ELSE Begin("resource", resp.result, None, nonce')
    /\ UNCHANGED <<cfg, at, server, current, dup, moves, excuse>>

AfterResource ==
    /\ at = "calling" /\ resp # None /\ call.to = "resource" /\ resp.error = Ok
    /\ at' = "done" /\ call' = NoCall /\ net' = None /\ resp' = None
    /\ UNCHANGED <<cfg, nonce, seq, server, current, dup, moves, excuse>>

\* verifyAuthorizationResponse
AuthorizationResponseAccepted(iss) ==
    /\ cfg.issSupported => iss # None
    /\ iss # None => iss = "as"

\* The browser comes back with a code: the wallet's own, or one of the other
\* client's that was put into the url.
Redirected(code, iss) ==
    /\ at = "redirect"
    /\ "authorization_code" \in session[code].grants \/ iss # "as"
    /\ iss = None => ~cfg.issSupported
    /\ excuse' = IF code # "wallet" \/ iss = "another" THEN excuse \cup {"injected"} ELSE excuse
    /\ \/ /\ AuthorizationResponseAccepted(iss)
          /\ at' = "calling" /\ Begin("token", code, "authorization_code", nonce)
       \/ /\ ~AuthorizationResponseAccepted(iss)
          /\ at' = "failed" /\ UNCHANGED <<call, net, resp, seq>>
    /\ UNCHANGED <<cfg, nonce, server, current, dup, moves>>

-----------------------------------------------------------------------------
(* The servers *)

\* The attestation is DPoP-bound: the nonce of the proof is its challenge.
DpopBound(q) == q.att # None /\ q.pop = None

ExpectedNonce(q) ==
    IF q.to = "resource" THEN IF cfg.wantsNonce THEN current.rs ELSE None
    ELSE IF DpopBound(q) /\ cfg.wantsChallenge THEN current.challenge
    ELSE IF cfg.wantsNonce THEN current.as ELSE None

\* What the application asks for before it verifies the request.
AskedFor(q) ==
    FirstError(<<
        Check(cfg.jar /\ q.to \in {"par", "front"} => q.jar # None, "invalid_request"),
        Check(q.proof # None /\ cfg.stubborn => FALSE, "use_dpop_nonce"),
        Check(q.proof # None /\ ExpectedNonce(q) # None => q.proof.nonce = ExpectedNonce(q),
              IF DpopBound(q) /\ cfg.wantsChallenge THEN "use_attestation_challenge" ELSE "use_dpop_nonce"),
        Check(q.pop # None /\ cfg.wantsChallenge => q.pop.challenge = current.challenge,
              "use_attestation_challenge")>>)

DpopOptions(q, jkt) ==
    [required |-> cfg.requireDpop, htu |-> q.to, ath |-> IF q.to = "resource" THEN q.code ELSE None,
     jkt |-> jkt, nonce |-> ExpectedNonce(q), used |-> jtis]
AttestationOptions(q, clientId, cnf) ==
    [required |-> cfg.requireAttestation /\ q.to # "front", clientId |-> clientId, cnf |-> cnf,
     challenge |-> IF cfg.wantsChallenge THEN current.challenge ELSE None,
     matchKeys |-> cfg.matchKeys, methods |-> cfg.methods]

\* The proof is looked at, which remembers its jti, and accepted or not.
NoteProof(q, o, reached) ==
    IF reached /\ q.proof # None
    THEN /\ jtis' = jtis \cup JtiRemembered(q.proof, o)
         /\ accepted' = IF DpopAccepted(q.proof, o) THEN accepted \cup {q.proof.jti} ELSE accepted
         /\ again' = IF DpopAccepted(q.proof, o) /\ q.proof.jti \in accepted
                     THEN again \cup {q.proof.jti} ELSE again
         /\ refused' = IF DpopVerifies(q.proof, o) /\ ~DpopAccepted(q.proof, o) /\ q.from = "w"
                       THEN refused \cup {q.proof.jti} ELSE refused
    ELSE UNCHANGED <<jtis, accepted, again, refused>>

\* The session is bound to what the verification returns; signedFor is the
\* client of the request object.
Bound(q) ==
    [by |-> q.from, grants |-> {}, challenge |-> AuthorizationRequest(q).code_challenge,
     jkt |-> SessionKey(AuthorizationRequest(q)),
     clientId |-> IF q.att = None THEN None ELSE q.att.sub,
     cnf |-> IF q.att = None THEN None ELSE q.att.cnf, expired |-> FALSE,
     signedFor |-> IF q.jar = None THEN None ELSE q.jar.client_id, tx_code |-> None]
SessionOf(who) == IF who = "w" THEN "wallet" ELSE "other"

\* The signer a server expects of a request object is the key registered for
\* the client the parsed request names.
ExpectedSigner(q) == RegisteredKey[AuthorizationRequest(q).client_id]

\* verifyPushedAuthorizationRequest, verifyAuthorizationChallengeRequest and
\* the front channel: `opens` says whether a session comes of it.
AuthorizationVerdict(q) ==
    LET request == AuthorizationRequest(q)
    IN  FirstError(<<AskedFor(q),
                     AuthorizationRequestError(request, ExpectedSigner(q), DpopOptions(q, None),
                                               AttestationOptions(q, request.client_id, None))>>)
TakesAuthorization(q, opens) ==
    /\ NoteProof(q, DpopOptions(q, None), /\ AskedFor(q) = Ok /\ PushedParseError(q) = Ok
                                          /\ ParseError(q) = Ok /\ JarError(q, ExpectedSigner(q)) = Ok)
    /\ session' = IF opens /\ AuthorizationVerdict(q) = Ok
                  THEN [session EXCEPT ![SessionOf(q.from)] = Bound(q)] ELSE session
    /\ UNCHANGED <<tokens, served>>

\* The options for a token request come from the session of its code.
Challenge(q) == IF q.grant = "authorization_code" THEN session[q.code].challenge ELSE None
TokenDpop(q) == DpopOptions(q, session[q.code].jkt)
TokenVerdict(q) ==
    LET s == session[q.code]
    IN  FirstError(<<AskedFor(q), AccessTokenRequestError(q, s, Challenge(q), TokenDpop(q),
                                                          AttestationOptions(q, s.clientId, s.cnf))>>)

\* createAccessTokenJwt: bound to the key of the proof
Token(q) == [session |-> q.code, grant |-> q.grant, to |-> q.from, jkt |-> ProofKey(q),
             type |-> IF q.proof = None THEN "Bearer" ELSE "DPoP"]

\* The token endpoint: the request is verified, the grant used up, the token
\* made, and what a refresh token is bound to recorded.
TakesToken(q) ==
    LET ok == TokenVerdict(q) = Ok
    IN  /\ NoteProof(q, TokenDpop(q), AskedFor(q) = Ok /\ ParseError(q) = Ok
                                      /\ PkceError(Challenge(q), q.code_verifier) = Ok)
        /\ tokens' = IF ok THEN tokens \cup {Token(q)} ELSE tokens
        /\ session' = IF ~ok THEN session
                      ELSE [session EXCEPT ![q.code].grants = IF cfg.refresh THEN {"refresh_token"} ELSE {},
                                           ![q.code].jkt = ProofKey(q),
                                           ![q.code].cnf = IF q.att = None THEN None ELSE q.att.cnf]
        /\ UNCHANGED served

\* verifyJwtProfileAccessToken for a JWT, or introspectToken at each of the
\* servers until one calls the token active.
VerifiedToken(t) == IF t \in tokens THEN t ELSE None
ResourceVerdict(q) ==
    FirstError(<<AskedFor(q), ResourceRequestError(q, VerifiedToken(q.code), DpopOptions(q, None))>>)
TakesResource(q) ==
    /\ NoteProof(q, DpopOptions(q, IF VerifiedToken(q.code) = None THEN None ELSE q.code.jkt),
                 AskedFor(q) = Ok /\ VerifiedToken(q.code) # None /\ NeedsDpop(q, q.code) /\ q.code.jkt # None)
    /\ served' = IF ResourceVerdict(q) = Ok THEN served \cup {[token |-> q.code, by |-> q.from]} ELSE served
    /\ UNCHANGED <<session, tokens>>

Verdict(q) ==
    CASE q.to \in {"par", "challenge", "front"} -> AuthorizationVerdict(q)
      [] q.to = "token" -> TokenVerdict(q)
      [] OTHER -> ResourceVerdict(q)
Takes(q, opens) ==
    CASE q.to \in {"par", "challenge", "front"} -> TakesAuthorization(q, opens)
      [] q.to = "token" -> TakesToken(q)
      [] OTHER -> TakesResource(q)

NonceOf(q) == IF ~cfg.wantsNonce /\ ~cfg.stubborn THEN None ELSE IF q.to = "resource" THEN current.rs ELSE current.as

\* A server answers the wallet's request.  The headers of an answer that asks
\* for a nonce or challenge carry it; on success the nonce may be carried too.
\* The challenge endpoint answers with a code, a request_uri, or neither.
Answer(header, result) ==
    /\ net # None
    /\ LET v == Verdict(net)
           opens == net.to # "challenge" \/ result = "request_uri"
           error == IF v = Ok /\ net.to = "challenge" /\ result # "code" THEN "redirect_to_web" ELSE v
           asked == v \in {"use_dpop_nonce", "use_attestation_challenge"}
       IN  /\ net.to # "challenge" \/ v # Ok => result = "code"
           /\ ~header => NonceOf(net) # None \/ v = "use_attestation_challenge"
           /\ Takes(net, opens)
           /\ resp' = [error |-> error,
                       nonce |-> IF header /\ v \in {Ok, "use_dpop_nonce"} THEN NonceOf(net) ELSE None,
                       challenge |-> IF header /\ v = "use_attestation_challenge" THEN current.challenge ELSE None,
                       result |-> IF v = Ok /\ net.to = "token" THEN Token(net) ELSE result]
           /\ excuse' = IF asked /\ ~header THEN excuse \cup {"no header"} ELSE excuse
    /\ \/ dup' = dup
       \/ dup = None /\ net.to \in {"token", "resource"} /\ "duplicated" \notin excuse /\ dup' = net
    /\ net' = None
    /\ UNCHANGED <<cfg, wallet, current, moves>>

\* A request that was delivered twice: nobody waits for the second answer.
Duplicate ==
    /\ dup # None
    /\ Takes(dup, TRUE)
    /\ dup' = None
    /\ excuse' = excuse \cup {"duplicated"}
    /\ UNCHANGED <<cfg, wallet, net, resp, current, moves>>

\* The front channel: the request in the url, unless it was pushed before.
FrontRequest(who, challenge, jkt) ==
    [from |-> who, to |-> "front", proof |-> None, att |-> None, pop |-> None, dpop_jkt |-> jkt,
     client_id |-> IF who = "w" THEN "cW" ELSE "cX", byReference |-> FALSE, jar |-> None,
     code_challenge |-> challenge, code_verifier |-> None, tx_code |-> None, code |-> None,
     grant |-> None, scheme |-> None]
WalletFrontRequest ==
    FrontRequest("w", IF cfg.pkce = None THEN None ELSE CodeChallenge(cfg.pkce, "vW"),
                 IF cfg.dpop THEN "kW" ELSE None)
Pushed == session["wallet"].by = "w"

\* The user approves, or does not; the server redirects with a code.
Authorize ==
    /\ at = "browser"
    /\ LET ok == Pushed \/ AuthorizationVerdict(WalletFrontRequest) = Ok
           s == IF Pushed THEN session["wallet"] ELSE Bound(WalletFrontRequest)
       IN  \/ /\ ok
              /\ session' = [session EXCEPT !["wallet"] = [s EXCEPT !.grants = {"authorization_code"}]]
              /\ at' = "redirect" /\ UNCHANGED excuse
           \/ /\ at' = "failed" /\ UNCHANGED session
              /\ excuse' = IF ok THEN excuse \cup {"denied"} ELSE excuse
    /\ UNCHANGED <<cfg, nonce, call, net, resp, seq, current, jtis, tokens, served, accepted, again,
                   refused, dup, moves>>

\* The code expires before it is redeemed.
Expire ==
    /\ session["wallet"].grants # {} /\ ~session["wallet"].expired
    /\ at \notin {"done", "failed"}
    /\ session' = [session EXCEPT !["wallet"].expired = TRUE]
    /\ excuse' = excuse \cup {"expired"}
    /\ UNCHANGED <<cfg, wallet, net, resp, current, jtis, tokens, served, accepted, again, refused,
                   dup, moves>>

Rotations == (current.as - 1) + (current.rs - 101) + (current.challenge - 201)

\* A server replaces its nonce or challenge; a retry made for the old one
\* then fails.
Rotate(k) ==
    /\ Rotations < MaxRotations
    /\ at \notin {"done", "failed"}
    /\ current' = [current EXCEPT ![k] = @ + 1]
    /\ excuse' = IF \/ k # "challenge" /\ (call.dpopRetried \/ (resp # None /\ resp.error = "use_dpop_nonce"))
                    \/ k = "challenge" /\ (call.challengeRetried \/ (resp # None /\ resp.error = "use_attestation_challenge"))
                 THEN excuse \cup {"rotated"} ELSE excuse
    /\ UNCHANGED <<cfg, wallet, net, resp, server, dup, moves>>

-----------------------------------------------------------------------------
(* The other client.  It has a key, a verifier and an attestation of its    *)
(* own; it may have come by the codes, tokens and attestation of the wallet *)
(* but not by its key, its verifier or its transaction code.                *)

OtherAttestation == Attestation("cX", "kX", "attester")
OtherProofs(to, n, ath) ==
    {None, Proof("kX", "kX", to, n, 0 - (moves + 1), ath),
     \* names the key and the jti of the wallet, and is signed with another
     Proof("kW", "kX", to, n, seq, ath)}
OtherClientAuth ==
    IF cfg.requireAttestation
    THEN {[att |-> a, pop |-> [sig |-> "kX", challenge |-> current.challenge]] :
             a \in {OtherAttestation, WalletAttestation, Attestation("cW", "kX", "self")}}
    ELSE {[att |-> None, pop |-> None]}

OtherMayMove == moves < MaxMoves /\ at # "discover" /\ at \notin {"done", "failed"}
OtherMoves(e) ==
    /\ moves' = moves + 1
    /\ excuse' = excuse \cup e
    /\ UNCHANGED <<cfg, wallet, net, resp, current, dup>>

\* The request objects it can push: its own, by value or with a reference
\* next to it; one of the wallet's, as it was or after it has expired; and
\* one it makes in the name of the wallet.
OtherRequests(challenge) ==
    LET q == FrontRequest("x", challenge, IF cfg.requireDpop THEN "kX" ELSE None)
        own == RequestObject("cX", challenge, q.dpop_jkt, "kX")
        With(object) == [q EXCEPT !.to = "par", !.jar = object]
    IN  IF cfg.jar
        THEN {With(own), [With(own) EXCEPT !.byReference = TRUE], With([own EXCEPT !.typ = "at+jwt"]),
              With([own EXCEPT !.form = "jwe"]), With(WalletRequestObject),
              With([WalletRequestObject EXCEPT !.fresh = FALSE]), With([own EXCEPT !.client_id = "cW"])}
        ELSE {[q EXCEPT !.to = IF cfg.requireAttestation THEN "par" ELSE "front"]}

\* It starts an authorization of its own, and its user approves.
OtherAuthorizes(request, auth) ==
    /\ OtherMayMove /\ session["other"].by = None
    /\ LET q == [request EXCEPT !.att = auth.att, !.pop = auth.pop]
       IN  /\ AuthorizationVerdict(q) = Ok
           /\ session' = [session EXCEPT !["other"] = [Bound(q) EXCEPT !.grants = {"authorization_code"}]]
    /\ UNCHANGED <<jtis, tokens, served, accepted, again, refused>>
    /\ OtherMoves({})

OtherTokenRequest(code, grant, verifier, proof, auth) ==
    [from |-> "x", to |-> "token", proof |-> proof, att |-> auth.att, pop |-> auth.pop, dpop_jkt |-> None,
     client_id |-> "cX", byReference |-> FALSE, jar |-> None,
     code_challenge |-> None, code_verifier |-> verifier,
     tx_code |-> None, code |-> code, grant |-> grant, scheme |-> None]

\* It redeems its own code or one of the wallet's.
OtherRedeems(code, grant, verifier, proof, auth) ==
    /\ OtherMayMove
    /\ grant \in session[code].grants
    /\ LET q == OtherTokenRequest(code, grant, verifier, proof, auth)
       IN  /\ TakesToken(q)
           /\ OtherMoves(IF code = "wallet" /\ TokenVerdict(q) = Ok THEN {"stolen"} ELSE {})

\* It uses a token, its own or one of the wallet's, as either kind.
OtherUses(token, scheme, proof) ==
    /\ OtherMayMove
    /\ TakesResource([OtherTokenRequest(token, None, None, proof, [att |-> None, pop |-> None])
                        EXCEPT !.to = "resource", !.scheme = scheme])
    /\ OtherMoves({})

-----------------------------------------------------------------------------

WalletSteps ==
    \/ Discover \/ RetryWithNonce \/ RetryWithChallenge \/ CallFails
    \/ AfterChallenge \/ AfterPar \/ AfterToken \/ AfterResource
ServerAnswers == \E header \in BOOLEAN, result \in {"code", "request_uri", "neither"} : Answer(header, result)
UserActs == Authorize \/ \E code \in Sessions, iss \in {None, "as", "another"} : Redirected(code, iss)
OtherClient ==
    \/ \E challenge \in {None, CodeChallenge("S256", "vX")}, auth \in OtherClientAuth :
          \E request \in OtherRequests(challenge) : OtherAuthorizes(request, auth)
    \/ \E code \in Sessions, verifier \in {None, "vX"}, auth \in OtherClientAuth,
          proof \in OtherProofs("token", ExpectedNonce([to |-> "token", att |-> None]), None) :
          \E grant \in session[code].grants : OtherRedeems(code, grant, verifier, proof, auth)
    \/ \E token \in tokens, scheme \in {"Bearer", "DPoP"} :
          \E proof \in OtherProofs("resource", ExpectedNonce([to |-> "resource"]), token) : OtherUses(token, scheme, proof)

Ended == at \in {"done", "failed"} /\ UNCHANGED vars

Next ==
    \/ WalletSteps \/ ConnectionFails
    \/ ServerAnswers \/ Duplicate \/ Expire \/ (\E k \in {"as", "rs", "challenge"} : Rotate(k))
    \/ UserActs
    \/ OtherClient
    \/ Ended

Spec == Init /\ [][Next]_vars

\* The wallet goes on when it has an answer, every request is answered (or
\* the connection fails), and the user comes back from the browser.
FairSpec == Spec /\ WF_vars(WalletSteps) /\ WF_vars(ServerAnswers) /\ WF_vars(UserActs)

-----------------------------------------------------------------------------
(* Properties *)

\* What protects a grant of the wallet from another holder of it: the PKCE
\* challenge, the key the session is bound to where the server insists on
\* DPoP, the attested instance of a pushed request, the transaction code.
Protected(grant) ==
    CASE grant = "authorization_code" ->
            cfg.pkce # None \/ (cfg.dpop /\ cfg.requireDpop) \/ (cfg.par /\ cfg.auth = "attest")
      [] grant = "pre-authorized_code" -> cfg.tx_code # None
      [] OTHER -> (cfg.dpop /\ cfg.requireDpop) \/ cfg.auth # "public"

\* The same for what comes of a request object of the wallet that the other
\* client pushed: an attestation protects it only where the server insists.
ObjectProtected(grant) ==
    IF grant = "authorization_code"
    THEN cfg.pkce # None \/ (cfg.dpop /\ cfg.requireDpop) \/ cfg.requireAttestation
    ELSE Protected("refresh_token")

(***************************************************************************)
(* A grant is redeemed by the client it was made for: over every order of  *)
(* the two clients' requests, the checks of verify-access-token-request.ts *)
(* refuse a protected code or refresh token of the wallet when the other   *)
(* client presents it, and refuse the code of the other client's           *)
(* authorization when the wallet, which always sends its code_verifier, is *)
(* made to present it.  A request object of the wallet that the other      *)
(* client pushes as its own gives it nothing: what is pushed next to the   *)
(* object does not count, and where the object is protected only the       *)
(* wallet can redeem the code (parsePushedAuthorizationRequest,            *)
(* verifyPushedAuthorizationRequest).                                      *)
(***************************************************************************)
RedeemedByItsClient ==
    \A t \in tokens :
        /\ t.session = "wallet" /\ t.to = "x" =>
              \/ ~Protected(t.grant)
              \/ t.grant = "refresh_token" /\ ~Protected(cfg.grant)
        /\ t.session = "other" /\ t.to = "w" => cfg.pkce = None \/ session["other"].signedFor = "cW"
        /\ t.session = "other" /\ t.to = "x" /\ session["other"].signedFor = "cW" =>
              \/ ~ObjectProtected(t.grant)
              \/ t.grant = "refresh_token" /\ ~ObjectProtected("authorization_code")

(***************************************************************************)
(* verifyResourceRequest serves a token that is bound to a key only to the *)
(* client that holds the key, whatever scheme the request names and        *)
(* whatever proof it carries.                                              *)
(***************************************************************************)
TokenServesItsHolder ==
    \A s \in served : s.token.jkt # None => s.token.jkt = KeyOf[s.by]

(***************************************************************************)
(* A DPoP proof counts once: verifyDpopJwt accepts no jti twice, also when *)
(* the network delivers a request twice, and refuses a proof of the wallet *)
(* as a replay only if it accepted that proof before; a proof that does    *)
(* not verify cannot use up the jti of one that would.                     *)
(***************************************************************************)
ProofOnce == again = {} /\ refused \subseteq accepted

\* Server and wallet can work together.  The DPoP-bound attestation is
\* verified at the token endpoint only; its proof replaces the one made with
\* the nonce of a retry; and a challenge is answered at the token endpoint.
Compatible ==
    /\ MetadataFound(cfg.meta)
    /\ ~cfg.stubborn
    /\ cfg.jar => cfg.par
    /\ cfg.requireDpop => cfg.dpop
    /\ cfg.requireAttestation => cfg.auth # "public" /\ (cfg.grant = "authorization_code" => cfg.par \/ ~cfg.challengeEndpoint)
    /\ cfg.auth = "attest_dpop" => ~cfg.par /\ ~cfg.challengeEndpoint /\ ~(cfg.wantsNonce /\ ~cfg.wantsChallenge)
    /\ cfg.wantsChallenge /\ cfg.auth = "attest" => ~cfg.par /\ ~cfg.challengeEndpoint

(***************************************************************************)
(* A wallet completes: it ends with the resource served, or something      *)
(* happened that fails any wallet (a lost connection, a refusal of the     *)
(* user, an expired, foreign or stolen code, a nonce replaced during its   *)
(* only retry, a missing header), or the two were not compatible.  The     *)
(* retries for a DPoP nonce and for an attestation challenge nest, and end *)
(* also with a server that insists on a new nonce every time.              *)
(***************************************************************************)
WalletCompletes == <>(at = "done" \/ (at = "failed" /\ (excuse # {} \/ ~Compatible)))

(***************************************************************************)
(* parse-authorization-request.ts says of the PoP of a pushed request that *)
(* it is absent for attest_jwt_client_auth_dpop, where the DPoP proof      *)
(* serves as the proof of possession: such a request of an attested wallet *)
(* is then not refused for its client authentication.                      *)
(***************************************************************************)
DpopServesAsPop ==
    cfg.auth = "attest_dpop" /\ call.to = "par" /\ resp # None => resp.error # "invalid_client"
=============================================================================
