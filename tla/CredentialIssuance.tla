------------------------- MODULE CredentialIssuance -------------------------
(***************************************************************************)
(* A wallet built on Openid4vciClient takes a credential offer, finds the  *)
(* issuer's metadata and authorization server, is authorized, asks for a   *)
(* nonce, requests credentials, polls for deferred ones and reports what   *)
(* it did, at an issuer built on Openid4vciIssuer.                         *)
(*                                                                         *)
(* The issuer "H" is honest. The issuer "E" hands on nonces of H and keeps *)
(* the key proofs it receives; its operator is also a client of H, with a  *)
(* token of its own. A proxy between wallet and H may read plaintext       *)
(* bodies and name its own key in a plaintext request.                     *)
(***************************************************************************)
EXTENDS CredentialRequests

CONSTANTS
    Configs,        \* issuers, offers and wallets
    MaxPolls,       \* how often H answers that a credential is not ready
    MaxExpiries     \* how often the nonces of H expire

\* Servers are listed in a sequence, a proof has one of the types of the
\* specification, and an encryption request names a key of the wallet.
ASSUME ConfigAssumption ==
    \A c \in Configs :
        /\ c.issuer.servers # None => DOMAIN c.issuer.servers = 1..Len(c.issuer.servers)
        /\ c.proof \in {"jwt", "di_vp", "attestation"}
        /\ c.issuer.reqEnc # None => DOMAIN c.issuer.reqEnc.keys \subseteq Nat
        /\ LET e == c.wallet.respEnc
           IN  e # None => e = [to |-> "w", jwkAlg |-> e.jwkAlg, alg |-> e.alg, enc |-> e.enc, zip |-> e.zip]

\* An encryption request that is not there is different from one that is.
ASSUME NoneAssumption ==
    \A c \in Configs :
        LET e == c.wallet.respEnc
        IN  e # None => \A to \in {"w", "proxy"}, a, b \in {e.jwkAlg, e.alg} :
                          [to |-> to, jwkAlg |-> a, alg |-> b, enc |-> e.enc, zip |-> e.zip] # None

VARIABLES
    cfg,        \* the configuration
    at,         \* where the wallet is
    as,         \* the authorization server chosen for the offer's grant
    pkce,       \* [sent, held]: the server has a challenge, the wallet the verifier
    nonce,      \* the c_nonce the wallet holds
    tx,         \* the transaction_id the wallet holds
    wire,       \* the wallet's request under way, or None
    reply,      \* the response to it, or None
    next,       \* the next nonce of H
    live,       \* nonces of H that are valid
    pending,    \* deferred transaction of the wallet at H: polls answered so far, or None
    captured,   \* proofs and nonces the operator of E holds
    given,      \* history: servers that received the wallet's code
    bound,      \* history: [by, proof] of the credentials H issued
    refused,    \* history: why H refused the wallet's requests
    seen,       \* history: what the proxy read
    expiries,   \* how often nonces expired
    excuse      \* history: events that may fail an honest wallet

vars == <<cfg, at, as, pkce, nonce, tx, wire, reply, next, live, pending, captured, given, bound, refused, seen, expiries, excuse>>
wallet == <<as, pkce, nonce, tx>>
history == <<given, bound, refused, seen>>

\* The metadata of the offer's issuer, with the version both sides detect.
M == [version |-> DetectedVersion(cfg.issuer), reqEnc |-> cfg.issuer.reqEnc, respEnc |-> cfg.issuer.respEnc,
      batch |-> cfg.issuer.batch, configs |-> {c.id : c \in cfg.issuer.configs}]

-----------------------------------------------------------------------------
(* Finding the issuer *)

\* fetchCredentialIssuerMetadata: a network error lets the legacy location
\* be tried; an error of the library and an answer end the search. Signed
\* metadata needs a signer the wallet trusts and the issuer as its subject;
\* metadata of another issuer is refused.
MetadataFound(loc) ==
    LET tried == IF cfg.subpath THEN <<loc.primary, loc.legacy>> ELSE <<loc.primary>>
        answers == SelectSeq(tried, LAMBDA r : r \notin {"404", "network"})
    IN  answers # <<>> /\ Head(answers) \in {"found", "signed_x5c"}

\* resolveIssuerMetadata: every listed server needs metadata; only the issuer
\* itself may do without, when it publishes a token endpoint.
ServersResolved(servers) ==
    \A a \in IF servers = None THEN {cfg.offer.issuer} ELSE {servers[n] : n \in DOMAIN servers} :
        a \in cfg.asFound \/ (a = cfg.offer.issuer /\ cfg.issuer.tokenEndpoint)

\* The grant's server is believed.
ServerNamedByOffer(servers, named) ==
    CASE named # None -> named
      [] named = None /\ servers = None -> cfg.offer.issuer
      [] named = None /\ servers = <<>> -> None
      [] OTHER -> servers[1]

\* determineAuthorizationServerForCredentialOffer: None stands for its errors
DeterminedServer(servers, named) ==
    CASE named # None /\ servers # None /\ (\E n \in DOMAIN servers : servers[n] = named) -> named
      [] named = None /\ servers = None -> cfg.offer.issuer
      [] named = None /\ servers # None /\ Len(servers) = 1 -> servers[1]
      [] OTHER -> None

NoPkce == [sent |-> FALSE, held |-> FALSE]

Init ==
    /\ cfg \in Configs
    /\ at = "offer"
    /\ as = None /\ pkce = NoPkce /\ nonce = None /\ tx = None
    /\ wire = None /\ reply = None
    /\ next = 1 /\ live = {} /\ pending = None
    /\ captured = [proofs |-> {}, nonce |-> None]
    /\ given = {} /\ bound = {} /\ refused = {} /\ seen = {} /\ excuse = {} /\ expiries = 0

Environment == <<cfg, next, live, pending, captured, expiries>>

\* resolveCredentialOffer: by value, or by an https reference
ResolveCredentialOffer ==
    /\ at = "offer"
    /\ at' = IF cfg.offer.by \in {"value", "https"} THEN "metadata" ELSE "failed"
    /\ UNCHANGED <<Environment, wallet, wire, reply, history, excuse>>

ResolveIssuerMetadata ==
    /\ at = "metadata"
    /\ at' = IF MetadataFound(cfg.loc) /\ ServersResolved(cfg.issuer.servers) THEN "authorize" ELSE "failed"
    /\ UNCHANGED <<Environment, wallet, wire, reply, history, excuse>>

\* The server asks for a presentation during issuance.
Presents == cfg.flow \in {"iae_vp", "challenge_vp"}

\* initiateAuthorization and createAuthorizationRequestUrlFromOffer, or for
\* the other grant retrievePreAuthorizedCodeAccessTokenFromOffer up to its
\* request. The interactive endpoint is asked first, then the challenge and
\* the authorization endpoint. A redirect returns the verifier; a presentation,
\* whichever endpoint asks for it, is returned without, so that the wallet has
\* the verifier only if it made its own.
InitiateAuthorization ==
    /\ at = "authorize"
    /\ \E server \in {DeterminedServer(cfg.issuer.servers, cfg.offer.as)} :
          /\ as' = server
          /\ \/ server = None /\ at' = "failed" /\ UNCHANGED pkce
             \/ /\ server # None /\ cfg.offer.grant = "pre"
                /\ at' = IF cfg.offer.txCode /\ ~cfg.txCode THEN "failed" ELSE "token"
                /\ UNCHANGED pkce
             \/ /\ server # None /\ cfg.offer.grant = "code"
                /\ at' = CASE cfg.flow = "iae_ok" -> "failed" [] Presents -> "present" [] OTHER -> "token"
                /\ pkce' = [sent |-> cfg.pkce, held |-> cfg.pkce /\ (~Presents \/ cfg.ownVerifier)]
    /\ UNCHANGED <<Environment, nonce, tx, wire, reply, history, excuse>>

\* retrieveAuthorizationCodeUsingInteractiveAuthorization and
\* ...UsingPresentation: the follow-up must yield the code.
RetrieveAuthorizationCode ==
    /\ at = "present"
    /\ \/ at' = "token" /\ UNCHANGED excuse
       \/ at' = "failed" /\ excuse' = excuse \cup {"authorization refused"}
    /\ UNCHANGED <<Environment, wallet, wire, reply, history>>

\* retrieve...AccessTokenFromOffer: the code goes to the chosen server, which
\* compares the verifier with the challenge.
RetrieveAccessToken ==
    /\ at = "token"
    /\ given' = given \cup {as}
    /\ at' = IF pkce.sent = pkce.held THEN "nonce" ELSE "failed"
    /\ UNCHANGED <<Environment, wallet, wire, reply, bound, refused, seen, excuse>>

\* requestNonce and createNonceResponse; an issuer without a nonce endpoint
\* leaves the proof without a nonce.
RequestNonce ==
    /\ at = "nonce"
    /\ at' = "request"
    /\ CASE ~cfg.issuer.nonceEndpoint -> UNCHANGED <<nonce, next, live>>
         [] cfg.issuer.nonceEndpoint /\ cfg.offer.issuer = "H" ->
                nonce' = next /\ live' = live \cup {next} /\ next' = next + 1
         [] OTHER -> nonce' = captured.nonce /\ UNCHANGED <<next, live>>
    /\ UNCHANGED <<cfg, expiries, as, pkce, tx, pending, captured, wire, reply, history, excuse>>

-----------------------------------------------------------------------------
(* Requesting credentials *)

\* createCredentialRequestJwtProof and the proofs of the other types
WalletProof ==
    [type |-> cfg.proof, sig |-> "kW", jwk |-> "kW", aud |-> cfg.offer.issuer, iss |-> "cW", nonce |-> nonce,
     att |-> IF cfg.proof = "attestation" \/ cfg.attested
             THEN [by |-> "attester", keys |-> {"kW"}, storage |-> {"high"}, nonce |-> nonce] ELSE None]

\* Openid4vciClient.createCredentialRequestJwtProof, for a configuration of
\* the metadata; the level of an attestation is left to the issuer.
WalletProofError ==
    IF cfg.proof # "jwt" THEN Ok
    ELSE FirstError(<<
        Refuse(cfg.wallet.by = "id" /\ cfg.wallet.config \notin M.configs, "no_configuration"),
        Refuse(cfg.issuer.attestation # None /\ ~cfg.attested, "key_attestations_required") >>)

CredentialBody ==
    [kind |-> "credential", by |-> cfg.wallet.by, config |-> cfg.wallet.config, proof |-> WalletProof,
     tx |-> None, respEnc |-> cfg.wallet.respEnc]
DeferredBody == [CredentialBody EXCEPT !.kind = "deferred", !.tx = tx]

\* retrieveCredentials, retrieveDeferredCredentials up to the response
SendRequest(error, body) ==
    IF error # Ok
    THEN at' = "failed" /\ UNCHANGED <<wire, seen>>
    ELSE /\ at' = "waiting"
         /\ wire' = Encoded(M, cfg.wallet, body)
         /\ seen' = IF cfg.proxy /\ wire'.type = "json" THEN seen \cup {body.kind} ELSE seen

RetrieveCredentials ==
    /\ at = "request"
    /\ SendRequest(FirstError(<<WalletProofError, RequestError(M, cfg.wallet), EncodeError(M, cfg.wallet)>>), CredentialBody)
    /\ UNCHANGED <<Environment, wallet, reply, given, bound, refused, excuse>>

RetrieveDeferredCredentials ==
    /\ at = "deferred"
    /\ SendRequest(FirstError(<<Refuse(~cfg.issuer.deferred, "no_endpoint"), EncodeError(M, cfg.wallet)>>), DeferredBody)
    /\ UNCHANGED <<Environment, wallet, reply, given, bound, refused, excuse>>

\* A response: an error, credentials, or a transaction to poll. It is
\* encrypted to the key of the request (createCredentialResponse,
\* createDeferredCredentialResponse).
Response(error, creds, txid, e) ==
    [error |-> error, creds |-> creds, tx |-> txid, interval |-> txid # None, encTo |-> IF e = None THEN None ELSE e.to]

Answer(r) ==
    /\ reply' = r
    /\ wire' = None
    /\ seen' = IF cfg.proxy /\ r.creds /\ r.encTo # "w" THEN seen \cup {"credentials"} ELSE seen

\* The nonce a request at H must carry: any that is live.
NonceFor(p) == IF ~cfg.issuer.nonceEndpoint THEN None ELSE IF p.nonce \in live THEN p.nonce ELSE 0

\* H: parseCredentialRequest, the verification of the proofs, and a response
\* with credentials or a transaction. The application accepts a nonce once.
IssuerVerdict(client, r) ==
    FirstError(<<
        ParseError(M, cfg.issuer.decryptJwe, r),
        IF r.body.kind = "deferred" THEN Ok
        ELSE Refuse(r.body.by = "format" /\ MatchingConfigurations(cfg.issuer.configs, r.body.config) = {}, "unsupported_credential_type"),
        IF r.body.kind = "deferred" THEN Ok
        ELSE ProofError(r.body.proof, "H", client, NonceFor(r.body.proof), cfg.issuer.attestation) >>)

Issued(by, p) ==
    /\ bound' = bound \cup {[by |-> by, proof |-> p]}
    /\ live' = live \ {p.nonce}

HandleCredentialRequest ==
    /\ wire # None /\ cfg.offer.issuer = "H" /\ wire.body.kind = "credential"
    /\ \E v \in {IssuerVerdict("cW", wire)} :
          \/ /\ v # Ok
             /\ Answer(Response(v, FALSE, None, None))
             /\ refused' = refused \cup {v}
             /\ UNCHANGED <<live, bound, pending>>
          \/ /\ v = Ok
             /\ Answer(Response(None, TRUE, None, wire.body.respEnc))
             /\ Issued("w", wire.body.proof)
             /\ UNCHANGED <<refused, pending>>
          \/ /\ v = Ok /\ cfg.issuer.deferred
             /\ Answer(Response(None, FALSE, "t1", wire.body.respEnc))
             /\ Issued("w", wire.body.proof)
             /\ pending' = 0
             /\ UNCHANGED refused
    /\ UNCHANGED <<cfg, expiries, at, wallet, next, captured, given, excuse>>

HandleDeferredCredentialRequest ==
    /\ wire # None /\ cfg.offer.issuer = "H" /\ wire.body.kind = "deferred"
    /\ \E v \in {IssuerVerdict("cW", wire)} :
          \/ /\ v # Ok
             /\ Answer(Response(v, FALSE, None, None))
             /\ refused' = refused \cup {v}
             /\ UNCHANGED pending
          \/ /\ v = Ok /\ pending < MaxPolls
             /\ Answer(Response(None, FALSE, wire.body.tx, wire.body.respEnc))
             /\ pending' = pending + 1
             /\ UNCHANGED refused
          \/ /\ v = Ok
             /\ Answer(Response(None, TRUE, None, wire.body.respEnc))
             /\ UNCHANGED <<refused, pending>>
    /\ UNCHANGED <<cfg, expiries, at, wallet, next, live, captured, given, bound, excuse>>

\* E keeps the proof and answers as it likes, malformed and misdirected
\* responses included.
HandleElsewhere ==
    /\ wire # None /\ cfg.offer.issuer = "E"
    /\ captured' = [captured EXCEPT !.proofs = @ \cup {wire.body.proof}]
    /\ \E creds \in BOOLEAN, t \in {None, "t1", "t2"} : Answer(Response(None, creds, t, wire.body.respEnc))
    /\ UNCHANGED <<cfg, expiries, at, wallet, next, live, pending, given, bound, refused, excuse>>

\* Every response must repeat the transaction.
AlwaysSameTransaction(r, txid) == r.tx = txid

\* zDeferredResponse: credentials, or the transaction that was asked about
SameTransaction(r, txid) == r.creds \/ r.tx = txid

\* zCredentialResponse, zDeferredCredentialResponse
ResponseValid(r) == (r.creds <=> r.tx = None) /\ (r.tx # None => r.interval)

\* handleCredentialResponse: what was asked for encrypted must come encrypted.
ResponseAccepted(r) ==
    /\ cfg.wallet.respEnc # None => r.encTo = "w"
    /\ ResponseValid(r)
    /\ tx # None => SameTransaction(r, tx)

\* The application retries with a new nonce when the issuer refuses the old.
HandleResponse ==
    /\ reply # None /\ at = "waiting"
    /\ reply' = None
    /\ CASE reply.error = "nonce" -> at' = "nonce" /\ UNCHANGED tx
         [] reply.error \notin {"nonce", None} -> at' = "failed" /\ UNCHANGED tx
         [] OTHER -> /\ at' = IF ~ResponseAccepted(reply) THEN "failed" ELSE IF reply.creds THEN "done" ELSE "deferred"
                     /\ tx' = IF ResponseAccepted(reply) /\ ~reply.creds THEN reply.tx ELSE tx
    /\ UNCHANGED <<Environment, as, pkce, nonce, wire, history, excuse>>

\* sendNotification
SendNotification ==
    /\ at = "done" /\ cfg.issuer.notification
    /\ at' = "notified"
    /\ UNCHANGED <<Environment, wallet, wire, reply, history, excuse>>

-----------------------------------------------------------------------------
(* Everything else *)

\* callbacks.fetch fails: the call rejects.
ConnectionFails ==
    /\ at = "waiting" /\ wire # None
    /\ at' = "failed" /\ wire' = None /\ excuse' = excuse \cup {"connection"}
    /\ UNCHANGED <<Environment, wallet, reply, history>>

\* Nonces of H expire.
ExpireNonces ==
    /\ live # {} /\ expiries < MaxExpiries
    /\ live' = {} /\ expiries' = expiries + 1
    /\ UNCHANGED <<cfg, at, wallet, next, pending, captured, wire, reply, history, excuse>>

\* The operator of E takes a nonce from H.
TakeNonce ==
    /\ cfg.offer.issuer = "E" /\ captured.nonce = None
    /\ captured' = [captured EXCEPT !.nonce = next]
    /\ live' = live \cup {next} /\ next' = next + 1
    /\ UNCHANGED <<cfg, expiries, at, wallet, wire, reply, pending, history, excuse>>

\* It requests a credential at H with its own token, and a proof of its own,
\* attested by itself or not at all, or one that E received.
OwnProofs ==
    {[type |-> "jwt", sig |-> "kX", jwk |-> "kX", aud |-> "H", iss |-> "cX", nonce |-> captured.nonce, att |-> a] :
       a \in {None, [by |-> "self", keys |-> {"kX"}, storage |-> {"high"}, nonce |-> captured.nonce],
              [by |-> "attester", keys |-> {"kX"}, storage |-> {"low"}, nonce |-> captured.nonce]}}
RequestWith(p) ==
    /\ cfg.offer.issuer = "E" /\ captured.nonce # None
    /\ ProofError(p, "H", IF cfg.sharedClient THEN None ELSE "cX", NonceFor(p), cfg.issuer.attestation) = Ok
    /\ Issued("x", p)
    /\ UNCHANGED <<cfg, expiries, at, wallet, wire, reply, next, pending, captured, given, refused, seen, excuse>>
OtherRequest == \E p \in OwnProofs \cup captured.proofs : RequestWith(p)

\* The proxy names its own key in a plaintext request.
Rewrite ==
    /\ cfg.proxy /\ wire # None /\ wire.type = "json"
    /\ wire.body.respEnc # None /\ wire.body.respEnc.to = "w"
    /\ wire' = [wire EXCEPT !.body.respEnc.to = "proxy"]
    /\ UNCHANGED <<Environment, at, wallet, reply, history, excuse>>

Finished == at \in {"failed", "notified"} \/ (at = "done" /\ ~cfg.issuer.notification)
Rest == Finished /\ UNCHANGED vars

Wallet ==
    \/ ResolveCredentialOffer \/ ResolveIssuerMetadata \/ InitiateAuthorization \/ RetrieveAuthorizationCode
    \/ RetrieveAccessToken \/ RequestNonce \/ RetrieveCredentials \/ RetrieveDeferredCredentials
    \/ HandleResponse \/ SendNotification
Issuer == HandleCredentialRequest \/ HandleDeferredCredentialRequest \/ HandleElsewhere
Next == Wallet \/ Issuer \/ ConnectionFails \/ ExpireNonces \/ TakeNonce \/ OtherRequest \/ Rewrite \/ Rest

Spec == Init /\ [][Next]_vars

\* The wallet's own steps go on, and servers answer what they receive.
FairSpec == Spec /\ WF_vars(Wallet) /\ WF_vars(Issuer)

-----------------------------------------------------------------------------
(* Properties *)

\* determineAuthorizationServerForCredentialOffer: whatever an offer says, the
\* code and the verifier reach only a server the issuer itself lists, or the
\* issuer where it lists none.
CodeToListedServer ==
    given \subseteq IF cfg.issuer.servers = None THEN {cfg.offer.issuer}
                    ELSE {cfg.issuer.servers[n] : n \in DOMAIN cfg.issuer.servers}

\* What a wallet may expect from the metadata alone: it asks for response
\* encryption with parameters the issuer lists, or the issuer does not ask.
WithinMetadata ==
    /\ cfg.issuer.decryptJwe
    /\ IF cfg.wallet.respEnc = None THEN M.version = "Draft11" => ~(M.respEnc # None /\ M.respEnc.required)
       ELSE /\ M.respEnc # None
            /\ AlgOf(cfg.wallet.respEnc) \in M.respEnc.algs
            /\ cfg.wallet.respEnc.enc \in M.respEnc.encs
            /\ ~cfg.wallet.respEnc.zip

\* encodeCredentialRequest and parse(Deferred)CredentialRequest agree: in every
\* version, a request the wallet sends within the metadata is never refused for
\* how it is encrypted or for the encryption it asks for.
EncryptionAgreed ==
    WithinMetadata => refused \cap {"invalid_encryption_parameters", "server_error"} = {}

\* encodeCredentialRequest: where the request can be encrypted, a wallet that
\* asks for an encrypted response shows a proxy that rewrites plaintext neither
\* its proofs nor the credential, in the first request and when it polls.
HiddenFromProxy ==
    cfg.offer.issuer = "H" /\ cfg.wallet.respEnc # None /\ M.version = "V1" => seen = {}

\* verifyCredentialRequestJwtProof, verifyCredentialRequestDiVpProof: H binds a
\* credential to a key only on a proof made for H, and where attestations are
\* required only to keys an attester vouches for, although another issuer may
\* hand on nonces of H and proofs it was given. (A proof of the type
\* attestation names no audience.)
KeyProvedHere ==
    \A b \in bound :
        /\ b.proof.type # "attestation" => b.proof.aud = "H"
        /\ cfg.issuer.attestation # None /\ b.proof.type # "di_vp" =>
              /\ b.proof.att # None
              /\ b.proof.att.by = "attester"
              /\ ProvedKeys(b.proof) \subseteq b.proof.att.keys
              /\ b.proof.att.storage \cap cfg.issuer.attestation # {}

\* A configuration under which nothing the code checks stands in the way. A
\* wallet that leaves the verifier to the library loses it where the server
\* asks for a presentation and cannot redeem its code: it is left out here.
Compatible ==
    /\ cfg.offer.issuer = "H" /\ cfg.offer.by # "http"
    /\ MetadataFound(cfg.loc) /\ ServersResolved(cfg.issuer.servers)
    /\ DeterminedServer(cfg.issuer.servers, cfg.offer.as) # None
    /\ cfg.offer.grant = "pre" => (cfg.offer.txCode => cfg.txCode)
    /\ cfg.offer.grant = "code" => cfg.flow # "iae_ok" /\ (Presents /\ cfg.pkce => cfg.ownVerifier)
    /\ cfg.wallet.by = "id" => cfg.wallet.config \in M.configs
    /\ WalletProofError = Ok /\ RequestError(M, cfg.wallet) = Ok /\ EncodeError(M, cfg.wallet) = Ok
    /\ cfg.issuer.attestation # None => cfg.attested \/ cfg.proof = "attestation"
    /\ WithinMetadata

\* A wallet compatible with an honest issuer obtains its credential although
\* nonces expire and the credential is deferred, unless a connection fails or
\* the user is refused.
WalletServed ==
    Compatible /\ ~cfg.proxy => <>(excuse \cap {"connection", "authorization refused"} # {} \/ at \in {"done", "notified"})
=============================================================================
