---------------------- MODULE CredentialIssuanceProofs ----------------------
(***************************************************************************)
(* The safety properties of CredentialIssuance, proved for every set of    *)
(* configurations, any number of polls and any number of expiries.         *)
(***************************************************************************)
EXTENDS CredentialIssuance, TLAPS

-----------------------------------------------------------------------------
(* The code reaches a listed server *)

Listed ==
    IF cfg.issuer.servers = None THEN {cfg.offer.issuer}
    ELSE {cfg.issuer.servers[n] : n \in DOMAIN cfg.issuer.servers}

ServerInv ==
    /\ cfg \in Configs
    /\ at \in {"present", "token"} => as \in Listed
    /\ given \subseteq Listed

\* determineAuthorizationServerForCredentialOffer errs or finds a listed server.
LEMMA DeterminedIsListed ==
  ASSUME cfg \in Configs, DeterminedServer(cfg.issuer.servers, cfg.offer.as) # None
  PROVE  DeterminedServer(cfg.issuer.servers, cfg.offer.as) \in Listed
<1> DEFINE servers == cfg.issuer.servers
           named == cfg.offer.as
<1>1. servers # None => DOMAIN servers = 1..Len(servers)
  BY ConfigAssumption
<1> HIDE DEF servers, named
<1>2. CASE named # None /\ servers # None /\ \E n \in DOMAIN servers : servers[n] = named
  BY <1>2 DEF DeterminedServer, Listed, servers, named
<1>3. CASE named = None /\ servers = None
  BY <1>3 DEF DeterminedServer, Listed, servers, named
<1>4. CASE named = None /\ servers # None /\ Len(servers) = 1
  <2>1. 1 \in DOMAIN servers
    BY <1>1, <1>4
  <2> QED BY <1>4, <2>1 DEF DeterminedServer, Listed, servers, named
<1>5. CASE /\ ~(named # None /\ servers # None /\ \E n \in DOMAIN servers : servers[n] = named)
           /\ ~(named = None /\ servers = None)
           /\ ~(named = None /\ servers # None /\ Len(servers) = 1)
  BY <1>5 DEF DeterminedServer, servers, named
<1> QED BY <1>2, <1>3, <1>4, <1>5

LEMMA ServerStep ==
  ASSUME ServerInv, [Next]_vars
  PROVE  ServerInv'
<1> USE DEF wallet, history, Environment
<1>1. cfg' = cfg
  BY DEF Next, vars, Wallet, Issuer, ResolveCredentialOffer, ResolveIssuerMetadata, InitiateAuthorization,
         RetrieveAuthorizationCode, RetrieveAccessToken, RequestNonce, RetrieveCredentials,
         RetrieveDeferredCredentials, HandleResponse, SendNotification, HandleCredentialRequest,
         HandleDeferredCredentialRequest, HandleElsewhere, ConnectionFails, ExpireNonces, TakeNonce,
         OtherRequest, RequestWith, Rewrite, Rest
<1>2. Listed' = Listed
  BY <1>1 DEF Listed
<1>3. ASSUME as' = as, given' = given, at' \in {"present", "token"} => at \in {"present", "token"}
      PROVE  ServerInv'
  BY <1>1, <1>2, <1>3 DEF ServerInv
<1>4. ASSUME InitiateAuthorization PROVE ServerInv'
  <2>1. as' = DeterminedServer(cfg.issuer.servers, cfg.offer.as) /\ given' = given
    BY <1>4 DEF InitiateAuthorization
  <2>2. at' \in {"present", "token"} => as' # None
    BY <1>4 DEF InitiateAuthorization
  <2>3. at' \in {"present", "token"} => as' \in Listed
    BY <2>1, <2>2, DeterminedIsListed DEF ServerInv
  <2> QED BY <1>1, <1>2, <2>1, <2>3 DEF ServerInv
<1>5. ASSUME RetrieveAccessToken PROVE ServerInv'
  <2>1. as' = as /\ at = "token" /\ given' = given \cup {as} /\ at' \in {"nonce", "failed"}
    BY <1>5 DEF RetrieveAccessToken
  <2> QED BY <1>1, <1>2, <2>1 DEF ServerInv
<1>6. ASSUME RetrieveCredentials \/ RetrieveDeferredCredentials PROVE ServerInv'
  <2>1. as' = as /\ given' = given /\ at' \in {"failed", "waiting"}
    BY <1>6 DEF RetrieveCredentials, RetrieveDeferredCredentials, SendRequest
  <2> QED BY <1>3, <2>1
<1>7. ASSUME HandleResponse PROVE ServerInv'
  <2>1. as' = as /\ given' = given /\ at' \in {"nonce", "failed", "done", "deferred"}
    BY <1>7 DEF HandleResponse
  <2> QED BY <1>3, <2>1
<1>8. CASE \/ ResolveCredentialOffer \/ ResolveIssuerMetadata \/ RetrieveAuthorizationCode \/ RequestNonce
           \/ SendNotification \/ Issuer \/ ConnectionFails \/ ExpireNonces \/ TakeNonce \/ OtherRequest
           \/ Rewrite \/ Rest \/ UNCHANGED vars
  <2>1. as' = as /\ given' = given /\ (at' \in {"present", "token"} => at \in {"present", "token"})
    BY <1>8
       DEF ResolveCredentialOffer, ResolveIssuerMetadata, RetrieveAuthorizationCode, RequestNonce,
           SendNotification, Issuer, HandleCredentialRequest, HandleDeferredCredentialRequest, HandleElsewhere,
           ConnectionFails, ExpireNonces, TakeNonce, OtherRequest, RequestWith, Rewrite, Rest, vars
  <2> QED BY <1>3, <2>1
<1> QED BY <1>4, <1>5, <1>6, <1>7, <1>8 DEF Next, Wallet

(***************************************************************************)
(* Whatever an offer says, determineAuthorizationServerForCredentialOffer  *)
(* lets the code and the verifier reach only a server the issuer lists.    *)
(***************************************************************************)
THEOREM CodeReachesListedServer == Spec => []CodeToListedServer
<1>1. Init => ServerInv
  BY DEF Init, ServerInv
<1>2. ServerInv => CodeToListedServer
  BY DEF ServerInv, Listed, CodeToListedServer
<1> QED BY <1>1, <1>2, ServerStep, PTL DEF Spec

-----------------------------------------------------------------------------
(* The request on the wire *)

ProofTypes == {"jwt", "di_vp", "attestation"}

\* The request is as it was encoded, with the encryption request the wallet
\* made; only of a plaintext request may a proxy have changed the key.
BodyShape(b) ==
    b = [kind |-> b.kind, by |-> b.by, config |-> b.config, proof |-> b.proof, tx |-> b.tx, respEnc |-> b.respEnc]
WireShape(r) ==
    r = [type |-> r.type, kid |-> r.kid, enc |-> r.enc, zip |-> r.zip, body |-> r.body] /\ BodyShape(r.body)
EncryptionRequest(to, a, b, w) == [to |-> to, jwkAlg |-> a, alg |-> b, enc |-> w.respEnc.enc, zip |-> w.respEnc.zip]
Sound(r, w) ==
    /\ WireShape(r)
    /\ EncodeError(M, w) = Ok
    /\ ShouldEncrypt(M, w) => /\ r.type = "jwt" /\ r.kid = EncryptionKey(M, w.reqEnc).kid
                              /\ r.enc = EncOf(M, w) /\ r.zip = FALSE
    /\ ~ShouldEncrypt(M, w) => r.type = "json"
    /\ r.body.proof.type \in ProofTypes
    /\ w.respEnc = None => r.body.respEnc = None
    /\ w.respEnc # None =>
          \E to \in {"w", "proxy"}, a, b \in {w.respEnc.jwkAlg, w.respEnc.alg} :
             /\ r.body.respEnc = EncryptionRequest(to, a, b, w)
             /\ (IF a # None THEN a ELSE b) = AlgOf(w.respEnc)
             /\ to = "w" \/ r.type = "json"
WireInv == wire # None => Sound(wire, cfg.wallet)

\* What withCredentialResponseEncryptionAlg makes of the wallet's request.
LEMMA NamedRequest ==
  ASSUME cfg \in Configs, cfg.wallet.respEnc # None
  PROVE  \E a, b \in {cfg.wallet.respEnc.jwkAlg, cfg.wallet.respEnc.alg} :
            /\ Named(M, cfg.wallet) = EncryptionRequest("w", a, b, cfg.wallet)
            /\ (IF a # None THEN a ELSE b) = AlgOf(cfg.wallet.respEnc)
<1> DEFINE e == cfg.wallet.respEnc
<1>1. PICK j, l, enc, zip : e = [to |-> "w", jwkAlg |-> j, alg |-> l, enc |-> enc, zip |-> zip]
  <2>1. e = [to |-> "w", jwkAlg |-> e.jwkAlg, alg |-> e.alg, enc |-> e.enc, zip |-> e.zip]
    BY ConfigAssumption
  <2> HIDE DEF e
  <2> QED BY <2>1
<1>2. e.jwkAlg = j /\ e.alg = l /\ e.enc = enc /\ e.zip = zip
  BY <1>1
<1>3. \A x : [e EXCEPT !.jwkAlg = x] = [to |-> "w", jwkAlg |-> x, alg |-> l, enc |-> enc, zip |-> zip]
  BY <1>1
<1>4. \A x : [e EXCEPT !.alg = x] = [to |-> "w", jwkAlg |-> j, alg |-> x, enc |-> enc, zip |-> zip]
  BY <1>1
<1>5. AlgOf(e) = IF j # None THEN j ELSE l
  BY <1>2 DEF AlgOf
<1>6. \A a, b : EncryptionRequest("w", a, b, cfg.wallet) = [to |-> "w", jwkAlg |-> a, alg |-> b, enc |-> enc, zip |-> zip]
  BY <1>2 DEF EncryptionRequest
<1>7. Named(M, cfg.wallet) = IF M.version = "Draft11" THEN e
                             ELSE IF M.version = "V1" THEN [e EXCEPT !.jwkAlg = AlgOf(e)] ELSE [e EXCEPT !.alg = AlgOf(e)]
  BY DEF Named, WithAlg
<1> DEFINE x == AlgOf(e)
<1>8. x \in {j, l}
  BY <1>5
<1>9. x = (IF j # None THEN j ELSE l)
  BY <1>5
<1> HIDE DEF e, x
<1>10. CASE M.version = "Draft11"
  <2>1. Named(M, cfg.wallet) = EncryptionRequest("w", j, l, cfg.wallet)
    BY <1>1, <1>6, <1>7, <1>10
  <2> QED BY <1>2, <1>9, <2>1 DEF e, x
<1>11. CASE M.version = "V1"
  <2>1. Named(M, cfg.wallet) = EncryptionRequest("w", x, l, cfg.wallet)
    <3>1. Named(M, cfg.wallet) = [e EXCEPT !.jwkAlg = x]
      BY <1>7, <1>11 DEF x
    <3> QED BY <1>3, <1>6, <3>1
  <2>2. (IF x # None THEN x ELSE l) = x
    BY <1>9
  <2> QED BY <1>2, <1>8, <2>1, <2>2 DEF e, x
<1>12. CASE M.version \notin {"Draft11", "V1"}
  <2>1. Named(M, cfg.wallet) = EncryptionRequest("w", j, x, cfg.wallet)
    BY <1>4, <1>6, <1>7, <1>12 DEF x
  <2>2. (IF j # None THEN j ELSE x) = x
    BY <1>9
  <2> QED BY <1>2, <1>8, <2>1, <2>2 DEF e, x
<1> QED BY <1>10, <1>11, <1>12

\* encodeCredentialRequest
LEMMA EncodedIsSound ==
  ASSUME cfg \in Configs, EncodeError(M, cfg.wallet) = Ok, NEW body, BodyShape(body), body.proof = WalletProof
  PROVE  Sound(Encoded(M, cfg.wallet, body), cfg.wallet)
<1> DEFINE w == cfg.wallet
           named == Named(M, w)
           full == [body EXCEPT !.respEnc = named]
           r == Encoded(M, w, body)
<1>1. w.respEnc = None => named = None
  BY DEF Named
<1>2. BodyShape(full) /\ full.proof = WalletProof /\ full.respEnc = named
  <2> HIDE DEF named
  <2>1. PICK kind, by, config, tt, e :
           body = [kind |-> kind, by |-> by, config |-> config, proof |-> WalletProof, tx |-> tt, respEnc |-> e]
    BY DEF BodyShape
  <2>2. full = [kind |-> kind, by |-> by, config |-> config, proof |-> WalletProof, tx |-> tt, respEnc |-> named]
    BY <2>1
  <2> HIDE DEF full
  <2> QED BY <2>2 DEF BodyShape
<1>3. r = IF ShouldEncrypt(M, w)
          THEN [type |-> "jwt", kid |-> EncryptionKey(M, w.reqEnc).kid, enc |-> EncOf(M, w), zip |-> FALSE, body |-> full]
          ELSE [type |-> "json", kid |-> None, enc |-> None, zip |-> FALSE, body |-> full]
  BY DEF Encoded
<1>4. WalletProof.type \in ProofTypes
  BY ConfigAssumption DEF WalletProof, ProofTypes
<1>5. w.respEnc # None => \E a, b \in {w.respEnc.jwkAlg, w.respEnc.alg} :
                             /\ named = EncryptionRequest("w", a, b, w)
                             /\ (IF a # None THEN a ELSE b) = AlgOf(w.respEnc)
  BY NamedRequest
<1>6. EncodeError(M, w) = Ok
  OBVIOUS
<1> HIDE DEF w, named, full, r
<1>7. CASE ShouldEncrypt(M, w)
  <2>1. r = [type |-> "jwt", kid |-> EncryptionKey(M, w.reqEnc).kid, enc |-> EncOf(M, w), zip |-> FALSE, body |-> full]
    BY <1>3, <1>7
  <2>2. /\ r.type = "jwt" /\ r.kid = EncryptionKey(M, w.reqEnc).kid /\ r.enc = EncOf(M, w) /\ r.zip = FALSE
        /\ r.body = full /\ r = [type |-> r.type, kid |-> r.kid, enc |-> r.enc, zip |-> r.zip, body |-> r.body]
    BY <2>1
  <2>3. Sound(r, w)
    BY <1>1, <1>2, <1>4, <1>5, <1>6, <1>7, <2>2 DEF Sound, WireShape
  <2> QED BY <2>3 DEF r, w
<1>8. CASE ~ShouldEncrypt(M, w)
  <2>1. r = [type |-> "json", kid |-> None, enc |-> None, zip |-> FALSE, body |-> full]
    BY <1>3, <1>8
  <2>2. /\ r.type = "json"
        /\ r.body = full /\ r = [type |-> r.type, kid |-> r.kid, enc |-> r.enc, zip |-> r.zip, body |-> r.body]
    BY <2>1
  <2>3. Sound(r, w)
    BY <1>1, <1>2, <1>4, <1>5, <1>6, <1>8, <2>2 DEF Sound, WireShape
  <2> QED BY <2>3 DEF r, w
<1> QED BY <1>7, <1>8

-----------------------------------------------------------------------------
(* What the issuer makes of it *)

EncryptionErrors == {"invalid_encryption_parameters", "server_error"}

\* The key a request is encrypted to is one the issuer lists.
LEMMA KeyIsListed ==
  ASSUME NEW m, NEW opt, DOMAIN m.reqEnc.keys \subseteq Nat, EncryptionKey(m, opt) # None
  PROVE  \E n \in DOMAIN m.reqEnc.keys : m.reqEnc.keys[n] = EncryptionKey(m, opt)
<1> DEFINE wanted == {n \in DOMAIN m.reqEnc.keys :
                        /\ Usable(m.reqEnc.keys[n])
                        /\ opt = None \/ opt.kid = None \/ m.reqEnc.keys[n].kid = opt.kid}
           Least(n) == \A k \in wanted : n <= k
           first == CHOOSE n \in wanted : Least(n)
<1>1. wanted # {} /\ EncryptionKey(m, opt) = m.reqEnc.keys[first]
  BY DEF EncryptionKey
<1>2. wanted \subseteq Nat /\ wanted \subseteq DOMAIN m.reqEnc.keys
  OBVIOUS
<1> HIDE DEF wanted
<1>3. \E n \in wanted : Least(n)
  BY <1>1, <1>2, LeastNat
<1> HIDE DEF Least
<1>4. first \in wanted
  BY <1>3
<1> HIDE DEF first
<1> QED BY <1>1, <1>2, <1>4

LEMMA EncodedOk ==
  ASSUME NEW m, NEW w, EncodeError(m, w) = Ok
  PROVE  /\ m.version # "Draft11" /\ w.respEnc = None => ~(m.respEnc # None /\ m.respEnc.required)
         /\ ShouldEncrypt(m, w) =>
               /\ m.reqEnc # None /\ EncryptionKey(m, w.reqEnc) # None
               /\ \E n \in DOMAIN m.reqEnc.encs : m.reqEnc.encs[n] = EncOf(m, w)
<1>1. m.version # "Draft11" /\ w.respEnc = None => ~(m.respEnc # None /\ m.respEnc.required)
  BY DEF EncodeError, Ok
<1>2. ASSUME ShouldEncrypt(m, w)
      PROVE  /\ m.reqEnc # None /\ EncryptionKey(m, w.reqEnc) # None
             /\ \E n \in DOMAIN m.reqEnc.encs : m.reqEnc.encs[n] = EncOf(m, w)
  <2> DEFINE c1 == Refuse(~w.encryptJwe, "no_encryptJwe")
             c2 == Refuse(EncryptionKey(m, w.reqEnc) = None, "no_key")
             c3 == Refuse(\A n \in DOMAIN m.reqEnc.encs : m.reqEnc.encs[n] # EncOf(m, w), "enc")
  <2>1. m.reqEnc # None /\ FirstError(<<c1, c2, c3>>) = Ok
    BY <1>2 DEF EncodeError, Ok
  <2> HIDE DEF c1, c2, c3
  <2>2. c2 = Ok /\ c3 = Ok
    BY <2>1, ThreeOk
  <2> QED BY <2>1, <2>2 DEF c2, c3, Refuse, Ok
<1> QED BY <1>1, <1>2

\* verifyCredentialResponseEncryption takes what the wallet asks for.
LEMMA ResponseEncryptionTaken ==
  ASSUME cfg \in Configs, NEW r, Sound(r, cfg.wallet), WithinMetadata
  PROVE  ResponseEncryptionError(M, r.body.respEnc) = Ok
<1> DEFINE w == cfg.wallet
           e == r.body.respEnc
<1>1. CASE w.respEnc = None
  <2>1. e = None
    BY <1>1 DEF Sound
  <2>2. ~(M.respEnc # None /\ M.respEnc.required)
    BY <1>1, EncodedOk DEF Sound, WithinMetadata
  <2> QED BY <2>1, <2>2 DEF ResponseEncryptionError, Refuse
<1>2. CASE w.respEnc # None
  <2>1. PICK to \in {"w", "proxy"}, a \in {w.respEnc.jwkAlg, w.respEnc.alg}, b \in {w.respEnc.jwkAlg, w.respEnc.alg} :
           /\ e = EncryptionRequest(to, a, b, w)
           /\ (IF a # None THEN a ELSE b) = AlgOf(w.respEnc)
    BY <1>2 DEF Sound
  <2>2. e # None
    BY <1>2, <2>1, NoneAssumption DEF EncryptionRequest
  <2>3. e.jwkAlg = a /\ e.alg = b /\ e.enc = w.respEnc.enc /\ e.zip = w.respEnc.zip
    BY <2>1 DEF EncryptionRequest
  <2>4. AlgOf(e) = AlgOf(w.respEnc)
    <3> HIDE DEF e
    <3> QED BY <2>1, <2>3 DEF AlgOf
  <2>5. /\ M.respEnc # None /\ AlgOf(w.respEnc) \in M.respEnc.algs /\ w.respEnc.enc \in M.respEnc.encs
        /\ ~w.respEnc.zip
    BY <1>2 DEF WithinMetadata
  <2> HIDE DEF e, w
  <2>6. ResponseEncryptionError(M, e) = Ok
    BY <2>2, <2>3, <2>4, <2>5 DEF ResponseEncryptionError, Refuse
  <2> QED BY <2>6 DEF e
<1> QED BY <1>1, <1>2

LEMMA PayloadTaken ==
  ASSUME cfg \in Configs, NEW r, Sound(r, cfg.wallet), WithinMetadata
  PROVE  PayloadError(M, r.body) \notin EncryptionErrors
<1> DEFINE c1 == ResponseEncryptionError(M, r.body.respEnc)
           c2 == Refuse(r.body.kind = "credential" /\ r.body.by = "id" /\ r.body.config \notin M.configs,
                        "unknown_credential_configuration")
<1>1. c1 = Ok
  BY ResponseEncryptionTaken
<1>2. c2 \in {Ok, "unknown_credential_configuration"}
  BY DEF Refuse
<1>3. PayloadError(M, r.body) = FirstError(<<c1, c2>>)
  BY DEF PayloadError
<1> HIDE DEF c1, c2
<1> QED BY <1>1, <1>2, <1>3, AmongTwo DEF EncryptionErrors, Ok

LEMMA ParseTaken ==
  ASSUME cfg \in Configs, NEW r, Sound(r, cfg.wallet), WithinMetadata
  PROVE  ParseError(M, cfg.issuer.decryptJwe, r) \notin EncryptionErrors
<1> DEFINE w == cfg.wallet
           pay == PayloadError(M, r.body)
<1>1. pay \notin EncryptionErrors
  BY PayloadTaken
<1>2. CASE ShouldEncrypt(M, w)
  <2> DEFINE d1 == Refuse(\A n \in DOMAIN M.reqEnc.keys : M.reqEnc.keys[n].kid # r.kid, "invalid_encryption_parameters")
             d2 == Refuse(\A n \in DOMAIN M.reqEnc.encs : M.reqEnc.encs[n] # r.enc, "invalid_encryption_parameters")
             d3 == Refuse(r.zip, "invalid_encryption_parameters")
             d4 == Refuse(~cfg.issuer.decryptJwe, "server_error")
  <2>1. /\ r.type = "jwt" /\ r.kid = EncryptionKey(M, w.reqEnc).kid /\ r.enc = EncOf(M, w) /\ r.zip = FALSE
        /\ EncodeError(M, w) = Ok
    BY <1>2 DEF Sound
  <2>2. /\ M.reqEnc # None /\ EncryptionKey(M, w.reqEnc) # None
        /\ \E n \in DOMAIN M.reqEnc.encs : M.reqEnc.encs[n] = EncOf(M, w)
    BY <1>2, <2>1, EncodedOk
  <2>3. DOMAIN M.reqEnc.keys \subseteq Nat
    <3>1. M.reqEnc = cfg.issuer.reqEnc
      BY DEF M
    <3> QED BY <2>2, <3>1, ConfigAssumption
  <2>4. \E n \in DOMAIN M.reqEnc.keys : M.reqEnc.keys[n].kid = r.kid
    BY <2>1, <2>2, <2>3, KeyIsListed
  <2>5. d1 = Ok /\ d2 = Ok /\ d3 = Ok /\ d4 = Ok
    BY <2>1, <2>2, <2>4 DEF Refuse, WithinMetadata
  <2>6. DecryptError(M, cfg.issuer.decryptJwe, r) = FirstError(<<d1, d2, d3, d4>>)
    BY <2>2 DEF DecryptError
  <2> HIDE DEF d1, d2, d3, d4
  <2>7. DecryptError(M, cfg.issuer.decryptJwe, r) = Ok
    BY <2>5, <2>6, AmongFour
  <2> QED BY <1>1, <2>1, <2>7 DEF ParseError
<1>3. CASE ~ShouldEncrypt(M, w)
  <2> DEFINE p1 == Refuse(M.reqEnc # None /\ M.reqEnc.required, "invalid_encryption_parameters")
             p2 == Refuse(r.body.respEnc # None /\ M.version = "V1" /\ M.respEnc # None /\ M.reqEnc = None, "server_error")
             p3 == Refuse(r.body.respEnc # None /\ (M.reqEnc # None \/ M.version = "V1"), "invalid_encryption_parameters")
             plain == PlaintextError(M, r.body)
  <2>1. r.type = "json"
    BY <1>3 DEF Sound
  <2>2. p1 = Ok
    BY <1>3 DEF ShouldEncrypt, Refuse
  <2>3. r.body.respEnc # None => M.reqEnc = None /\ M.version # "V1"
    BY <1>3 DEF ShouldEncrypt, ResponseNeedsEncryptedRequest, Sound
  <2>4. p2 = Ok /\ p3 = Ok
    BY <2>3 DEF Refuse
  <2>5. plain = FirstError(<<p2, p3>>)
    BY DEF PlaintextError
  <2>6. ParseError(M, cfg.issuer.decryptJwe, r) = FirstError(<<p1, pay, plain>>)
    BY <2>1 DEF ParseError
  <2> HIDE DEF p1, p2, p3, plain, pay
  <2>7. plain = Ok
    BY <2>4, <2>5, AmongTwo
  <2> QED BY <1>1, <2>2, <2>6, <2>7, AmongThree DEF EncryptionErrors, Ok
<1> QED BY <1>2, <1>3

ProofErrors == {Ok, "nonce", "aud", "iss", "signature", "key_attestation", "not_attested"}

LEMMA RequirementsErrors ==
  ASSUME NEW att, NEW required
  PROVE  RequirementsError(att, required) \in ProofErrors
<1> DEFINE c1 == Refuse(required # None /\ att = None, "key_attestation")
           c2 == Refuse(required # None /\ att # None /\ att.storage \cap required = {}, "key_attestation")
<1>1. c1 \in ProofErrors /\ c2 \in ProofErrors
  BY DEF Refuse, ProofErrors
<1>2. RequirementsError(att, required) = FirstError(<<c1, c2>>)
  BY DEF RequirementsError
<1> HIDE DEF c1, c2
<1> QED BY <1>1, <1>2, AmongTwo DEF ProofErrors

LEMMA KeyAttestationErrors ==
  ASSUME NEW att, NEW nn, NEW required
  PROVE  KeyAttestationError(att, nn, required) \in ProofErrors
<1> DEFINE c1 == Refuse(~AttestationTrusted(att), "key_attestation")
           c2 == Refuse(nn # None /\ att.nonce # nn, "nonce")
           c3 == RequirementsError(att, required)
<1>1. c1 \in ProofErrors /\ c2 \in ProofErrors /\ c3 \in ProofErrors
  BY RequirementsErrors DEF Refuse, ProofErrors
<1>2. KeyAttestationError(att, nn, required) = FirstError(<<c1, c2, c3>>)
  BY DEF KeyAttestationError
<1> HIDE DEF c1, c2, c3
<1> QED BY <1>1, <1>2, AmongThree DEF ProofErrors

\* A proof is refused for what is wrong with the proof.
LEMMA ProofErrorOf ==
  ASSUME NEW p, p.type \in ProofTypes, NEW issuer, NEW client, NEW nn, NEW required
  PROVE  ProofError(p, issuer, client, nn, required) \in ProofErrors
<1>1. CASE p.type = "jwt"
  <2> DEFINE c1 == Refuse(nn # None /\ p.nonce # nn, "nonce")
             c2 == AudienceError(p, issuer)
             c3 == Refuse(client # None /\ p.iss # client, "iss")
             c4 == Refuse(p.sig # p.jwk, "signature")
             c5 == IF p.att = None THEN RequirementsError(None, required) ELSE KeyAttestationError(p.att, None, required)
             c6 == Refuse(p.att # None /\ p.jwk \notin (IF p.att = None THEN {} ELSE p.att.keys), "not_attested")
  <2>1. c1 \in ProofErrors /\ c2 \in ProofErrors /\ c3 \in ProofErrors /\ c4 \in ProofErrors /\ c6 \in ProofErrors
    BY DEF Refuse, AudienceError, ProofErrors
  <2>2. c5 \in ProofErrors
    BY RequirementsErrors, KeyAttestationErrors
  <2>3. ProofError(p, issuer, client, nn, required) = FirstError(<<c1, c2, c3, c4, c5, c6>>)
    BY <1>1 DEF ProofError, JwtProofError
  <2> HIDE DEF c1, c2, c3, c4, c5, c6
  <2> QED BY <2>1, <2>2, <2>3, AmongSix DEF ProofErrors
<1>2. CASE p.type = "di_vp"
  <2> DEFINE c1 == Refuse(p.aud # issuer, "aud")
             c2 == Refuse(p.nonce # nn, "nonce")
             c3 == Refuse(p.sig # p.jwk, "signature")
  <2>1. c1 \in ProofErrors /\ c2 \in ProofErrors /\ c3 \in ProofErrors
    BY DEF Refuse, ProofErrors
  <2>2. ProofError(p, issuer, client, nn, required) = FirstError(<<c1, c2, c3>>)
    BY <1>2 DEF ProofError, DiVpProofError
  <2> HIDE DEF c1, c2, c3
  <2> QED BY <2>1, <2>2, AmongThree DEF ProofErrors
<1>3. CASE p.type = "attestation"
  <2>1. ProofError(p, issuer, client, nn, required) = KeyAttestationError(p.att, nn, required)
    BY <1>3 DEF ProofError, AttestationProofError
  <2> QED BY <2>1, KeyAttestationErrors
<1> QED BY <1>1, <1>2, <1>3 DEF ProofTypes

LEMMA VerdictTaken ==
  ASSUME cfg \in Configs, NEW r, Sound(r, cfg.wallet), WithinMetadata, NEW client
  PROVE  IssuerVerdict(client, r) \notin EncryptionErrors
<1> DEFINE c1 == ParseError(M, cfg.issuer.decryptJwe, r)
           c2 == IF r.body.kind = "deferred" THEN Ok
                 ELSE Refuse(r.body.by = "format" /\ MatchingConfigurations(cfg.issuer.configs, r.body.config) = {},
                             "unsupported_credential_type")
           c3 == IF r.body.kind = "deferred" THEN Ok
                 ELSE ProofError(r.body.proof, "H", client, NonceFor(r.body.proof), cfg.issuer.attestation)
<1>1. c1 \notin EncryptionErrors
  BY ParseTaken
<1>2. c2 \notin EncryptionErrors
  BY DEF Refuse, EncryptionErrors, Ok
<1>3. c3 \in ProofErrors
  BY ProofErrorOf DEF Sound, ProofErrors
<1>4. IssuerVerdict(client, r) = FirstError(<<c1, c2, c3>>)
  BY DEF IssuerVerdict
<1> HIDE DEF c1, c2, c3
<1> QED BY <1>1, <1>2, <1>3, <1>4, AmongThree DEF ProofErrors, EncryptionErrors, Ok

-----------------------------------------------------------------------------
(* The keys H binds credentials to *)

\* The proof p was made for H, by keys an attester vouches for where H asks.
ProvedHere(p) ==
    /\ p.type # "attestation" => p.aud = "H"
    /\ cfg.issuer.attestation # None /\ p.type # "di_vp" =>
          /\ p.att # None
          /\ p.att.by = "attester"
          /\ ProvedKeys(p) \subseteq p.att.keys
          /\ p.att.storage \cap cfg.issuer.attestation # {}

LEMMA RequirementsMet ==
  ASSUME NEW att, NEW required, required # None, RequirementsError(att, required) = Ok
  PROVE  att # None /\ att.storage \cap required # {}
<1> DEFINE c1 == Refuse(required # None /\ att = None, "key_attestation")
           c2 == Refuse(required # None /\ att # None /\ att.storage \cap required = {}, "key_attestation")
<1>1. FirstError(<<c1, c2>>) = Ok
  BY DEF RequirementsError
<1> HIDE DEF c1, c2
<1>2. c1 = Ok /\ c2 = Ok
  BY <1>1, TwoOk
<1> QED BY <1>2 DEF c1, c2, Refuse, Ok

LEMMA KeyAttestationMet ==
  ASSUME NEW att, NEW nn, NEW required, required # None, KeyAttestationError(att, nn, required) = Ok
  PROVE  att # None /\ att.by = "attester" /\ att.storage \cap required # {}
<1> DEFINE c1 == Refuse(~AttestationTrusted(att), "key_attestation")
           c2 == Refuse(nn # None /\ att.nonce # nn, "nonce")
           c3 == RequirementsError(att, required)
<1>1. FirstError(<<c1, c2, c3>>) = Ok
  BY DEF KeyAttestationError
<1> HIDE DEF c1, c2, c3
<1>2. c1 = Ok /\ c3 = Ok
  BY <1>1, ThreeOk
<1>3. att.by = "attester"
  BY <1>2 DEF c1, Refuse, Ok, AttestationTrusted
<1> QED BY <1>2, <1>3, RequirementsMet DEF c3

LEMMA ProofAccepted ==
  ASSUME NEW p, p.type \in ProofTypes, NEW client, NEW nn,
         ProofError(p, "H", client, nn, cfg.issuer.attestation) = Ok
  PROVE  ProvedHere(p)
<1> DEFINE required == cfg.issuer.attestation
<1>1. CASE p.type = "jwt"
  <2> DEFINE c1 == Refuse(nn # None /\ p.nonce # nn, "nonce")
             c2 == AudienceError(p, "H")
             c3 == Refuse(client # None /\ p.iss # client, "iss")
             c4 == Refuse(p.sig # p.jwk, "signature")
             c5 == IF p.att = None THEN RequirementsError(None, required) ELSE KeyAttestationError(p.att, None, required)
             c6 == Refuse(p.att # None /\ p.jwk \notin (IF p.att = None THEN {} ELSE p.att.keys), "not_attested")
  <2>1. FirstError(<<c1, c2, c3, c4, c5, c6>>) = Ok
    BY <1>1 DEF ProofError, JwtProofError
  <2> HIDE DEF c1, c2, c3, c4, c5, c6
  <2>2. c2 = Ok /\ c5 = Ok /\ c6 = Ok
    BY <2>1, SixOk
  <2>3. p.aud = "H"
    BY <2>2 DEF c2, AudienceError, Refuse, Ok
  <2>4. ASSUME required # None
        PROVE  p.att # None /\ p.att.by = "attester" /\ p.att.storage \cap required # {}
    <3> HIDE DEF required
    <3>1. CASE p.att = None
      <4>1. RequirementsError(None, required) = Ok
        BY <2>2, <3>1 DEF c5
      <4>2. None # None
        BY <2>4, <4>1, RequirementsMet, Zenon
      <4> QED BY <4>2
    <3>2. CASE p.att # None
      <4>1. KeyAttestationError(p.att, None, required) = Ok
        BY <2>2, <3>2 DEF c5
      <4> QED BY <2>4, <4>1, KeyAttestationMet
    <3> QED BY <3>1, <3>2
  <2>5. p.att # None => p.jwk \in p.att.keys
    BY <2>2 DEF c6, Refuse, Ok
  <2> QED BY <1>1, <2>3, <2>4, <2>5 DEF ProvedHere, ProvedKeys
<1>2. CASE p.type = "di_vp"
  <2> DEFINE c1 == Refuse(p.aud # "H", "aud")
             c2 == Refuse(p.nonce # nn, "nonce")
             c3 == Refuse(p.sig # p.jwk, "signature")
  <2>1. FirstError(<<c1, c2, c3>>) = Ok
    BY <1>2 DEF ProofError, DiVpProofError
  <2> HIDE DEF c1, c2, c3
  <2>2. c1 = Ok
    BY <2>1, ThreeOk
  <2>3. p.aud = "H"
    BY <2>2 DEF c1, Refuse, Ok
  <2> QED BY <1>2, <2>3 DEF ProvedHere
<1>3. CASE p.type = "attestation"
  <2>1. KeyAttestationError(p.att, nn, required) = Ok
    BY <1>3 DEF ProofError, AttestationProofError
  <2>2. required # None => p.att # None /\ p.att.by = "attester" /\ p.att.storage \cap required # {}
    BY <2>1, KeyAttestationMet
  <2> QED BY <1>3, <2>2 DEF ProvedHere, ProvedKeys
<1> QED BY <1>1, <1>2, <1>3 DEF ProofTypes

\* A request H grants carries a proof made for H.
LEMMA GrantedOnProof ==
  ASSUME NEW r, r.body.proof.type \in ProofTypes, r.body.kind = "credential", NEW client, IssuerVerdict(client, r) = Ok
  PROVE  ProvedHere(r.body.proof)
<1> DEFINE c1 == ParseError(M, cfg.issuer.decryptJwe, r)
           c2 == IF r.body.kind = "deferred" THEN Ok
                 ELSE Refuse(r.body.by = "format" /\ MatchingConfigurations(cfg.issuer.configs, r.body.config) = {},
                             "unsupported_credential_type")
           c3 == IF r.body.kind = "deferred" THEN Ok
                 ELSE ProofError(r.body.proof, "H", client, NonceFor(r.body.proof), cfg.issuer.attestation)
<1>1. FirstError(<<c1, c2, c3>>) = Ok
  BY DEF IssuerVerdict
<1>2. c3 = ProofError(r.body.proof, "H", client, NonceFor(r.body.proof), cfg.issuer.attestation)
  OBVIOUS
<1> HIDE DEF c1, c2, c3
<1>3. c3 = Ok
  BY <1>1, ThreeOk
<1> QED BY <1>2, <1>3, ProofAccepted

-----------------------------------------------------------------------------
(* One step *)

CapturedInv ==
    /\ captured = [proofs |-> captured.proofs, nonce |-> captured.nonce]
    /\ \A p \in captured.proofs : p.type \in ProofTypes

IssuanceInv ==
    /\ cfg \in Configs
    /\ WireInv
    /\ CapturedInv
    /\ \A b \in bound : ProvedHere(b.proof)
    /\ EncryptionAgreed
    /\ HiddenFromProxy

\* The definitions depend on the configuration only.
LEMMA Kept ==
  ASSUME cfg' = cfg
  PROVE  /\ M' = M
         /\ \A r : Sound(r, cfg.wallet) => Sound(r, cfg.wallet)'
         /\ \A p : ProvedHere(p) => ProvedHere(p)'
         /\ WithinMetadata' <=> WithinMetadata
<1>1. M' = M
  BY DEF M
<1>2. \A r : Sound(r, cfg.wallet) => Sound(r, cfg.wallet)'
  BY <1>1 DEF Sound
<1>3. \A p : ProvedHere(p) => ProvedHere(p)'
  BY DEF ProvedHere
<1>4. WithinMetadata' <=> WithinMetadata
  BY <1>1 DEF WithinMetadata
<1> QED BY <1>1, <1>2, <1>3, <1>4

\* A wallet that asks for an encrypted response encrypts its request.
Hides == cfg.offer.issuer = "H" /\ cfg.wallet.respEnc # None /\ M.version = "V1"

LEMMA HidesEncrypts ==
  ASSUME Hides
  PROVE  ShouldEncrypt(M, cfg.wallet)
BY DEF Hides, ShouldEncrypt, ResponseNeedsEncryptedRequest

LEMMA SendKeeps ==
  ASSUME IssuanceInv, NEW error, NEW body, body.proof = WalletProof, BodyShape(body),
         error = Ok => EncodeError(M, cfg.wallet) = Ok, SendRequest(error, body),
         UNCHANGED <<cfg, captured, bound, refused>>
  PROVE  IssuanceInv'
<1>1. cfg \in Configs /\ WireInv /\ CapturedInv /\ EncryptionAgreed /\ HiddenFromProxy
  BY DEF IssuanceInv
<1>2. WireInv' /\ (Hides => seen' = seen)
  <2>1. CASE error # Ok
    BY <1>1, <2>1, Kept DEF SendRequest, WireInv
  <2>2. CASE error = Ok
    <3>1. wire' = Encoded(M, cfg.wallet, body) /\ (wire'.type # "json" => seen' = seen)
      BY <2>2 DEF SendRequest
    <3>2. Sound(wire', cfg.wallet)
      BY <1>1, <2>2, <3>1, EncodedIsSound
    <3>3. WireInv'
      <4>1. \A r : Sound(r, cfg.wallet) => Sound(r, cfg.wallet)'
        BY Kept
      <4>2. Sound(wire, cfg.wallet)'
        BY <3>2, <4>1, Kept DEF Sound
      <4> QED BY <4>2 DEF WireInv
    <3>4. Hides => wire'.type # "json"
      BY <3>2, HidesEncrypts DEF Sound
    <3> QED BY <3>1, <3>3, <3>4
  <2> QED BY <2>1, <2>2
<1>3. CapturedInv'
  BY <1>1 DEF CapturedInv
<1>4. (\A b \in bound : ProvedHere(b.proof))'
  BY Kept DEF IssuanceInv
<1>5. EncryptionAgreed'
  BY <1>1, Kept DEF EncryptionAgreed
<1>6. HiddenFromProxy'
  BY <1>1, <1>2, Kept DEF HiddenFromProxy, Hides
<1> QED BY <1>1, <1>2, <1>3, <1>4, <1>5, <1>6 DEF IssuanceInv

\* A step that leaves the wire and the histories alone.
LEMMA QuietKeeps ==
  ASSUME IssuanceInv, UNCHANGED <<cfg, bound, refused, seen>>, wire' \in {wire, None}, CapturedInv'
  PROVE  IssuanceInv'
<1>1. WireInv'
  BY Kept DEF IssuanceInv, WireInv, Sound
<1>2. (\A b \in bound : ProvedHere(b.proof))'
  BY Kept DEF IssuanceInv
<1>3. EncryptionAgreed'
  BY Kept DEF IssuanceInv, EncryptionAgreed
<1>4. HiddenFromProxy'
  BY Kept DEF IssuanceInv, HiddenFromProxy
<1> QED BY <1>1, <1>2, <1>3, <1>4 DEF IssuanceInv

\* The response to a request that hides is encrypted to the wallet.
LEMMA AnswerHides ==
  ASSUME IssuanceInv, wire # None, Hides, NEW error, NEW creds, NEW txid,
         Answer(Response(error, creds, txid, wire.body.respEnc))
  PROVE  seen' = seen
<1>1. Sound(wire, cfg.wallet) /\ cfg \in Configs /\ cfg.wallet.respEnc # None /\ wire.type = "jwt"
  BY HidesEncrypts DEF IssuanceInv, WireInv, Hides, Sound
<1>2. PICK a \in {cfg.wallet.respEnc.jwkAlg, cfg.wallet.respEnc.alg},
           b \in {cfg.wallet.respEnc.jwkAlg, cfg.wallet.respEnc.alg} :
           wire.body.respEnc = EncryptionRequest("w", a, b, cfg.wallet)
  BY <1>1 DEF Sound
<1>3. wire.body.respEnc # None
  BY <1>1, <1>2, NoneAssumption DEF EncryptionRequest
<1>4. wire.body.respEnc.to = "w"
  BY <1>2 DEF EncryptionRequest
<1>5. Response(error, creds, txid, wire.body.respEnc).encTo = "w"
  BY <1>3, <1>4 DEF Response
<1> QED BY <1>5 DEF Answer

\* H refuses.
LEMMA RefusalKeeps ==
  ASSUME IssuanceInv, wire # None, NEW v, v = IssuerVerdict("cW", wire), Answer(Response(v, FALSE, None, None)),
         refused' = refused \cup {v}, UNCHANGED <<cfg, captured, bound>>
  PROVE  IssuanceInv'
<1>1. cfg \in Configs /\ Sound(wire, cfg.wallet) /\ CapturedInv /\ EncryptionAgreed /\ HiddenFromProxy
  BY DEF IssuanceInv, WireInv
<1>2. wire' = None /\ seen' = seen
  <2>1. Response(v, FALSE, None, None).creds = FALSE
    BY DEF Response
  <2> QED BY <2>1 DEF Answer
<1>3. WithinMetadata => v \notin EncryptionErrors
  BY <1>1, VerdictTaken
<1>4. EncryptionAgreed'
  BY <1>1, <1>3, Kept DEF EncryptionAgreed, EncryptionErrors
<1>5. HiddenFromProxy'
  BY <1>1, <1>2, Kept DEF HiddenFromProxy
<1>6. (\A b \in bound : ProvedHere(b.proof))'
  BY Kept DEF IssuanceInv
<1>7. WireInv' /\ CapturedInv'
  BY <1>1, <1>2 DEF WireInv, CapturedInv
<1> QED BY <1>1, <1>4, <1>5, <1>6, <1>7 DEF IssuanceInv

\* An issuer grants, with credentials or a transaction.
LEMMA GrantKeeps ==
  ASSUME IssuanceInv, wire # None, NEW creds, NEW txid, Answer(Response(None, creds, txid, wire.body.respEnc)),
         UNCHANGED <<cfg, refused>>, CapturedInv',
         \A b \in bound' \ bound : ProvedHere(b.proof)
  PROVE  IssuanceInv'
<1>1. wire' = None
  BY DEF Answer
<1>2. HiddenFromProxy'
  <2>1. Hides => seen' = seen
    BY AnswerHides
  <2> QED BY <2>1, Kept DEF HiddenFromProxy, Hides, IssuanceInv
<1>3. EncryptionAgreed'
  BY Kept DEF EncryptionAgreed, IssuanceInv
<1>4. (\A b \in bound : ProvedHere(b.proof))'
  BY Kept DEF IssuanceInv
<1>5. WireInv'
  BY <1>1 DEF WireInv
<1> QED BY <1>2, <1>3, <1>4, <1>5 DEF IssuanceInv

LEMMA IssuerKeeps ==
  ASSUME IssuanceInv, Issuer
  PROVE  IssuanceInv'
<1>1. ASSUME HandleCredentialRequest PROVE IssuanceInv'
  <2>1. PICK v : /\ v = IssuerVerdict("cW", wire)
                 /\ \/ /\ v # Ok /\ Answer(Response(v, FALSE, None, None))
                       /\ refused' = refused \cup {v} /\ bound' = bound
                    \/ /\ v = Ok /\ Answer(Response(None, TRUE, None, wire.body.respEnc))
                       /\ Issued("w", wire.body.proof) /\ refused' = refused
                    \/ /\ v = Ok /\ Answer(Response(None, FALSE, "t1", wire.body.respEnc))
                       /\ Issued("w", wire.body.proof) /\ refused' = refused
    BY <1>1 DEF HandleCredentialRequest
  <2>2. wire # None /\ wire.body.kind = "credential" /\ UNCHANGED <<cfg, captured>>
    BY <1>1 DEF HandleCredentialRequest
  <2>3. CapturedInv'
    BY <2>2 DEF IssuanceInv, CapturedInv
  <2>4. ASSUME v = Ok, Issued("w", wire.body.proof) PROVE \A b \in bound' \ bound : ProvedHere(b.proof)
    <3>1. ProvedHere(wire.body.proof)
      BY <2>1, <2>2, <2>4, GrantedOnProof DEF IssuanceInv, WireInv, Sound
    <3> QED BY <2>4, <3>1 DEF Issued
  <2>5. CASE v # Ok
    BY <2>1, <2>2, <2>5, RefusalKeeps
  <2>6. CASE v = Ok
    BY <2>1, <2>2, <2>3, <2>4, <2>6, GrantKeeps
  <2> QED BY <2>5, <2>6
<1>2. ASSUME HandleDeferredCredentialRequest PROVE IssuanceInv'
  <2>1. PICK v : /\ v = IssuerVerdict("cW", wire)
                 /\ \/ v # Ok /\ Answer(Response(v, FALSE, None, None)) /\ refused' = refused \cup {v}
                    \/ v = Ok /\ Answer(Response(None, FALSE, wire.body.tx, wire.body.respEnc)) /\ refused' = refused
                    \/ v = Ok /\ Answer(Response(None, TRUE, None, wire.body.respEnc)) /\ refused' = refused
    BY <1>2 DEF HandleDeferredCredentialRequest
  <2>2. wire # None /\ UNCHANGED <<cfg, captured, bound>>
    BY <1>2 DEF HandleDeferredCredentialRequest
  <2>3. CapturedInv'
    BY <2>2 DEF IssuanceInv, CapturedInv
  <2>4. CASE v # Ok
    BY <2>1, <2>2, <2>4, RefusalKeeps
  <2>5. CASE v = Ok
    BY <2>1, <2>2, <2>3, <2>5, GrantKeeps
  <2> QED BY <2>4, <2>5
<1>3. ASSUME HandleElsewhere PROVE IssuanceInv'
  <2>1. PICK creds, t : Answer(Response(None, creds, t, wire.body.respEnc))
    BY <1>3 DEF HandleElsewhere
  <2>2. /\ wire # None /\ UNCHANGED <<cfg, bound, refused>>
        /\ captured' = [captured EXCEPT !.proofs = captured.proofs \cup {wire.body.proof}]
    BY <1>3 DEF HandleElsewhere
  <2>3. CapturedInv'
    <3> DEFINE more == captured.proofs \cup {wire.body.proof}
    <3>1. \A p \in more : p.type \in ProofTypes
      BY <2>2 DEF IssuanceInv, WireInv, Sound, CapturedInv
    <3> HIDE DEF more
    <3>2. PICK a, b : captured = [proofs |-> a, nonce |-> b]
      BY DEF IssuanceInv, CapturedInv
    <3>3. captured' = [captured EXCEPT !.proofs = more]
      BY <2>2 DEF more
    <3>4. captured' = [proofs |-> more, nonce |-> b]
      BY <3>2, <3>3
    <3> QED BY <3>1, <3>4 DEF CapturedInv
  <2> QED BY <2>1, <2>2, <2>3, GrantKeeps
<1> QED BY <1>1, <1>2, <1>3 DEF Issuer

LEMMA OtherKeeps ==
  ASSUME IssuanceInv, OtherRequest
  PROVE  IssuanceInv'
<1>1. PICK p \in OwnProofs \cup captured.proofs : RequestWith(p)
  BY DEF OtherRequest
<1>2. p.type \in ProofTypes
  BY DEF IssuanceInv, CapturedInv, OwnProofs, ProofTypes
<1>3. ProvedHere(p)
  BY <1>1, <1>2, ProofAccepted DEF RequestWith
<1>4. /\ UNCHANGED <<cfg, captured, refused, seen, wire>>
      /\ bound' = bound \cup {[by |-> "x", proof |-> p]}
  BY <1>1 DEF RequestWith, Issued
<1>5. (\A b \in bound : ProvedHere(b.proof))'
  BY <1>3, <1>4, Kept DEF IssuanceInv
<1>6. WireInv' /\ CapturedInv'
  BY <1>4, Kept DEF IssuanceInv, WireInv, CapturedInv
<1>7. EncryptionAgreed' /\ HiddenFromProxy'
  BY <1>4, Kept DEF IssuanceInv, EncryptionAgreed, HiddenFromProxy
<1> QED BY <1>4, <1>5, <1>6, <1>7 DEF IssuanceInv

LEMMA RewriteKeeps ==
  ASSUME IssuanceInv, Rewrite
  PROVE  IssuanceInv'
<1> DEFINE w == cfg.wallet
           e == wire.body.respEnc
<1>1. /\ wire # None /\ wire.type = "json" /\ e # None
      /\ wire' = [wire EXCEPT !.body.respEnc.to = "proxy"]
      /\ UNCHANGED <<cfg, captured, bound, refused, seen>>
  BY DEF Rewrite, Environment, history
<1>2. Sound(wire, w) /\ CapturedInv
  BY <1>1 DEF IssuanceInv, WireInv
<1>3. w.respEnc # None
  BY <1>1, <1>2 DEF Sound
<1>4. PICK to \in {"w", "proxy"}, a \in {w.respEnc.jwkAlg, w.respEnc.alg}, b \in {w.respEnc.jwkAlg, w.respEnc.alg} :
         /\ e = EncryptionRequest(to, a, b, w)
         /\ (IF a # None THEN a ELSE b) = AlgOf(w.respEnc)
  BY <1>2, <1>3 DEF Sound
<1>5. PICK kind, by, config, proof, tt :
         wire.body = [kind |-> kind, by |-> by, config |-> config, proof |-> proof, tx |-> tt, respEnc |-> e]
  BY <1>2 DEF Sound, WireShape, BodyShape
<1>6. PICK kid, enc, zip, body : wire = [type |-> "json", kid |-> kid, enc |-> enc, zip |-> zip, body |-> body]
  BY <1>1, <1>2 DEF Sound, WireShape
<1>7. wire.body = body
  BY <1>6
<1> DEFINE e2 == [e EXCEPT !.to = "proxy"]
           b2 == [body EXCEPT !.respEnc = e2]
           w2 == [wire EXCEPT !.body = b2]
<1>8. wire' = w2
  BY <1>1, <1>7
<1>9. e2 = EncryptionRequest("proxy", a, b, w)
  <2> HIDE DEF e
  <2> QED BY <1>4 DEF EncryptionRequest
<1> HIDE DEF e2
<1>10. b2 = [kind |-> kind, by |-> by, config |-> config, proof |-> proof, tx |-> tt, respEnc |-> e2]
  <2> HIDE DEF e
  <2> QED BY <1>5, <1>7
<1> HIDE DEF b2
<1>11. w2 = [type |-> "json", kid |-> kid, enc |-> enc, zip |-> zip, body |-> b2]
  BY <1>6
<1> HIDE DEF w2
<1>12. WireShape(w2) /\ w2.type = "json" /\ w2.body = b2 /\ b2.respEnc = e2 /\ b2.proof = wire.body.proof
  <2>1. WireShape(w2) /\ w2.type = "json" /\ w2.body = b2 /\ b2.respEnc = e2 /\ b2.proof = proof
    BY <1>10, <1>11 DEF WireShape, BodyShape
  <2>2. wire.body.proof = proof
    BY <1>5
  <2> QED BY <2>1, <2>2
<1>13. ~ShouldEncrypt(M, w)
  BY <1>1, <1>2 DEF Sound
<1>14. Sound(w2, w)
  <2> HIDE DEF w, e
  <2> QED BY <1>2, <1>3, <1>4, <1>9, <1>12, <1>13 DEF Sound
<1>15. WireInv'
  <2>1. Sound(wire', cfg.wallet)
    BY <1>8, <1>14
  <2>2. Sound(wire, cfg.wallet)'
    BY <1>1, <2>1, Kept DEF Sound
  <2> QED BY <2>2 DEF WireInv
<1>16. (\A bb \in bound : ProvedHere(bb.proof))'
  BY <1>1, Kept DEF IssuanceInv
<1>17. EncryptionAgreed' /\ HiddenFromProxy' /\ CapturedInv' /\ cfg' \in Configs
  BY <1>1, <1>2, Kept DEF IssuanceInv, EncryptionAgreed, HiddenFromProxy, CapturedInv
<1> QED BY <1>15, <1>16, <1>17 DEF IssuanceInv

LEMMA IssuanceStep ==
  ASSUME IssuanceInv, [Next]_vars
  PROVE  IssuanceInv'
<1> USE DEF wallet, history, Environment
<1>1. CapturedInv /\ cfg \in Configs
  BY DEF IssuanceInv
<1>2. ASSUME RetrieveCredentials PROVE IssuanceInv'
  <2> DEFINE c1 == WalletProofError
             c2 == RequestError(M, cfg.wallet)
             c3 == EncodeError(M, cfg.wallet)
  <2>1. SendRequest(FirstError(<<c1, c2, c3>>), CredentialBody) /\ UNCHANGED <<cfg, captured, bound, refused>>
    BY <1>2 DEF RetrieveCredentials
  <2>2. BodyShape(CredentialBody) /\ CredentialBody.proof = WalletProof
    BY DEF CredentialBody, BodyShape
  <2> HIDE DEF c1, c2, c3
  <2>3. FirstError(<<c1, c2, c3>>) = Ok => c3 = Ok
    BY ThreeOk
  <2> QED BY <2>1, <2>2, <2>3, SendKeeps DEF c3
<1>3. ASSUME RetrieveDeferredCredentials PROVE IssuanceInv'
  <2> DEFINE c1 == Refuse(~cfg.issuer.deferred, "no_endpoint")
             c2 == EncodeError(M, cfg.wallet)
  <2>1. SendRequest(FirstError(<<c1, c2>>), DeferredBody) /\ UNCHANGED <<cfg, captured, bound, refused>>
    BY <1>3 DEF RetrieveDeferredCredentials
  <2>2. BodyShape(DeferredBody) /\ DeferredBody.proof = WalletProof
    <3> DEFINE d == [CredentialBody EXCEPT !.kind = "deferred"]
    <3>1. d = [kind |-> "deferred", by |-> cfg.wallet.by, config |-> cfg.wallet.config, proof |-> WalletProof,
               tx |-> None, respEnc |-> cfg.wallet.respEnc]
      BY DEF CredentialBody
    <3>2. DeferredBody = [d EXCEPT !.tx = tx]
      BY DEF DeferredBody
    <3> HIDE DEF d
    <3>3. DeferredBody = [kind |-> "deferred", by |-> cfg.wallet.by, config |-> cfg.wallet.config, proof |-> WalletProof,
                          tx |-> tx, respEnc |-> cfg.wallet.respEnc]
      BY <3>1, <3>2
    <3> QED BY <3>3 DEF BodyShape
  <2> HIDE DEF c1, c2
  <2>3. FirstError(<<c1, c2>>) = Ok => c2 = Ok
    BY TwoOk
  <2> QED BY <2>1, <2>2, <2>3, SendKeeps DEF c2
<1>4. ASSUME TakeNonce PROVE IssuanceInv'
  <2>1. UNCHANGED <<cfg, bound, refused, seen, wire>> /\ captured' = [captured EXCEPT !.nonce = next]
    BY <1>4 DEF TakeNonce
  <2>2. CapturedInv'
    <3>1. PICK a, b : captured = [proofs |-> a, nonce |-> b]
      BY <1>1 DEF CapturedInv
    <3>2. captured' = [proofs |-> a, nonce |-> next]
      BY <2>1, <3>1
    <3> QED BY <1>1, <3>1, <3>2 DEF CapturedInv
  <2> QED BY <2>1, <2>2, QuietKeeps
<1>5. CASE \/ ResolveCredentialOffer \/ ResolveIssuerMetadata \/ InitiateAuthorization \/ RetrieveAuthorizationCode
           \/ RetrieveAccessToken \/ RequestNonce \/ HandleResponse \/ SendNotification \/ ConnectionFails
           \/ ExpireNonces \/ Rest \/ UNCHANGED vars
  <2>1. UNCHANGED <<cfg, bound, refused, seen, captured>> /\ wire' \in {wire, None}
    BY <1>5
       DEF ResolveCredentialOffer, ResolveIssuerMetadata, InitiateAuthorization, RetrieveAuthorizationCode,
           RetrieveAccessToken, RequestNonce, HandleResponse, SendNotification, ConnectionFails, ExpireNonces,
           Rest, vars
  <2>2. CapturedInv'
    BY <1>1, <2>1 DEF CapturedInv
  <2> QED BY <2>1, <2>2, QuietKeeps
<1> QED BY <1>2, <1>3, <1>4, <1>5, IssuerKeeps, OtherKeeps, RewriteKeeps DEF Next, Wallet

LEMMA IssuanceInit == Init => IssuanceInv
BY DEF Init, IssuanceInv, WireInv, CapturedInv, EncryptionAgreed, HiddenFromProxy

(***************************************************************************)
(* verifyCredentialRequestJwtProof and its siblings let H bind credentials *)
(* only to keys proved to H, and vouched for by an attester where it asks, *)
(* whatever nonces and proofs another issuer hands on.                     *)
(***************************************************************************)
THEOREM KeysProvedHere == Spec => []KeyProvedHere
<1>1. IssuanceInv => KeyProvedHere
  BY DEF IssuanceInv, ProvedHere, KeyProvedHere
<1> QED BY <1>1, IssuanceInit, IssuanceStep, PTL DEF Spec

(***************************************************************************)
(* encodeCredentialRequest and the issuer's parsers agree about encryption *)
(* in every version of the protocol and for every metadata.                *)
(***************************************************************************)
THEOREM EncryptionIsAgreed == Spec => []EncryptionAgreed
<1>1. IssuanceInv => EncryptionAgreed
  BY DEF IssuanceInv
<1> QED BY <1>1, IssuanceInit, IssuanceStep, PTL DEF Spec

(***************************************************************************)
(* A wallet that asks for an encrypted response in version 1.0 shows a     *)
(* proxy neither its proofs nor the credential.                            *)
(***************************************************************************)
THEOREM ProxySeesNothing == Spec => []HiddenFromProxy
<1>1. IssuanceInv => HiddenFromProxy
  BY DEF IssuanceInv
<1> QED BY <1>1, IssuanceInit, IssuanceStep, PTL DEF Spec
=============================================================================
