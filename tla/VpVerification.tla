---------------------------- MODULE VpVerification ----------------------------
(***************************************************************************)
(* The checks of packages/openid4vp as operators: the client identifier    *)
(* and its prefix, the signed request object (JAR), the request payload,   *)
(* and the encrypted or signed response (JARM).                            *)
(*                                                                         *)
(* A payload has the fields                                                *)
(*   prefix, id      the client_id: its prefix and the party it names      *)
(*                   (None for a request without client_id); the           *)
(*                   client_id_scheme of older drafts, which names the     *)
(*                   prefix next to the client_id, is left out             *)
(*   mode            the response_mode                                     *)
(*   redirect, uri   the party at redirect_uri and at response_uri         *)
(*   queries         which of dcql, pd, pd_uri and scope are present       *)
(*   origins, url    expected_origins and expected_url, as parties         *)
(*   state, nonce, walletNonce, transactions, metadata                     *)
(* A request object adds to a payload how and by whom it was signed.       *)
(***************************************************************************)
EXTENDS Basics, Integers, Sequences, SequencesExt, FiniteSetsExt

CONSTANT None

Require(condition, error) == IF condition THEN Ok ELSE error

DcApiModes == {"dc_api", "dc_api.jwt"}
IaeModes == {"iae_post", "iae_post.jwt"}
PostModes == {"direct_post", "direct_post.jwt"}
JarmModes == {"direct_post.jwt", "dc_api.jwt", "iae_post.jwt"}

ClientIdPrefixes == {"pre-registered", "redirect_uri", "decentralized_identifier", "x509_san_dns", "x509_san_uri",
                     "x509_hash", "openid_federation", "verifier_attestation", "origin"}

Category(mode) == IF mode \in DcApiModes THEN "dc_api" ELSE IF mode \in IaeModes THEN "iae" ELSE "direct_post"

-------------------------------------------------------------------------------
(* The draft a request belongs to: the features that need at least, and    *)
(* the ones that need less than, some version.                             *)
AtLeast(p) ==
    {18} \cup (IF p.mode \in IaeModes THEN {101} ELSE {})
         \cup (IF p.prefix \in {"openid_federation", "decentralized_identifier"} THEN {26} ELSE {})
         \cup (IF p.prefix = "x509_hash" THEN {25} ELSE {})
         \cup (IF p.mode \in DcApiModes THEN {23} ELSE {})
         \cup (IF p.transactions # <<>> \/ p.prefix \notin {"pre-registered", "origin"} THEN {22} ELSE {})
         \cup (IF p.id = None \/ "dcql" \in p.queries \/ p.walletNonce # None THEN {21} ELSE {})

Below(p) ==
    {102} \cup (IF p.queries \cap {"pd", "pd_uri"} # {} THEN {26} ELSE {})
          \cup (IF p.prefix = "x509_san_uri" THEN {25} ELSE {})

RequestVersion(p) == Max({Min(Below(p)) - 1, 18})
VersionError(p) == Require(Max(AtLeast(p)) <= RequestVersion(p), "version")

-------------------------------------------------------------------------------
(* The effective client identifier of a request.  The origin prefixes are  *)
(* the wallet's own: no request may use them.                              *)
ClientIdError(p, origin) ==
    FirstError(<<Require(p.id = None \/ p.prefix # "origin", "reserved prefix"),
                 Require(p.id # None \/ p.mode \in DcApiModes, "no client_id"),
                 Require(p.id # None \/ origin # None, "no origin")>>)

EffectiveClientId(p, origin) ==
    IF p.id = None THEN [prefix |-> "origin", id |-> origin] ELSE [prefix |-> p.prefix, id |-> p.id]

(* Which ways of naming the signing key a prefix accepts. *)
SignerMethods(prefix) ==
    CASE prefix = "decentralized_identifier" -> {"did"}
      [] prefix = "pre-registered" -> {"custom", "x5c"}
      [] prefix \in {"x509_san_dns", "x509_san_uri", "x509_hash"} -> {"x5c"}
      [] prefix = "openid_federation" -> {"federation"}
      [] prefix = "verifier_attestation" -> {"jwk"}
      [] OTHER -> {}

(* verifyVerifierAttestation: its subject is the client, and its redirect  *)
(* URIs, when it lists them, have the one of the request.                  *)
AttestationError(jar) ==
    FirstError(<<Require(jar.attestation # None, "no attestation"),
                 Require(jar.attestation # None => jar.attestation.sub = jar.payload.id, "attestation subject"),
                 Require(jar.attestation # None /\ jar.attestation.redirects # None
                           => jar.payload.redirect \in jar.attestation.redirects, "attestation redirect_uri")>>)

(* The verifyJws callback: whose key the signer names. A key that is not   *)
(* in the request is the one registered for, or in the trust chain of, the *)
(* client; an attestation names the key of its subject.                    *)
SignatureVerifies(jar) ==
    CASE jar.method \in {"custom", "federation"} -> jar.by = jar.payload.id
      [] jar.method = "x5c" /\ jar.payload.prefix = "pre-registered" -> jar.by = jar.payload.id
      [] jar.method = "jwk" -> jar.attestation # None /\ jar.by = jar.attestation.sub
      [] OTHER -> TRUE

RequestObjectError(jar) ==
    FirstError(<<ClientIdError(jar.payload, None),
                 Require(jar.method \in SignerMethods(jar.payload.prefix), "signer method"),
                 Require(jar.method # "federation" \/ jar.kid, "no kid"),
                 IF jar.payload.prefix = "verifier_attestation" THEN AttestationError(jar) ELSE Ok,
                 Require(SignatureVerifies(jar), "signature"),
                 Require(jar.fresh, "expired"),
                 VersionError(jar.payload),
                 Require(jar.typ \/ RequestVersion(jar.payload) < 24, "typ")>>)

(* verifyJarRequest of a request object that came in by value or by        *)
(* reference on some channel, next to an outer client_id.                  *)
OuterClientIdMatches(jar, outer) ==
    jar.payload.mode \in DcApiModes \cup IaeModes \/ outer = [prefix |-> jar.payload.prefix, id |-> jar.payload.id]

JarError(jar, outer, channel) ==
    FirstError(<<Require(jar.send = "value" \/ channel.type = "direct_post", "request_uri not allowed"),
                 Require(jar.wrapped # "jwe without kid", "no kid in JWE"),
                 RequestObjectError(jar),
                 Require(jar.payload.id # None, "no client_id in request object"),
                 Require(OuterClientIdMatches(jar, outer), "client_id mismatch")>>)

-------------------------------------------------------------------------------
(* The payload rules of the three kinds of response mode.  Verifiers apply *)
(* them too when they create a request, without the part that compares     *)
(* with the channel: checked is FALSE then.                                *)
DirectPostPayloadError(p, expectedNonce) ==
    FirstError(<<Require(p.redirect # None \/ p.uri # None, "no redirect_uri or response_uri"),
                 Require(p.uri = None \/ p.mode \in PostModes, "response_uri without direct_post"),
                 Require(Cardinality(p.queries) <= 1, "several queries"),
                 Require(expectedNonce = None \/ p.walletNonce # None, "no wallet_nonce"),
                 Require(expectedNonce = p.walletNonce, "wallet_nonce mismatch")>>)

(* Mutant: expected_origins is only required, not compared. *)
DcApiOriginUnchecked(p, signed, checked, origin) ==
    FirstError(<<Require(signed => p.origins # None, "no expected_origins"),
                 Require(Cardinality(p.queries \cap {"pd", "dcql"}) = 1, "not one query")>>)

DcApiPayloadError(p, signed, checked, origin) ==
    FirstError(<<Require(signed => p.origins # None, "no expected_origins"),
                 Require(Cardinality(p.queries \cap {"pd", "dcql"}) = 1, "not one query"),
                 Require(checked /\ p.origins # None => origin \in p.origins, "origin")>>)

IaePayloadError(p, signed, checked, url) ==
    FirstError(<<Require(signed => p.url # None, "no expected_url"),
                 Require("dcql" \in p.queries, "no dcql_query"),
                 Require(checked /\ p.url # None => p.url = url, "expected_url")>>)

PayloadError(p, signed, channel, expectedNonce) ==
    CASE p.mode \in DcApiModes -> DcApiPayloadError(p, signed, TRUE, channel.at)
      [] p.mode \in IaeModes -> IaePayloadError(p, signed, TRUE, channel.at)
      [] OTHER -> DirectPostPayloadError(p, expectedNonce)

CreatePayloadError(p, signed, nonceFromWallet) ==
    CASE p.mode \in DcApiModes -> DcApiPayloadError(p, signed, FALSE, None)
      [] p.mode \in IaeModes -> IaePayloadError(p, signed, FALSE, None)
      [] OTHER -> DirectPostPayloadError(p, nonceFromWallet)

(* The URI a certificate or a redirect_uri prefix is compared with. *)
ResponseTarget(p) == IF p.redirect # None THEN p.redirect ELSE p.uri

CertificateNames(p, jar) ==
    /\ jar.by = p.id
    /\ p.prefix \in {"x509_san_dns", "x509_san_uri"} /\ p.mode \notin DcApiModes \cup IaeModes
         => ResponseTarget(p) = p.id

(* validateOpenid4vpClientId: does the prefix vouch for this request? *)
ClientError(p, jar, origin) ==
    LET named == IF jar = None /\ p.mode \in DcApiModes THEN [p EXCEPT !.id = None] ELSE p
        prefix == EffectiveClientId(named, origin).prefix
        Signed(method) == FirstError(<<Require(jar # None, "must be signed"),
                                       Require(jar # None => jar.method = method, "signer method")>>)
    IN  FirstError(<<
            VersionError(p),
            ClientIdError(named, origin),
            CASE prefix = "redirect_uri" ->
                    FirstError(<<Require(jar = None, "must not be signed"),
                                 Require(p.mode \notin DcApiModes \cup IaeModes, "redirect_uri mode"),
                                 Require(p.redirect \in {None, p.id} /\ p.uri \in {None, p.id}, "redirect_uri")>>)
              [] prefix = "decentralized_identifier" ->
                    FirstError(<<Signed("did"), Require(jar # None => jar.by = p.id, "other did")>>)
              [] prefix \in {"x509_san_dns", "x509_san_uri", "x509_hash"} ->
                    FirstError(<<Signed("x5c"), Require(jar # None => CertificateNames(p, jar), "certificate")>>)
              [] prefix = "openid_federation" -> Signed("federation")
              [] prefix = "origin" -> Require(p.mode \in DcApiModes, "origin mode")
              [] prefix = "verifier_attestation" -> Require(jar # None, "must be signed")
              [] OTHER -> Ok>>)

-------------------------------------------------------------------------------
(* A client's encryption metadata: keys (a sequence of alg, use and kid),  *)
(* encs (encrypted_response_enc_values_supported, None when legacy),       *)
(* legacyAlg and legacyEnc.  The wallet's: algs and encs.                  *)
ExtractEncryptionJwk(keys, kid, algs) ==
    LET usable == SelectSeq(keys, LAMBDA k : k.use # "sig")
        byAlg == SelectSeq(usable, LAMBDA k : k.alg \in algs)
        pool == IF byAlg = <<>> THEN usable ELSE byAlg
        enc == SelectSeq(pool, LAMBDA k : k.use = "enc")
    IN  IF kid # None THEN Head(SelectSeq(keys, LAMBDA k : k.kid = kid) \o <<None>>)
        ELSE Head(enc \o pool \o <<None>>)

LegacyAlg(metadata) == IF metadata.encs = None THEN metadata.legacyAlg ELSE None
LegacyEnc(metadata) == IF metadata.encs = None THEN metadata.legacyEnc ELSE None

ChosenEnc(metadata, wallet) ==
    IF metadata.encs = None
    THEN IF LegacyEnc(metadata) = None THEN "A128GCM" ELSE LegacyEnc(metadata)
    ELSE Head(SelectSeq(wallet.encs, LAMBDA e : e \in ToSet(metadata.encs)) \o metadata.encs)

ChosenAlg(metadata, key) ==
    IF key.alg # None THEN key.alg ELSE IF LegacyAlg(metadata) # None THEN LegacyAlg(metadata) ELSE "ECDH-ES"

(* createOpenid4vpAuthorizationResponse: wallet.jarm says whether it was   *)
(* given JARM options, wallet.external whether it fetched the metadata.    *)
CreateResponseError(p, wallet) ==
    LET key == ExtractEncryptionJwk(p.metadata.keys, None, wallet.algs)
    IN  IF ~wallet.jarm THEN Require(p.mode \notin JarmModes, "no jarm options")
        ELSE FirstError(<<
                Require(p.prefix = "openid_federation" => wallet.external, "no external metadata"),
                Require(p.metadata # None, "no client metadata"),
                Require(LegacyAlg(p.metadata) \in wallet.algs \cup {None}, "legacy alg"),
                Require(LegacyEnc(p.metadata) \in ToSet(wallet.encs) \cup {None}, "legacy enc"),
                Require(key # None, "no key"),
                Require(ChosenEnc(p.metadata, wallet) \in ToSet(wallet.encs), "enc"),
                Require(key # None => ChosenAlg(p.metadata, key) \in wallet.algs, "alg"),
                Require(wallet.sign \/ wallet.encrypt, "neither signed nor encrypted")>>)

(* The response as it goes out: in the clear, or for a key and audience. *)
Jarm(p, client, wallet) ==
    IF ~wallet.jarm THEN None
    ELSE LET key == ExtractEncryptionJwk(p.metadata.keys, None, wallet.algs)
         IN  [key |-> IF wallet.encrypt THEN key ELSE None, kid |-> IF wallet.encrypt THEN key.kid ELSE None,
              aud |-> IF wallet.sign THEN client ELSE None]

(* verifyJarmAuthorizationResponse: the key the verifier decrypts with, and *)
(* the audience of a signed response.  Left out: exp, which a wallet sets   *)
(* anew for each response, and the signature, whose key the response names  *)
(* itself, so that it tells the verifier nothing of who made it.            *)
JarmError(p, jarm, expectedClient) ==
    LET legacy == IF p.metadata.legacyAlg = None THEN {} ELSE {p.metadata.legacyAlg}
    IN  FirstError(<<
            Require(jarm.key = None \/ ExtractEncryptionJwk(p.metadata.keys, jarm.kid, legacy) = jarm.key, "decrypt"),
            Require(jarm.aud \in {None, expectedClient}, "aud")>>)

(* parseOpenid4vpAuthorizationResponse on the verifier. *)
StateMatches(p, response) == p.state = None \/ p.state = response.state

ParseResponseError(p, response, origin) ==
    FirstError(<<
        ClientIdError(p, origin),
        IF response.jarm # None THEN JarmError(p, response.jarm, EffectiveClientId(p, origin)) ELSE Ok,
        Require(StateMatches(p, response), "state"),
        Require("dcql" \in p.queries, "no dcql_query"),
        Require((p.mode \in JarmModes) <=> (response.jarm # None), "not the response mode")>>)

-------------------------------------------------------------------------------
(* verifyTransactionData: of the credentials an entry may use, the first   *)
(* one that was presented carries its hash in every presentation.          *)
SupportedHashes == {"sha-256", "sha-384", "sha-512"}

(* Mutant: the algorithm of a presentation is checked, its hashes are not. *)
EntryHashUnchecked(entry, index, presented) ==
    \E id \in ToSet(entry.ids) :
        /\ id \in DOMAIN presented
        /\ \A presentation \in ToSet(presented[id]) : presentation.alg \in entry.algs \cap SupportedHashes

EntryVerifies(entry, index, presented) ==
    \E i \in DOMAIN entry.ids :
        /\ entry.ids[i] \in DOMAIN presented
        /\ \A j \in 1 .. i - 1 : entry.ids[j] \notin DOMAIN presented
        /\ \A presentation \in ToSet(presented[entry.ids[i]]) :
             /\ presentation.alg \in entry.algs \cap SupportedHashes
             /\ index \in presentation.hashes

TransactionsVerify(transactions, presented) ==
    \A index \in DOMAIN transactions : EntryVerifies(transactions[index], index, presented)

===============================================================================
