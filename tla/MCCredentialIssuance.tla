----------------------- MODULE MCCredentialIssuance ------------------------
(* Issuers, offers and wallets that differ where the code does: one set      *)
(* varies versions and encryption, one offers and metadata, one proofs.      *)
EXTENDS CredentialIssuance

Key(kid, use) == [kid |-> kid, use |-> use]
Advertised(req) == [required |-> req, keys |-> <<Key("k1", "sig"), Key("k2", None), Key("k3", "enc")>>, encs |-> <<"e1", "e2">>]
Responses(req) == [required |-> req, algs |-> {"a1"}, encs |-> {"e1"}]
Pid == [id |-> "pid", format |-> "dc+sd-jwt", type |-> "PID"]

Issuer1 ==
    [legacy |-> FALSE, sign |-> "V1", reqEnc |-> None, respEnc |-> None, batch |-> None, configs |-> {Pid},
     servers |-> None, tokenEndpoint |-> FALSE, nonceEndpoint |-> TRUE, deferred |-> TRUE, notification |-> TRUE,
     decryptJwe |-> TRUE, attestation |-> None]
Wallet1 == [by |-> "id", config |-> "pid", proofs |-> 1, respEnc |-> None, reqEnc |-> None, encryptJwe |-> TRUE]
ByFormat == [Wallet1 EXCEPT !.by = "format", !.config = [format |-> "vc+sd-jwt", type |-> "PID"]]
Base ==
    [issuer |-> Issuer1, wallet |-> Wallet1,
     offer |-> [by |-> "value", issuer |-> "H", grant |-> "pre", as |-> None, txCode |-> FALSE],
     txCode |-> FALSE, flow |-> "redirect", pkce |-> FALSE, ownVerifier |-> FALSE, subpath |-> FALSE,
     loc |-> [primary |-> "found", legacy |-> "404"], asFound |-> {"H", "E", "A1", "A2"},
     proof |-> "jwt", attested |-> FALSE, proxy |-> FALSE, sharedClient |-> FALSE]

Asks(jwkAlg, alg, enc, zip) == [to |-> "w", jwkAlg |-> jwkAlg, alg |-> alg, enc |-> enc, zip |-> zip]
Signs == {[legacy |-> l, sign |-> s] : l \in {FALSE}, s \in {"Draft14", "Draft15", "V1"}} \cup {[legacy |-> TRUE, sign |-> "V1"]}

EncryptionConfigs ==
    {[Base EXCEPT !.issuer.legacy = v.legacy, !.issuer.sign = v.sign, !.issuer.reqEnc = q, !.issuer.respEnc = r,
                  !.wallet = [(IF v.legacy \/ (v.sign = "Draft14" /\ q = None) THEN ByFormat ELSE Wallet1)
                                EXCEPT !.respEnc = e, !.reqEnc = o, !.encryptJwe = (o = None \/ o.enc # "e2")],
                  !.issuer.decryptJwe = (o = None \/ o.kid # "k3"), !.proxy = p] :
       v \in Signs,
       q \in {None, Advertised(TRUE), Advertised(FALSE)},
       r \in {None, Responses(TRUE), Responses(FALSE)},
       e \in {None, Asks("a1", None, "e1", FALSE), Asks(None, "a1", "e1", FALSE), Asks(None, None, "e1", FALSE),
              Asks("a9", "a1", "e1", FALSE), Asks("a1", "a1", "e1", TRUE)},
       o \in {None, [kid |-> "k2", enc |-> None], [kid |-> "k1", enc |-> "e1"], [kid |-> None, enc |-> "e2"],
              [kid |-> "k3", enc |-> "e1"], [kid |-> "k9", enc |-> None], [kid |-> None, enc |-> "e9"]},
       p \in BOOLEAN}
EncryptionWorlds == {c \in EncryptionConfigs : ~(c.issuer.legacy /\ c.issuer.reqEnc # None)}

OfferWorlds ==
    {[Base EXCEPT !.offer.as = a, !.issuer.servers = s, !.offer.grant = "code", !.pkce = k, !.flow = f, !.ownVerifier = own] :
       a \in {None, "A1", "A3"}, s \in {None, <<>>, <<"A1">>, <<"A1", "A2">>}, k \in BOOLEAN, own \in BOOLEAN,
       f \in {"redirect", "iae_ok", "iae_redirect", "iae_vp", "iae_custom", "challenge_vp"}}
    \cup {[Base EXCEPT !.offer.by = b, !.offer.txCode = t, !.txCode = h, !.issuer.tokenEndpoint = h, !.asFound = s] :
            b \in {"value", "https", "http"}, t \in BOOLEAN, h \in BOOLEAN, s \in {{"H"}, {}}}
    \cup {[Base EXCEPT !.loc = [primary |-> p, legacy |-> l], !.subpath = s] :
            p \in {"found", "404", "network", "error", "other_issuer", "signed_x5c", "signed_jwk"},
            l \in {"found", "network"}, s \in BOOLEAN}
    \cup {[Base EXCEPT !.wallet.proofs = n, !.issuer.batch = b, !.issuer.deferred = FALSE, !.issuer.notification = FALSE] :
            n \in 1..3, b \in {None, 2}}
    \cup {[Base EXCEPT !.wallet.config = "c9", !.proof = t] : t \in {"jwt", "attestation"}}

ProofWorlds ==
    {[Base EXCEPT !.offer.issuer = i, !.proof = t, !.attested = a, !.issuer.attestation = r, !.sharedClient = c,
                  !.issuer.nonceEndpoint = n] :
       i \in {"H", "E"}, t \in {"jwt", "di_vp", "attestation"}, a \in BOOLEAN, r \in {None, {"high"}}, c \in BOOLEAN, n \in BOOLEAN}

MCConfigs == EncryptionWorlds \cup OfferWorlds \cup ProofWorlds
=============================================================================
