------------------------- MODULE RelyingPartyTrust -------------------------
(***************************************************************************)
(* A wallet decides whether to answer a relying party, with the packages   *)
(* the EUDI profile is made of: it verifies the signed request             *)
(* (@owf/jose), checks the access certificate and its revocation           *)
(* (@owf/x509, @owf/eudi-access-certificate), verifies the registration    *)
(* certificate (@owf/eudi-jades, @owf/eudi-registration-certificate) and   *)
(* compares the query with it.  Between two checks time passes, the CA     *)
(* revokes, holds and releases certificates, and another CRL reaches the   *)
(* wallet's cache.                                                         *)
(*                                                                         *)
(* The wallet application, the CA's records and the registrar are          *)
(* external; the order of the wallet's calls is the one the READMEs of the *)
(* packages show.                                                          *)
(***************************************************************************)
EXTENDS Registration, Integers, SequencesExt

CONSTANTS Leaves,           \* access certificates
          CaCertificates,   \* the provider CAs and their CRL issuers the wallet trusts
          Requests,         \* signed requests that reach the wallet
          Payloads,         \* registrations the registrar may be asked for
          OtherDocuments,   \* headers of other documents the registrar signs
          Queries,          \* sets of credential queries
          Credentials,      \* credentials the wallet holds
          Indexes,          \* array indexes of a path
          Dids,             \* issuers that are DIDs
          MaxTime,          \* bound on the clock
          Lag,              \* by how much the wallet's clock may be behind
          Skew, Year, CrlLifetime

\* The application's verification callback: it verifies with the key of the
\* certificate, and a MAC with the bytes of that key.
VerifyJws(signer, jwt) ==
    [verified |-> /\ signer.method = "x5c"
                  /\ jwt.signature = IF jwt.alg.symmetric THEN <<"mac", signer.key.key>> ELSE signer.key.key,
     jwk |-> [alg |-> Absent, use |-> Absent, kty |-> "EC"]]

J == INSTANCE Jose WITH Verify <- VerifyJws

\* Certificates name an issuer, and a request may carry one of them.
ASSUME LeavesAssumption ==
    /\ IsFiniteSet(Leaves) /\ \A l \in Leaves : l.issuer # Absent
    /\ \A r \in Requests : r.x5c \in Leaves \cup {Absent} /\ (r.exp # Absent => r.exp \in Int)

\* A CA that has several keys names the one it uses in what it signs, as
\* createCertificate and createCrl do.
ASSUME KeysAssumption ==
    \A l \in Leaves, c, d \in CaCertificates :
        /\ VerifyCertificateSignature(l, c) /\ ~c.delegate
        /\ d.name = c.name /\ ~d.delegate /\ KeyIdsAgree(d.ski, l.aki)
        => d.key = c.key

\* What else the registrar signs is not of the type of a registration.
ASSUME DocumentsAssumption ==
    \A h \in OtherDocuments : "typ" \in DOMAIN h /\ h.typ # "rc-wrp+jwt"

ASSUME TimesAssumption == MaxTime \in Nat /\ Lag \in Nat /\ Skew \in Nat /\ Year \in Nat /\ CrlLifetime \in Nat \ {0}

RegistrarKey == "registrar"

\* Why a certificate is revoked, and what an issuing distribution point says.
Reasons == {"keyCompromise", "certificateHold"}
IssuingDistributionPoint ==
    [uris : SUBSET UNION {l.dps : l \in Leaves}, user : BOOLEAN, cas : BOOLEAN, attribute : BOOLEAN,
     indirect : BOOLEAN, reasons : {Absent} \cup SUBSET Reasons]

\* What is not there differs from what is.
ASSUME AbsentAssumption ==
    /\ Absent # ByUriHash
    /\ \A idp \in IssuingDistributionPoint : idp # Absent
    /\ \A reasons \in SUBSET Reasons : reasons # Absent

VARIABLES records,      \* records[t]: the status the CAs give each certificate at time t - 1
          crl,          \* the CRL in the wallet's cache, or Absent
          registered,   \* the registrations the registrar has signed
          wallet        \* the wallet's progress and what it has accepted

walletVars == <<records, crl, registered, wallet>>

Now == Len(records) - 1
StatusAt(t) == records[t + 1]

Idle == [step |-> "idle"]

WalletInit ==
    /\ records = <<[l \in Leaves |-> "valid"]>>
    /\ crl = Absent
    /\ registered = {}
    /\ wallet = Idle

-----------------------------------------------------------------------------
(* The certification authorities *)

\* Time passes while the CAs change the status of at most one certificate.
Proceed(status) ==
    /\ wallet.step \in {"idle", "signed"}
    /\ Now < MaxTime
    /\ records' = Append(records, status)
    /\ UNCHANGED <<crl, registered, wallet>>

Tick == Proceed(StatusAt(Now))

Revoke(l, reason) ==
    /\ StatusAt(Now)[l] # "keyCompromise"
    /\ StatusAt(Now)[l] # reason
    /\ Proceed([StatusAt(Now) EXCEPT ![l] = reason])

Release(l) ==
    /\ StatusAt(Now)[l] = "certificateHold"
    /\ Proceed([StatusAt(Now) EXCEPT ![l] = "valid"])

NoIdp == [uris |-> {}, user |-> FALSE, cas |-> FALSE, attribute |-> FALSE, indirect |-> FALSE, reasons |-> Absent]

\* The entries of the certificates in ls, in any order; the issuer is named
\* where it changes.
Entries(ls, issuer, indirect, reasons) ==
    LET listed == SetToSeq(ls)
        Before(i) == IF i = 1 THEN issuer ELSE listed[i - 1].issuer
    IN  [i \in DOMAIN listed |->
            [serial |-> listed[i].serial, reason |-> reasons[listed[i]], critical |-> FALSE,
             certificateIssuer |-> IF indirect /\ listed[i].issuer # Before(i) THEN listed[i].issuer ELSE Absent]]

RevokedNow == {l \in Leaves : StatusAt(Now)[l] # "valid"}

\* The lists a CA can publish over its own certificates: all of them, those
\* of one distribution point, those of CAs, those revoked for one reason.
OwnLists(c) ==
    LET mine == {l \in RevokedNow : l.issuer = c.name /\ l.by = c.key}
        List(idp, ls) == CreateCrl(c, Now, Now + CrlLifetime, idp, Entries(ls, c.name, FALSE, StatusAt(Now)))
    IN  {List(Absent, mine)}
        \cup {List([NoIdp EXCEPT !.uris = {u}, !.user = TRUE], {l \in mine : u \in l.dps}) :
                 u \in UNION {l.dps : l \in Leaves}}
        \cup {List([NoIdp EXCEPT !.cas = TRUE], {}), List([NoIdp EXCEPT !.attribute = TRUE], {})}
        \cup {List([NoIdp EXCEPT !.reasons = {r}], {l \in mine : StatusAt(Now)[l] = r}) :
                 r \in Reasons}
        \cup {[List(Absent, {}) EXCEPT !.critical = TRUE]}

\* The list of the issuer to which the CAs delegate theirs, made with other
\* software: the entries of createCrl name no certificate issuer.
IndirectList(c) ==
    CreateCrl(c, Now, Now + CrlLifetime, [NoIdp EXCEPT !.indirect = TRUE],
              Entries(RevokedNow, c.name, TRUE, StatusAt(Now)))

\* What changed since the time before, with a removal for each release.
DeltaList(c) ==
    LET changed == {l \in Leaves : /\ l.issuer = c.name /\ l.by = c.key
                                   /\ Now > 0 /\ StatusAt(Now)[l] # StatusAt(Now - 1)[l]}
        reasons == [l \in changed |-> IF StatusAt(Now)[l] = "valid" THEN "removeFromCRL" ELSE StatusAt(Now)[l]]
    IN  [CreateCrl(c, Now, Now + CrlLifetime, Absent, Entries(changed, c.name, FALSE, reasons)) EXCEPT !.delta = TRUE]

\* The wallet fetches a list that is published now.
FetchCrl(c) ==
    /\ wallet.step \in {"idle", "signed"}
    /\ crl' \in IF c.delegate THEN {IndirectList(c)} ELSE OwnLists(c) \cup {DeltaList(c)}
    /\ UNCHANGED <<records, registered, wallet>>

-----------------------------------------------------------------------------
(* The registrar *)

\* signRegistrationCertificate: the payload is checked against the subject of
\* the access certificate it is presented with.
Register(payload, l) ==
    /\ wallet.step = "accepted"
    /\ registered = {}
    /\ PayloadValid(payload, SubjectIdentifier(l), Year)
    /\ registered' = {SignRegistrationCertificate(RegistrarKey, payload, Now)}
    /\ UNCHANGED <<records, crl, wallet>>

\* The tokens that may come with a request: what the registrar signed, with
\* its payload or with another in its place, and other documents of the
\* registrar in whose empty payload a registration has been put.
Tokens ==
    registered
    \cup {[jws EXCEPT !.payload = p] : jws \in registered, p \in Payloads}
    \cup {[SignToken(RegistrarKey, h, p) EXCEPT !.payload = p] : h \in OtherDocuments, p \in Payloads}

-----------------------------------------------------------------------------
(* The wallet *)

Refused == [step |-> "refused"]

\* verifyJarRequestObject for a client identified by its certificate
VerifyRequest(r) ==
    /\ wallet.step = "idle"
    /\ \E lag \in 0..Lag :
          wallet' = IF J!VerifyJwt(r, J!SignerFromHeader(r, {"x5c"}), Absent, Now - lag, Skew)
                    THEN [step |-> "signed", request |-> r, at |-> Now]
                    ELSE Refused
    /\ UNCHANGED <<records, crl, registered>>

\* verifyCertificateSignature, validateAccessCertificate and checkRevocation
\* with the CA certificates the wallet trusts for them
CheckAccessCertificate(ca, crlIssuer) ==
    /\ wallet.step = "signed" /\ crl # Absent
    /\ \E lag \in 0..Lag :
          LET cert == wallet.request.x5c
          IN  wallet' = IF /\ ~ca.delegate /\ VerifyCertificateSignature(cert, ca)
                           /\ AccessCertificateValid(cert, Now - lag)
                           /\ CheckRevocation(cert, crl, crlIssuer, Now - lag) = "good"
                        THEN [step |-> "accepted", request |-> wallet.request, at |-> wallet.at]
                        ELSE Refused
    /\ UNCHANGED <<records, crl, registered>>

\* verify and decodeRegistrationCertificate
CheckRegistration(jws) ==
    /\ wallet.step = "accepted"
    /\ wallet' = IF /\ JadesVerifies(jws, RegistrarKey)
                    /\ RegistrationCertificateDecodes(jws, SubjectIdentifier(wallet.request.x5c), Year)
                 THEN [step |-> "registered", request |-> wallet.request, at |-> wallet.at, payload |-> jws.payload]
                 ELSE Refused
    /\ UNCHANGED <<records, crl, registered>>

\* checkOverAsking over the query of the request, which is chosen here since
\* no check before this one reads it; the wallet answers when
\* there is no issue, and asks the user when there are only warnings.
CheckQuery(queries) ==
    /\ wallet.step = "registered"
    /\ LET issues == OverAskingIssues(queries, wallet.payload.credentials)
       IN  wallet' = IF OverAskingValid(issues)
                     THEN [step |-> "answered", request |-> wallet.request, at |-> wallet.at,
                           queries |-> queries, warned |-> issues # {}]
                     ELSE Refused
    /\ UNCHANGED <<records, crl, registered>>

WalletNext ==
    \/ Tick
    \/ \E l \in Leaves : Release(l) \/ \E reason \in Reasons : Revoke(l, reason)
    \/ \E c \in CaCertificates : FetchCrl(c)
    \/ \E p \in Payloads, l \in Leaves : Register(p, l)
    \/ \E r \in Requests : VerifyRequest(r)
    \/ \E ca, crlIssuer \in CaCertificates : CheckAccessCertificate(ca, crlIssuer)
    \/ \E jws \in Tokens : CheckRegistration(jws)
    \/ \E queries \in Queries : CheckQuery(queries)

WalletSpec == WalletInit /\ [][WalletNext]_walletVars

-----------------------------------------------------------------------------
(* Properties *)

Trusting == wallet.step \in {"accepted", "registered", "answered"}

\* checkRevocation, verifyJwt, verifyCertificateSignature: a relying party the
\* wallet goes on with has signed its request with the key of a certificate
\* that a trusted CA issued, and which the CA's records did not show as revoked
\* or on hold when the CRL was made.  The CRL and the request were not
\* outdated by more than the wallet's clock is behind.
AuthenticRelyingParty ==
    Trusting =>
        LET cert == wallet.request.x5c
        IN  /\ wallet.request.signature = cert.key
            /\ \E ca \in CaCertificates : ca.name = cert.issuer /\ ca.key = cert.by
            /\ StatusAt(crl.thisUpdate)[cert] = "valid"
            /\ Now <= crl.nextUpdate + Lag
            /\ wallet.request.exp # Absent => wallet.at < wallet.request.exp + Skew + Lag

\* What a claims path selects in a credential: null stands for the elements
\* of an array, and what lies below a selected node goes with it.
Selects(path, leaf) ==
    /\ Len(path) <= Len(leaf)
    /\ \A i \in DOMAIN path : IF path[i] = Null THEN leaf[i] \in Indexes ELSE path[i] = leaf[i]

Admits(q, cred) == q.format = cred.format /\ (q.meta # Absent => cred.type \in q.meta)

IsPath(path) == path \in Seq(Range(path))

\* A registration has null where the credentials it is about have an array.
ASSUME PathsAssumption ==
    /\ \A queries \in Queries : \A q \in queries : q.claims # Absent => \A c \in q.claims : IsPath(c.path)
    /\ \A cred \in Credentials : \A leaf \in DOMAIN cred.claims : IsPath(leaf)
    /\ \A p \in Payloads : p.credentials # Absent =>
        \A r \in p.credentials : r.claims # Absent =>
            \A g \in r.claims :
                /\ IsPath(g.path)
                /\ \A cred \in {cr \in Credentials : Admits(r, cr)} :
                    \A leaf \in DOMAIN cred.claims : \A i \in DOMAIN g.path \cap DOMAIN leaf :
                        g.path[i] = Null /\ (\A j \in 1 .. i - 1 : g.path[j] \in {Null, leaf[j]}) => leaf[i] \in Indexes

\* Of the selected nodes those with one of the values, where values are given.
Covers(claim, cred, leaf) ==
    Selects(claim.path, leaf) /\ (claim.values # Absent => cred.claims[leaf] \in claim.values)

\* A credential answers with something for every claim or not at all.
Answers(q, cred) ==
    /\ Admits(q, cred)
    /\ q.claims # Absent => \A c \in q.claims : \E leaf \in DOMAIN cred.claims : Covers(c, cred, leaf)

Disclosed(q, cred) ==
    IF q.claims = Absent \/ ~Answers(q, cred) THEN {}
    ELSE {leaf \in DOMAIN cred.claims : \E c \in q.claims : Covers(c, cred, leaf)}

\* A registration the registrar made for the subject of the certificate
\* covers the node and its value.
RegisteredFor(sub, cred, leaf) ==
    \E jws \in registered :
        /\ PresentedBy(jws.payload) = sub
        /\ jws.payload.credentials # Absent
        /\ \E r \in jws.payload.credentials :
              /\ Admits(r, cred)
              /\ r.claims # Absent
              /\ \E c \in r.claims : Covers(c, cred, leaf)

\* checkOverAsking, decodeRegistrationCertificate, verify: what an answer
\* without a warning takes from any credential of the wallet, value by value,
\* is covered by one registration that admits this very credential and that
\* the registrar signed for the subject of the access certificate.
DisclosedWithinRegistration ==
    wallet.step = "answered" /\ ~wallet.warned =>
        \A q \in wallet.queries, cred \in Credentials : \A leaf \in Disclosed(q, cred) :
            RegisteredFor(SubjectIdentifier(wallet.request.x5c), cred, leaf)
=============================================================================
