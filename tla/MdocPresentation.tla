-------------------------- MODULE MdocPresentation --------------------------
(***************************************************************************)
(* Presentations over the ISO mdoc Digital Credentials API (IsoMdocDcApi,  *)
(* Annex C): a verifier V creates requests, a wallet parses one, its user  *)
(* chooses what to disclose, and V decrypts and verifies a response.       *)
(* Another site W may put a request of V to the wallet from its own        *)
(* origin, with its own encryption key, and may send V any documents it    *)
(* has read, in any order, changed where nothing it does not hold the key  *)
(* of covers them.                                                         *)
(*                                                                         *)
(* A transcript is [nonce, key, origin]: the encryption info, which holds  *)
(* the nonce and the recipient's key, and the origin.  The nonce of V's    *)
(* n-th session is n.                                                      *)
(***************************************************************************)
EXTENDS MdocMatching, MdocVerification

CONSTANTS DeviceRequests,  \* [name |-> request]
          Credentials,     \* [name |-> credential] of the wallet
          Relayed,         \* the requests W puts to the wallet
          VerifyOptions,   \* the [disableChain, disableStatus, throws] V may use
          ListReferences,  \* the references of the lists that are published
          ListLifetime,    \* from the iat of a list to its exp
          MaxSessions, MaxTime, MaxDocuments, MaxDeclined

\* W is no issuer and signs no revocation list, and no device key is W's.
ASSUME AttackerAssumption ==
    /\ "W" \notin Anchors
    /\ \A a \in Anchors : "W" \notin StatusSigners[a]
    /\ \A c \in DOMAIN Credentials : Credentials[c].mso.deviceKey # "W"

\* An identifier stands for one credential, whose lists are published.
ASSUME CredentialsAssumption ==
    /\ \A c \in DOMAIN Credentials : /\ "signer" \in DOMAIN Credentials[c].mso
                                     /\ Credentials[c].mso.status \in Seq(ListReferences)
    /\ \A c, d \in DOMAIN Credentials : Credentials[c].mso.id = Credentials[d].mso.id =>
           Credentials[c].mso.status = Credentials[d].mso.status

ASSUME ListsAssumption ==
    /\ ListLifetime \in Nat
    /\ \A r \in ListReferences : /\ r = [kind |-> r.kind, uri |-> r.uri]
                                 /\ r.kind \in {"status", "identifier"}

VARIABLES now,
          revoked,       \* the [id, at] of what has been revoked, and when
          sessions,      \* V's requests: [deviceRequest, readerAuth]
          presentation,  \* the wallet's response, {} before it responds
          verification,  \* V's verification, {} before it starts
          fetched        \* the <<document, URI>> of the lists V asked for

mdocVars == <<now, revoked, sessions, presentation, verification, fetched>>

MdocInit ==
    /\ now = 0 /\ revoked = {} /\ sessions = <<>>
    /\ presentation = {} /\ verification = {} /\ fetched = {}

-----------------------------------------------------------------------------
(* The world: time passes, credentials are revoked.  Only a verification   *)
(* looks at either, so neither moves before there is a response or after   *)
(* the verdict, and one revocation is enough.                              *)

Observable == presentation # {} /\ \A v \in verification : v.status = "verifying"

Tick ==
    /\ Observable /\ now < MaxTime /\ now' = now + 1
    /\ UNCHANGED <<revoked, sessions, presentation, verification, fetched>>

Revoke(c) ==
    /\ Observable /\ Credentials[c].mso.status # <<>> /\ revoked = {}
    /\ revoked' = {[id |-> Credentials[c].mso.id, at |-> now]}
    /\ UNCHANGED <<now, sessions, presentation, verification, fetched>>

-----------------------------------------------------------------------------
(* V: createRequest                                                        *)

TranscriptOf(nonce) == [nonce |-> nonce, key |-> "V", origin |-> "V"]

\* Every doc request is signed with the transcript, or none is.
ReaderAuthOf(name, transcript) == [key |-> "V", deviceRequest |-> name, transcript |-> transcript]

\* Bounds: requests that W does not relay are made once and not signed, and
\* a later session makes an unsigned request of the first again.
CreateRequest(name, withReaderAuth) ==
    LET transcript == TranscriptOf(Len(sessions) + 1)
    IN /\ Len(sessions) < MaxSessions /\ presentation = {}
       /\ name \in Relayed \/ (sessions = <<>> /\ ~ withReaderAuth)
       /\ sessions # <<>> =>
              name = sessions[1].deviceRequest /\ sessions[1].readerAuth = {} /\ ~ withReaderAuth
       /\ sessions' = Append(sessions,
              [deviceRequest |-> name,
               readerAuth |-> IF withReaderAuth THEN {ReaderAuthOf(name, transcript)} ELSE {}])
       /\ UNCHANGED <<now, revoked, presentation, verification, fetched>>

-----------------------------------------------------------------------------
(* The wallet: parseRequest, createResponse                                *)

\* What sites put to the wallet: V its requests, and W requests of V from its
\* own origin, as they are or with its own key, with the reader auth or not.
Offers ==
    LET Offer(n, key, origin, readerAuth) ==
            [deviceRequest |-> sessions[n].deviceRequest, readerAuth |-> readerAuth,
             transcript |-> [nonce |-> n, key |-> key, origin |-> origin]]
        relayed == {n \in DOMAIN sessions : sessions[n].deviceRequest \in Relayed}
    IN {Offer(n, "V", "V", sessions[n].readerAuth) : n \in DOMAIN sessions}
       \cup UNION {{Offer(n, key, "W", auth) : key \in {"V", "W"},
                                              auth \in {sessions[n].readerAuth, {}}} : n \in relayed}

\* Mutant: the signature of the reader is not tied to the session.
ReaderAuthUnbound(offer) == \A auth \in offer.readerAuth : auth.key = "V"

\* ReaderAuth.verify, for every doc request.
ReaderAuthHolds(offer) ==
    offer.readerAuth \subseteq {ReaderAuthOf(offer.deviceRequest, offer.transcript)}

\* parseRequest, with the default callback.
ParseRequest(offer) ==
    /\ \A q \in Range(DeviceRequests[offer.deviceRequest].docRequests) :
           ~ AgeOverLimitExceeded(q.elements)
    /\ ReaderAuthHolds(offer)

\* The choices a user can make, at most MaxDeclined elements left out and
\* one alternative set chosen; only one of several documents is cut down.
ChoicesFor(deviceRequest, c) ==
    LET Merged(rs) == MergeDocRequests({deviceRequest.docRequests[r] : r \in rs})
        Selections(rs) == {Merged(rs).elements \ D :
                               D \in {D \in SUBSET Merged(rs).elements : Cardinality(D) <= MaxDeclined}}
        Chosen(rs) == {<<>>} \cup UNION {[{e} -> 1 .. 2] : e \in Merged(rs).elements}
        answers == {r \in DOMAIN deviceRequest.docRequests :
                        deviceRequest.docRequests[r].docType = Credentials[c].docType}
    IN UNION {{[credential |-> c, docRequests |-> rs, selected |-> s, alternatives |-> a] :
                   s \in Selections(rs), a \in Chosen(rs)} : rs \in SUBSET answers \ {{}}}

Complete(deviceRequest, choice) ==
    /\ choice.alternatives = <<>>
    /\ choice.selected = UNION {deviceRequest.docRequests[r].elements : r \in choice.docRequests}

\* To W the user gives whole documents only: a bound.
ResponseChoices(deviceRequest, origin) ==
    LET all == UNION {ChoicesFor(deviceRequest, c) : c \in DOMAIN Credentials}
        complete == {x \in all : Complete(deviceRequest, x)}
        first == IF origin = "W" THEN complete ELSE all
    IN {<<>>} \cup {<<x>> : x \in first}
       \cup {s \in first \X complete : MaxDocuments > 1 /\ s[1].credential # s[2].credential}

\* createDocument: the items, the device signature and the mobile security
\* object of the credential.
DocumentOf(c, items, transcript) ==
    LET deviceItems == {i \in items : i.source = "deviceSigned"}
        credential == Credentials[c]
    IN [docType |-> credential.mso.docType, items |-> items \ deviceItems,
        deviceItems |-> deviceItems, mso |-> credential.mso, x5chain |-> credential.x5chain,
        auth |-> [key |-> credential.mso.deviceKey, transcript |-> transcript,
                  docType |-> credential.mso.docType, items |-> deviceItems]]

Respond(offer) ==
    /\ presentation = {} /\ verification = {}
    /\ ParseRequest(offer)
    /\ \E choices \in ResponseChoices(DeviceRequests[offer.deviceRequest], offer.transcript.origin) :
       \E disclosed \in CreateWithDeviceRequest(DeviceRequests[offer.deviceRequest],
                                                Credentials, choices) :
           presentation' = {[offer |-> offer, choices |-> choices,
               documents |-> [d \in DOMAIN choices |->
                   DocumentOf(choices[d].credential, disclosed[d], offer.transcript)]]}
    /\ UNCHANGED <<now, revoked, sessions, verification, fetched>>

-----------------------------------------------------------------------------
(* W: what it reads and what it makes of it                                *)

ReadByW == {p \in presentation : p.offer.transcript.key = "W"}

\* W signs with its own key, alters values and labels, adds the certificate
\* of another issuer, and makes documents of a mobile security object of its
\* own, whose status names a URI of its choice.  A signature of the wallet's
\* device key is not W's to make.
Altered(d, transcript) ==
    LET own == [key |-> "W", transcript |-> transcript, docType |-> d.docType, items |-> d.deviceItems]
        forged == [d.mso EXCEPT !.signer = "W", !.deviceKey = "W", !.status = <<[kind |-> "status", uri |-> "uriW"]>>]
    IN {d,
        [d EXCEPT !.auth = own],
        [d EXCEPT !.docType = "other"],
        [d EXCEPT !.items = {[i EXCEPT !.value = "changed"] : i \in d.items}],
        [d EXCEPT !.items = {}],
        [d EXCEPT !.mso = forged, !.auth = own],
        [d EXCEPT !.mso = forged, !.auth = own, !.x5chain = <<"W">> \o d.x5chain]}

\* What W seals for V, one document of what it read altered or all but one
\* left out: HPKE does not authenticate the sender.
SealedByW(transcript) ==
    UNION {{[transcript |-> transcript, key |-> "V", documents |-> ds] :
               ds \in UNION {{[p.documents EXCEPT ![n] = a] : a \in Altered(p.documents[n], transcript)}
                             \cup {<<p.documents[n]>>} : n \in DOMAIN p.documents}} : p \in ReadByW}

Sealed == {[transcript |-> p.offer.transcript, key |-> p.offer.transcript.key,
            documents |-> p.documents] : p \in presentation}

-----------------------------------------------------------------------------
(* V: decryptResponse, then DeviceResponse.verify                          *)

\* decryptResponse: the transcript of the session is the HPKE info.
Opens(response, n) == response.key = "V" /\ response.transcript = TranscriptOf(n)

\* What every list that has not expired lists: it was revoked before any of
\* them was made.
ListedForSure == {r.id : r \in {r \in revoked : r.at + ListLifetime + SkewTime <= now}}

VerifyResponse(n, response, options) ==
    /\ presentation # {} /\ verification = {}
    /\ verification' = {[session |-> n, documents |-> response.documents, options |-> options,
                         chains |-> <<>>, match |-> <<>>, listed |-> ListedForSure,
                         failed |-> response.documents = <<>>,
                         status |-> IF \/ ~ Opens(response, n)
                                       \/ options.throws /\ response.documents = <<>>
                                    THEN "rejected" ELSE "verifying"]}
    /\ UNCHANGED <<now, revoked, sessions, presentation, fetched>>

\* The lists made so far for a reference; one that is made at the instant of
\* a revocation may or may not have it.
ListsMade(reference) ==
    {CreateList(reference, "status", iat, iat + ListLifetime, {r.id : r \in {r \in revoked : r.at + wait <= iat}}) :
        iat \in 0 .. now, wait \in {0, 1}}

\* What may be served for a reference: any list made for it, also as a JWT or
\* with its chain moved to the unprotected header, bound there or not; a list
\* without exp; the list of another reference; one that W made, with its own
\* chain, with the chain of the list signer or with a MAC; or nothing.
Servable(reference) ==
    LET first == CreateList(reference, "status", 0, ListLifetime, {})
        latest == CreateList(reference, "status", now, now + ListLifetime, {r.id : r \in revoked})
        byW == CreateList(reference, "W", now, now + ListLifetime, {})
        made == ListsMade(reference)
                \cup {[latest EXCEPT !.contentType = "status+jwt", !.typ = "status+jwt"],
                      [latest EXCEPT !.protected = NotGiven, !.unprotected = "status", !.x5t = "status"],
                      [latest EXCEPT !.protected = NotGiven, !.unprotected = "status"],
                      [first EXCEPT !.exp = NotGiven],
                      byW, [byW EXCEPT !.protected = "status"], [byW EXCEPT !.protected = "status", !.proof = "tag"]}
                \cup {CreateList(other, "status", now, now + ListLifetime, {}) : other \in ListReferences \ {reference}}
    IN  {{token} : token \in made} \cup {{}}

\* One document.
VerifyDocument ==
    \E v \in verification :
        /\ v.status = "verifying" /\ Len(v.chains) < Len(v.documents)
        /\ \E d \in {v.documents[Len(v.chains) + 1]} :
           \E served \in {f \in [Range(d.mso.status) -> UNION {Servable(r) : r \in Range(d.mso.status)}] :
                            \A r \in DOMAIN f : f[r] \in Servable(r)} :
           \E fails \in {DocumentFails(d, TranscriptOf(v.session), v.options, now, served)} :
           /\ verification' = {[v EXCEPT
                  !.chains = Append(@, TrustedIssuanceChain(d, v.options, now)),
                  !.failed = @ \/ fails,
                  !.status = IF fails /\ v.options.throws THEN "rejected" ELSE @]}
           /\ fetched' = fetched \cup
                  ({d} \X DocumentFetches(d, TranscriptOf(v.session), v.options, now, served))
           /\ UNCHANGED <<now, revoked, sessions, presentation>>

\* The documents as matchDeviceRequest sees them.
Matched(v) ==
    [d \in DOMAIN v.documents |->
        LET document == v.documents[d]
        IN [docType |-> document.docType,
            subject |-> [docType |-> document.mso.docType,
                         issuers |-> UNION {KeyIds[a] : a \in v.chains[d]},
                         items |-> document.items \cup document.deviceItems,
                         authorized |-> document.mso.authorized]]]

RequestOf(v) == DeviceRequests[sessions[v.session].deviceRequest]

ResultOf(v, matches) ==
    MatchDeviceRequest(RequestOf(v), CreateAttribution(matches), RequestOf(v).asAlternatives)

\* matchDeviceRequest and reportDeviceRequestMatch end the verification.
MatchResponse ==
    \E v \in verification :
        /\ v.status = "verifying" /\ Len(v.chains) = Len(v.documents)
        /\ \E matches \in {Matches(RequestOf(v), Matched(v))} :
           \E result \in {ResultOf(v, matches)} :
              verification' = {[v EXCEPT
                  !.match = matches,
                  !.status = IF v.failed \/ ReportFails(RequestOf(v), result, RequestOf(v).asAlternatives)
                             THEN "rejected" ELSE "accepted"]}
        /\ UNCHANGED <<now, revoked, sessions, presentation, fetched>>

MdocNext ==
    \/ Tick
    \/ \E c \in DOMAIN Credentials : Revoke(c)
    \/ \E name \in DOMAIN DeviceRequests, withReaderAuth \in BOOLEAN :
           CreateRequest(name, withReaderAuth)
    \/ \E offer \in Offers : Respond(offer)
    \/ \E n \in DOMAIN sessions :
       \E response \in Sealed \cup SealedByW(TranscriptOf(n)), options \in VerifyOptions :
           VerifyResponse(n, response, options)
    \/ VerifyDocument
    \/ MatchResponse

MdocSpec == MdocInit /\ [][MdocNext]_mdocVars

-----------------------------------------------------------------------------
(* Properties                                                              *)

\* What a user leaves out stays with the wallet, whichever other element,
\* alternative set or doc request of the document it would also answer; what
\* is disclosed was selected; and a document has at most two age attestations
\* of a namespace (DeviceResponse.selectElements, mergeDocRequests).
DeclinedStaysHidden ==
    \A p \in presentation : \A d \in DOMAIN p.documents :
        LET choice == p.choices[d]
            requests == {DeviceRequests[p.offer.deviceRequest].docRequests[r] : r \in choice.docRequests}
            disclosed == p.documents[d].items \cup p.documents[d].deviceItems
            Answers(q, e) == Lookup("holder", q, Credentials[choice.credential], e)
        IN /\ \A q \in requests : \A e \in q.elements \ choice.selected :
                  disclosed \cap Answers(q, e) = {}
           /\ \A i \in disclosed : \E q \in requests : \E e \in q.elements \cap choice.selected :
                  IF e \in DOMAIN choice.alternatives
                  THEN \E x \in AlternativeSets(q, e)[choice.alternatives[e]] : i \in Answers(q, x)
                  ELSE i \in Answers(q, e)
           /\ ~ AgeOverLimitExceeded(ElementsOf(disclosed))

\* A request that names an authenticated reader is only answered to that
\* reader: nobody else can read the response (ReaderAuth.verify binds the
\* origin and the recipient's key through the transcript).
AuthenticatedReaderOnly ==
    \A p \in presentation : p.offer.readerAuth # {} =>
        /\ p.offer.transcript.key = "V" /\ p.offer.transcript.origin = "V"
        /\ ReadByW = {}

Accepted == {v \in verification : v.status = "accepted"}

\* A response is accepted for a session only when the wallet made it for that
\* session, nothing in it has changed since, trusted issuers signed its
\* credentials, and none of them had been revoked for as long as a revocation
\* list lives, whatever is served for its URI (decryptResponse,
\* DeviceAuth.verify, IssuerAuth.verify, verifyStatusListToken,
\* verifyIdentifierListToken).
AcceptedAsMade ==
    \A v \in Accepted : ~ v.options.disableChain =>
        /\ \E p \in presentation : /\ p.offer.transcript = TranscriptOf(v.session)
                                   /\ p.documents = v.documents
        /\ \A d \in Range(v.documents) :
               /\ d.mso.signer \in Anchors
               /\ ~ v.options.disableStatus => d.mso.id \notin v.listed

\* The verifier asks for no URI but one in a mobile security object that a
\* trusted issuer signed, also when its callback collects failed checks and
\* verification goes on ("A forged MSO must not make the verifier request a
\* URI of its choosing", IssuerAuth.verify).
StatusFetchesAuthorised ==
    \A f \in fetched : f[1].mso.signer \in Anchors /\ Leaf(f[1]) = f[1].mso.signer

\* Whether documents answer a request, without an algorithm: sets of doc
\* requests for the mandatory and for at least one use case, that documents
\* can answer together.
AnsweredAsAsked(deviceRequest, matches) ==
    LET useCases == ResolveUseCases(deviceRequest, deviceRequest.asAlternatives)
    IN \E U \in SUBSET DOMAIN useCases \ {{}} :
          /\ \A u \in DOMAIN useCases : useCases[u].mandatory => u \in U
          /\ \E choice \in [U -> UNION {Range(useCases[u].sets) : u \in U}] :
                 /\ \A u \in U : choice[u] \in Range(useCases[u].sets)
                 /\ Answerable(matches, UNION Range(choice))

\* The verdict is the one that definition gives, and every doc request that
\* is taken to be answered has a document that satisfies it
\* (createAttribution, chooseDocumentSets, reportDeviceRequestMatch).
AcceptedIffAnswered ==
    \A v \in verification : v.match # <<>> =>
        /\ v.status = "accepted" <=> ~ v.failed /\ AnsweredAsAsked(RequestOf(v), v.match)
        /\ \A sets \in ResultOf(v, v.match).chosen :
               \A r \in UNION Range(sets) :
                   Answer(CreateAttribution(v.match), UNION Range(sets))[r] \cap v.match[r].valid # {}

\* The user gave what was asked: credentials that the wallet found to satisfy
\* the doc requests, every element but optional ones, for doc requests enough.
GivesWhatIsAsked(p) ==
    LET deviceRequest == DeviceRequests[p.offer.deviceRequest]
        answered == UNION {p.choices[d].docRequests : d \in DOMAIN p.choices}
    IN /\ \A d \in DOMAIN p.choices : \A r \in p.choices[d].docRequests :
              LET q == deviceRequest.docRequests[r]
              IN /\ p.choices[d].credential \in ValidCredentials(q, Credentials)
                 /\ \A e \in q.elements \ p.choices[d].selected : Expected(q, e).optional
       /\ IF deviceRequest.useCases # <<>> \/ deviceRequest.asAlternatives THEN answered # {}
          ELSE answered = DOMAIN deviceRequest.docRequests

\* A response with what was asked satisfies the verifier's match, discloses
\* nothing the verifier did not ask for, and while the credentials are valid
\* fails no other check: holder and verifier read a request the same way
\* (matchElements in its two modes).
HonestAnswerAccepted ==
    \A v \in verification, p \in presentation :
        /\ v.status # "verifying"
        /\ p.offer.transcript = TranscriptOf(v.session) /\ v.documents = p.documents
        /\ GivesWhatIsAsked(p)
        =>
        /\ v.options.disableStatus /\ ~ v.options.disableChain /\ now = 0 => v.status # "rejected"
        /\ v.match # <<>> /\ (\A d \in DOMAIN v.chains : v.chains[d] # {}) =>
               /\ v.status = "accepted" \/ v.failed
               /\ ~ ReportFails(RequestOf(v), ResultOf(v, v.match), RequestOf(v).asAlternatives)
               /\ \A d \in DOMAIN v.documents : OverDisclosure(RequestOf(v), Matched(v), d) = {}

\* The verdict on a response is the one its documents deserve: accepted exactly
\* when they answer the request (AcceptedIffAnswered), and so for every answer
\* with what was asked (HonestAnswerAccepted).
VerdictAsAnswered == AcceptedIffAnswered /\ HonestAnswerAccepted
=============================================================================
