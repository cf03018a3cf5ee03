------------------------- MODULE PresentationProofs -------------------------
(***************************************************************************)
(* Presentations over the ISO mdoc Digital Credentials API: whatever       *)
(* requests, credentials and choices, and however often a site relays a    *)
(* request or alters what it read, a request of an authenticated reader is *)
(* answered to that reader only, what a user declines stays hidden, a      *)
(* verifier accepts only what a wallet made for the session, and it asks   *)
(* for no list that no trusted issuer named.                               *)
(*                                                                         *)
(* And presentations over OpenID4VP: whatever another verifier relays,     *)
(* rewraps or signs, in every client identifier prefix and response mode,  *)
(* a response goes to the client that was shown, and a session accepts     *)
(* only what was made for its request.                                     *)
(***************************************************************************)
EXTENDS MdocPresentation, PresentationExchange, Basics, FiniteSetTheorems

(***************************************************************************)
(* What is in the state                                                    *)
(***************************************************************************)
ReaderAuths == [key : {"V"}, deviceRequest : DOMAIN DeviceRequests,
                transcript : {TranscriptOf(n) : n \in Nat}]
Session == [deviceRequest : DOMAIN DeviceRequests, readerAuth : SUBSET ReaderAuths]

MdocTypeOK ==
    /\ now \in Nat
    /\ sessions \in Seq(Session)
    /\ \A p, q \in presentation : p = q

\* The reader auth of a session is for its transcript.
SessionsAuthenticated ==
    \A n \in DOMAIN sessions : \A auth \in sessions[n].readerAuth : auth.transcript = TranscriptOf(n)

-----------------------------------------------------------------------------
\* A site offers the request of a session, with its reader auth or without.
LEMMA OfferedRequest ==
  ASSUME NEW offer \in Offers
  PROVE  \E n \in DOMAIN sessions :
            /\ offer.deviceRequest = sessions[n].deviceRequest
            /\ offer.readerAuth \subseteq sessions[n].readerAuth
            /\ offer.transcript.nonce = n
            /\ offer.transcript = TranscriptOf(n) \/ offer.transcript.origin = "W"
<1> DEFINE Offer(n, key, origin, readerAuth) ==
            [deviceRequest |-> sessions[n].deviceRequest, readerAuth |-> readerAuth,
             transcript |-> [nonce |-> n, key |-> key, origin |-> origin]]
           relayed == {n \in DOMAIN sessions : sessions[n].deviceRequest \in Relayed}
<1>1. \/ \E n \in DOMAIN sessions : offer = Offer(n, "V", "V", sessions[n].readerAuth)
      \/ \E n \in relayed : \E key \in {"V", "W"}, auth \in {sessions[n].readerAuth, {}} :
             offer = Offer(n, key, "W", auth)
  BY DEF Offers
<1>2. CASE \E n \in DOMAIN sessions : offer = Offer(n, "V", "V", sessions[n].readerAuth)
  BY <1>2 DEF TranscriptOf
<1>3. CASE \E n \in relayed : \E key \in {"V", "W"}, auth \in {sessions[n].readerAuth, {}} :
             offer = Offer(n, key, "W", auth)
  <2>1. PICK n \in relayed : \E key \in {"V", "W"}, auth \in {sessions[n].readerAuth, {}} :
             offer = Offer(n, key, "W", auth)
    BY <1>3
  <2>2. PICK key \in {"V", "W"}, auth \in {sessions[n].readerAuth, {}} : offer = Offer(n, key, "W", auth)
    BY <2>1
  <2>3. auth \subseteq sessions[n].readerAuth
    BY <2>2
  <2> QED BY <2>2, <2>3
<1> QED BY <1>1, <1>2, <1>3

\* The response a wallet makes of an offer, if any.
Response(offer, choices, disclosed) ==
    [offer |-> offer, choices |-> choices,
     documents |-> [d \in DOMAIN choices |->
                       DocumentOf(choices[d].credential, disclosed[d], offer.transcript)]]

Responds(offer, p) ==
    /\ ParseRequest(offer)
    /\ \E choices \in ResponseChoices(DeviceRequests[offer.deviceRequest], offer.transcript.origin) :
       \E disclosed \in CreateWithDeviceRequest(DeviceRequests[offer.deviceRequest], Credentials, choices) :
           p = Response(offer, choices, disclosed)

\* The steps, by what they may change.
MdocCases ==
    \/ now' = now + 1 /\ UNCHANGED <<revoked, sessions, presentation, verification, fetched>>
    \/ \E c \in DOMAIN Credentials : Revoke(c)
    \/ \E name \in DOMAIN DeviceRequests, withReaderAuth \in BOOLEAN : CreateRequest(name, withReaderAuth)
    \/ \E offer \in Offers : \E p :
           /\ Responds(offer, p) /\ presentation' = {p} /\ verification = {}
           /\ UNCHANGED <<now, revoked, sessions, verification, fetched>>
    \/ \E n \in DOMAIN sessions : \E response \in Sealed \cup SealedByW(TranscriptOf(n)), options \in VerifyOptions :
           VerifyResponse(n, response, options)
    \/ VerifyDocument
    \/ MatchResponse
    \/ UNCHANGED mdocVars

LEMMA MdocStep ==
  ASSUME [MdocNext]_mdocVars
  PROVE  MdocCases
<1>1. CASE Tick
  BY <1>1 DEF Tick, MdocCases
<1>2. CASE \E offer \in Offers : Respond(offer)
  <2>1. PICK offer \in Offers : Respond(offer)
    BY <1>2
  <2>2. ParseRequest(offer) /\ verification = {} /\ UNCHANGED <<now, revoked, sessions, verification, fetched>>
    BY <2>1 DEF Respond
  <2>3. PICK choices \in ResponseChoices(DeviceRequests[offer.deviceRequest], offer.transcript.origin) :
        \E disclosed \in CreateWithDeviceRequest(DeviceRequests[offer.deviceRequest], Credentials, choices) :
            presentation' = {Response(offer, choices, disclosed)}
    BY <2>1 DEF Respond, Response
  <2>4. PICK disclosed \in CreateWithDeviceRequest(DeviceRequests[offer.deviceRequest], Credentials, choices) :
            presentation' = {Response(offer, choices, disclosed)}
    BY <2>3
  <2> DEFINE p == Response(offer, choices, disclosed)
  <2>5. Responds(offer, p)
    BY <2>2, <2>3, <2>4 DEF Responds
  <2>6. presentation' = {p}
    BY <2>4
  <2> HIDE DEF p
  <2> QED BY <2>2, <2>5, <2>6 DEF MdocCases
<1>3. CASE UNCHANGED mdocVars
  BY <1>3 DEF MdocCases
<1>4. CASE MdocNext /\ ~ Tick /\ ~ \E offer \in Offers : Respond(offer)
  BY <1>4 DEF MdocNext, MdocCases
<1> QED BY <1>1, <1>2, <1>3, <1>4

\* Time and the reader auths are numbers and records for their sessions, and
\* there is one response at most.
MdocBasicInv == MdocTypeOK /\ SessionsAuthenticated

LEMMA BasicStep ==
  ASSUME MdocBasicInv, [MdocNext]_mdocVars
  PROVE  MdocBasicInv'
<1> USE DEF MdocBasicInv, MdocTypeOK
<1>0. MdocCases
  BY MdocStep
<1>1. CASE now' = now + 1 /\ UNCHANGED <<revoked, sessions, presentation, verification, fetched>>
  BY <1>1 DEF SessionsAuthenticated
<1>2. CASE \E c \in DOMAIN Credentials : Revoke(c)
  BY <1>2 DEF Revoke, SessionsAuthenticated
<1>3. CASE \E name \in DOMAIN DeviceRequests, withReaderAuth \in BOOLEAN : CreateRequest(name, withReaderAuth)
  <2>1. PICK name \in DOMAIN DeviceRequests, withReaderAuth \in BOOLEAN : CreateRequest(name, withReaderAuth)
    BY <1>3
  <2> DEFINE t == TranscriptOf(Len(sessions) + 1)
             auths == IF withReaderAuth THEN {ReaderAuthOf(name, t)} ELSE {}
             s == [deviceRequest |-> name, readerAuth |-> auths]
  <2>2. sessions' = Append(sessions, s) /\ UNCHANGED <<now, revoked, presentation, verification, fetched>>
    BY <2>1 DEF CreateRequest
  <2>3. Len(sessions) + 1 \in Nat
    OBVIOUS
  <2>4. auths \in SUBSET ReaderAuths
    BY <2>3 DEF ReaderAuthOf, ReaderAuths
  <2>5. \A auth \in auths : auth.transcript = t
    BY DEF ReaderAuthOf
  <2> HIDE DEF auths
  <2>6. s \in Session /\ s.readerAuth = auths
    BY <2>4 DEF Session
  <2> HIDE DEF s
  <2>7. sessions' \in Seq(Session)
    BY <2>2, <2>6
  <2>8. \A n \in DOMAIN sessions' : IF n = Len(sessions) + 1 THEN sessions'[n] = s
                                    ELSE n \in DOMAIN sessions /\ sessions'[n] = sessions[n]
    BY <2>2, <2>6
  <2>9. SessionsAuthenticated'
    <3> SUFFICES ASSUME NEW n \in DOMAIN sessions', NEW auth \in sessions'[n].readerAuth
                 PROVE  auth.transcript = TranscriptOf(n)
      BY DEF SessionsAuthenticated, TranscriptOf
    <3>1. CASE n = Len(sessions) + 1
      BY <2>5, <2>6, <2>8, <3>1
    <3>2. CASE n # Len(sessions) + 1
      BY <2>8, <3>2 DEF SessionsAuthenticated
    <3> QED BY <3>1, <3>2
  <2> QED BY <2>2, <2>7, <2>9
<1>4. CASE \E offer \in Offers : \E p :
           /\ Responds(offer, p) /\ presentation' = {p} /\ verification = {}
           /\ UNCHANGED <<now, revoked, sessions, verification, fetched>>
  BY <1>4 DEF SessionsAuthenticated
<1>5. CASE \E n \in DOMAIN sessions : \E response \in Sealed \cup SealedByW(TranscriptOf(n)), options \in VerifyOptions :
           VerifyResponse(n, response, options)
  <2>1. UNCHANGED <<now, sessions, presentation>>
    BY <1>5 DEF VerifyResponse
  <2> QED BY <2>1 DEF SessionsAuthenticated
<1>6. CASE VerifyDocument
  <2>1. UNCHANGED <<now, sessions, presentation>>
    BY <1>6 DEF VerifyDocument
  <2> QED BY <2>1 DEF SessionsAuthenticated
<1>7. CASE MatchResponse
  <2>1. UNCHANGED <<now, sessions, presentation>>
    BY <1>7 DEF MatchResponse
  <2> QED BY <2>1 DEF SessionsAuthenticated
<1>8. CASE UNCHANGED mdocVars
  BY <1>8 DEF mdocVars, SessionsAuthenticated
<1> QED BY <1>0, <1>1, <1>2, <1>3, <1>4, <1>5, <1>6, <1>7, <1>8 DEF MdocCases

LEMMA BasicInit ==
  ASSUME MdocInit
  PROVE  MdocBasicInv
BY DEF MdocInit, MdocBasicInv, MdocTypeOK, SessionsAuthenticated

THEOREM MdocTyped == MdocSpec => []MdocBasicInv
BY BasicInit, BasicStep, PTL DEF MdocSpec

(***************************************************************************)
(* The authenticated reader                                                *)
(***************************************************************************)
-----------------------------------------------------------------------------
\* Only the response changes what the property is about.
LEMMA ReaderStep ==
  ASSUME MdocBasicInv, AuthenticatedReaderOnly, [MdocNext]_mdocVars
  PROVE  AuthenticatedReaderOnly'
<1>0. MdocCases
  BY MdocStep
<1>1. ASSUME presentation' = presentation PROVE AuthenticatedReaderOnly'
  BY <1>1 DEF AuthenticatedReaderOnly, ReadByW
<1>2. ASSUME NEW offer \in Offers, NEW p, Responds(offer, p), presentation' = {p}
      PROVE  AuthenticatedReaderOnly'
  <2>1. p.offer = offer
    BY <1>2 DEF Responds, Response
  <2>2. ASSUME offer.readerAuth # {} PROVE offer.transcript.key = "V" /\ offer.transcript.origin = "V"
    <3>1. PICK auth : auth \in offer.readerAuth
      BY <2>2
    <3>2. auth = ReaderAuthOf(offer.deviceRequest, offer.transcript)
      BY <1>2, <3>1 DEF Responds, ParseRequest, ReaderAuthHolds
    <3>3. auth.transcript = offer.transcript
      BY <3>2 DEF ReaderAuthOf
    <3>4. PICK n \in DOMAIN sessions : offer.readerAuth \subseteq sessions[n].readerAuth
      BY OfferedRequest
    <3>5. auth.transcript = TranscriptOf(n)
      BY <3>1, <3>4 DEF MdocBasicInv, SessionsAuthenticated
    <3> QED BY <3>3, <3>5 DEF TranscriptOf
  <2> QED BY <1>2, <2>1, <2>2 DEF AuthenticatedReaderOnly, ReadByW
<1>3. (\E offer \in Offers : \E p : Responds(offer, p) /\ presentation' = {p}) \/ presentation' = presentation
  BY <1>0 DEF MdocCases, Revoke, CreateRequest, VerifyResponse, VerifyDocument, MatchResponse, mdocVars
<1> QED BY <1>1, <1>2, <1>3

\* A request that names an authenticated reader is only answered to it.
THEOREM ReaderOnly == MdocSpec => []AuthenticatedReaderOnly
<1>1. MdocInit => AuthenticatedReaderOnly
  BY DEF MdocInit, AuthenticatedReaderOnly
<1> QED BY <1>1, MdocTyped, ReaderStep, PTL DEF MdocSpec

(***************************************************************************)
(* Fetches of status lists                                                 *)
(***************************************************************************)
-----------------------------------------------------------------------------
\* Lists are asked for when the chain is trusted and its leaf signed the MSO.
LEMMA FetchesFromTrusted ==
  ASSUME NEW d, NEW transcript, NEW options, NEW time, NEW served,
         DocumentFetches(d, transcript, options, time, served) # {}
  PROVE  d.mso.signer \in Anchors /\ Leaf(d) = d.mso.signer
<1>1. StatusIsFetched(d, options, time)
  BY DEF DocumentFetches, FetchedUris
<1>2. TrustedIssuanceChain(d, options, time) # {}
  BY <1>1 DEF StatusIsFetched, TrustedStatusCertificates
<1>3. \E a \in Anchors : Leaf(d) = a
  BY <1>2 DEF TrustedIssuanceChain, VerifyCertificateChain
<1> QED BY <1>1, <1>3 DEF StatusIsFetched, SignatureIsValid

LEMMA FetchStep ==
  ASSUME StatusFetchesAuthorised, [MdocNext]_mdocVars
  PROVE  StatusFetchesAuthorised'
<1>0. MdocCases
  BY MdocStep
<1>1. CASE fetched' = fetched
  BY <1>1 DEF StatusFetchesAuthorised
<1>2. CASE VerifyDocument
  <2>1. PICK d, transcript, options, served :
            fetched' = fetched \cup ({d} \X DocumentFetches(d, transcript, options, now, served))
    BY <1>2 DEF VerifyDocument
  <2>2. ASSUME NEW f \in fetched', f \notin fetched PROVE f[1].mso.signer \in Anchors /\ Leaf(f[1]) = f[1].mso.signer
    <3>1. f \in {d} \X DocumentFetches(d, transcript, options, now, served)
      BY <2>1, <2>2
    <3>2. f[1] = d /\ DocumentFetches(d, transcript, options, now, served) # {}
      BY <3>1
    <3> QED BY <3>2, FetchesFromTrusted
  <2> QED BY <2>2 DEF StatusFetchesAuthorised
<1>3. VerifyDocument \/ fetched' = fetched
  BY <1>0 DEF MdocCases, Revoke, CreateRequest, VerifyResponse, MatchResponse, mdocVars
<1> QED BY <1>1, <1>2, <1>3

\* A verifier asks for no URI but one that a trusted issuer signed.
THEOREM FetchesAuthorised == MdocSpec => []StatusFetchesAuthorised
<1>1. MdocInit => StatusFetchesAuthorised
  BY DEF MdocInit, StatusFetchesAuthorised
<1> QED BY <1>1, FetchStep, PTL DEF MdocSpec

(***************************************************************************)
(* What a user declines                                                    *)
(***************************************************************************)
-----------------------------------------------------------------------------
\* A holder finds the same items for an element, whatever doc request asks.
LEMMA HolderLookup ==
  ASSUME NEW q, NEW r, NEW subject, NEW e
  PROVE  Lookup("holder", q, subject, e) = Lookup("holder", r, subject, e)
BY DEF Lookup

\* An alternative set that merged doc requests agree on is one of each.
LEMMA MergedAlternatives ==
  ASSUME NEW requests, NEW e, NEW k \in DOMAIN AlternativeSets(MergeDocRequests(requests), e),
         DOMAIN <<>> = {}
  PROVE  \E q \in requests : /\ e \in q.elements
                             /\ AlternativeSets(MergeDocRequests(requests), e) = AlternativeSets(q, e)
<1> DEFINE merged == MergeDocRequests(requests)
           elements == UNION {q.elements : q \in requests}
           agreed == {x \in elements : Cardinality(AlternativesOf(requests, x)) = 1}
           common == [x \in agreed |-> CHOOSE s \in AlternativesOf(requests, x) : TRUE]
<1>1. merged.alternatives = common
  BY DEF MergeDocRequests
<1>2. e \in DOMAIN merged.alternatives /\ AlternativeSets(merged, e) = merged.alternatives[e]
  BY DEF AlternativeSets
<1>3. e \in agreed /\ AlternativeSets(merged, e) = CHOOSE s \in AlternativesOf(requests, e) : TRUE
  BY <1>1, <1>2
<1>4. AlternativesOf(requests, e) # {}
  BY <1>3, FS_EmptySet
<1>5. AlternativeSets(merged, e) \in AlternativesOf(requests, e)
  BY <1>3, <1>4
<1> QED BY <1>5 DEF AlternativesOf

\* What the choice of a user for a document must say of the items disclosed.
HidesDeclined(requests, credential, choice, disclosed) ==
    /\ \A q \in requests : \A e \in q.elements \ choice.selected :
           disclosed \cap Lookup("holder", q, credential, e) = {}
    /\ \A i \in disclosed : \E q \in requests : \E e \in q.elements \cap choice.selected :
           IF e \in DOMAIN choice.alternatives
           THEN \E x \in AlternativeSets(q, e)[choice.alternatives[e]] : i \in Lookup("holder", q, credential, x)
           ELSE i \in Lookup("holder", q, credential, e)
    /\ ~ AgeOverLimitExceeded(ElementsOf(disclosed))

\* selectElements on the merged doc requests.
LEMMA SelectionHidesDeclined ==
  ASSUME NEW requests, NEW credential, NEW choice, NEW disclosed,
         disclosed \in SelectElements(MergeDocRequests(requests), credential,
                                      choice.selected, choice.alternatives),
         \A e \in DOMAIN choice.alternatives : choice.alternatives[e] # 0,
         DOMAIN <<>> = {}
  PROVE  HidesDeclined(requests, credential, choice, disclosed)
<1> DEFINE merged == MergeDocRequests(requests)
           For(e) == OptionElements("holder", merged, credential, e, ChosenOption(choice.alternatives, e))
<1>1. /\ disclosed = UNION {For(e) : e \in choice.selected}
      /\ SelectionIsValid(merged, choice.selected, choice.alternatives)
      /\ disclosed \cap Declined(merged, credential, choice.selected) = {}
      /\ ~ AgeOverLimitExceeded(ElementsOf(disclosed))
  BY DEF SelectElements
<1>2. merged.elements = UNION {q.elements : q \in requests}
  BY DEF MergeDocRequests
<1>3. ASSUME NEW q \in requests, NEW e \in q.elements \ choice.selected
      PROVE  disclosed \cap Lookup("holder", q, credential, e) = {}
  <2>1. e \in merged.elements \ choice.selected
    BY <1>2
  <2>2. Lookup("holder", merged, credential, e) \subseteq Declined(merged, credential, choice.selected)
    <3> HIDE DEF merged
    <3> QED BY <2>1 DEF Declined
  <2>3. Lookup("holder", merged, credential, e) = Lookup("holder", q, credential, e)
    BY HolderLookup
  <2> QED BY <1>1, <2>2, <2>3
<1>4. ASSUME NEW i \in disclosed
      PROVE  \E q \in requests : \E e \in q.elements \cap choice.selected :
                 IF e \in DOMAIN choice.alternatives
                 THEN \E x \in AlternativeSets(q, e)[choice.alternatives[e]] : i \in Lookup("holder", q, credential, x)
                 ELSE i \in Lookup("holder", q, credential, e)
  <2>1. PICK e \in choice.selected : i \in For(e)
    <3> HIDE DEF For, merged
    <3> QED BY <1>1, <1>4
  <2>2. PICK x \in OptionFor(merged, e, ChosenOption(choice.alternatives, e)) :
            i \in Lookup("holder", merged, credential, x)
    <3> HIDE DEF merged
    <3> QED BY <2>1 DEF OptionElements
  <2>3. CASE e \in DOMAIN choice.alternatives
    <3> DEFINE k == choice.alternatives[e]
    <3>1. k # 0 /\ x \in AlternativeSets(merged, e)[k]
      BY <2>2, <2>3 DEF OptionFor, ChosenOption
    <3>2. k \in DOMAIN AlternativeSets(merged, e)
      <4> HIDE DEF merged
      <4> QED BY <1>1, <2>3 DEF SelectionIsValid
    <3>3. PICK q \in requests : e \in q.elements /\ AlternativeSets(merged, e) = AlternativeSets(q, e)
      BY <3>2, MergedAlternatives
    <3>4. i \in Lookup("holder", q, credential, x) /\ x \in AlternativeSets(q, e)[k]
      BY <2>2, <3>1, <3>3, HolderLookup
    <3> QED BY <2>1, <2>3, <3>3, <3>4
  <2>4. CASE e \notin DOMAIN choice.alternatives
    <3>1. x = e
      BY <2>2, <2>4 DEF OptionFor, ChosenOption
    <3>2. e \in merged.elements
      <4> HIDE DEF merged
      <4> QED BY <1>1, <2>1 DEF SelectionIsValid
    <3>3. PICK q \in requests : e \in q.elements
      BY <1>2, <3>2
    <3>4. i \in Lookup("holder", q, credential, e)
      BY <2>2, <3>1, HolderLookup
    <3> QED BY <2>1, <2>4, <3>3, <3>4
  <2> QED BY <2>3, <2>4
<1> QED BY <1>1, <1>3, <1>4 DEF HidesDeclined

\* A choice names a credential of the wallet, doc requests, and no alternative
\* set but the first two.
IsChoice(x) ==
    /\ x.credential \in DOMAIN Credentials
    /\ \A e \in DOMAIN x.alternatives : x.alternatives[e] # 0

LEMMA ChoicesAre ==
  ASSUME NEW deviceRequest, NEW origin, NEW choices \in ResponseChoices(deviceRequest, origin)
  PROVE  /\ \E m \in 0 .. 2 : DOMAIN choices = 1 .. m
         /\ \A d \in DOMAIN choices : IsChoice(choices[d])
<1> DEFINE all == UNION {ChoicesFor(deviceRequest, c) : c \in DOMAIN Credentials}
<1>1. \A x \in all : IsChoice(x)
  <2> SUFFICES ASSUME NEW c \in DOMAIN Credentials, NEW x \in ChoicesFor(deviceRequest, c)
               PROVE  IsChoice(x)
    OBVIOUS
  <2> DEFINE Merged(rs) == MergeDocRequests({deviceRequest.docRequests[r] : r \in rs})
             Selections(rs) == {Merged(rs).elements \ D :
                                    D \in {D \in SUBSET Merged(rs).elements : Cardinality(D) <= MaxDeclined}}
             Chosen(rs) == {<<>>} \cup UNION {[{e} -> 1 .. 2] : e \in Merged(rs).elements}
             answers == {r \in DOMAIN deviceRequest.docRequests :
                             deviceRequest.docRequests[r].docType = Credentials[c].docType}
             For(rs) == {[credential |-> c, docRequests |-> rs, selected |-> s, alternatives |-> a] :
                            s \in Selections(rs), a \in Chosen(rs)}
  <2>1. ChoicesFor(deviceRequest, c) = UNION {For(rs) : rs \in SUBSET answers \ {{}}}
    BY DEF ChoicesFor
  <2>2. PICK rs : x \in For(rs)
    <3> HIDE DEF For, answers
    <3> QED BY <2>1
  <2>3. x.credential = c /\ x.alternatives \in Chosen(rs)
    <3> HIDE DEF Selections, Chosen
    <3> QED BY <2>2
  <2>4. ASSUME NEW e, x.alternatives \in [{e} -> 1 .. 2]
        PROVE  \A y \in DOMAIN x.alternatives : x.alternatives[y] # 0
    BY <2>4
  <2>5. x.alternatives = <<>> => \A y \in DOMAIN x.alternatives : x.alternatives[y] # 0
    OBVIOUS
  <2>6. \A y \in DOMAIN x.alternatives : x.alternatives[y] # 0
    BY <2>3, <2>4, <2>5
  <2> QED BY <2>3, <2>6 DEF IsChoice
<1>2. \/ choices = <<>>
      \/ \E x \in all : choices = <<x>>
      \/ \E x \in all, y \in all : choices = <<x, y>>
  <2> DEFINE complete == {x \in all : Complete(deviceRequest, x)}
             first == IF origin = "W" THEN complete ELSE all
  <2>1. choices \in {<<>>} \cup {<<x>> : x \in first}
       \cup {s \in first \X complete : MaxDocuments > 1 /\ s[1].credential # s[2].credential}
    BY DEF ResponseChoices
  <2>2. first \subseteq all /\ complete \subseteq all
    OBVIOUS
  <2> HIDE DEF first, complete, all
  <2> QED BY <2>1, <2>2
<1> HIDE DEF all
<1>3. CASE choices = <<>>
  BY <1>3
<1>4. CASE \E x \in all : choices = <<x>>
  <2>1. PICK x \in all : choices = <<x>>
    BY <1>4
  <2>2. DOMAIN choices = 1 .. 1 /\ choices[1] = x /\ 1 \in 0 .. 2
    BY <2>1
  <2> QED BY <1>1, <2>2
<1>5. CASE \E x \in all, y \in all : choices = <<x, y>>
  <2>1. PICK x \in all, y \in all : choices = <<x, y>>
    BY <1>5
  <2>2. DOMAIN choices = 1 .. 2 /\ choices[1] = x /\ choices[2] = y /\ 2 \in 0 .. 2
    BY <2>1
  <2>3. \A d \in 1 .. 2 : d = 1 \/ d = 2
    OBVIOUS
  <2> QED BY <1>1, <2>2, <2>3
<1> QED BY <1>2, <1>3, <1>4, <1>5

\* The items of each document are those that selectElements gave.
LEMMA CreatedFromSelection ==
  ASSUME NEW deviceRequest, NEW choices, NEW disclosed,
         disclosed \in CreateWithDeviceRequest(deviceRequest, Credentials, choices),
         NEW d \in DOMAIN choices
  PROVE  disclosed[d] \in SelectElements(
             MergeDocRequests({deviceRequest.docRequests[r] : r \in choices[d].docRequests}),
             Credentials[choices[d].credential], choices[d].selected, choices[d].alternatives)
<1> DEFINE Created(n) == DisclosedItems(deviceRequest, Credentials, choices[n])
           made == [n \in DOMAIN choices |-> CHOOSE items \in Created(n) : TRUE]
<1>1. disclosed = made /\ Created(d) # {}
  BY DEF CreateWithDeviceRequest
<1>2. disclosed[d] \in Created(d)
  <2> HIDE DEF Created
  <2> QED BY <1>1
<1> QED BY <1>2 DEF DisclosedItems

LEMMA DocumentItems ==
  ASSUME NEW c, NEW items, NEW transcript
  PROVE  DocumentOf(c, items, transcript).items \cup DocumentOf(c, items, transcript).deviceItems = items
BY DEF DocumentOf

LEMMA RespondHides ==
  ASSUME NEW offer, NEW p, Responds(offer, p), NEW d \in DOMAIN p.documents
  PROVE  HidesDeclined({DeviceRequests[p.offer.deviceRequest].docRequests[r] : r \in p.choices[d].docRequests},
                       Credentials[p.choices[d].credential], p.choices[d],
                       p.documents[d].items \cup p.documents[d].deviceItems)
<1> DEFINE deviceRequest == DeviceRequests[offer.deviceRequest]
<1>1. PICK choices \in ResponseChoices(deviceRequest, offer.transcript.origin) :
          \E disclosed \in CreateWithDeviceRequest(deviceRequest, Credentials, choices) :
              p = Response(offer, choices, disclosed)
  BY DEF Responds
<1>2. PICK disclosed \in CreateWithDeviceRequest(deviceRequest, Credentials, choices) :
          p = Response(offer, choices, disclosed)
  BY <1>1
<1>3. /\ p.offer = offer /\ p.choices = choices /\ d \in DOMAIN choices
      /\ p.documents[d] = DocumentOf(choices[d].credential, disclosed[d], offer.transcript)
  BY <1>2 DEF Response
<1>4. p.documents[d].items \cup p.documents[d].deviceItems = disclosed[d]
  BY <1>3, DocumentItems
<1>5. \A e \in DOMAIN choices[d].alternatives : choices[d].alternatives[e] # 0
  BY <1>3, ChoicesAre DEF IsChoice
<1> DEFINE requests == {deviceRequest.docRequests[r] : r \in choices[d].docRequests}
<1>6. disclosed[d] \in SelectElements(MergeDocRequests(requests),
             Credentials[choices[d].credential], choices[d].selected, choices[d].alternatives)
  BY <1>3, CreatedFromSelection
<1>7. HidesDeclined(requests, Credentials[choices[d].credential], choices[d], disclosed[d])
  <2> HIDE DEF requests
  <2>1. DOMAIN <<>> = {}
    OBVIOUS
  <2> QED BY <1>5, <1>6, <2>1, SelectionHidesDeclined
<1> QED BY <1>3, <1>4, <1>7

\* The property, with the choice of each document put in.
SelectionsHideDeclined ==
    \A p \in presentation : \A d \in DOMAIN p.documents :
        HidesDeclined({DeviceRequests[p.offer.deviceRequest].docRequests[r] : r \in p.choices[d].docRequests},
                      Credentials[p.choices[d].credential], p.choices[d],
                      p.documents[d].items \cup p.documents[d].deviceItems)

LEMMA DeclinedStep ==
  ASSUME SelectionsHideDeclined, [MdocNext]_mdocVars
  PROVE  SelectionsHideDeclined'
<1>0. MdocCases
  BY MdocStep
<1>1. ASSUME presentation' = presentation PROVE SelectionsHideDeclined'
  BY <1>1 DEF SelectionsHideDeclined
<1>2. ASSUME NEW offer \in Offers, NEW p, Responds(offer, p), presentation' = {p}
      PROVE  SelectionsHideDeclined'
  BY <1>2, RespondHides DEF SelectionsHideDeclined
<1>3. (\E offer \in Offers : \E p : Responds(offer, p) /\ presentation' = {p}) \/ presentation' = presentation
  BY <1>0 DEF MdocCases, Revoke, CreateRequest, VerifyResponse, VerifyDocument, MatchResponse, mdocVars
<1> QED BY <1>1, <1>2, <1>3

\* What a user declines stays with the wallet.
THEOREM DeclinedHidden == MdocSpec => []DeclinedStaysHidden
<1>1. MdocInit => SelectionsHideDeclined
  BY DEF MdocInit, SelectionsHideDeclined
<1>2. SelectionsHideDeclined => DeclinedStaysHidden
  BY Zenon DEF SelectionsHideDeclined, DeclinedStaysHidden, HidesDeclined
<1> QED BY <1>1, <1>2, DeclinedStep, PTL DEF MdocSpec

(***************************************************************************)
(* Revocation lists                                                        *)
(***************************************************************************)
-----------------------------------------------------------------------------
\* What a token has when its checks succeed: it is about the URI, of the kind
\* that was expected, has not expired, a trusted signer made it, and it does
\* not have the identifier.
Counts(token, reference, id, trusted, time) ==
    /\ token.sub = reference.uri
    /\ IF reference.kind = "status" THEN token.typ \in {"status+cwt", "status+jwt"}
       ELSE token.typ = "identifier+cwt"
    /\ token.exp # NotGiven /\ token.exp + SkewTime > time
    /\ token.signer \in trusted
    /\ id \notin token.revoked

LEMMA ClaimsHold ==
  ASSUME NEW token, NEW uri, NEW required, "exp" \in required, NEW time,
         VerifyClaims(token, ClaimsOptions(uri, required, time))
  PROVE  token.sub = uri /\ token.exp # NotGiven /\ token.exp + SkewTime > time
<1> DEFINE o == ClaimsOptions(uri, required, time)
<1>1. o.subject = uri /\ o.required = required /\ o.now = time /\ o.skew = SkewTime
  BY DEF ClaimsOptions
<1>2. VerifyClaims(token, o)
  OBVIOUS
<1> HIDE DEF o
<1> QED BY <1>1, <1>2 DEF VerifyClaims, ClaimMatches

\* verifyStatusListToken and verifyIdentifierListToken.
LEMMA VerifiedListCounts ==
  ASSUME NEW document, NEW reference, NEW options, NEW time, NEW token,
         ~ ListFails(document, reference, options, time, {token})
  PROVE  Counts(token, reference, document.mso.id, TrustedStatusCertificates(document, options, time), time)
<1>0. "exp" \in {"sub", "iat"} \cup {"exp"} /\ "exp" \in {"sub", "iat", "exp"}
  OBVIOUS
<1> DEFINE id == document.mso.id
           trusted == TrustedStatusCertificates(document, options, time)
<1>1. IF reference.kind = "status" THEN ~ StatusListFails(token, reference.uri, id, trusted, time)
      ELSE ~ IdentifierListFails(token, reference.uri, id, trusted, time)
  BY DEF ListFails
<1> SUFFICES Counts(token, reference, id, trusted, time)
  OBVIOUS
<1> HIDE DEF trusted, id
<1>2. CASE reference.kind = "status"
  <2>1. id \notin token.revoked
    BY <1>1, <1>2 DEF StatusListFails, StatusValid
  <2>2. \/ StatusListCwtVerifies(token, reference.uri, trusted, time)
        \/ StatusListJwtVerifies(token, reference.uri, trusted, time)
    BY <1>1, <1>2 DEF StatusListFails
  <2>3. CASE StatusListCwtVerifies(token, reference.uri, trusted, time)
    <3>1. /\ token.typ = "status+cwt" /\ token.signer \in trusted
          /\ VerifyClaims(token, StatusListClaims(reference.uri, time))
      BY <2>3 DEF StatusListCwtVerifies, StatusListDecodes, SignerTrusted, CwtVerifies, VerifySignature
    <3> QED BY <1>0, <1>2, <2>1, <3>1, ClaimsHold DEF Counts, StatusListClaims
  <2>4. CASE StatusListJwtVerifies(token, reference.uri, trusted, time)
    <3>1. /\ token.typ = "status+jwt" /\ token.signer \in trusted
          /\ VerifyClaims(token, StatusListClaims(reference.uri, time))
      BY <2>4 DEF StatusListJwtVerifies, TokenStatusListJwtVerifies, StatusListJwtDecodes, SignerTrusted,
                  VerifySignature
    <3> QED BY <1>0, <1>2, <2>1, <3>1, ClaimsHold DEF Counts, StatusListClaims
  <2> QED BY <2>2, <2>3, <2>4
<1>3. CASE reference.kind # "status"
  <2>1. /\ id \notin token.revoked /\ token.typ = "identifier+cwt" /\ token.signer \in trusted
        /\ VerifyClaims(token, IdentifierListClaims(reference.uri, time))
    BY <1>1, <1>3 DEF IdentifierListFails, Includes, IdentifierListDecodes, SignerTrusted, CwtVerifies,
                      VerifySignature
  <2> QED BY <1>0, <1>3, <2>1, ClaimsHold DEF Counts, IdentifierListClaims
<1> QED BY <1>2, <1>3

LEMMA CreatedList ==
  ASSUME NEW reference, NEW signer, NEW iat, NEW exp, NEW ids
  PROVE  LET token == CreateList(reference, signer, iat, exp, ids) IN
         /\ token.sub = reference.uri /\ token.exp = exp /\ token.signer = signer /\ token.revoked = ids
         /\ token.typ = IF reference.kind = "status" THEN "status+cwt" ELSE "identifier+cwt"
         /\ DOMAIN token = {"contentType", "typ", "protected", "unprotected", "x5t", "proof", "signer", "sub",
                            "iat", "nbf", "exp", "revoked"}
BY DEF CreateList

\* What was revoked before any list that has not expired was made is in each
\* list that counts, whatever is served.
LEMMA NoServedListCounts ==
  ASSUME NEW reference \in ListReferences, NEW r \in revoked, now \in Nat, r.at \in Nat,
         r.at + ListLifetime + SkewTime <= now, NEW trusted, "W" \notin trusted,
         NEW token, {token} \in Servable(reference)
  PROVE  ~ Counts(token, reference, r.id, trusted, now)
<1> DEFINE first == CreateList(reference, "status", 0, ListLifetime, {})
           latest == CreateList(reference, "status", now, now + ListLifetime, {x.id : x \in revoked})
           byW == CreateList(reference, "W", now, now + ListLifetime, {})
           changed == {[latest EXCEPT !.contentType = "status+jwt", !.typ = "status+jwt"],
                       [latest EXCEPT !.protected = NotGiven, !.unprotected = "status", !.x5t = "status"],
                       [latest EXCEPT !.protected = NotGiven, !.unprotected = "status"]}
           forged == {byW, [byW EXCEPT !.protected = "status"], [byW EXCEPT !.protected = "status", !.proof = "tag"]}
           Other(other) == CreateList(other, "status", now, now + ListLifetime, {})
           others == {Other(other) : other \in ListReferences \ {reference}}
<1>1. \/ token \in ListsMade(reference) \/ token \in changed \/ token = [first EXCEPT !.exp = NotGiven]
      \/ token \in forged \/ token \in others
  <2> DEFINE made == ListsMade(reference)
                     \cup {[latest EXCEPT !.contentType = "status+jwt", !.typ = "status+jwt"],
                           [latest EXCEPT !.protected = NotGiven, !.unprotected = "status", !.x5t = "status"],
                           [latest EXCEPT !.protected = NotGiven, !.unprotected = "status"],
                           [first EXCEPT !.exp = NotGiven],
                           byW, [byW EXCEPT !.protected = "status"],
                           [byW EXCEPT !.protected = "status", !.proof = "tag"]}
                     \cup others
  <2>1. Servable(reference) = {{t} : t \in made} \cup {{}}
    BY Zenon DEF Servable
  <2>2. token \in made
    <3> HIDE DEF made
    <3> QED BY <2>1
  <2> HIDE DEF first, latest, byW, others
  <2> QED BY <2>2
<1>2. CASE token \in ListsMade(reference)
  <2> DEFINE Made(iat, wait) == CreateList(reference, "status", iat, iat + ListLifetime,
                                           {x.id : x \in {y \in revoked : y.at + wait <= iat}})
  <2>0. ListsMade(reference) = {Made(iat, wait) : iat \in 0 .. now, wait \in {0, 1}}
    BY DEF ListsMade
  <2> HIDE DEF Made
  <2>1. PICK iat \in 0 .. now, wait \in {0, 1} : token = Made(iat, wait)
    BY <1>2, <2>0
  <2>2. /\ token.exp = iat + ListLifetime
        /\ token.revoked = {x.id : x \in {y \in revoked : y.at + wait <= iat}}
    BY <2>1, CreatedList DEF Made
  <2>3. iat + ListLifetime + SkewTime > now => r.at + wait <= iat
    BY ListsAssumption, SkewAssumption
  <2> QED BY <2>2, <2>3 DEF Counts
<1>3. CASE token \in changed
  <2>1. latest.revoked = {x.id : x \in revoked} /\ "revoked" \in DOMAIN latest
    BY CreatedList
  <2> HIDE DEF latest
  <2>2. token.revoked = latest.revoked
    BY <1>3, <2>1
  <2> QED BY <2>1, <2>2 DEF Counts
<1>4. CASE token = [first EXCEPT !.exp = NotGiven]
  <2>1. "exp" \in DOMAIN first
    BY CreatedList
  <2> HIDE DEF first
  <2> QED BY <1>4, <2>1 DEF Counts
<1>5. CASE token \in forged
  <2>1. byW.signer = "W" /\ "signer" \in DOMAIN byW
    BY CreatedList
  <2> HIDE DEF byW
  <2>2. token.signer = "W"
    BY <1>5, <2>1
  <2> QED BY <2>2 DEF Counts
<1>6. CASE token \in others
  <2>1. PICK other \in ListReferences \ {reference} : token = Other(other)
    BY <1>6
  <2>2. /\ token.sub = other.uri
        /\ token.typ = IF other.kind = "status" THEN "status+cwt" ELSE "identifier+cwt"
    BY <2>1, CreatedList
  <2>3. /\ other = [kind |-> other.kind, uri |-> other.uri] /\ other.kind \in {"status", "identifier"}
        /\ reference = [kind |-> reference.kind, uri |-> reference.uri]
        /\ reference.kind \in {"status", "identifier"}
    BY ListsAssumption
  <2>4. Counts(token, reference, r.id, trusted, now) => other.kind = reference.kind /\ other.uri = reference.uri
    BY <2>2, <2>3 DEF Counts
  <2> QED BY <2>1, <2>3, <2>4
<1> QED BY <1>1, <1>2, <1>3, <1>4, <1>5, <1>6

(***************************************************************************)
(* One document                                                            *)
(***************************************************************************)
-----------------------------------------------------------------------------
LEMMA TrustedChain ==
  ASSUME NEW d, NEW options, NEW time
  PROVE  /\ TrustedIssuanceChain(d, options, time) \subseteq Anchors
         /\ "W" \notin TrustedStatusCertificates(d, options, time)
<1>1. TrustedIssuanceChain(d, options, time) \subseteq Anchors
  BY DEF TrustedIssuanceChain, VerifyCertificateChain
<1> QED BY <1>1, AttackerAssumption DEF TrustedStatusCertificates

\* A document of a credential of the wallet.
OfCredential(d) == \E c \in DOMAIN Credentials : d.mso = Credentials[c].mso

\* The identifiers that were listed for sure when a verification started.
StillListed(listed) ==
    \A id \in listed : \E r \in revoked : r.id = id /\ r.at + ListLifetime + SkewTime <= now

RevokedKnown ==
    \A r \in revoked :
        /\ r.at \in Nat
        /\ \E c \in DOMAIN Credentials : r.id = Credentials[c].mso.id /\ Credentials[c].mso.status # <<>>

\* What a document that fails no check has.
Passed(d, transcript, options, listed) ==
    /\ d.auth.key = d.mso.deviceKey /\ d.auth.transcript = transcript
    /\ ~ options.disableChain => d.mso.signer \in Anchors
    /\ ~ options.disableChain /\ ~ options.disableStatus /\ OfCredential(d) => d.mso.id \notin listed

LEMMA CheckedDocument ==
  ASSUME NEW d, NEW transcript, NEW options, NEW listed, NEW served,
         RevokedKnown, StillListed(listed), now \in Nat,
         \A r \in Range(d.mso.status) : served[r] \in Servable(r),
         ~ DocumentFails(d, transcript, options, now, served)
  PROVE  Passed(d, transcript, options, listed)
<1>1. d.auth.key = d.mso.deviceKey /\ d.auth.transcript = transcript
  BY DEF DocumentFails, DeviceAuthFails
<1>2. SignatureIsValid(d) /\ ~ ChainFails(d, options, now) /\ ~ StatusFails(d, options, now, served)
  BY DEF DocumentFails
<1>3. ASSUME ~ options.disableChain PROVE d.mso.signer \in Anchors
  BY <1>2, <1>3 DEF ChainFails, SignatureIsValid, TrustedIssuanceChain, VerifyCertificateChain
<1>4. ASSUME ~ options.disableChain, ~ options.disableStatus, OfCredential(d), d.mso.id \in listed
      PROVE  FALSE
  <2>1. PICK c \in DOMAIN Credentials : d.mso = Credentials[c].mso
    BY <1>4 DEF OfCredential
  <2>2. PICK r \in revoked : r.id = d.mso.id /\ r.at + ListLifetime + SkewTime <= now
    BY <1>4 DEF StillListed
  <2>3. PICK e \in DOMAIN Credentials : r.id = Credentials[e].mso.id /\ Credentials[e].mso.status # <<>>
    BY DEF RevokedKnown
  <2>4. d.mso.status # <<>> /\ d.mso.status \in Seq(ListReferences)
    BY <2>1, <2>2, <2>3, CredentialsAssumption
  <2> DEFINE reference == d.mso.status[1]
  <2>5. reference \in ListReferences /\ reference \in Range(d.mso.status)
    BY <2>4 DEF Range
  <2> HIDE DEF reference
  <2>6. ~ ListFails(d, reference, options, now, served[reference])
    BY <1>2, <1>4, <2>4, <2>5 DEF StatusFails
  <2>7. served[reference] \in Servable(reference) /\ served[reference] # {}
    BY <2>5, <2>6 DEF ListFails
  <2>8. PICK token : served[reference] = {token}
    BY <2>7 DEF Servable
  <2>9. Counts(token, reference, d.mso.id, TrustedStatusCertificates(d, options, now), now)
    BY <2>6, <2>8, VerifiedListCounts
  <2>10. r.at \in Nat /\ {token} \in Servable(reference)
    BY <2>7, <2>8 DEF RevokedKnown
  <2>11. ~ Counts(token, reference, r.id, TrustedStatusCertificates(d, options, now), now)
    BY <2>2, <2>5, <2>10, NoServedListCounts, TrustedChain
  <2> QED BY <2>2, <2>9, <2>11
<1> QED BY <1>1, <1>3, <1>4 DEF Passed

(***************************************************************************)
(* What a verifier accepts                                                 *)
(***************************************************************************)
IsSequence(s) == \E S : s \in Seq(S)

\* A document that a wallet made of a credential, for a transcript.
Made(d, transcript) ==
    /\ DOMAIN d = {"docType", "items", "deviceItems", "mso", "x5chain", "auth"}
    /\ OfCredential(d)
    /\ d.auth.transcript = transcript

ResponsesMade ==
    \A p \in presentation :
        /\ IsSequence(p.documents)
        /\ \A k \in DOMAIN p.documents : Made(p.documents[k], p.offer.transcript)

\* A document that cannot pass for a session.
Foreign(d, transcript) ==
    \/ d.auth.transcript # transcript
    \/ d.auth.key # d.mso.deviceKey
    \/ d.mso.signer \notin Anchors

\* Documents are as a wallet made them for the session, or none passes.
Origin(documents, n) ==
    \/ \E p \in presentation : p.offer.transcript = TranscriptOf(n) /\ p.documents = documents
    \/ \A k \in DOMAIN documents : Foreign(documents[k], TranscriptOf(n))

\* A verification that goes on has had no document fail.
Sound(v) ==
    /\ DOMAIN v = {"session", "documents", "options", "chains", "match", "listed", "failed", "status"}
    /\ IsSequence(v.documents)
    /\ v.chains \in Seq(SUBSET Anchors) /\ Len(v.chains) <= Len(v.documents)
    /\ v.documents = <<>> => v.failed
    /\ v.status # "rejected" => Origin(v.documents, v.session)
    /\ StillListed(v.listed)
    /\ v.status # "rejected" /\ ~ v.failed =>
           \A k \in 1 .. Len(v.chains) : Passed(v.documents[k], TranscriptOf(v.session), v.options, v.listed)
    /\ v.status = "accepted" => ~ v.failed /\ Len(v.chains) = Len(v.documents)

\* The inductive invariant of verification.
VerificationInv ==
    /\ RevokedKnown
    /\ ResponsesMade
    /\ \A v \in verification : Sound(v)

-----------------------------------------------------------------------------
LEMMA SequenceFacts ==
  ASSUME NEW s, IsSequence(s)
  PROVE  /\ Len(s) \in Nat /\ DOMAIN s = 1 .. Len(s)
         /\ s # <<>> => 1 \in DOMAIN s
         /\ \A k \in DOMAIN s : \A e : IsSequence([s EXCEPT ![k] = e])
<1>1. PICK S : s \in Seq(S)
  BY DEF IsSequence
<1>2. ASSUME NEW k \in DOMAIN s, NEW e PROVE IsSequence([s EXCEPT ![k] = e])
  <2>1. s \in Seq(S \cup {e})
    BY <1>1
  <2>2. [s EXCEPT ![k] = e] \in Seq(S \cup {e})
    BY <2>1
  <2> QED BY <2>2 DEF IsSequence
<1> QED BY <1>1, <1>2

LEMMA FunctionSequence ==
  ASSUME NEW m \in Nat, NEW s, s = [i \in 1 .. m |-> s[i]]
  PROVE  IsSequence(s)
<1> DEFINE S == {s[i] : i \in 1 .. m}
<1>1. s \in [1 .. m -> S]
  OBVIOUS
<1> HIDE DEF S
<1>2. s \in Seq(S)
  BY <1>1
<1> QED BY <1>2 DEF IsSequence

LEMMA DocumentMade ==
  ASSUME NEW c \in DOMAIN Credentials, NEW items, NEW transcript
  PROVE  Made(DocumentOf(c, items, transcript), transcript)
BY DEF Made, DocumentOf, OfCredential

LEMMA RespondMakes ==
  ASSUME NEW offer, NEW p, Responds(offer, p)
  PROVE  /\ IsSequence(p.documents)
         /\ \A k \in DOMAIN p.documents : Made(p.documents[k], p.offer.transcript)
<1>1. PICK choices \in ResponseChoices(DeviceRequests[offer.deviceRequest], offer.transcript.origin) :
        \E disclosed \in CreateWithDeviceRequest(DeviceRequests[offer.deviceRequest], Credentials, choices) :
            p = Response(offer, choices, disclosed)
  BY DEF Responds
<1>2. PICK disclosed : p = Response(offer, choices, disclosed)
  BY <1>1
<1>3. PICK m \in 0 .. 2 : DOMAIN choices = 1 .. m
  BY ChoicesAre
<1>4. p.documents = [d \in 1 .. m |-> DocumentOf(choices[d].credential, disclosed[d], offer.transcript)]
      /\ p.offer = offer
  BY <1>2, <1>3 DEF Response
<1>5. m \in Nat /\ p.documents = [d \in 1 .. m |-> p.documents[d]]
  BY <1>4
<1>6. \A d \in 1 .. m : choices[d].credential \in DOMAIN Credentials
  BY <1>1, <1>3, ChoicesAre DEF IsChoice
<1> QED BY <1>4, <1>5, <1>6, FunctionSequence, DocumentMade

\* Whatever W alters in a document it read, the document is foreign.
LEMMA AlteredForeign ==
  ASSUME NEW d, NEW t, Made(d, t), NEW transcript, t # transcript, NEW a \in Altered(d, transcript)
  PROVE  Foreign(a, transcript)
<1> DEFINE own == [key |-> "W", transcript |-> transcript, docType |-> d.docType, items |-> d.deviceItems]
           forged == [d.mso EXCEPT !.signer = "W", !.deviceKey = "W",
                                   !.status = <<[kind |-> "status", uri |-> "uriW"]>>]
           changed == {[i EXCEPT !.value = "changed"] : i \in d.items}
<1>0. \/ a = d
      \/ a = [d EXCEPT !.auth = own]
      \/ a = [d EXCEPT !.docType = "other"]
      \/ a = [d EXCEPT !.items = changed]
      \/ a = [d EXCEPT !.items = {}]
      \/ a = [d EXCEPT !.mso = forged, !.auth = own]
      \/ a = [d EXCEPT !.mso = forged, !.auth = own, !.x5chain = <<"W">> \o d.x5chain]
  BY DEF Altered
<1>1. PICK c \in DOMAIN Credentials : d.mso = Credentials[c].mso
  BY DEF Made, OfCredential
<1>2. own.key = "W" /\ d.mso.deviceKey # "W" /\ "W" \notin Anchors
  BY <1>1, AttackerAssumption
<1>3. forged.signer = "W"
  <2>1. "signer" \in DOMAIN d.mso
    BY <1>1, CredentialsAssumption
  <2> QED BY <2>1
<1> HIDE DEF own, forged, changed
<1>4. DOMAIN d = {"docType", "items", "deviceItems", "mso", "x5chain", "auth"} /\ d.auth.transcript # transcript
  BY DEF Made
<1>5. \/ a.auth.transcript # transcript
      \/ a.auth = own /\ a.mso = d.mso
      \/ a.mso = forged
  <2>1. CASE a = d
    BY <1>4, <2>1
  <2>2. CASE a = [d EXCEPT !.auth = own]
    BY <1>4, <2>2
  <2>3. CASE a = [d EXCEPT !.docType = "other"]
    BY <1>4, <2>3
  <2>4. CASE a = [d EXCEPT !.items = changed]
    BY <1>4, <2>4
  <2>5. CASE a = [d EXCEPT !.items = {}]
    BY <1>4, <2>5
  <2>6. CASE a = [d EXCEPT !.mso = forged, !.auth = own]
    BY <1>4, <2>6
  <2>7. CASE a = [d EXCEPT !.mso = forged, !.auth = own, !.x5chain = <<"W">> \o d.x5chain]
    BY <1>4, <2>7
  <2> QED BY <1>0, <2>1, <2>2, <2>3, <2>4, <2>5, <2>6, <2>7
<1> QED BY <1>2, <1>3, <1>5 DEF Foreign

\* decryptResponse opens what a wallet made for the session, or what W made,
\* of a response that was for W.
LEMMA OpenedResponse ==
  ASSUME ResponsesMade, NEW n, NEW response \in Sealed \cup SealedByW(TranscriptOf(n))
  PROVE  /\ IsSequence(response.documents)
         /\ Opens(response, n) => Origin(response.documents, n)
<1>1. CASE response \in Sealed
  <2>1. PICK p \in presentation : /\ response.transcript = p.offer.transcript
                                  /\ response.documents = p.documents
    BY <1>1 DEF Sealed
  <2> QED BY <2>1 DEF ResponsesMade, Opens, Origin
<1>2. CASE response \in SealedByW(TranscriptOf(n))
  <2> DEFINE t == TranscriptOf(n)
             Altering(p, k) == {[p.documents EXCEPT ![k] = a] : a \in Altered(p.documents[k], t)}
             Sending(p) == UNION {Altering(p, k) \cup {<<p.documents[k]>>} : k \in DOMAIN p.documents}
             Sealing(p) == {[transcript |-> t, key |-> "V", documents |-> ds] : ds \in Sending(p)}
  <2>1. SealedByW(t) = UNION {Sealing(p) : p \in ReadByW}
    BY DEF SealedByW
  <2>2. PICK p \in ReadByW : response \in Sealing(p)
    <3> HIDE DEF Sealing, t
    <3> QED BY <1>2, <2>1 DEF t
  <2>3. response.documents \in Sending(p)
    <3> HIDE DEF Sending
    <3> QED BY <2>2
  <2>4. PICK k \in DOMAIN p.documents : response.documents \in Altering(p, k) \cup {<<p.documents[k]>>}
    <3> HIDE DEF Altering
    <3> QED BY <2>3
  <2>5. p \in presentation /\ p.offer.transcript # t
    BY DEF ReadByW, TranscriptOf
  <2>6. /\ IsSequence(p.documents)
        /\ \A j \in DOMAIN p.documents : Made(p.documents[j], p.offer.transcript)
    BY <2>5 DEF ResponsesMade
  <2> DEFINE read == p.documents
  <2>7. \A j \in DOMAIN read : Foreign(read[j], t)
    BY <2>5, <2>6 DEF Made, Foreign
  <2> HIDE DEF t
  <2>8. CASE response.documents = <<read[k]>>
    <3> DEFINE e == read[k]
    <3>1. Foreign(e, t)
      BY <2>7
    <3> HIDE DEF e
    <3>2. response.documents = <<e>>
      BY <2>8 DEF e
    <3>3. <<e>> \in Seq({e}) /\ \A j \in DOMAIN <<e>> : <<e>>[j] = e
      OBVIOUS
    <3> QED BY <3>1, <3>2, <3>3 DEF IsSequence, Origin, t
  <2>9. CASE response.documents \in Altering(p, k)
    <3>1. PICK a \in Altered(read[k], t) : response.documents = [read EXCEPT ![k] = a]
      BY <2>9
    <3>2. Foreign(a, t)
      BY <2>5, <2>6, AlteredForeign
    <3> HIDE DEF read
    <3>3. IsSequence([read EXCEPT ![k] = a])
      BY <2>4, <2>6, SequenceFacts DEF read
    <3>4. \A j \in DOMAIN response.documents : j \in DOMAIN read /\ response.documents[j] = IF j = k THEN a ELSE read[j]
      BY <3>1
    <3> QED BY <2>7, <3>1, <3>2, <3>3, <3>4 DEF Origin, t, read
  <2> QED BY <2>4, <2>8, <2>9
<1> QED BY <1>1, <1>2

\* What a verification relies on stays: responses, and what is revoked.
LEMMA SoundStays ==
  ASSUME MdocBasicInv, RevokedKnown, NEW v, Sound(v), presentation' = presentation,
         revoked' = revoked \/ revoked = {}, now' = now \/ now' = now + 1
  PROVE  Sound(v)'
<1>1. ASSUME NEW id \in v.listed
      PROVE  \E r \in revoked' : r.id = id /\ r.at + ListLifetime + SkewTime <= now'
  <2>1. PICK r \in revoked : r.id = id /\ r.at + ListLifetime + SkewTime <= now
    BY <1>1 DEF Sound, StillListed
  <2>2. r \in revoked' /\ r.at \in Nat /\ now \in Nat
    BY <2>1 DEF RevokedKnown, MdocBasicInv, MdocTypeOK
  <2> QED BY <2>1, <2>2, ListsAssumption, SkewAssumption
<1>2. StillListed(v.listed)'
  BY <1>1 DEF StillListed
<1>3. v.status # "rejected" => Origin(v.documents, v.session)'
  BY DEF Sound, Origin
<1> QED BY <1>2, <1>3 DEF Sound

\* The start of a verification.
LEMMA VerifyResponseSound ==
  ASSUME VerificationInv, NEW n, NEW response \in Sealed \cup SealedByW(TranscriptOf(n)), NEW options,
         VerifyResponse(n, response, options)
  PROVE  \A v \in verification' : Sound(v)'
<1> DEFINE status == IF \/ ~ Opens(response, n)
                        \/ options.throws /\ response.documents = <<>> THEN "rejected" ELSE "verifying"
           empty == response.documents = <<>>
           start == [session |-> n, documents |-> response.documents, options |-> options,
                     chains |-> <<>>, match |-> <<>>, listed |-> ListedForSure,
                     failed |-> empty, status |-> status]
<1>1. PICK v : v = start /\ verification' = {v} /\ UNCHANGED <<now, revoked, presentation>>
  BY DEF VerifyResponse
<1>2. IsSequence(response.documents) /\ (Opens(response, n) => Origin(response.documents, n))
  BY OpenedResponse DEF VerificationInv
<1>3. /\ DOMAIN v = {"session", "documents", "options", "chains", "match", "listed", "failed", "status"}
      /\ v.session = n /\ v.documents = response.documents /\ v.chains = <<>>
      /\ v.listed = ListedForSure /\ v.status = status
      /\ v.documents = <<>> => v.failed
  BY <1>1
<1>4. status # "accepted" /\ (status # "rejected" => Opens(response, n))
  OBVIOUS
<1> HIDE DEF status, start, empty
<1>5. Len(response.documents) \in Nat
  BY <1>2, SequenceFacts
<1>6. StillListed(ListedForSure)
  BY DEF StillListed, ListedForSure
<1>7. v.chains \in Seq(SUBSET Anchors) /\ Len(v.chains) = 0 /\ Len(v.chains) <= Len(v.documents)
  BY <1>3, <1>5
<1>8. StillListed(v.listed)' /\ (v.status # "rejected" => Origin(v.documents, v.session)')
  BY <1>1, <1>2, <1>3, <1>4, <1>6 DEF StillListed, Origin
<1>9. \A k \in 1 .. Len(v.chains) : FALSE
  BY <1>7
<1>10. Sound(v)'
  BY <1>2, <1>3, <1>4, <1>7, <1>8, <1>9 DEF Sound
<1> QED BY <1>1, <1>10

\* One document.
DocumentStep(v, d) ==
    \E served \in {f \in [Range(d.mso.status) -> UNION {Servable(r) : r \in Range(d.mso.status)}] :
                      \A r \in DOMAIN f : f[r] \in Servable(r)} :
    \E fails \in {DocumentFails(d, TranscriptOf(v.session), v.options, now, served)} :
        /\ verification' = {[v EXCEPT
               !.chains = Append(@, TrustedIssuanceChain(d, v.options, now)),
               !.failed = @ \/ fails,
               !.status = IF fails /\ v.options.throws THEN "rejected" ELSE @]}
        /\ fetched' = fetched \cup
               ({d} \X DocumentFetches(d, TranscriptOf(v.session), v.options, now, served))
        /\ UNCHANGED <<now, revoked, sessions, presentation>>

LEMMA VerifyDocumentSound ==
  ASSUME MdocBasicInv, VerificationInv, VerifyDocument
  PROVE  \A v \in verification' : Sound(v)'
<1>1. PICK v \in verification :
        /\ v.status = "verifying" /\ Len(v.chains) < Len(v.documents)
        /\ \E d \in {v.documents[Len(v.chains) + 1]} : DocumentStep(v, d)
  BY Zenon DEF VerifyDocument, DocumentStep
<1>2. PICK d \in {v.documents[Len(v.chains) + 1]} : DocumentStep(v, d)
  BY <1>1
<1> DEFINE t == TranscriptOf(v.session)
<1>21. PICK served \in {f \in [Range(d.mso.status) -> UNION {Servable(r) : r \in Range(d.mso.status)}] :
                            \A r \in DOMAIN f : f[r] \in Servable(r)} :
           \E fails \in {DocumentFails(d, TranscriptOf(v.session), v.options, now, served)} :
              verification' = {[v EXCEPT
                  !.chains = Append(@, TrustedIssuanceChain(d, v.options, now)),
                  !.failed = @ \/ fails,
                  !.status = IF fails /\ v.options.throws THEN "rejected" ELSE @]}
  BY <1>2, Zenon DEF DocumentStep
<1> DEFINE fails == DocumentFails(d, t, v.options, now, served)
           chain == TrustedIssuanceChain(d, v.options, now)
           failed == v.failed \/ fails
           status == IF fails /\ v.options.throws THEN "rejected" ELSE v.status
           after == [v EXCEPT !.chains = Append(@, chain), !.failed = failed, !.status = status]
<1>22. verification' = {after}
  BY <1>21
<1>3. PICK w : w = after /\ verification' = {w}
  BY <1>22
<1>4. UNCHANGED <<now, revoked, presentation>>
  BY DEF VerifyDocument
<1>5. Sound(v) /\ RevokedKnown
  BY DEF VerificationInv
<1>6. /\ DOMAIN w = {"session", "documents", "options", "chains", "match", "listed", "failed", "status"}
      /\ w.session = v.session /\ w.documents = v.documents /\ w.options = v.options /\ w.listed = v.listed
      /\ w.chains = Append(v.chains, chain)
      /\ w.status = status
  BY <1>3, <1>5 DEF Sound
<1>7. w.failed <=> v.failed \/ fails
  <2>1. w.failed = failed
    BY <1>3, <1>5, Zenon DEF Sound
  <2> QED BY <2>1, Zenon
<1>8. status # "accepted" /\ (status # "rejected" => v.status # "rejected")
  BY <1>1
<1>9. ~ fails => Passed(d, t, v.options, v.listed)
  <2>1. \A r \in Range(d.mso.status) : served[r] \in Servable(r)
    BY <1>21
  <2>2. RevokedKnown /\ StillListed(v.listed) /\ now \in Nat
    BY <1>5 DEF Sound, MdocBasicInv, MdocTypeOK
  <2> HIDE DEF t
  <2> QED BY <2>1, <2>2, CheckedDocument
<1>10. chain \in SUBSET Anchors
  BY TrustedChain
<1> HIDE DEF after, status, fails, failed, chain
<1>11. /\ v.chains \in Seq(SUBSET Anchors) /\ Len(v.chains) \in Nat /\ Len(v.documents) \in Nat
       /\ Len(v.chains) < Len(v.documents)
  BY <1>1, <1>5, SequenceFacts DEF Sound
<1>12. w.chains \in Seq(SUBSET Anchors) /\ Len(w.chains) = Len(v.chains) + 1 /\ Len(w.chains) <= Len(w.documents)
  BY <1>6, <1>10, <1>11
<1>13. ASSUME ~ w.failed, w.status # "rejected", NEW k \in 1 .. Len(w.chains)
       PROVE  Passed(v.documents[k], t, v.options, v.listed)
  <2>1. ~ v.failed /\ ~ fails /\ v.status # "rejected"
    BY <1>6, <1>7, <1>8, <1>13
  <2>2. CASE k = Len(v.chains) + 1
    BY <1>2, <1>9, <2>1, <2>2
  <2>3. CASE k # Len(v.chains) + 1
    <3>1. k \in 1 .. Len(v.chains)
      BY <1>11, <1>12, <1>13, <2>3
    <3> QED BY <1>5, <2>1, <3>1 DEF Sound
  <2> QED BY <2>2, <2>3
<1>14. w.status # "rejected" => Origin(w.documents, w.session)'
  BY <1>4, <1>5, <1>6, <1>8 DEF Sound, Origin
<1>15. StillListed(w.listed)'
  BY <1>4, <1>5, <1>6 DEF Sound, StillListed
<1>16. w.documents = <<>> => w.failed
  BY <1>5, <1>6, <1>7 DEF Sound
<1>17. IsSequence(w.documents)
  BY <1>5, <1>6 DEF Sound
<1>18. Sound(w)'
  BY <1>6, <1>8, <1>12, <1>13, <1>14, <1>15, <1>16, <1>17 DEF Sound
<1> QED BY <1>3, <1>18

\* The verdict.
LEMMA MatchResponseSound ==
  ASSUME VerificationInv, MatchResponse
  PROVE  \A v \in verification' : Sound(v)'
<1>1. PICK v \in verification :
        /\ v.status = "verifying" /\ Len(v.chains) = Len(v.documents)
        /\ \E matches \in {Matches(RequestOf(v), Matched(v))} :
           \E result \in {ResultOf(v, matches)} :
              verification' = {[v EXCEPT
                  !.match = matches,
                  !.status = IF v.failed \/ ReportFails(RequestOf(v), result, RequestOf(v).asAlternatives)
                             THEN "rejected" ELSE "accepted"]}
  BY DEF MatchResponse
<1>2. PICK matches, result :
              verification' = {[v EXCEPT
                  !.match = matches,
                  !.status = IF v.failed \/ ReportFails(RequestOf(v), result, RequestOf(v).asAlternatives)
                             THEN "rejected" ELSE "accepted"]}
  BY <1>1
<1> DEFINE status == IF v.failed \/ ReportFails(RequestOf(v), result, RequestOf(v).asAlternatives)
                     THEN "rejected" ELSE "accepted"
           after == [v EXCEPT !.match = matches, !.status = status]
<1>3. PICK w : w = after /\ verification' = {w} /\ UNCHANGED <<now, revoked, presentation>>
  BY <1>2 DEF MatchResponse
<1>4. Sound(v)
  BY DEF VerificationInv
<1>5. status = "accepted" => ~ v.failed
  OBVIOUS
<1> HIDE DEF status
<1>6. /\ DOMAIN w = {"session", "documents", "options", "chains", "match", "listed", "failed", "status"}
      /\ w.session = v.session /\ w.documents = v.documents /\ w.options = v.options /\ w.listed = v.listed
      /\ w.chains = v.chains /\ w.status = status /\ w.failed = v.failed
  BY <1>3, <1>4 DEF Sound
<1> HIDE DEF after
<1>7. (w.status # "rejected" => Origin(w.documents, w.session)') /\ StillListed(w.listed)'
  BY <1>1, <1>3, <1>4, <1>6 DEF Sound, Origin, StillListed
<1>8. Sound(w)'
  BY <1>1, <1>4, <1>5, <1>6, <1>7 DEF Sound
<1> QED BY <1>3, <1>8

LEMMA VerificationStep ==
  ASSUME MdocBasicInv, VerificationInv, [MdocNext]_mdocVars
  PROVE  VerificationInv'
<1>0. MdocCases
  BY MdocStep
<1>1. ASSUME UNCHANGED <<revoked, presentation, verification>>, now' = now \/ now' = now + 1
      PROVE  VerificationInv'
  BY <1>1, SoundStays DEF VerificationInv, RevokedKnown, ResponsesMade
<1>2. CASE \E c \in DOMAIN Credentials : Revoke(c)
  <2>1. PICK c \in DOMAIN Credentials : Revoke(c)
    BY <1>2
  <2>2. /\ Credentials[c].mso.status # <<>> /\ revoked = {}
        /\ revoked' = {[id |-> Credentials[c].mso.id, at |-> now]}
        /\ UNCHANGED <<now, presentation, verification>>
    BY <2>1 DEF Revoke
  <2>3. RevokedKnown'
    BY <2>2 DEF RevokedKnown, MdocBasicInv, MdocTypeOK
  <2> QED BY <2>2, <2>3, SoundStays DEF VerificationInv, ResponsesMade
<1>3. CASE \E offer \in Offers : \E p :
           /\ Responds(offer, p) /\ presentation' = {p} /\ verification = {}
           /\ UNCHANGED <<now, revoked, sessions, verification, fetched>>
  <2>1. ResponsesMade'
    BY <1>3, RespondMakes DEF ResponsesMade
  <2> QED BY <1>3, <2>1 DEF VerificationInv, RevokedKnown
<1>4. CASE \E n \in DOMAIN sessions : \E response \in Sealed \cup SealedByW(TranscriptOf(n)), options \in VerifyOptions :
           VerifyResponse(n, response, options)
  <2>1. PICK n \in DOMAIN sessions : \E response \in Sealed \cup SealedByW(TranscriptOf(n)), options \in VerifyOptions :
           VerifyResponse(n, response, options)
    BY <1>4
  <2>2. PICK response \in Sealed \cup SealedByW(TranscriptOf(n)), options \in VerifyOptions :
           VerifyResponse(n, response, options)
    BY <2>1
  <2>3. \A v \in verification' : Sound(v)'
    BY <2>2, VerifyResponseSound
  <2>4. UNCHANGED <<revoked, presentation>>
    BY <2>2 DEF VerifyResponse
  <2> QED BY <2>3, <2>4 DEF VerificationInv, RevokedKnown, ResponsesMade
<1>5. CASE VerifyDocument
  <2>1. UNCHANGED <<revoked, presentation>>
    BY <1>5 DEF VerifyDocument
  <2> QED BY <1>5, <2>1, VerifyDocumentSound DEF VerificationInv, RevokedKnown, ResponsesMade
<1>6. CASE MatchResponse
  <2>1. UNCHANGED <<revoked, presentation>>
    BY <1>6 DEF MatchResponse
  <2> QED BY <1>6, <2>1, MatchResponseSound DEF VerificationInv, RevokedKnown, ResponsesMade
<1>7. CASE \E name \in DOMAIN DeviceRequests, withReaderAuth \in BOOLEAN : CreateRequest(name, withReaderAuth)
  BY <1>1, <1>7 DEF CreateRequest
<1>8. CASE UNCHANGED mdocVars
  BY <1>1, <1>8 DEF mdocVars
<1> QED BY <1>0, <1>1, <1>2, <1>3, <1>4, <1>5, <1>6, <1>7, <1>8 DEF MdocCases

\* What is accepted was made for the session, of trusted credentials that had
\* not been revoked for long.
LEMMA AcceptedFollows ==
  ASSUME VerificationInv
  PROVE  AcceptedAsMade
<1> SUFFICES ASSUME NEW v \in verification, v.status = "accepted", ~ v.options.disableChain
             PROVE  /\ \E p \in presentation : /\ p.offer.transcript = TranscriptOf(v.session)
                                               /\ p.documents = v.documents
                    /\ \A d \in Range(v.documents) :
                           /\ d.mso.signer \in Anchors
                           /\ ~ v.options.disableStatus => d.mso.id \notin v.listed
  BY DEF AcceptedAsMade, Accepted
<1>1. Sound(v) /\ ResponsesMade
  BY DEF VerificationInv
<1>2. /\ ~ v.failed /\ Len(v.chains) = Len(v.documents) /\ v.documents # <<>>
      /\ Origin(v.documents, v.session) /\ IsSequence(v.documents)
  BY <1>1 DEF Sound
<1>3. DOMAIN v.documents = 1 .. Len(v.documents) /\ 1 \in DOMAIN v.documents
  BY <1>2, SequenceFacts
<1>4. \A k \in DOMAIN v.documents : Passed(v.documents[k], TranscriptOf(v.session), v.options, v.listed)
  BY <1>1, <1>2, <1>3 DEF Sound
<1>5. ~ Foreign(v.documents[1], TranscriptOf(v.session))
  BY <1>3, <1>4 DEF Passed, Foreign
<1>6. PICK p \in presentation : p.offer.transcript = TranscriptOf(v.session) /\ p.documents = v.documents
  BY <1>2, <1>3, <1>5 DEF Origin
<1>7. ASSUME NEW d \in Range(v.documents)
      PROVE  d.mso.signer \in Anchors /\ (~ v.options.disableStatus => d.mso.id \notin v.listed)
  <2>1. PICK k \in DOMAIN v.documents : d = v.documents[k]
    BY <1>7 DEF Range
  <2>2. OfCredential(d)
    BY <1>1, <1>6, <2>1 DEF ResponsesMade, Made
  <2> QED BY <1>4, <2>1, <2>2 DEF Passed
<1> QED BY <1>6, <1>7

LEMMA VerificationInit ==
  ASSUME MdocInit
  PROVE  VerificationInv
BY DEF MdocInit, VerificationInv, RevokedKnown, ResponsesMade

\* A response is accepted for a session only when the wallet made it for it.
THEOREM AcceptedMade == MdocSpec => []AcceptedAsMade
BY VerificationInit, MdocTyped, VerificationStep, AcceptedFollows, PTL DEF MdocSpec

(***************************************************************************)
(* Requests                                                                *)
(***************************************************************************)
\* The checks of a signed request object are eight.
LEMMA EightOk ==
  ASSUME NEW a, NEW b, NEW c, NEW d, NEW e, NEW f, NEW g, NEW h,
         FirstError(<<a, b, c, d, e, f, g, h>>) = Ok
  PROVE  a = Ok /\ b = Ok /\ c = Ok /\ d = Ok /\ e = Ok /\ f = Ok /\ g = Ok /\ h = Ok
<1> DEFINE s == <<a, b, c, d, e, f, g, h>>
<1>1. DOMAIN s \subseteq Nat /\ FirstError(s) = Ok
  OBVIOUS
<1>2. \A i \in 1 .. 8 : i \in DOMAIN s
  OBVIOUS
<1>3. s[1] = a /\ s[2] = b /\ s[3] = c /\ s[4] = d /\ s[5] = e /\ s[6] = f /\ s[7] = g /\ s[8] = h
  OBVIOUS
<1> HIDE DEF s
<1>4. \A i \in 1 .. 8 : s[i] = Ok
  BY <1>1, <1>2, AllChecksOk
<1> QED BY <1>3, <1>4

\* What the wallet's checks of a signed request object leave.
LEMMA RequestObjectOk ==
  ASSUME NEW jar, NEW outer, NEW channel, JarError(jar, outer, channel) = Ok
  PROVE  /\ jar.payload.id # None
         /\ jar.payload.prefix # "origin"
         /\ jar.method \in SignerMethods(jar.payload.prefix)
         /\ jar.payload.prefix = "verifier_attestation" => jar.attestation.sub = jar.payload.id
         /\ SignatureVerifies(jar)
<1> DEFINE checked == RequestObjectError(jar)
           named == Require(jar.payload.id # None, "no client_id in request object")
           sent == Require(jar.send = "value" \/ channel.type = "direct_post", "request_uri not allowed")
           unwrapped == Require(jar.wrapped # "jwe without kid", "no kid in JWE")
           outside == Require(OuterClientIdMatches(jar, outer), "client_id mismatch")
<1>1. checked = Ok /\ named = Ok
  <2>1. FirstError(<<sent, unwrapped, checked, named, outside>>) = Ok
    BY DEF JarError
  <2> HIDE DEF sent, unwrapped, checked, named, outside
  <2> QED BY <2>1, FiveOk
<1>2. jar.payload.id # None
  BY <1>1 DEF Require, Ok
<1> DEFINE client == ClientIdError(jar.payload, None)
           method == Require(jar.method \in SignerMethods(jar.payload.prefix), "signer method")
           kid == Require(jar.method # "federation" \/ jar.kid, "no kid")
           attested == IF jar.payload.prefix = "verifier_attestation" THEN AttestationError(jar) ELSE Ok
           verified == Require(SignatureVerifies(jar), "signature")
           fresh == Require(jar.fresh, "expired")
           version == VersionError(jar.payload)
           typed == Require(jar.typ \/ RequestVersion(jar.payload) < 24, "typ")
<1>3. client = Ok /\ method = Ok /\ attested = Ok /\ verified = Ok
  <2>1. FirstError(<<client, method, kid, attested, verified, fresh, version, typed>>) = Ok
    BY <1>1 DEF RequestObjectError
  <2> HIDE DEF client, method, kid, attested, verified, fresh, version, typed
  <2> QED BY <2>1, EightOk
<1>4. jar.method \in SignerMethods(jar.payload.prefix) /\ SignatureVerifies(jar)
  BY <1>3 DEF Require, Ok
<1>5. jar.payload.prefix # "origin"
  <2>1. Require(jar.payload.id = None \/ jar.payload.prefix # "origin", "reserved prefix") = Ok
    BY <1>3, ThreeOk DEF ClientIdError
  <2> QED BY <1>2, <2>1 DEF Require, Ok
<1>6. ASSUME jar.payload.prefix = "verifier_attestation" PROVE jar.attestation.sub = jar.payload.id
  <2>1. AttestationError(jar) = Ok
    BY <1>3, <1>6
  <2> DEFINE present == Require(jar.attestation # None, "no attestation")
             subject == Require(jar.attestation # None => jar.attestation.sub = jar.payload.id, "attestation subject")
             redirects == Require(jar.attestation # None /\ jar.attestation.redirects # None
                                    => jar.payload.redirect \in jar.attestation.redirects, "attestation redirect_uri")
  <2>2. present = Ok /\ subject = Ok
    <3>1. FirstError(<<present, subject, redirects>>) = Ok
      BY <2>1 DEF AttestationError
    <3> HIDE DEF present, subject, redirects
    <3> QED BY <3>1, ThreeOk
  <2> QED BY <2>2 DEF Require, Ok
<1> QED BY <1>2, <1>4, <1>5, <1>6

\* The checks of the client, prefix by prefix.
PrefixError(p, jar, prefix) ==
    LET Signed(method) == FirstError(<<Require(jar # None, "must be signed"),
                                       Require(jar # None => jar.method = method, "signer method")>>)
    IN      CASE prefix = "redirect_uri" ->
                    FirstError(<<Require(jar = None, "must not be signed"),
                                 Require(p.mode \notin DcApiModes \cup IaeModes, "redirect_uri mode"),
                                 Require(p.redirect \in {None, p.id} /\ p.uri \in {None, p.id}, "redirect_uri")>>)
              [] prefix = "decentralized_identifier" ->
                    FirstError(<<Signed("did"), Require(jar # None => jar.by = p.id, "other did")>>)
              [] prefix \in {"x509_san_dns", "x509_san_uri", "x509_hash"} ->
                    FirstError(<<Signed("x5c"), Require(jar # None => CertificateNames(p, jar), "certificate")>>)
              [] prefix = "openid_federation" -> Signed("federation")
              [] prefix = "origin" -> Require(p.mode \in DcApiModes, "origin mode")
              [] prefix = "verifier_attestation" -> Require(jar # None, "must be signed")
              [] OTHER -> Ok

\* The payload whose client is validated: an unsigned request over the DC API
\* has no client_id.
Validated(p, jar) == IF jar = None /\ p.mode \in DcApiModes THEN [p EXCEPT !.id = None] ELSE p

LEMMA ClientChecks ==
  ASSUME NEW p, NEW jar, NEW origin, ClientError(p, jar, origin) = Ok
  PROVE  /\ ClientIdError(Validated(p, jar), origin) = Ok
         /\ PrefixError(p, jar, EffectiveClientId(Validated(p, jar), origin).prefix) = Ok
<1>1. ClientError(p, jar, origin) =
        FirstError(<<VersionError(p), ClientIdError(Validated(p, jar), origin),
                     PrefixError(p, jar, EffectiveClientId(Validated(p, jar), origin).prefix)>>)
  BY DEF ClientError, PrefixError, Validated
<1> QED BY <1>1, ThreeOk

\* Prefixes that no unsigned request may have, and what redirect_uri asks.
LEMMA UnsignedPrefix ==
  ASSUME NEW p, NEW prefix \in ClientIdPrefixes, PrefixError(p, None, prefix) = Ok
  PROVE  /\ prefix \in {"pre-registered", "redirect_uri", "origin"}
         /\ prefix = "redirect_uri" => /\ p.mode \notin DcApiModes \cup IaeModes
                                       /\ p.redirect \in {None, p.id} /\ p.uri \in {None, p.id}
<1>1. Require(FALSE, "must be signed") # Ok
  BY DEF Require, Ok
<1>2. \A m : FirstError(<<Require(None # None, "must be signed"), m>>) # Ok
  <2> SUFFICES ASSUME NEW m, FirstError(<<Require(None # None, "must be signed"), m>>) = Ok PROVE FALSE
    OBVIOUS
  <2>1. Require(None # None, "must be signed") = Ok
    BY TwoOk
  <2> QED BY <2>1, <1>1 DEF Require, Ok
<1>3. prefix # "decentralized_identifier"
  <2> SUFFICES ASSUME prefix = "decentralized_identifier" PROVE FALSE
    OBVIOUS
  <2> DEFINE signed == FirstError(<<Require(None # None, "must be signed"), Require(None # None => None.method = "did", "signer method")>>)
  <2>1. FirstError(<<signed, Require(None # None => None.by = p.id, "other did")>>) = Ok
    BY DEF PrefixError
  <2>2. signed # Ok
    BY <1>2
  <2> HIDE DEF signed
  <2> QED BY <2>1, <2>2, TwoOk
<1>4. prefix \notin {"x509_san_dns", "x509_san_uri", "x509_hash"}
  <2> SUFFICES ASSUME prefix \in {"x509_san_dns", "x509_san_uri", "x509_hash"} PROVE FALSE
    OBVIOUS
  <2> DEFINE signed == FirstError(<<Require(None # None, "must be signed"), Require(None # None => None.method = "x5c", "signer method")>>)
  <2>1. FirstError(<<signed, Require(None # None => CertificateNames(p, None), "certificate")>>) = Ok
    BY DEF PrefixError
  <2>2. signed # Ok
    BY <1>2
  <2> HIDE DEF signed
  <2> QED BY <2>1, <2>2, TwoOk
<1>5. prefix # "openid_federation"
  BY <1>2 DEF PrefixError
<1>6. prefix # "verifier_attestation"
  BY DEF PrefixError, Require, Ok
<1>7. ASSUME prefix = "redirect_uri"
      PROVE  p.mode \notin DcApiModes \cup IaeModes /\ p.redirect \in {None, p.id} /\ p.uri \in {None, p.id}
  <2> DEFINE unsigned == Require(None = None, "must not be signed")
             modes == Require(p.mode \notin DcApiModes \cup IaeModes, "redirect_uri mode")
             uris == Require(p.redirect \in {None, p.id} /\ p.uri \in {None, p.id}, "redirect_uri")
  <2>1. FirstError(<<unsigned, modes, uris>>) = Ok
    BY <1>7 DEF PrefixError
  <2>2. modes = Ok /\ uris = Ok
    <3> HIDE DEF unsigned, modes, uris
    <3> QED BY <2>1, ThreeOk
  <2> QED BY <2>2 DEF Require, Ok
<1> QED BY <1>3, <1>4, <1>5, <1>6, <1>7 DEF ClientIdPrefixes

\* A signed request was signed with the key of the client it names.
LEMMA SignedPrefix ==
  ASSUME NEW jar, jar # None, NEW outer, NEW channel, JarError(jar, outer, channel) = Ok,
         jar.payload.prefix \in ClientIdPrefixes,
         PrefixError(jar.payload, jar, jar.payload.prefix) = Ok
  PROVE  jar.by = jar.payload.id
<1> DEFINE p == jar.payload
           prefix == jar.payload.prefix
<1>1. /\ prefix # "origin"
      /\ jar.method \in SignerMethods(prefix)
      /\ prefix = "verifier_attestation" => jar.attestation.sub = p.id
      /\ SignatureVerifies(jar)
  BY RequestObjectOk
<1>2. CASE prefix = "decentralized_identifier"
  <2> DEFINE signed == FirstError(<<Require(jar # None, "must be signed"), Require(jar # None => jar.method = "did", "signer method")>>)
  <2>1. FirstError(<<signed, Require(jar # None => jar.by = p.id, "other did")>>) = Ok
    BY <1>2 DEF PrefixError
  <2> HIDE DEF signed
  <2>2. Require(jar # None => jar.by = p.id, "other did") = Ok
    BY <2>1, TwoOk
  <2> QED BY <2>2 DEF Require, Ok
<1>3. CASE prefix \in {"x509_san_dns", "x509_san_uri", "x509_hash"}
  <2> DEFINE signed == FirstError(<<Require(jar # None, "must be signed"), Require(jar # None => jar.method = "x5c", "signer method")>>)
  <2>1. FirstError(<<signed, Require(jar # None => CertificateNames(p, jar), "certificate")>>) = Ok
    BY <1>3 DEF PrefixError
  <2> HIDE DEF signed
  <2>2. Require(jar # None => CertificateNames(p, jar), "certificate") = Ok
    BY <2>1, TwoOk
  <2> QED BY <2>2 DEF Require, Ok, CertificateNames
<1>4. CASE prefix = "openid_federation"
  <2>1. jar.method = "federation"
    BY <1>1, <1>4 DEF SignerMethods
  <2> QED BY <1>1, <2>1 DEF SignatureVerifies
<1>5. CASE prefix = "pre-registered"
  <2>1. jar.method \in {"custom", "x5c"}
    BY <1>1, <1>5 DEF SignerMethods
  <2> QED BY <1>1, <1>5, <2>1 DEF SignatureVerifies
<1>6. CASE prefix = "verifier_attestation"
  <2>1. jar.method = "jwk"
    BY <1>1, <1>6 DEF SignerMethods
  <2> QED BY <1>1, <1>6, <2>1 DEF SignatureVerifies
<1>7. prefix # "redirect_uri"
  BY <1>1 DEF SignerMethods
<1> QED BY <1>1, <1>2, <1>3, <1>4, <1>5, <1>6, <1>7 DEF ClientIdPrefixes
-----------------------------------------------------------------------------
\* The payload as it was made, and who may have made a request: everything a
\* party says of itself in a request it makes, and the key it signs with.
PayloadMade(request) == IF request.jar = None THEN request.plain ELSE request.jar.payload

PayloadFields == {"prefix", "id", "mode", "redirect", "uri", "queries", "origins", "url", "nonce"}

MadeBy(request, party) ==
    /\ PayloadFields \subseteq DOMAIN PayloadMade(request)
    /\ PayloadMade(request).prefix \in ClientIdPrefixes
    /\ PayloadMade(request).uri \in {None, party} /\ PayloadMade(request).redirect \in {None, party}
    /\ PayloadMade(request).origins \in {None, {party}} /\ PayloadMade(request).url \in {None, party}
    /\ request.jar # None => request.jar.by = party

\* What the wallet reads is what was made, but for the client_id of an
\* unsigned request over the DC API.
LEMMA ReadAsMade ==
  ASSUME NEW request, NEW party, MadeBy(request, party)
  PROVE  /\ request.jar # None => RequestPayload(request) = PayloadMade(request)
         /\ request.jar = None /\ PayloadMade(request).mode \in DcApiModes =>
                RequestPayload(request) = [PayloadMade(request) EXCEPT !.id = None]
         /\ request.jar = None /\ PayloadMade(request).mode \notin DcApiModes =>
                RequestPayload(request) = PayloadMade(request)
         /\ DOMAIN RequestPayload(request) = DOMAIN PayloadMade(request)
         /\ \A k \in DOMAIN PayloadMade(request) : k # "id" => RequestPayload(request)[k] = PayloadMade(request)[k]
<1> DEFINE p == PayloadMade(request)
           q == RequestPayload(request)
<1>1. request.jar # None => q = p
  BY DEF RequestPayload, PayloadMade
<1>2. request.jar = None => p = request.plain
  BY DEF PayloadMade
<1>3. request.jar = None /\ p.mode \in DcApiModes => q = [p EXCEPT !.id = None]
  BY <1>2 DEF RequestPayload
<1>4. request.jar = None /\ p.mode \notin DcApiModes => q = p
  BY <1>2 DEF RequestPayload
<1> HIDE DEF p, q
<1>5. DOMAIN q = DOMAIN p /\ \A k \in DOMAIN p : k # "id" => q[k] = p[k]
  BY <1>1, <1>3, <1>4
<1> QED BY <1>1, <1>3, <1>4, <1>5 DEF p, q

\* What each check of the wallet leaves.
LEMMA ResolveChecks ==
  ASSUME NEW request, ResolveError(request) = Ok
  PROVE  LET p == RequestPayload(request)
         IN  /\ request.jar # None => JarError(request.jar, request.outer, request.channel) = Ok
             /\ Category(p.mode) = request.channel.type
             /\ PayloadError(p, request.jar # None, request.channel, scenario.wallet.expectedNonce) = Ok
             /\ ClientError(p, request.jar, OriginOf(request)) = Ok
<1> DEFINE p == RequestPayload(request)
           signed == IF request.jar # None THEN JarError(request.jar, request.outer, request.channel) ELSE Ok
           category == Require(Category(p.mode) = request.channel.type, "response mode")
           rules == PayloadError(p, request.jar # None, request.channel, scenario.wallet.expectedNonce)
           client == ClientError(p, request.jar, OriginOf(request))
           legacy == Require("pd_uri" \notin p.queries, "presentation_definition_uri")
<1>1. FirstError(<<signed, category, rules, client, legacy>>) = Ok
  BY DEF ResolveError
<1>2. signed = Ok /\ category = Ok /\ rules = Ok /\ client = Ok
  <2> HIDE DEF signed, category, rules, client, legacy
  <2> QED BY <1>1, FiveOk
<1>3. Category(p.mode) = request.channel.type
  BY <1>2 DEF Require, Ok
<1>4. request.jar # None => JarError(request.jar, request.outer, request.channel) = Ok
  BY <1>2
<1>5. rules = Ok /\ client = Ok
  BY <1>2
<1> QED BY <1>3, <1>4, <1>5

\* What the payload rules of each channel leave.
LEMMA PayloadChecks ==
  ASSUME NEW p, NEW signed \in BOOLEAN, NEW channel, NEW expected,
         PayloadError(p, signed, channel, expected) = Ok
  PROVE  /\ Category(p.mode) = "direct_post" => p.redirect # None \/ p.uri # None
         /\ Category(p.mode) = "dc_api" /\ signed => p.origins # None /\ channel.at \in p.origins
         /\ Category(p.mode) = "iae" /\ signed => p.url # None /\ p.url = channel.at
<1>1. CASE p.mode \in DcApiModes
  <2> DEFINE origins == Require(signed => p.origins # None, "no expected_origins")
             query == Require(Cardinality(p.queries \cap {"pd", "dcql"}) = 1, "not one query")
             origin == Require(TRUE /\ p.origins # None => channel.at \in p.origins, "origin")
  <2>1. FirstError(<<origins, query, origin>>) = Ok
    BY <1>1 DEF PayloadError, DcApiPayloadError, DcApiModes, IaeModes
  <2>2. origins = Ok /\ origin = Ok
    <3> HIDE DEF origins, query, origin
    <3> QED BY <2>1, ThreeOk
  <2>3. (signed => p.origins # None) /\ (p.origins # None => channel.at \in p.origins)
    BY <2>2 DEF Require, Ok
  <2> QED BY <1>1, <2>3 DEF Category
<1>2. CASE p.mode \notin DcApiModes /\ p.mode \in IaeModes
  <2> DEFINE url == Require(signed => p.url # None, "no expected_url")
             query == Require("dcql" \in p.queries, "no dcql_query")
             same == Require(TRUE /\ p.url # None => p.url = channel.at, "expected_url")
  <2>1. FirstError(<<url, query, same>>) = Ok
    BY <1>2 DEF PayloadError, IaePayloadError, DcApiModes, IaeModes
  <2>2. url = Ok /\ same = Ok
    <3> HIDE DEF url, query, same
    <3> QED BY <2>1, ThreeOk
  <2>3. (signed => p.url # None) /\ (p.url # None => p.url = channel.at)
    BY <2>2 DEF Require, Ok
  <2> QED BY <1>2, <2>3 DEF Category
<1>3. CASE p.mode \notin DcApiModes /\ p.mode \notin IaeModes
  <2> DEFINE somewhere == Require(p.redirect # None \/ p.uri # None, "no redirect_uri or response_uri")
             post == Require(p.uri = None \/ p.mode \in PostModes, "response_uri without direct_post")
             query == Require(Cardinality(p.queries) <= 1, "several queries")
             nonce == Require(expected = None \/ p.walletNonce # None, "no wallet_nonce")
             same == Require(expected = p.walletNonce, "wallet_nonce mismatch")
  <2>1. FirstError(<<somewhere, post, query, nonce, same>>) = Ok
    BY <1>3 DEF PayloadError, DirectPostPayloadError
  <2>2. somewhere = Ok
    <3> HIDE DEF somewhere, post, query, nonce, same
    <3> QED BY <2>1, FiveOk
  <2>3. p.redirect # None \/ p.uri # None
    BY <2>2 DEF Require, Ok
  <2> QED BY <1>3, <2>3 DEF Category
<1> QED BY <1>1, <1>2, <1>3

\* Where an answer goes: to the party that made the request, when it has it
\* posted or signed it, and else to the party whose channel it came by.
LEMMA DestinationOf ==
  ASSUME NEW request, NEW party, MadeBy(request, party), ResolveError(request) = Ok
  PROVE  /\ request.channel.type = "direct_post" => Destination(request) = party
         /\ request.channel.type # "direct_post" => Destination(request) = request.channel.at
         /\ request.jar # None => Destination(request) = party
<1> DEFINE p == RequestPayload(request)
           signed == request.jar # None
<1>1. /\ Category(p.mode) = request.channel.type
      /\ PayloadError(p, signed, request.channel, scenario.wallet.expectedNonce) = Ok
  BY ResolveChecks
<1>2. signed \in BOOLEAN
  OBVIOUS
<1>3. /\ Category(p.mode) = "direct_post" => p.redirect # None \/ p.uri # None
      /\ Category(p.mode) = "dc_api" /\ signed => p.origins # None /\ request.channel.at \in p.origins
      /\ Category(p.mode) = "iae" /\ signed => p.url # None /\ p.url = request.channel.at
  <2> HIDE DEF signed, p
  <2> QED BY <1>1, <1>2, PayloadChecks
<1>4. /\ p.uri \in {None, party} /\ p.redirect \in {None, party}
      /\ p.origins \in {None, {party}} /\ p.url \in {None, party}
  <2>1. \A k \in {"uri", "redirect", "origins", "url"} : p[k] = PayloadMade(request)[k]
    BY ReadAsMade DEF MadeBy, PayloadFields
  <2>2. p.uri = PayloadMade(request).uri /\ p.redirect = PayloadMade(request).redirect
        /\ p.origins = PayloadMade(request).origins /\ p.url = PayloadMade(request).url
    BY <2>1
  <2> QED BY <2>2 DEF MadeBy
<1>5. Destination(request) = IF request.channel.type # "direct_post" THEN request.channel.at
                             ELSE IF p.uri # None THEN p.uri ELSE p.redirect
  BY DEF Destination
<1>6. Category(p.mode) \in {"direct_post", "dc_api", "iae"}
  BY DEF Category
<1> HIDE DEF p
<1> QED BY <1>1, <1>3, <1>4, <1>5, <1>6

\* Whatever was done to a request on its way, the answer goes to the client
\* the wallet sees, if the wallet knows the URIs of registered clients.
LEMMA NamedClient ==
  ASSUME NEW request, NEW party, MadeBy(request, party), ResolveError(request) = Ok,
         NEW client, client = EffectiveClientId(RequestPayload(request), OriginOf(request)),
         client.prefix = "pre-registered" => Destination(request) = client.id
  PROVE  Destination(request) = client.id
<1> DEFINE p == RequestPayload(request)
<1>1. /\ request.jar # None => JarError(request.jar, request.outer, request.channel) = Ok
      /\ Category(p.mode) = request.channel.type
      /\ ClientError(p, request.jar, OriginOf(request)) = Ok
  BY ResolveChecks
<1>2. p.prefix \in ClientIdPrefixes /\ p.mode = PayloadMade(request).mode
  <2>1. \A k \in {"prefix", "mode"} : p[k] = PayloadMade(request)[k]
    BY ReadAsMade DEF MadeBy, PayloadFields
  <2>2. p.prefix = PayloadMade(request).prefix /\ p.mode = PayloadMade(request).mode
    BY <2>1
  <2> QED BY <2>2 DEF MadeBy
<1> DEFINE v == Validated(p, request.jar)
<1>3. /\ ClientIdError(v, OriginOf(request)) = Ok
      /\ PrefixError(p, request.jar, EffectiveClientId(v, OriginOf(request)).prefix) = Ok
  BY <1>1, ClientChecks
<1>4. v = p
  <2>1. CASE request.jar # None \/ p.mode \notin DcApiModes
    BY <2>1 DEF Validated
  <2>2. CASE request.jar = None /\ p.mode \in DcApiModes
    <3>1. p = [PayloadMade(request) EXCEPT !.id = None]
      BY <1>2, <2>2, ReadAsMade
    <3>2. [p EXCEPT !.id = None] = p
      BY <3>1
    <3> QED BY <2>2, <3>2 DEF Validated
  <2> QED BY <2>1, <2>2
<1>5. p.prefix \in ClientIdPrefixes /\ ClientIdError(p, OriginOf(request)) = Ok
      /\ PrefixError(p, request.jar, client.prefix) = Ok
  <2> HIDE DEF v, p
  <2>1. EffectiveClientId(v, OriginOf(request)) = client
    BY <1>4 DEF p
  <2> QED BY <1>2, <1>3, <1>4, <2>1
<1>6. (p.id = None \/ p.prefix # "origin") /\ (p.id # None \/ p.mode \in DcApiModes)
  <2> DEFINE reserved == Require(p.id = None \/ p.prefix # "origin", "reserved prefix")
             named == Require(p.id # None \/ p.mode \in DcApiModes, "no client_id")
             origin == Require(p.id # None \/ OriginOf(request) # None, "no origin")
  <2>1. FirstError(<<reserved, named, origin>>) = Ok
    BY <1>5 DEF ClientIdError
  <2>2. reserved = Ok /\ named = Ok
    <3> HIDE DEF reserved, named, origin
    <3> QED BY <2>1, ThreeOk
  <2> QED BY <2>2 DEF Require, Ok
<1>7. client = IF p.id = None THEN [prefix |-> "origin", id |-> OriginOf(request)] ELSE [prefix |-> p.prefix, id |-> p.id]
  BY DEF EffectiveClientId
<1>8. client.prefix \in ClientIdPrefixes
  BY <1>2, <1>7 DEF ClientIdPrefixes
<1>9. CASE request.jar # None
  <2>1. p = request.jar.payload
    BY <1>9, ReadAsMade DEF PayloadMade
  <2>2. p.id # None
    BY <1>1, <1>9, <2>1, RequestObjectOk
  <2>3. request.jar.by = p.id
    <3>1. client.prefix = p.prefix
      BY <1>7, <2>2
    <3> QED BY <1>1, <1>2, <1>5, <1>9, <2>1, <3>1, SignedPrefix
  <2>4. request.jar.by = party
    BY <1>9 DEF MadeBy
  <2>5. Destination(request) = party
    BY <1>9, DestinationOf
  <2> QED BY <1>7, <2>2, <2>3, <2>4, <2>5
<1>10. CASE request.jar = None /\ p.mode \in DcApiModes
  <2>1. p = [PayloadMade(request) EXCEPT !.id = None]
    BY <1>2, <1>10, ReadAsMade
  <2>2. p.id = None
    BY <2>1 DEF MadeBy, PayloadFields
  <2>3. request.channel.type = "dc_api"
    BY <1>1, <1>10 DEF Category
  <2>4. client.id = request.channel.at
    BY <1>7, <2>2, <2>3 DEF OriginOf
  <2> QED BY <2>3, <2>4, DestinationOf
<1>11. CASE request.jar = None /\ p.mode \notin DcApiModes
  <2>1. p.id # None /\ p.prefix # "origin" /\ client.prefix = p.prefix /\ client.id = p.id
    BY <1>6, <1>7, <1>11
  <2>2. /\ p.prefix \in {"pre-registered", "redirect_uri", "origin"}
        /\ p.prefix = "redirect_uri" => /\ p.mode \notin DcApiModes \cup IaeModes
                                        /\ p.redirect \in {None, p.id} /\ p.uri \in {None, p.id}
    <3>1. PrefixError(p, None, p.prefix) = Ok
      BY <1>5, <1>11, <2>1
    <3> HIDE DEF p
    <3> QED BY <1>2, <3>1, UnsignedPrefix
  <2>3. CASE p.prefix = "redirect_uri"
    <3>1. request.channel.type = "direct_post"
      BY <1>1, <2>2, <2>3 DEF Category
    <3>2. Destination(request) = IF p.uri # None THEN p.uri ELSE p.redirect
      BY <3>1 DEF Destination
    <3>3. p.redirect # None \/ p.uri # None
      <4>1. Category(p.mode) = "direct_post"
            /\ PayloadError(p, request.jar # None, request.channel, scenario.wallet.expectedNonce) = Ok
        BY <1>1, <3>1, ResolveChecks
      <4> DEFINE signed == request.jar # None
      <4>2. signed \in BOOLEAN /\ PayloadError(p, signed, request.channel, scenario.wallet.expectedNonce) = Ok
        BY <4>1
      <4> HIDE DEF signed, p
      <4> QED BY <4>1, <4>2, PayloadChecks
    <3> QED BY <2>1, <2>2, <2>3, <3>2, <3>3
  <2>4. CASE p.prefix = "pre-registered"
    BY <2>1, <2>4
  <2> QED BY <2>1, <2>2, <2>3, <2>4
<1> QED BY <1>9, <1>10, <1>11
(***************************************************************************)
(* The offers                                                              *)
(***************************************************************************)
\* V's request of a session, as V delivers it.
OwnRequest(s) == Request(Payload(s), IF scenario.jar # None THEN SignedBy("v", Payload(s)) ELSE None, "v")

OfV(request) == MadeBy(request, "v") /\ \E s \in Sessions : PayloadMade(request) = Payload(s)
OfW(request) == MadeBy(request, "w") /\ request.channel.at = "w"

LEMMA RequestMade ==
  ASSUME NEW payload, NEW jar, NEW at, jar # None => jar.payload = payload
  PROVE  /\ PayloadMade(Request(payload, jar, at)) = payload
         /\ Request(payload, jar, at).jar = jar
         /\ Request(payload, jar, at).channel.at = at
BY DEF PayloadMade, Request

LEMMA OwnRequestMade ==
  ASSUME scenario.prefix \in ClientIdPrefixes, NEW s
  PROVE  /\ PayloadMade(OwnRequest(s)) = Payload(s)
         /\ MadeBy(OwnRequest(s), "v")
         /\ OwnRequest(s).channel.at = "v"
<1> DEFINE payload == Payload(s)
           signed == SignedBy("v", payload)
           jar == IF scenario.jar # None THEN signed ELSE None
<1>1. signed.payload = payload /\ signed.by = "v"
  BY DEF SignedBy
<1>2. jar # None => jar.payload = payload /\ jar.by = "v"
  BY <1>1
<1>3. OwnRequest(s) = Request(payload, jar, "v")
  BY DEF OwnRequest
<1>4. /\ PayloadFields \subseteq DOMAIN payload
      /\ payload.prefix \in ClientIdPrefixes
      /\ payload.uri \in {None, "v"} /\ payload.redirect \in {None, "v"}
      /\ payload.origins \in {None, {"v"}} /\ payload.url \in {None, "v"}
  BY DEF Payload, PayloadFields
<1> HIDE DEF payload, jar
<1>5. PayloadMade(Request(payload, jar, "v")) = payload /\ Request(payload, jar, "v").jar = jar
      /\ Request(payload, jar, "v").channel.at = "v"
  BY <1>2, RequestMade
<1>6. MadeBy(OwnRequest(s), "v")
  BY <1>2, <1>3, <1>4, <1>5 DEF MadeBy
<1> QED BY <1>3, <1>5, <1>6 DEF payload

\* What W makes of a payload: itself in the place of its maker.
Toward(value) == IF value = None THEN None ELSE "w"
OwnOfW(payload, named) ==
    [payload EXCEPT !.maker = "w", !.id = IF payload.id = None THEN None ELSE named,
                    !.uri = Toward(payload.uri), !.redirect = Toward(payload.redirect),
                    !.origins = IF payload.origins = None THEN None ELSE {"w"},
                    !.url = Toward(payload.url)]

RequestOfW(offer, p) ==
    \/ offer = Request(p, None, "w")
    \/ offer = Request(p, SignedBy("w", p), "w")
    \/ offer = Request(p, [SignedBy("w", p) EXCEPT !.attestation.sub = "v"], "w")

LEMMA OffersOfWAre ==
  ASSUME NEW request, NEW offer \in OffersOfW(request)
  PROVE  \/ \E outer : offer = [request EXCEPT !.channel.at = "w", !.outer = outer]
         \/ \E named \in Parties : RequestOfW(offer, OwnOfW(PayloadMade(request), named))
<1> DEFINE own == {OwnOfW(PayloadMade(request), named) : named \in Parties}
           outers == {request.outer} \cup (IF request.outer = None THEN {} ELSE {[request.outer EXCEPT !.id = "w"]})
           relayed == {[request EXCEPT !.channel.at = "w", !.outer = outer] : outer \in outers}
           plain == {Request(p, None, "w") : p \in own}
           signed == {Request(p, SignedBy("w", p), "w") : p \in own}
           attested == {Request(p, [SignedBy("w", p) EXCEPT !.attestation.sub = "v"], "w") :
                            p \in {x \in own : x.prefix = "verifier_attestation"}}
<1>1. OffersOfW(request) = relayed \cup plain \cup signed \cup attested
  BY DEF OffersOfW, OwnOfW, Toward, PayloadMade
<1>2. CASE offer \in relayed
  BY <1>2
<1>3. CASE offer \in plain \cup signed \cup attested
  <2>1. PICK p \in own : RequestOfW(offer, p)
    BY <1>3 DEF RequestOfW
  <2>2. PICK named \in Parties : p = OwnOfW(PayloadMade(request), named)
    OBVIOUS
  <2> QED BY <2>1, <2>2
<1> HIDE DEF relayed, plain, signed, attested
<1> QED BY <1>1, <1>2, <1>3

\* What W brings to the wallet is V's request on W's channel, or W's own.
LEMMA BroughtByW ==
  ASSUME scenario.prefix \in ClientIdPrefixes, NEW s \in Sessions, NEW offer \in OffersOfW(OwnRequest(s))
  PROVE  (OfV(offer) \/ OfW(offer)) /\ offer.channel.at = "w"
<1>1. /\ PayloadMade(OwnRequest(s)) = Payload(s)
      /\ MadeBy(OwnRequest(s), "v")
  BY OwnRequestMade
<1>2. CASE \E outer : offer = [OwnRequest(s) EXCEPT !.channel.at = "w", !.outer = outer]
  <2>1. PICK outer : offer = [OwnRequest(s) EXCEPT !.channel.at = "w", !.outer = outer]
    BY <1>2
  <2>2. offer.jar = OwnRequest(s).jar /\ offer.plain = OwnRequest(s).plain /\ offer.channel.at = "w"
    BY <2>1 DEF OwnRequest, Request
  <2>3. PayloadMade(offer) = PayloadMade(OwnRequest(s))
    BY <2>2 DEF PayloadMade
  <2>4. MadeBy(offer, "v")
    BY <1>1, <2>2, <2>3 DEF MadeBy
  <2> QED BY <1>1, <2>2, <2>3, <2>4 DEF OfV
<1>3. ASSUME NEW named \in Parties, NEW p, p = OwnOfW(Payload(s), named), NEW jar,
             jar \in {None, SignedBy("w", p), [SignedBy("w", p) EXCEPT !.attestation.sub = "v"]},
             offer = Request(p, jar, "w")
      PROVE  OfW(offer)
  <2>1. jar # None => jar.payload = p /\ jar.by = "w"
    BY <1>3 DEF SignedBy
  <2>2. PayloadMade(offer) = p /\ offer.jar = jar /\ offer.channel.at = "w"
    BY <1>3, <2>1, RequestMade
  <2>3. /\ PayloadFields \subseteq DOMAIN p
        /\ p.prefix \in ClientIdPrefixes
        /\ p.uri \in {None, "w"} /\ p.redirect \in {None, "w"}
        /\ p.origins \in {None, {"w"}} /\ p.url \in {None, "w"}
    <3>1. /\ DOMAIN p = DOMAIN Payload(s) /\ p.prefix = scenario.prefix
          /\ p.uri = Toward(Payload(s).uri) /\ p.redirect = Toward(Payload(s).redirect)
          /\ p.origins = (IF Payload(s).origins = None THEN None ELSE {"w"})
          /\ p.url = Toward(Payload(s).url)
      <4>1. PICK q : q = Payload(s)
        OBVIOUS
      <4>2. {"uri", "redirect", "origins", "url"} \subseteq DOMAIN q /\ q.prefix = scenario.prefix
        BY <4>1 DEF Payload
      <4>3. p = OwnOfW(q, named)
        BY <1>3, <4>1
      <4>4. DOMAIN p = DOMAIN q /\ p.prefix = q.prefix
        BY <4>3 DEF OwnOfW
      <4>5. /\ p.uri = Toward(q.uri) /\ p.redirect = Toward(q.redirect)
            /\ p.origins = (IF q.origins = None THEN None ELSE {"w"})
            /\ p.url = Toward(q.url)
        BY <4>2, <4>3 DEF OwnOfW
      <4> QED BY <4>1, <4>2, <4>4, <4>5
    <3>2. PayloadFields \subseteq DOMAIN Payload(s)
      BY DEF Payload, PayloadFields
    <3> QED BY <3>1, <3>2 DEF Toward
  <2> QED BY <2>1, <2>2, <2>3 DEF MadeBy, OfW
<1>4. CASE \E named \in Parties : RequestOfW(offer, OwnOfW(Payload(s), named))
  <2>1. PICK named \in Parties : RequestOfW(offer, OwnOfW(Payload(s), named))
    BY <1>4
  <2>2. OfW(offer)
    BY <1>3, <2>1 DEF RequestOfW
  <2> QED BY <2>2 DEF OfW
<1>5. \/ \E outer : offer = [OwnRequest(s) EXCEPT !.channel.at = "w", !.outer = outer]
      \/ \E named \in Parties : RequestOfW(offer, OwnOfW(Payload(s), named))
  BY <1>1, OffersOfWAre
<1> QED BY <1>2, <1>4, <1>5
(***************************************************************************)
(* The presentations                                                       *)
(***************************************************************************)
\* Without the user's approval some presentation carries no transaction hash.
Unauthorised(presented) ==
    ~scenario.wallet.approves =>
        \A id \in DOMAIN presented :
            presented[id] # <<>> => \E q \in ToSet(presented[id]) : q.hashes = {}

LEMMA WithoutHashes ==
  ASSUME NEW query, NEW i, NEW set, ~scenario.wallet.approves
  PROVE  Presentation(query, i, set).hashes = {}
<1>1. Presentation(query, i, set).hashes =
        IF scenario.wallet.approves
        THEN {t \in DOMAIN scenario.transactions : query.id \in ToSet(scenario.transactions[t].ids)}
        ELSE {}
  BY DEF Presentation
<1> QED BY <1>1

\* The presentations of one credential.
PresentationsOf(query, i) ==
    {Presentation(query, i, set) : set \in ValidClaimSets(query, scenario.credentials[i], FALSE)}

LEMMA EnumeratedNonEmpty ==
  ASSUME NEW S, IsFiniteSet(S), SetToSeq(S) # <<>>
  PROVE  \E q \in ToSet(SetToSeq(S)) : q \in S
<1> DEFINE n == Cardinality(S)
           f == SetToSeq(S)
<1>1. n \in Nat /\ ExistsBijection(1 .. n, S)
  BY FS_CardinalityType
<1>2. PICK b \in Bijection(1 .. n, S) : TRUE
  BY <1>1 DEF ExistsBijection
<1>3. b \in [1 .. n -> S] /\ IsInjective(b)
  BY <1>2 DEF Bijection, Injection, IsInjective
<1>4. f \in [1 .. n -> S]
  BY <1>3 DEF SetToSeq
<1> HIDE DEF n, f
<1>5. n # 0
  <2> SUFFICES ASSUME n = 0 PROVE f = <<>>
    BY DEF f
  <2>1. f \in Seq(S) /\ Len(f) = 0
    BY <1>1, <1>4
  <2> QED BY <2>1
<1>6. 1 \in DOMAIN f /\ f[1] \in S
  BY <1>1, <1>4, <1>5
<1>7. f[1] \in ToSet(f)
  BY <1>6 DEF ToSet
<1> QED BY <1>6, <1>7 DEF f

LEMMA PresentationsCarry ==
  ASSUME ~scenario.wallet.approves, NEW query, NEW matches, IsFiniteSet(matches),
         \A i \in matches : ValidClaimSets(query, scenario.credentials[i], FALSE) # {},
         NEW x \in PresentationsFor(query, matches), x # <<>>
  PROVE  \E q \in ToSet(x) : q.hashes = {}
<1> DEFINE Of(i) == PresentationsOf(query, i)
           pick(i) == CHOOSE p \in Of(i) : TRUE
           firsts == {pick(i) : i \in matches}
           singles == {<<p>> : p \in UNION {Of(i) : i \in matches}}
           several == IF query.multiple THEN {SetToSeq(firsts)} ELSE {}
<1>1. PresentationsFor(query, matches) = singles \cup several
  BY DEF PresentationsFor, PresentationsOf
<1>2. ASSUME NEW i, NEW p \in Of(i) PROVE p.hashes = {}
  <2>1. PICK set \in ValidClaimSets(query, scenario.credentials[i], FALSE) : p = Presentation(query, i, set)
    BY DEF PresentationsOf
  <2> QED BY <2>1, WithoutHashes
<1>3. ASSUME NEW i \in matches PROVE Of(i) # {}
  BY <1>3 DEF PresentationsOf
<1> HIDE DEF Of
<1>4. CASE x \in singles
  <2>1. PICK p \in UNION {Of(i) : i \in matches} : x = <<p>>
    BY <1>4
  <2>2. PICK i \in matches : p \in Of(i)
    BY <2>1
  <2>3. p \in ToSet(x)
    <3>1. 1 \in DOMAIN x /\ x[1] = p
      BY <2>1
    <3> QED BY <3>1 DEF ToSet
  <2> QED BY <1>2, <2>2, <2>3
<1>5. CASE x \in several
  <2>1. x = SetToSeq(firsts)
    <3> HIDE DEF firsts
    <3> QED BY <1>5
  <2>2. IsFiniteSet(firsts)
    <3> DEFINE f == [i \in matches |-> pick(i)]
    <3> HIDE DEF pick
    <3>1. f \in Surjection(matches, firsts)
      BY DEF Surjection
    <3> HIDE DEF f, firsts
    <3> QED BY <3>1, FS_Surjection
  <2>3. ASSUME NEW p \in firsts PROVE p.hashes = {}
    <3>1. PICK i \in matches : p = pick(i)
      OBVIOUS
    <3>2. pick(i) \in Of(i)
      BY <1>3
    <3> HIDE DEF pick
    <3> QED BY <1>2, <3>1, <3>2
  <2> HIDE DEF firsts
  <2>4. PICK q \in ToSet(SetToSeq(firsts)) : q \in firsts
    BY <2>1, <2>2, EnumeratedNonEmpty
  <2> QED BY <2>1, <2>3, <2>4
<1> HIDE DEF singles, several
<1> QED BY <1>1, <1>4, <1>5
(***************************************************************************)
(* The exchange                                                            *)
(***************************************************************************)
\* An accepted request, whose client has been shown to the user.
ClientKnown(a) ==
    /\ OfV(a.request) \/ OfW(a.request)
    /\ a.client = EffectiveClientId(RequestPayload(a.request), OriginOf(a.request))
    /\ RegisteredDestination(a) => Destination(a.request) = a.client.id
    /\ OfW(a.request) => Destination(a.request) = "w"

\* A response to it.
Answers(r) ==
    /\ ClientKnown(r.accepted)
    /\ r.to = Destination(r.accepted.request) /\ r.to = r.aud.id
    /\ r.aud = r.accepted.client
    /\ r.nonce = RequestPayload(r.accepted.request).nonce
    /\ Unauthorised(r.presented)

\* What V has verified of the response of a session.
Verified(s, r) ==
    /\ HolderBound(r) => r.nonce = s /\ r.aud = EffectiveClientId(Payload(s), "v")
    /\ TransactionsVerify(scenario.transactions, r.presented)
    /\ \A id \in DOMAIN r.presented : r.presented[id] # <<>>

SessionKnown(s) ==
    /\ session[s].status \in {"sent", "accepted"} => session[s].payload = Payload(s)
    /\ session[s].status = "accepted" => Answers(session[s].by) /\ Verified(s, session[s].by)

\* The inductive invariant.
ExchangeInv ==
    /\ scenario \in Scenarios
    /\ session = [s \in Sessions |-> [status |-> session[s].status, payload |-> session[s].payload,
                                      by |-> session[s].by]]
    /\ \A o \in offers : /\ OfV(o) \/ OfW(o)
                         /\ o.channel.at = "v" => \E s \in Sessions : o = OwnRequest(s)
    /\ \A a \in resolved : ClientKnown(a)
    /\ \A r \in responses : Answers(r)
    /\ \A s \in Sessions : SessionKnown(s)

LEMMA ScenarioFacts ==
  ASSUME scenario \in Scenarios
  PROVE  /\ scenario.prefix \in ClientIdPrefixes
         /\ DOMAIN scenario.credentials = 1 .. Len(scenario.credentials)
         /\ Len(scenario.credentials) \in Nat
         /\ scenario.transactions # <<>> => 1 \in DOMAIN scenario.transactions
<1>1. /\ scenario.prefix \in ClientIdPrefixes
      /\ scenario.credentials \in Seq(Range(scenario.credentials))
      /\ scenario.transactions \in Seq(Range(scenario.transactions))
  BY ScenariosAssumption
<1> QED BY <1>1

\* The parts do not depend on anything else that changes.
LEMMA SameScenario ==
  ASSUME scenario' = scenario
  PROVE  /\ \A s : OwnRequest(s)' = OwnRequest(s) /\ Payload(s)' = Payload(s)
         /\ \A o : OfV(o)' <=> OfV(o)
         /\ \A a : ClientKnown(a)' <=> ClientKnown(a)
         /\ \A r : Answers(r)' <=> Answers(r)
         /\ \A s, r : Verified(s, r)' <=> Verified(s, r)
<1>1. ASSUME NEW s PROVE Payload(s)' = Payload(s)
  BY DEF Payload
<1>2. ASSUME NEW s, NEW p PROVE SignedBy(s, p)' = SignedBy(s, p)
  BY DEF SignedBy
<1>3. ASSUME NEW s PROVE OwnRequest(s)' = OwnRequest(s)
  <2>1. SignedBy("v", Payload(s))' = SignedBy("v", Payload(s))
    BY <1>1 DEF SignedBy
  <2> QED BY <1>1, <2>1 DEF OwnRequest
<1>4. ASSUME NEW o PROVE OfV(o)' <=> OfV(o)
  BY <1>1 DEF OfV
<1>5. ASSUME NEW a PROVE ClientKnown(a)' <=> ClientKnown(a)
  BY <1>4 DEF ClientKnown
<1>6. ASSUME NEW r PROVE Answers(r)' <=> Answers(r)
  BY <1>5 DEF Answers, Unauthorised
<1>7. ASSUME NEW s, NEW r PROVE Verified(s, r)' <=> Verified(s, r)
  BY <1>1 DEF Verified
<1> QED BY <1>1, <1>3, <1>4, <1>5, <1>6, <1>7
LEMMA ExchangeInit ==
  ASSUME Init
  PROVE  ExchangeInv
<1>1. scenario \in Scenarios /\ offers = {} /\ resolved = {} /\ responses = {}
      /\ session = [s \in Sessions |-> [status |-> "none", payload |-> None, by |-> None]]
  BY DEF Init
<1>2. \A s \in Sessions : session[s] = [status |-> "none", payload |-> None, by |-> None]
  BY <1>1
<1>3. \A s \in Sessions : SessionKnown(s)
  BY <1>2 DEF SessionKnown
<1>4. session = [s \in Sessions |-> [status |-> session[s].status, payload |-> session[s].payload, by |-> session[s].by]]
  BY <1>1, <1>2
<1> QED BY <1>1, <1>3, <1>4 DEF ExchangeInv

\* A session record after an update of some of its fields.
LEMMA SessionUpdates ==
  ASSUME NEW x, x = [status |-> x.status, payload |-> x.payload, by |-> x.by], NEW y, NEW z
  PROVE  /\ [x EXCEPT !.status = y] = [status |-> y, payload |-> x.payload, by |-> x.by]
         /\ [[x EXCEPT !.status = y] EXCEPT !.payload = z] = [status |-> y, payload |-> z, by |-> x.by]
         /\ [[x EXCEPT !.status = y] EXCEPT !.by = z] = [status |-> y, payload |-> x.payload, by |-> z]
<1>1. PICK st, pl, br : st = x.status /\ pl = x.payload /\ br = x.by
  OBVIOUS
<1>2. x = [status |-> st, payload |-> pl, by |-> br]
  BY <1>1
<1> DEFINE w == [x EXCEPT !.status = y]
<1>3. w = [status |-> y, payload |-> pl, by |-> br]
  BY <1>2
<1> HIDE DEF w
<1>4. [w EXCEPT !.payload = z] = [status |-> y, payload |-> z, by |-> br]
  BY <1>3
<1>5. [w EXCEPT !.by = z] = [status |-> y, payload |-> pl, by |-> z]
  BY <1>3
<1> QED BY <1>1, <1>3, <1>4, <1>5 DEF w

LEMMA CreateStep ==
  ASSUME ExchangeInv, NEW s \in Sessions, CreateAuthorizationRequest(s)
  PROVE  ExchangeInv'
<1>1. UNCHANGED <<scenario, resolved, responses, refused>> /\ session[s].status = "none"
  BY DEF CreateAuthorizationRequest
<1>2. \/ /\ session' = [session EXCEPT ![s].status = "sent", ![s].payload = Payload(s)]
         /\ offers' = offers \cup {OwnRequest(s)}
      \/ session' = [session EXCEPT ![s].status = "invalid"] /\ offers' = offers
  BY DEF CreateAuthorizationRequest, OwnRequest
<1>3. scenario' \in Scenarios
  BY <1>1 DEF ExchangeInv
<1>4. scenario.prefix \in ClientIdPrefixes
  BY ScenarioFacts DEF ExchangeInv
<1> DEFINE Shape == session = [q \in Sessions |-> [status |-> session[q].status, payload |-> session[q].payload,
                                                   by |-> session[q].by]]
<1>5. Shape
  BY DEF ExchangeInv
<1>6. /\ \A q \in Sessions \ {s} : session'[q] = session[q]
      /\ \/ session'[s] = [status |-> "sent", payload |-> Payload(s), by |-> session[s].by]
         \/ session'[s] = [status |-> "invalid", payload |-> session[s].payload, by |-> session[s].by]
      /\ DOMAIN session' = Sessions
      /\ session' = [q \in Sessions |-> session'[q]]
  <2> DEFINE Old(q) == [status |-> session[q].status, payload |-> session[q].payload, by |-> session[q].by]
  <2>1. session = [q \in Sessions |-> Old(q)]
    BY <1>5
  <2>2. session[s] = Old(s) /\ DOMAIN session = Sessions
    BY <2>1
  <2>3. CASE session' = [session EXCEPT ![s].status = "sent", ![s].payload = Payload(s)]
    <3>1. session'[s] = [[session[s] EXCEPT !.status = "sent"] EXCEPT !.payload = Payload(s)]
      BY <2>2, <2>3
    <3>2. session'[s] = [status |-> "sent", payload |-> Payload(s), by |-> session[s].by]
      BY <2>2, <3>1, SessionUpdates
    <3> QED BY <2>2, <2>3, <3>2
  <2>4. CASE session' = [session EXCEPT ![s].status = "invalid"]
    <3>1. session'[s] = [session[s] EXCEPT !.status = "invalid"]
      BY <2>2, <2>4
    <3>2. session'[s] = [status |-> "invalid", payload |-> session[s].payload, by |-> session[s].by]
      BY <2>2, <3>1, SessionUpdates
    <3> QED BY <2>2, <2>4, <3>2
  <2> QED BY <1>2, <2>3, <2>4
<1>7. Shape'
  <2>1. ASSUME NEW q \in Sessions
        PROVE  session'[q] = [status |-> session'[q].status, payload |-> session'[q].payload, by |-> session'[q].by]
    <3>1. CASE q = s
      BY <1>6, <3>1
    <3>2. CASE q # s
      BY <1>5, <1>6, <3>2
    <3> QED BY <3>1, <3>2
  <2> QED BY <1>6, <2>1
<1>8. \A q \in Sessions : SessionKnown(q)'
  <2> TAKE q \in Sessions
  <2>1. CASE q = s
    <3>1. session'[q].status \in {"sent", "invalid"} /\ (session'[q].status = "sent" => session'[q].payload = Payload(s))
      BY <1>6, <2>1
    <3>2. Payload(s)' = Payload(s)
      BY <1>1, SameScenario
    <3> QED BY <2>1, <3>1, <3>2 DEF SessionKnown
  <2>2. CASE q # s
    <3>1. SessionKnown(q) /\ session'[q] = session[q]
      BY <1>6, <2>2 DEF ExchangeInv
    <3> QED BY <1>1, <3>1, SameScenario DEF SessionKnown
  <2> QED BY <2>1, <2>2
<1>9. ASSUME NEW o \in offers'
      PROVE  (OfV(o) \/ OfW(o)) /\ (o.channel.at = "v" => \E q \in Sessions : o = OwnRequest(q))
  <2>1. CASE o \in offers
    BY <2>1 DEF ExchangeInv
  <2>2. CASE o = OwnRequest(s)
    BY <1>4, <2>2, OwnRequestMade DEF OfV
  <2> QED BY <1>2, <2>1, <2>2
<1>10. (\A o \in offers : (OfV(o) \/ OfW(o)) /\ (o.channel.at = "v" => \E q \in Sessions : o = OwnRequest(q)))'
  BY <1>1, <1>9, SameScenario
<1>11. (\A a \in resolved : ClientKnown(a))' /\ (\A r \in responses : Answers(r))'
  BY <1>1, SameScenario DEF ExchangeInv
<1> QED BY <1>3, <1>7, <1>8, <1>10, <1>11 DEF ExchangeInv

\* The sessions stay as they are when only the other variables change.
LEMMA SessionsStay ==
  ASSUME ExchangeInv, UNCHANGED <<scenario, session>>,
         \A o \in offers' : (OfV(o) \/ OfW(o)) /\ (o.channel.at = "v" => \E q \in Sessions : o = OwnRequest(q)),
         \A a \in resolved' : ClientKnown(a), \A r \in responses' : Answers(r)
  PROVE  ExchangeInv'
<1>1. \A q \in Sessions : SessionKnown(q)'
  BY SameScenario DEF SessionKnown, ExchangeInv
<1>2. (\A o \in offers : (OfV(o) \/ OfW(o)) /\ (o.channel.at = "v" => \E q \in Sessions : o = OwnRequest(q)))'
  BY SameScenario
<1>3. (\A a \in resolved : ClientKnown(a))' /\ (\A r \in responses : Answers(r))'
  BY SameScenario
<1>4. (scenario \in Scenarios)'
      /\ (session = [s \in Sessions |-> [status |-> session[s].status, payload |-> session[s].payload,
                                         by |-> session[s].by]])'
  BY DEF ExchangeInv
<1> QED BY <1>1, <1>2, <1>3, <1>4 DEF ExchangeInv

LEMMA OfferStep ==
  ASSUME ExchangeInv, OfferFromW
  PROVE  ExchangeInv'
<1>1. UNCHANGED <<scenario, session, resolved, responses, refused>>
  BY DEF OfferFromW
<1>2. PICK request \in {o \in offers : o.channel.at = "v"} : \E offer \in OffersOfW(request) : offers' = offers \cup {offer}
  BY DEF OfferFromW
<1>3. PICK offer \in OffersOfW(request) : offers' = offers \cup {offer}
  BY <1>2
<1>4. PICK s \in Sessions : request = OwnRequest(s)
  BY <1>2 DEF ExchangeInv
<1>5. (OfV(offer) \/ OfW(offer)) /\ offer.channel.at = "w"
  BY <1>3, <1>4, BroughtByW, ScenarioFacts DEF ExchangeInv
<1>6. ASSUME NEW o \in offers'
      PROVE  (OfV(o) \/ OfW(o)) /\ (o.channel.at = "v" => \E q \in Sessions : o = OwnRequest(q))
  BY <1>3, <1>5 DEF ExchangeInv
<1>7. (\A a \in resolved' : ClientKnown(a)) /\ (\A r \in responses' : Answers(r))
  BY <1>1 DEF ExchangeInv
<1> QED BY <1>1, <1>6, <1>7, SessionsStay

LEMMA ResolveStep ==
  ASSUME ExchangeInv, NEW request \in offers, ResolveAuthorizationRequest(request)
  PROVE  ExchangeInv'
<1> DEFINE a == [request |-> request, client |-> EffectiveClientId(RequestPayload(request), OriginOf(request))]
<1>1. /\ UNCHANGED <<scenario, session, offers, responses, refused>>
      /\ ResolveError(request) = Ok
      /\ resolved' = resolved \cup {a}
  BY DEF ResolveAuthorizationRequest
<1>2. a.request = request /\ a.client = EffectiveClientId(RequestPayload(request), OriginOf(request))
  OBVIOUS
<1>3. OfV(request) \/ OfW(request)
  BY DEF ExchangeInv
<1> HIDE DEF a
<1>4. PICK party : MadeBy(request, party) /\ (OfW(request) => party = "w" \/ MadeBy(request, "w"))
  BY <1>3 DEF OfV, OfW
<1>5. RegisteredDestination(a) => Destination(request) = a.client.id
  BY <1>1, <1>2, <1>4, NamedClient DEF RegisteredDestination
<1>6. OfW(request) => Destination(request) = "w"
  <2> SUFFICES ASSUME OfW(request) PROVE Destination(request) = "w"
    OBVIOUS
  <2>1. MadeBy(request, "w") /\ request.channel.at = "w"
    BY DEF OfW
  <2> QED BY <1>1, <2>1, DestinationOf
<1>7. ClientKnown(a)
  BY <1>2, <1>3, <1>5, <1>6 DEF ClientKnown
<1>8. /\ \A x \in resolved' : ClientKnown(x)
      /\ \A r \in responses' : Answers(r)
      /\ \A o \in offers' : (OfV(o) \/ OfW(o)) /\ (o.channel.at = "v" => \E q \in Sessions : o = OwnRequest(q))
  BY <1>1, <1>7 DEF ExchangeInv
<1> QED BY <1>1, <1>8, SessionsStay
\* A response, as the wallet makes it of an accepted request.
ResponseTo(a, presented) ==
    LET p == RequestPayload(a.request)
    IN  [accepted |-> a, to |-> Destination(a.request), state |-> p.state, nonce |-> p.nonce, aud |-> a.client,
         presented |-> presented, jarm |-> Jarm(p, a.client, scenario.wallet)]

LEMMA AnswerMade ==
  ASSUME ExchangeInv, NEW a \in resolved, RegisteredDestination(a), NEW presented, Unauthorised(presented)
  PROVE  Answers(ResponseTo(a, presented))
<1> DEFINE r == ResponseTo(a, presented)
<1>1. /\ r.accepted = a /\ r.to = Destination(a.request) /\ r.nonce = RequestPayload(a.request).nonce
      /\ r.aud = a.client /\ r.presented = presented
  BY DEF ResponseTo
<1>2. ClientKnown(a)
  BY DEF ExchangeInv
<1> HIDE DEF r
<1>3. r.to = r.aud.id
  BY <1>1, <1>2 DEF ClientKnown
<1>4. Answers(r)
  BY <1>1, <1>2, <1>3 DEF Answers
<1> QED BY <1>4 DEF r

LEMMA AnswerStep ==
  ASSUME ExchangeInv, NEW a \in resolved, CreateAuthorizationResponse(a)
  PROVE  ExchangeInv'
<1> DEFINE query == scenario.query
           result == RunDcqlQuery(query, scenario.credentials)
           matched == {id \in DOMAIN result.matches : result.matches[id] # {}}
           For(id) == PresentationsFor(QueryWithId(query, id), result.matches[id])
<1>1. UNCHANGED <<scenario, session, offers, resolved, refused>> /\ RegisteredDestination(a)
  BY DEF CreateAuthorizationResponse
<1>2. PICK chosen \in {c \in SUBSET matched : CanBeSatisfied(query, c)} :
        \E presented \in [chosen -> UNION {For(id) : id \in chosen}] :
            /\ \A id \in chosen : presented[id] \in For(id)
            /\ responses' = responses \cup {ResponseTo(a, presented)}
  BY DEF CreateAuthorizationResponse, ResponseTo
<1>3. PICK presented \in [chosen -> UNION {For(id) : id \in chosen}] :
            /\ \A id \in chosen : presented[id] \in For(id)
            /\ responses' = responses \cup {ResponseTo(a, presented)}
  BY <1>2
<1>4. ASSUME NEW id \in chosen
      PROVE  /\ IsFiniteSet(result.matches[id])
             /\ \A i \in result.matches[id] :
                   ValidClaimSets(QueryWithId(query, id), scenario.credentials[i], FALSE) # {}
  <2>1. id \in DOMAIN result.matches
    BY <1>2
  <2> DEFINE matches == [x \in QueryIds(query) |-> RunCredentialQuery(QueryWithId(query, x), scenario.credentials, FALSE)]
  <2>2. result.matches = matches
    BY DEF RunDcqlQuery
  <2>3. result.matches[id] = RunCredentialQuery(QueryWithId(query, id), scenario.credentials, FALSE)
    BY <2>1, <2>2
  <2>4. result.matches[id] \subseteq DOMAIN scenario.credentials
    BY <2>3 DEF RunCredentialQuery
  <2>5. IsFiniteSet(DOMAIN scenario.credentials)
    <3>1. PICK n \in Nat : DOMAIN scenario.credentials = 1 .. n
      BY ScenarioFacts DEF ExchangeInv
    <3> QED BY <3>1, FS_Interval
  <2>6. \A i \in result.matches[id] : ValidClaimSets(QueryWithId(query, id), scenario.credentials[i], FALSE) # {}
    BY <2>3 DEF RunCredentialQuery, CredentialMatches
  <2> HIDE DEF result
  <2> QED BY <2>4, <2>5, <2>6, FS_Subset
<1>5. Unauthorised(presented)
  <2> SUFFICES ASSUME ~scenario.wallet.approves, NEW id \in DOMAIN presented, presented[id] # <<>>
               PROVE  \E q \in ToSet(presented[id]) : q.hashes = {}
    BY DEF Unauthorised
  <2> DEFINE cq == QueryWithId(query, id)
             ms == result.matches[id]
  <2>1. id \in chosen /\ presented[id] \in PresentationsFor(cq, ms)
    BY <1>3
  <2>2. IsFiniteSet(ms) /\ \A i \in ms : ValidClaimSets(cq, scenario.credentials[i], FALSE) # {}
    BY <1>4, <2>1
  <2> HIDE DEF cq, ms
  <2> QED BY <2>1, <2>2, PresentationsCarry
<1>6. Answers(ResponseTo(a, presented))
  BY <1>1, <1>5, AnswerMade
<1>7. /\ \A x \in resolved' : ClientKnown(x)
      /\ \A r \in responses' : Answers(r)
      /\ \A o \in offers' : (OfV(o) \/ OfW(o)) /\ (o.channel.at = "v" => \E q \in Sessions : o = OwnRequest(q))
  BY <1>1, <1>3, <1>6 DEF ExchangeInv
<1> QED BY <1>1, <1>7, SessionsStay

\* What V checks before it accepts.
LEMMA AcceptsVerified ==
  ASSUME ExchangeInv, NEW s \in Sessions, NEW r, session[s].status = "sent", Accepts(s, r)
  PROVE  Verified(s, r)
<1>1. session[s].payload = Payload(s)
  BY DEF ExchangeInv, SessionKnown
<1>2. HolderBound(r) => r.nonce = s /\ r.aud = EffectiveClientId(Payload(s), "v")
  <2>1. Payload(s).nonce = s
    BY DEF Payload
  <2> QED BY <1>1, <2>1 DEF Accepts, PresentationsVerify
<1>3. \A id \in DOMAIN r.presented : r.presented[id] # <<>>
  BY DEF Accepts, FromDcqlPresentation, PresentationRefused
<1> QED BY <1>2, <1>3 DEF Accepts, Verified

LEMMA ParseStep ==
  ASSUME ExchangeInv, NEW s \in Sessions, NEW r \in responses, ParseAuthorizationResponse(s, r)
  PROVE  ExchangeInv'
<1>1. session[s].status = "sent" /\ UNCHANGED <<scenario, offers, resolved, responses>>
  BY DEF ParseAuthorizationResponse
<1>2. /\ \A x \in resolved' : ClientKnown(x)
      /\ \A q \in responses' : Answers(q)
      /\ \A o \in offers' : (OfV(o) \/ OfW(o)) /\ (o.channel.at = "v" => \E q \in Sessions : o = OwnRequest(q))
  BY <1>1 DEF ExchangeInv
<1>3. CASE ~Accepts(s, r)
  <2>1. UNCHANGED session
    BY <1>3 DEF ParseAuthorizationResponse
  <2> QED BY <1>1, <1>2, <2>1, SessionsStay
<1>4. CASE Accepts(s, r)
  <2>1. session' = [session EXCEPT ![s].status = "accepted", ![s].by = r]
    BY <1>4 DEF ParseAuthorizationResponse
  <2> DEFINE Old(q) == [status |-> session[q].status, payload |-> session[q].payload, by |-> session[q].by]
  <2>2. session = [q \in Sessions |-> Old(q)]
    BY DEF ExchangeInv
  <2>3. session[s] = Old(s) /\ DOMAIN session = Sessions
    BY <2>2
  <2>4. session'[s] = [[session[s] EXCEPT !.status = "accepted"] EXCEPT !.by = r]
    BY <2>1, <2>3
  <2>5. session'[s] = [status |-> "accepted", payload |-> session[s].payload, by |-> r]
    BY <2>3, <2>4, SessionUpdates
  <2>6. \A q \in Sessions \ {s} : session'[q] = session[q]
    BY <2>1, <2>3
  <2>7. session' = [q \in Sessions |-> session'[q]]
    BY <2>1, <2>3
  <2>8. (session = [q \in Sessions |-> [status |-> session[q].status, payload |-> session[q].payload, by |-> session[q].by]])'
    <3>1. ASSUME NEW q \in Sessions
          PROVE  session'[q] = [status |-> session'[q].status, payload |-> session'[q].payload, by |-> session'[q].by]
      <4>1. CASE q = s
        BY <2>5, <4>1
      <4>2. CASE q # s
        BY <2>2, <2>6, <4>2
      <4> QED BY <4>1, <4>2
    <3> QED BY <2>7, <3>1
  <2>9. \A q \in Sessions : SessionKnown(q)'
    <3> TAKE q \in Sessions
    <3>1. CASE q = s
      <4>1. session[s].payload = Payload(s) /\ Payload(s)' = Payload(s)
        BY <1>1, SameScenario DEF ExchangeInv, SessionKnown
      <4>2. Answers(r) /\ Verified(s, r)
        BY <1>1, <1>4, AcceptsVerified DEF ExchangeInv
      <4>3. Answers(r)' /\ Verified(s, r)'
        BY <1>1, <4>2, SameScenario
      <4> QED BY <2>5, <3>1, <4>1, <4>3 DEF SessionKnown
    <3>2. CASE q # s
      <4>1. SessionKnown(q) /\ session'[q] = session[q]
        BY <2>6, <3>2 DEF ExchangeInv
      <4> QED BY <1>1, <4>1, SameScenario DEF SessionKnown
    <3> QED BY <3>1, <3>2
  <2>10. (\A o \in offers : (OfV(o) \/ OfW(o)) /\ (o.channel.at = "v" => \E q \in Sessions : o = OwnRequest(q)))'
    BY <1>1, <1>2, SameScenario
  <2>11. (\A x \in resolved : ClientKnown(x))' /\ (\A q \in responses : Answers(q))'
    BY <1>1, <1>2, SameScenario
  <2>12. (scenario \in Scenarios)'
    BY <1>1 DEF ExchangeInv
  <2> QED BY <2>8, <2>9, <2>10, <2>11, <2>12 DEF ExchangeInv
<1> QED BY <1>3, <1>4

LEMMA ExchangeStep ==
  ASSUME ExchangeInv, [Next]_vars
  PROVE  ExchangeInv'
<1>1. CASE UNCHANGED vars
  <2>1. UNCHANGED <<scenario, session, offers, resolved, responses>>
    BY <1>1 DEF vars
  <2> QED BY <2>1, SessionsStay DEF ExchangeInv
<1> QED BY <1>1, CreateStep, OfferStep, ResolveStep, AnswerStep, ParseStep DEF Next

THEOREM ExchangeInvariant == Spec => []ExchangeInv
<1> QED BY ExchangeInit, ExchangeStep, PTL DEF Spec

\* Whatever another verifier relays, rewraps or signs, credentials only go to
\* the party that the client identifier the wallet showed its user names.
THEOREM DisclosedToNamed == Spec => []DisclosedToNamedClient
<1>1. ExchangeInv => DisclosedToNamedClient
  BY DEF ExchangeInv, Answers, DisclosedToNamedClient
<1> QED BY <1>1, ExchangeInvariant, PTL

\* What carries the nonce and the audience of a session was made for its request.
LEMMA MadeForSession ==
  ASSUME NEW s, NEW r, Answers(r), r.nonce = s, r.aud = EffectiveClientId(Payload(s), "v")
  PROVE  RequestPayload(r.accepted.request) = Payload(s) /\ r.to = "v"
<1> DEFINE request == r.accepted.request
           p == RequestPayload(request)
<1>1. /\ ClientKnown(r.accepted) /\ r.to = Destination(request) /\ r.to = r.aud.id
      /\ r.aud = EffectiveClientId(p, OriginOf(request)) /\ p.nonce = s
  BY DEF Answers, ClientKnown
<1>2. r.aud.id = "v" /\ (r.aud.prefix = "origin" => Payload(s).id = None)
  <2>1. /\ Payload(s).prefix = scenario.prefix
        /\ Payload(s).id = IF scenario.prefix = "origin" THEN None ELSE "v"
    BY DEF Payload
  <2> QED BY <2>1 DEF EffectiveClientId
<1>3. OfV(request)
  <2>1. Destination(request) # "w"
    BY <1>1, <1>2
  <2> QED BY <1>1, <2>1 DEF ClientKnown
<1>4. PICK q \in Sessions : PayloadMade(request) = Payload(q)
  BY <1>3 DEF OfV
<1>5. p.nonce = PayloadMade(request).nonce
  <2>1. p["nonce"] = PayloadMade(request)["nonce"]
    BY <1>3, ReadAsMade DEF OfV, MadeBy, PayloadFields
  <2> QED BY <2>1
<1>6. q = s
  BY <1>1, <1>4, <1>5 DEF Payload
<1>7. CASE request.jar = None /\ PayloadMade(request).mode \in DcApiModes
  <2>1. p = [Payload(s) EXCEPT !.id = None]
    BY <1>3, <1>4, <1>6, <1>7, ReadAsMade DEF OfV
  <2>2. p.id = None
    BY <2>1 DEF Payload
  <2>3. Payload(s).id = None
    BY <1>1, <1>2, <2>2 DEF EffectiveClientId
  <2>4. [Payload(s) EXCEPT !.id = None] = Payload(s)
    BY <2>3 DEF Payload
  <2> QED BY <1>1, <1>2, <2>1, <2>4
<1>8. CASE ~(request.jar = None /\ PayloadMade(request).mode \in DcApiModes)
  BY <1>1, <1>2, <1>3, <1>4, <1>6, <1>8, ReadAsMade DEF OfV
<1> QED BY <1>7, <1>8

\* A response V accepts in a session, with a credential bound to its holder,
\* answers the request of that session and was sent to V; and no transaction
\* is authorised that the wallet did not approve.
THEOREM AcceptedInSession == Spec => []AcceptedForItsSession
<1>1. ASSUME ExchangeInv, NEW s \in Sessions, session[s].status = "accepted"
      PROVE  /\ HolderBound(session[s].by) => MadeFor(s, session[s].by)
             /\ scenario.transactions # <<>> => scenario.wallet.approves
  <2> DEFINE r == session[s].by
  <2>1. session[s].payload = Payload(s) /\ Answers(r) /\ Verified(s, r)
    BY <1>1 DEF ExchangeInv, SessionKnown
  <2> HIDE DEF r
  <2>2. HolderBound(r) => MadeFor(s, r)
    <3>1. HolderBound(r) => r.nonce = s /\ r.aud = EffectiveClientId(Payload(s), "v")
      BY <2>1 DEF Verified
    <3> QED BY <2>1, <3>1, MadeForSession DEF MadeFor
  <2>3. ASSUME scenario.transactions # <<>>, ~scenario.wallet.approves PROVE FALSE
    <3>1. 1 \in DOMAIN scenario.transactions
      BY <1>1, <2>3, ScenarioFacts DEF ExchangeInv
    <3>2. EntryVerifies(scenario.transactions[1], 1, r.presented)
      BY <2>1, <3>1 DEF Verified, TransactionsVerify
    <3> DEFINE ids == scenario.transactions[1].ids
    <3>3. PICK i \in DOMAIN ids : ids[i] \in DOMAIN r.presented
                                  /\ \A q \in ToSet(r.presented[ids[i]]) : 1 \in q.hashes
      BY <3>2 DEF EntryVerifies
    <3> HIDE DEF ids
    <3>4. r.presented[ids[i]] # <<>>
      BY <2>1, <3>3 DEF Verified
    <3>5. PICK q \in ToSet(r.presented[ids[i]]) : q.hashes = {}
      BY <2>1, <2>3, <3>3, <3>4 DEF Answers, Unauthorised
    <3> QED BY <3>3, <3>5
  <2> QED BY <2>2, <2>3 DEF r
<1>2. ExchangeInv => AcceptedForItsSession
  BY <1>1 DEF AcceptedForItsSession
<1> QED BY <1>2, ExchangeInvariant, PTL
=============================================================================
