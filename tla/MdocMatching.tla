---------------------------- MODULE MdocMatching ----------------------------
(***************************************************************************)
(* Matching a device request with what a credential can disclose (holder)  *)
(* or a document disclosed (verifier): matchElements, matchDeviceRequest   *)
(* and the reports of mdoc/src/utils/matchDeviceRequest.ts, and which      *)
(* document of a device response answers which doc request                 *)
(* (mdoc/src/utils/attribution.ts); and what the holder makes of the       *)
(* user's choice (mdoc/src/mdoc/models/device-response.ts).                *)
(*                                                                         *)
(* An element is a pair <<namespace, identifier>>.  A subject (credential  *)
(* or document) is a record [docType, issuers, items, authorized]: the     *)
(* docType of its mobile security object, the authority key identifiers of *)
(* its certificate chain, items [element, value, source] and the key       *)
(* authorizations.  A result that may be undefined is a set of at most one *)
(* element.                                                                *)
(***************************************************************************)
EXTENDS Integers, Sequences, FiniteSets, SequencesExt

CONSTANT AgeOf  \* the NN of each age_over_NN identifier

ASSUME AgeOfAssumption == \A id \in DOMAIN AgeOf : AgeOf[id] \in 0 .. 99

(***************************************************************************)
(* Attribution.  A response does not say which doc request a document      *)
(* answers, so the verifier infers it: a doc request with                  *)
(* uniqueDocSetRequired takes one document, the others every candidate.    *)
(*                                                                         *)
(* matches is a sequence with one record per doc request:                  *)
(* [unique, candidates, valid], the last two sets of document indexes with *)
(* valid \subseteq candidates.                                             *)
(***************************************************************************)
Ascending(S) == SetToSortSeq(S, <)

CandidatesOf(matches, d) == {r \in DOMAIN matches : d \in matches[r].candidates}

\* The documents that only doc requests with uniqueDocSetRequired may answer.
OnlyUnique(matches) ==
    {d \in UNION {matches[r].candidates : r \in DOMAIN matches} :
        \A r \in CandidatesOf(matches, d) : matches[r].unique}

-----------------------------------------------------------------------------
(* Kuhn's algorithm.  takenBy maps the doc requests taken so far to their  *)
(* documents, next gives the doc requests a document may take, in order.   *)

\* A doc request for d, if need be one whose document moves on to another:
\* from[x, i, visited] does so for x over its neighbours from position i on.
Augment(next, d, takenBy) ==
    LET Free(x) == SelectSeq(next[x], LAMBDA r : r \notin DOMAIN takenBy)
        from[x \in DOMAIN next, i \in Nat, visited \in SUBSET DOMAIN takenBy] ==
            IF Free(x) # <<>>
            THEN [ok |-> TRUE, takenBy |-> (Free(x)[1] :> x) @@ takenBy, visited |-> visited]
            ELSE IF i > Len(next[x]) THEN [ok |-> FALSE, takenBy |-> takenBy, visited |-> visited]
            ELSE IF next[x][i] \in visited THEN from[x, i + 1, visited]
            ELSE LET r == next[x][i]
                     moved == from[takenBy[r], 1, visited \cup {r}]
                 IN IF moved.ok THEN [moved EXCEPT !.takenBy = (r :> x) @@ moved.takenBy]
                    ELSE from[x, i + 1, moved.visited]
    IN from[d, 1, {}].takenBy

\* Mutant: first come, first served, without moving a document aside.
GreedyMatching(documents, next) ==
    FoldLeft(LAMBDA takenBy, d :
                 LET free == SelectSeq(next[d], LAMBDA r : r \notin DOMAIN takenBy)
                 IN IF free = <<>> THEN takenBy ELSE (free[1] :> d) @@ takenBy,
             <<>>, Ascending(documents))

MaximumMatching(documents, next) ==
    FoldLeft(LAMBDA takenBy, d : Augment(next, d, takenBy),
             <<>>, Ascending(documents))

Taken(takenBy) == {takenBy[r] : r \in DOMAIN takenBy}

MayTake(matches) == [d \in OnlyUnique(matches) |-> Ascending(CandidatesOf(matches, d))]

\* The queue of findExcess: along a candidate, and back along its document.
FindExcess(matches, takenBy) ==
    LET Further(documents) == {takenBy[r] : r \in DOMAIN takenBy \cap
                                UNION {CandidatesOf(matches, d) : d \in documents}}
        reached[documents \in SUBSET OnlyUnique(matches)] ==
            IF Further(documents) \subseteq documents THEN documents
            ELSE reached[documents \cup Further(documents)]
    IN reached[OnlyUnique(matches) \ Taken(takenBy)]

\* Documents too many.
ExcessDocuments(matches) ==
    FindExcess(matches, MaximumMatching(OnlyUnique(matches), MayTake(matches)))

-----------------------------------------------------------------------------
(* createAttribution: the documents too many, the doc requests that have   *)
(* them, and the documents that each need a doc request of their own.      *)

AttributionFor(matches, excess) ==
    [matches |-> matches, excess |-> excess,
     excessDocRequests |-> UNION {CandidatesOf(matches, d) : d \in excess},
     remaining |-> OnlyUnique(matches) \ excess]

CreateAttribution(matches) == AttributionFor(matches, ExcessDocuments(matches))

\* A doc request per remaining document; a required one only takes a
\* document that satisfies it.
ShareOut(attribution, required) ==
    LET matches == attribution.matches
        next == [d \in attribution.remaining |->
                    SelectSeq(Ascending(CandidatesOf(matches, d)),
                              LAMBDA r : r \notin attribution.excessDocRequests
                                         /\ (r \in required => d \in matches[r].valid))]
    IN MaximumMatching(attribution.remaining, next)

CanAnswer(attribution, required) ==
    /\ \A r \in required : /\ attribution.matches[r].valid # {}
                           /\ r \notin attribution.excessDocRequests
    /\ Taken(ShareOut(attribution, required)) = attribution.remaining

\* The documents each doc request answers when it is left those of takes: one
\* that takes none answers with the first document that satisfies it.
AnswerWith(attribution, takes) ==
    [r \in DOMAIN attribution.matches |->
        LET match == attribution.matches[r] IN
        IF ~ match.unique THEN match.candidates
        ELSE IF r \in attribution.excessDocRequests THEN {}
        ELSE IF r \in DOMAIN takes THEN {takes[r]}
        ELSE {d \in match.valid : \A e \in match.valid : d <= e}]

Answer(attribution, required) ==
    AnswerWith(attribution, IF Taken(ShareOut(attribution, required)) = attribution.remaining
                            THEN ShareOut(attribution, required) ELSE <<>>)

-----------------------------------------------------------------------------
(* The same in one definition each, as the comment of createAttribution    *)
(* puts it, without an algorithm.                                          *)

Injections(documents, requestsOf(_)) ==
    {f \in [documents -> UNION {requestsOf(d) : d \in documents}] :
        /\ \A d \in documents : f[d] \in requestsOf(d)
        /\ \A d, e \in documents : f[d] = f[e] => d = e}

\* The largest sets of documents that can each have a doc request of its own.
MaximumServed(matches) ==
    LET served == {D \in SUBSET OnlyUnique(matches) :
                       Injections(D, LAMBDA d : CandidatesOf(matches, d)) # {}}
    IN {D \in served : \A E \in served : Cardinality(E) <= Cardinality(D)}

TooMany(matches) ==
    {d \in OnlyUnique(matches) : \E D \in MaximumServed(matches) : d \notin D}

Answerable(matches, required) ==
    LET excess == UNION {CandidatesOf(matches, d) : d \in TooMany(matches)}
    IN /\ \A r \in required : matches[r].valid # {} /\ r \notin excess
       /\ Injections(OnlyUnique(matches) \ TooMany(matches),
                     LAMBDA d : {r \in CandidatesOf(matches, d) \ excess :
                                     r \in required => d \in matches[r].valid}) # {}

-----------------------------------------------------------------------------
IsAge(e) == e[2] \in DOMAIN AgeOf

ElementsOf(items) == {i.element : i \in items}

-----------------------------------------------------------------------------
(* Age attestations and key authorizations                                 *)

\* The nearest true for NN or more, else the nearest false for NN or less.
FindAgeOverCandidate(e, items) ==
    LET ages == {i \in items : IsAge(i.element) /\ i.element[1] = e[1]}
        NN(x) == AgeOf[x[2]]
        yes == {i \in ages : i.value = "true" /\ NN(i.element) >= NN(e)}
        no == {i \in ages : i.value = "false" /\ NN(i.element) <= NN(e)}
    IN IF ~ IsAge(e) THEN {}
       ELSE IF yes # {} THEN {i \in yes : \A j \in yes : NN(i.element) <= NN(j.element)}
       ELSE {i \in no : \A j \in no : NN(i.element) >= NN(j.element)}

\* findElement: by identifier, else by the substitution for ages.
FindElement(e, items) ==
    LET exact == {i \in items : i.element = e}
    IN IF exact # {} THEN exact ELSE FindAgeOverCandidate(e, items)

\* findAgeOverLimitViolations: more than two in a namespace.
AgeOverLimitExceeded(elements) ==
    \E e \in elements :
        Cardinality({x \in elements : IsAge(x) /\ x[1] = e[1]}) > 2

IsDeviceSignedElementAuthorized(authorized, e) ==
    e[1] \in authorized.namespaces \/ e \in authorized.elements

-----------------------------------------------------------------------------
(* matchElements.  An option is a number: 0 for the element itself, k for  *)
(* its k-th alternative set; the first that is offered answers the claim.  *)

FromSource(subject, source) == {i \in subject.items : i.source = source}

AuthorizedDeviceSigned(subject) ==
    {i \in FromSource(subject, "deviceSigned") :
        IsDeviceSignedElementAuthorized(subject.authorized, i.element)}

Expected(request, e) ==
    IF e \in DOMAIN request.expects THEN request.expects[e]
    ELSE [source |-> "issuerSigned", optional |-> FALSE]

Else(first, second) == IF first # {} THEN first ELSE second

Lookup(mode, request, subject, e) ==
    LET issuer == FindElement(e, FromSource(subject, "issuerSigned"))
        device == FindElement(e, AuthorizedDeviceSigned(subject))
        exactly == {i \in AuthorizedDeviceSigned(subject) : i.element = e}
    IN IF mode = "holder" THEN Else(issuer, exactly)
       ELSE CASE Expected(request, e).source = "deviceSigned" -> device
              [] Expected(request, e).source = "issuerSigned" -> issuer
              [] OTHER -> Else(issuer, device)

AlternativeSets(request, e) ==
    IF e \in DOMAIN request.alternatives THEN request.alternatives[e] ELSE <<>>

OptionFor(request, e, k) == IF k = 0 THEN {e} ELSE AlternativeSets(request, e)[k]

OptionElements(mode, request, subject, e, k) ==
    UNION {Lookup(mode, request, subject, x) : x \in OptionFor(request, e, k)}

\* findAlternatives and optionsFor: the options whose elements all are there.
OptionsFor(mode, request, subject, e) ==
    {k \in 0 .. Len(AlternativeSets(request, e)) :
        \A x \in OptionFor(request, e, k) : Lookup(mode, request, subject, x) # {}}

\* A holder offers no alternative set that, beside the elements of the other
\* claims, would disclose more than two age attestations in a namespace.
Options(mode, request, subject, e) ==
    LET others == UNION {Lookup(mode, request, subject, x) : x \in request.elements \ {e}}
    IN {k \in OptionsFor(mode, request, subject, e) :
           \/ mode = "verifier"
           \/ k = 0
           \/ ~ AgeOverLimitExceeded(ElementsOf(
                    others \cup OptionElements(mode, request, subject, e, k)))}

FirstOption(options) == CHOOSE k \in options : \A l \in options : k <= l

\* toClaimsMatchResult
ClaimsMatch(mode, request, subject) ==
    \A e \in request.elements :
        \/ Options(mode, request, subject, e) # {}
        \/ mode = "verifier" /\ Expected(request, e).optional

\* unusedElements: what no claim, failed claim or alternative set asked for.
UnrequestedClaims(request, subject) ==
    LET All(e) == FindElement(e, FromSource(subject, "issuerSigned"))
                  \cup FindElement(e, FromSource(subject, "deviceSigned"))
        UsedFor(e) ==
            LET options == Options("verifier", request, subject, e)
            IN IF options = {} THEN All(e)
               ELSE OptionElements("verifier", request, subject, e, FirstOption(options))
        alternatives == UNION {UNION Range(AlternativeSets(request, e)) : e \in request.elements}
    IN subject.items \ (UNION {UsedFor(e) : e \in request.elements}
                        \cup UNION {Lookup("verifier", request, subject, x) : x \in alternatives})

\* matchIssuer: undefined identifiers ({}) accept every issuer.
MatchIssuer(request, subject) ==
    request.issuers # {} => request.issuers \cap subject.issuers # {}

-----------------------------------------------------------------------------
(* Use cases: sequences of [mandatory, sets], sets a sequence of sets of   *)
(* doc request indexes.                                                    *)

ResolveUseCases(deviceRequest, asAlternatives) ==
    LET all == DOMAIN deviceRequest.docRequests
    IN IF deviceRequest.useCases # <<>> THEN deviceRequest.useCases
       ELSE IF asAlternatives /\ Cardinality(all) > 1
       THEN [r \in all |-> [mandatory |-> FALSE, sets |-> <<{r}>>]]
       ELSE <<[mandatory |-> TRUE, sets |-> <<all>>]>>

\* matchUseCases: per use case its satisfied sets, and whether that is enough.
MatchingSets(attribution, satisfied, useCase) ==
    SelectSeq(useCase.sets, LAMBDA set : set \subseteq satisfied /\ CanAnswer(attribution, set))

UseCasesMatch(attribution, satisfied, useCases) ==
    LET Success(u) == MatchingSets(attribution, satisfied, useCases[u]) # <<>>
    IN /\ \A u \in DOMAIN useCases : useCases[u].mandatory => Success(u)
       /\ \E u \in DOMAIN useCases : Success(u)

\* The sets that most documents may answer first.
MostDocumentsFirst(attribution, sets) ==
    LET Documents(i) == Cardinality(UNION {attribution.matches[r].candidates : r \in sets[i]})
        order == SetToSortSeq(DOMAIN sets, LAMBDA i, j :
                     \/ Documents(i) > Documents(j)
                     \/ Documents(i) = Documents(j) /\ i < j)
    IN [i \in DOMAIN sets |-> sets[order[i]]]

Preferred(attribution, satisfied, useCase) ==
    MostDocumentsFirst(attribution, MatchingSets(attribution, satisfied, useCase))

\* The search of chooseDocumentSets over the mandatory use cases after those
\* that chosen has sets for; {} when no choice works.
Search(attribution, preferred) ==
    LET search[chosen \in Seq(SUBSET DOMAIN attribution.matches)] ==
            IF Len(chosen) = Len(preferred) THEN {chosen}
            ELSE LET found == SelectSeq(preferred[Len(chosen) + 1], LAMBDA set :
                         /\ CanAnswer(attribution, UNION Range(chosen) \cup set)
                         /\ search[Append(chosen, set)] # {})
                 IN IF found = <<>> THEN {} ELSE search[Append(chosen, found[1])]
    IN search[<<>>]

\* chooseDocumentSets: the sets answered, or {} when none can be.
ChooseDocumentSets(attribution, satisfied, useCases) ==
    LET mandatory == SelectSeq(useCases, LAMBDA u : u.mandatory)
        optional == SelectSeq(useCases, LAMBDA u : ~ u.mandatory)
        Add(chosen, useCase) ==
            LET fitting == SelectSeq(Preferred(attribution, satisfied, useCase), LAMBDA set :
                               CanAnswer(attribution, UNION Range(chosen) \cup set))
            IN IF fitting = <<>> THEN chosen ELSE Append(chosen, fitting[1])
        preferred == [u \in DOMAIN mandatory |-> Preferred(attribution, satisfied, mandatory[u])]
    IN {FoldLeft(Add, first, optional) : first \in Search(attribution, preferred)} \ {<<>>}

-----------------------------------------------------------------------------
(* matchDeviceRequest: documents is a sequence of                          *)
(* [docType, subject], the subject with the issuers of the chain that was  *)
(* validated.                                                              *)

DocTypeMatches(request, document) ==
    document.docType = request.docType /\ document.subject.docType = request.docType

Candidates(request, documents) ==
    {d \in DOMAIN documents : /\ DocTypeMatches(request, documents[d])
                              /\ MatchIssuer(request, documents[d].subject)}

Matches(deviceRequest, documents) ==
    [r \in DOMAIN deviceRequest.docRequests |->
        LET request == deviceRequest.docRequests[r]
        IN [unique |-> request.unique,
            candidates |-> Candidates(request, documents),
            valid |-> {d \in Candidates(request, documents) :
                          ClaimsMatch("verifier", request, documents[d].subject)}]]

\* The doc requests that succeed on their own.
SatisfiedDocRequests(attribution) ==
    {r \in DOMAIN attribution.matches :
        LET match == attribution.matches[r]
        IN /\ match.valid # {}
           /\ match.unique => /\ match.candidates \cap attribution.excess = {}
                              /\ CanAnswer(attribution, {r})}

\* The verdict on the documents: satisfied doc requests, whether they make up
\* the use cases, and the document sets chosen.
ResultFor(attribution, satisfied, useCases) ==
    LET matched == UseCasesMatch(attribution, satisfied, useCases)
    IN [satisfied |-> satisfied, matched |-> matched,
        chosen |-> IF matched THEN ChooseDocumentSets(attribution, satisfied, useCases) ELSE {}]

MatchDeviceRequest(deviceRequest, attribution, asAlternatives) ==
    ResultFor(attribution, SatisfiedDocRequests(attribution),
              ResolveUseCases(deviceRequest, asAlternatives))

\* reportDeviceRequestMatch: whether it reports a FAILED check.  Doc requests
\* or use cases that fail only together have a check of their own.
ReportFails(deviceRequest, result, asAlternatives) ==
    LET all == DOMAIN deviceRequest.docRequests
        allDocRequests == /\ deviceRequest.useCases = <<>>
                          /\ ~ (asAlternatives /\ Cardinality(all) > 1)
        eachDocRequest == deviceRequest.useCases = <<>> /\ ~ allDocRequests
    IN \/ deviceRequest.useCases # <<>> /\ ~ result.matched
       \/ eachDocRequest /\ result.chosen = {}
       \/ allDocRequests /\ result.satisfied # all
       \/ result.chosen = {} /\ (result.matched \/ (allDocRequests /\ result.satisfied = all))

\* findOverDisclosure: what none of the doc requests of its docType asked for.
OverDisclosure(deviceRequest, documents, d) ==
    LET asked == {r \in DOMAIN deviceRequest.docRequests :
                     DocTypeMatches(deviceRequest.docRequests[r], documents[d])}
    IN {i \in documents[d].subject.items : asked # {} /\
           \A r \in asked : i \in UnrequestedClaims(deviceRequest.docRequests[r],
                                                    documents[d].subject)}

(***************************************************************************)
(* The holder's answer: which credentials satisfy a device request         *)
(* (matchCredentialsToDeviceRequest) and which documents                   *)
(* DeviceResponse.createWithDeviceRequest makes of what the user chose.    *)
(*                                                                         *)
(* The user's choice for a document is a record                            *)
(* [credential, docRequests, selected, alternatives]: the credential, the  *)
(* indexes of the doc requests it answers, the requested elements to       *)
(* disclose, and for some of them the alternative set to disclose instead. *)
(* A call that throws gives {}, one that returns gives a singleton.        *)
(***************************************************************************)
-----------------------------------------------------------------------------
(* matchCredentialsToDeviceRequest                                         *)

ValidCredentials(request, credentials) ==
    {c \in DOMAIN credentials :
        /\ ~ AgeOverLimitExceeded(request.elements)   \* else invalidDocRequest
        /\ credentials[c].docType = request.docType
        /\ MatchIssuer(request, credentials[c])
        /\ ClaimsMatch("holder", request, credentials[c])}

-----------------------------------------------------------------------------
(* What the doc requests of one document request together                  *)

\* The different alternatives that the doc requests have for an element.
AlternativesOf(requests, e) ==
    {AlternativeSets(q, e) : q \in {q \in requests : e \in q.elements}}

MergeDocRequests(requests) ==
    LET elements == UNION {q.elements : q \in requests}
        agreed == {e \in elements : Cardinality(AlternativesOf(requests, e)) = 1}
    IN [elements |-> elements,
        alternatives |-> [e \in agreed |-> CHOOSE s \in AlternativesOf(requests, e) : TRUE]]

\* Mutant: only the identifiers the user left out are kept back.
DeclinedByName(request, credential, selected) ==
    {i \in credential.items : i.element \in request.elements \ selected}

\* The elements the user left out, as the credential would answer them.
Declined(request, credential, selected) ==
    UNION {Lookup("holder", request, credential, e) : e \in request.elements \ selected}

\* The errors of the choice itself.
SelectionIsValid(request, selected, alternatives) ==
    /\ selected \subseteq request.elements
    /\ DOMAIN alternatives \subseteq selected
    /\ \A e \in DOMAIN alternatives :
           alternatives[e] \in DOMAIN AlternativeSets(request, e)

ChosenOption(alternatives, e) == IF e \in DOMAIN alternatives THEN alternatives[e] ELSE 0

SelectElements(request, credential, selected, alternatives) ==
    LET DisclosedFor(e) ==
            OptionElements("holder", request, credential, e, ChosenOption(alternatives, e))
        disclosed == UNION {DisclosedFor(e) : e \in selected}
    IN IF /\ SelectionIsValid(request, selected, alternatives)
          /\ \A e \in selected :
                 ChosenOption(alternatives, e) \in Options("holder", request, credential, e)
          /\ disclosed \cap Declined(request, credential, selected) = {}
          /\ ~ AgeOverLimitExceeded(ElementsOf(disclosed))
       THEN {disclosed} ELSE {}

-----------------------------------------------------------------------------
(* createWithDeviceRequest                                                 *)

\* checkRequestInfo: choices is a sequence of choices, one per document.
RequestInfoHolds(deviceRequest, credentials, choices) ==
    LET Requests(r) == deviceRequest.docRequests[r]
        Answering(r) == {d \in DOMAIN choices : r \in choices[d].docRequests}
        Satisfied(u) == \E set \in Range(deviceRequest.useCases[u].sets) :
                            \A r \in set : Answering(r) # {}
    IN /\ \A d \in DOMAIN choices :
              /\ choices[d].docRequests # {}
              /\ \A r \in choices[d].docRequests :
                     MatchIssuer(Requests(r), credentials[choices[d].credential])
       /\ \A r \in DOMAIN deviceRequest.docRequests :
              Requests(r).unique => Cardinality(Answering(r)) <= 1
       /\ deviceRequest.useCases # <<>> /\ choices # <<>> =>
              /\ \A u \in DOMAIN deviceRequest.useCases :
                     deviceRequest.useCases[u].mandatory => Satisfied(u)
              /\ \E u \in DOMAIN deviceRequest.useCases : Satisfied(u)

\* createDocument up to the authentication: the items it discloses.
DisclosedItems(deviceRequest, credentials, choice) ==
    LET requests == {deviceRequest.docRequests[r] : r \in choice.docRequests}
        credential == credentials[choice.credential]
    IN IF \E q \in requests : q.docType # credential.docType THEN {}
       ELSE SelectElements(MergeDocRequests(requests), credential,
                           choice.selected, choice.alternatives)

\* checkResponseSize, the size counted in items.
SizeIsAccepted(deviceRequest, disclosed) ==
    LET size == FoldLeft(LAMBDA n, items : n + Cardinality(items), 0, disclosed)
    IN \A q \in Range(deviceRequest.docRequests) : size <= q.maximumResponseSize

CreateWithDeviceRequest(deviceRequest, credentials, choices) ==
    LET Created(d) == DisclosedItems(deviceRequest, credentials, choices[d])
        disclosed == [d \in DOMAIN choices |-> CHOOSE items \in Created(d) : TRUE]
    IN IF /\ RequestInfoHolds(deviceRequest, credentials, choices)
          /\ \A d \in DOMAIN choices : Created(d) # {}
          /\ SizeIsAccepted(deviceRequest, disclosed)
       THEN {disclosed} ELSE {}
=============================================================================
