---------------------------- MODULE TrustedList ----------------------------
(***************************************************************************)
(* ETSI TS 119 612 trusted lists (packages/eudi-tl): the signature check,  *)
(* the parser, the profiles and the two ways to read trust from a list.    *)
(*                                                                         *)
(* A document is [root, list, sigs].  `list' is what stands in its place   *)
(* in the tree (the scheme information and the providers, direct children  *)
(* of the root); every signature is [place, certs, key, over, object]:     *)
(* where it stands, the certificates of its KeyInfo, the key that made it, *)
(* the list it was made over, and a list put inside its ds:Object, which   *)
(* the signature itself does not cover.                                    *)
(*                                                                         *)
(* A certificate is named by its key.  A URI or country code is a pair of  *)
(* the part that comparisons look at and the way it is written (the scheme *)
(* of a URI, the case of a code); None stands for an absent element.       *)
(***************************************************************************)
EXTENDS Basics, FiniteSets, SequencesExt

CONSTANTS
    None,        \* an element that is not there
    Omitted,     \* an option that is not given
    Rejected,    \* the operation threw
    KindOf,      \* certificate -> the kind of its key
    SkiOf        \* certificate -> its SubjectKeyIdentifier, None if it cannot be parsed

Given(seq, field) == Within(seq, {e \in ToSet(seq) : e[field] # None})
FirstGiven(seq, field) == IF Given(seq, field) = <<>> THEN None ELSE Given(seq, field)[1][field]

----------------------------------------------------------------------------
(* verify.ts *)

\* xadesjs' Verify with the key of one certificate.  A signature over the
\* whole document covers everything but itself.  Of a signature elsewhere in
\* the tree the library says nothing about the root; it is taken to verify.
VerifiesWith(sig, list, certificate) ==
    /\ sig.key = certificate
    /\ sig.over = list \/ sig.place # "root"

\* A key of another kind than the signature's cannot be imported.
VerifyThrows(sig, certificate) == KindOf[certificate] # KindOf[sig.key]

\* Only the first certificate of the KeyInfo looked at.
SignerCandidatesFirst(certificates, trustAnchors) ==
    IF trustAnchors = Omitted \/ Head(certificates) \in trustAnchors THEN SubSeq(certificates, 1, 1) ELSE <<>>

SignerCandidates(certificates, trustAnchors) ==
    IF trustAnchors = Omitted THEN SubSeq(certificates, 1, 1)
    ELSE Within(certificates, trustAnchors)

\* The candidates are tried in turn, until one verifies or throws.
verifyTrustedListSignature(doc, trustAnchors) ==
    /\ trustAnchors # {}
    /\ Len(doc.sigs) = 1
    /\ doc.sigs[1].place = "root"
    /\ LET candidates == SignerCandidates(doc.sigs[1].certs, trustAnchors)
       IN \E i \in DOMAIN candidates :
            /\ VerifiesWith(doc.sigs[1], doc.list, candidates[i])
            /\ \A j \in 1 .. i - 1 : ~VerifyThrows(doc.sigs[1], candidates[j])

----------------------------------------------------------------------------
(* parse.ts *)

\* One identity per ServiceDigitalIdentity, its DigitalId children merged.
MergedIdentity(digitalIds) ==
    LET cert == FirstGiven(digitalIds, "cert")
        ski == FirstGiven(digitalIds, "ski")
    IN [cert |-> cert, subject |-> FirstGiven(digitalIds, "subject"),
        ski |-> IF cert # None /\ SkiOf[cert] # None THEN SkiOf[cert] ELSE ski]

NoIdentity == [cert |-> None, subject |-> None, ski |-> None]

parseDigitalIdentities(identities) ==
    LET merged == [i \in DOMAIN identities |-> MergedIdentity(identities[i])]
    IN  Within(merged, ToSet(merged) \ {NoIdentity})

parseHistory(history) == SelectSeq(history, LAMBDA status : status # None)

parsePointers(pointers) ==
    LET located == Given(pointers, "location")
    IN [i \in DOMAIN located |-> [located[i] EXCEPT !.ids = parseDigitalIdentities(@)]]

parseServices(services) ==
    LET complete == Within(services, {s \in ToSet(services) : s.type # None /\ s.status # None})
    IN [i \in DOMAIN complete |->
          [complete[i] EXCEPT !.ids = parseDigitalIdentities(@), !.history = parseHistory(@)]]

\* The first TSLType below the scheme information: the list's own, and
\* without one that of its first pointer.
OwnTslType(list) == IF list.tslType # None THEN list.tslType ELSE FirstGiven(list.pointers, "tslType")

\* A parser that looks for the elements anywhere in the document, so that
\* what stands in a ds:Object is found.
parseTrustedListAnywhere(doc) ==
    LET smuggled == {doc.sigs[i].object : i \in DOMAIN doc.sigs} \ {None}
        list == IF smuggled = {} THEN doc.list ELSE CHOOSE l \in smuggled : TRUE
    IN IF doc.root # "TrustServiceStatusList" THEN Rejected
       ELSE [tslType |-> OwnTslType(list), sequence |-> list.sequence, territory |-> list.territory,
             pointers |-> parsePointers(list.pointers),
             providers |-> [i \in DOMAIN list.providers |-> parseServices(list.providers[i])]]

parseTrustedList(doc) ==
    IF doc.root # "TrustServiceStatusList" THEN Rejected
    ELSE [tslType |-> OwnTslType(doc.list), sequence |-> doc.list.sequence, territory |-> doc.list.territory,
          pointers |-> parsePointers(doc.list.pointers),
          providers |-> [i \in DOMAIN doc.list.providers |-> parseServices(doc.list.providers[i])]]

loadTrustedList(doc, trustAnchors) ==
    IF trustAnchors # Omitted /\ verifyTrustedListSignature(doc, trustAnchors)
    THEN parseTrustedList(doc) ELSE Rejected

\* The certificates a list publishes for the lists it points to.
PointerMatches(pointer, filter) ==
    /\ filter.location = Omitted \/ pointer.location = filter.location
    /\ filter.territory = Omitted
         \/ (pointer.territory # None /\ pointer.territory[1] = filter.territory[1])
    /\ filter.tslType = Omitted
         \/ (pointer.tslType # None /\ pointer.tslType[1] = filter.tslType[1])

getPointerSigningCertificates(list, filter) ==
    {id.cert : id \in UNION {ToSet(p.ids) : p \in {q \in ToSet(list.pointers) : PointerMatches(q, filter)}}}
      \ {None}

\* Every identity of every service the filter lets through, as an anchor.
ServiceMatches(service, filter) ==
    /\ filter.serviceStatus = Omitted \/ service.status \in filter.serviceStatus
    /\ filter.serviceType = Omitted \/ service.type \in filter.serviceType

getTrustAnchors(list, filter) ==
    UNION {{[cert |-> id.cert, ski |-> id.ski, type |-> s.type, status |-> s.status] :
              id \in {i \in ToSet(s.ids) : filter.requireCertificate => i.cert # None}} :
           s \in {t \in UNION {ToSet(p) : p \in ToSet(list.providers)} : ServiceMatches(t, filter)}}

----------------------------------------------------------------------------
(* constants.ts, validate.ts, profiles.ts, eu-lotl.ts *)

Http(uri) == <<uri, "http">>

EUgeneric == Http("EUgeneric")
EUlistofthelists == Http("EUlistofthelists")

ServiceStatuses ==
    {Http(s) : s \in {"granted", "withdrawn", "undersupervision", "supervisionceased",
                      "supervisionincessation", "accredited", "accreditationceased",
                      "accreditationrevoked", "setbynationallaw", "recognisedatnationallevel",
                      "deprecatedatnationallevel"}}

ACTIVE_SERVICE_STATUSES ==
    {Http(s) : s \in {"granted", "undersupervision", "accredited", "setbynationallaw",
                      "recognisedatnationallevel"}}

ServiceTypes ==
    {Http(t) : t \in {"CA/QC", "CA/PKC", "TSA/QTST", "EDS/Q", "EDS/REM/Q", "PSES/Q",
                      "QESValidation/Q", "OCSP/QC"}}

TrustedListProfiles ==
    [euLotl |-> [tslType |-> EUlistofthelists, types |-> {}, statuses |-> {}],
     euGeneric |-> [tslType |-> EUgeneric, types |-> ServiceTypes, statuses |-> ServiceStatuses],
     ageVerification |-> [tslType |-> Http("age-verification"), types |-> {Http("paa")},
                          statuses |-> {Http("recognized"), Http("deprecated")}]]

stripScheme(uri) == IF uri = None THEN "" ELSE uri[1]

ConformsToRule(list, rule) ==
    /\ stripScheme(list.tslType) = stripScheme(rule.tslType)
    /\ \A s \in UNION {ToSet(p) : p \in ToSet(list.providers)} :
         /\ stripScheme(s.type) \in {stripScheme(t) : t \in rule.types}
         /\ stripScheme(s.status) \in {stripScheme(t) : t \in rule.statuses}

validateTrustedListProfile(list, rules) == \E rule \in rules : ConformsToRule(list, rule)

\* An empty set of the caller taken for a missing one.
LotlAnchorsOrShipped(pinned, shipped) == IF pinned \in {Omitted, {}} THEN shipped ELSE pinned

\* The entry point of the top of the hierarchy.  `pinned' are the anchors
\* the caller persists, Omitted for the set shipped with the package.
LotlAnchors(pinned, shipped) == IF pinned = Omitted THEN shipped ELSE pinned

loadEuLotl(doc, pinned, shipped) ==
    IF ~verifyTrustedListSignature(doc, LotlAnchors(pinned, shipped)) THEN Rejected
    ELSE LET lotl == parseTrustedList(doc)
         IN IF lotl # Rejected /\ validateTrustedListProfile(lotl, {TrustedListProfiles.euLotl})
            THEN lotl ELSE Rejected
=============================================================================
