------------------------------- MODULE Lote --------------------------------
(***************************************************************************)
(* ETSI TS 119 602 lists of trusted entities (packages/eudi-lote): the     *)
(* builders of entities and services, the operations on a list, and its    *)
(* validation against a profile in strict and compat mode.                 *)
(*                                                                         *)
(* A date-time is [year, month, day, second] in UTC, second 86400 being    *)
(* the leap second 23:59:60, which a string can name and a Date cannot.    *)
(* A URI of a profile is a pair of the profile and what follows its        *)
(* prefix; a localized value is <<lang, value>>.                           *)
(***************************************************************************)
EXTENDS Integers, Sequences, FiniteSets, SequencesExt

CONSTANTS Undefined,        \* a member that is not given
          Invalid        \* the operation threw, or the validation found issues

Default(value, default) == IF value = Undefined THEN default ELSE value

----------------------------------------------------------------------------
(* schemas.ts: date-times; signer.ts: six months later *)

MonthDays(year) ==
    LET leapYear == year % 4 = 0 /\ (year % 100 # 0 \/ year % 400 = 0)
    IN <<31, IF leapYear THEN 29 ELSE 28, 31, 30, 31, 30, 31, 31, 30, 31, 30, 31>>

isRfc3339DateTime(t) ==
    /\ t.month \in 1 .. 12
    /\ t.day \in 1 .. MonthDays(t.year)[t.month]
    /\ t.second \in 0 .. 86400

DayNumber(t) ==
    LET y == t.year - 1
    IN 365 * y + y \div 4 - y \div 100 + y \div 400
         + FoldLeft(LAMBDA a, b : a + b, 0, SubSeq(MonthDays(t.year), 1, t.month - 1)) + t.day

SecondsBetween(s, t) == (DayNumber(t) - DayNumber(s)) * 86400 + t.second - s.second

NextDay(t) ==
    CASE t.day < MonthDays(t.year)[t.month] -> [t EXCEPT !.day = @ + 1]
      [] t.day = MonthDays(t.year)[t.month] /\ t.month < 12 -> [t EXCEPT !.month = @ + 1, !.day = 1]
      [] OTHER -> [t EXCEPT !.year = @ + 1, !.month = 1, !.day = 1]

DayBefore(t) ==
    CASE t.day > 1 -> [t EXCEPT !.day = @ - 1]
      [] t.day = 1 /\ t.month > 1 -> [t EXCEPT !.month = @ - 1, !.day = MonthDays(t.year)[t.month - 1]]
      [] OTHER -> [t EXCEPT !.year = @ - 1, !.month = 12, !.day = 31]

\* A date-time of a Date, moved by less than a day.
Shifted(t, seconds) ==
    LET second == t.second + seconds
    IN CASE second < 0 -> [DayBefore(t) EXCEPT !.second = second + 86400]
         [] second >= 86400 -> [NextDay(t) EXCEPT !.second = second - 86400]
         [] OTHER -> [t EXCEPT !.second = second]

\* Seconds east of UTC: a zone has an offset and what summer time adds to it
\* (here from April to October).
UtcOffset(zone, t) == zone.offset + IF t.month \in 4 .. 10 THEN zone.summer ELSE 0

\* setMonth(getMonth() + 6): the month, day and time are those of the local
\* zone, and a day the month does not have carries over.
SixMonthsLater(t, zone) ==
    LET here == Shifted(t, UtcOffset(zone, t))
        year == here.year + (here.month + 5) \div 12
        month == ((here.month + 5) % 12) + 1
        days == MonthDays(year)[month]
        later == [here EXCEPT !.year = year, !.month = IF here.day > days THEN month + 1 ELSE month,
                              !.day = IF here.day > days THEN here.day - days ELSE here.day]
    IN Shifted(later, -UtcOffset(zone, later))

----------------------------------------------------------------------------
(* builders.ts *)

X509_ENCODING == "urn:ietf:params:tls-cert-type:x509"
X509_SPEC_REF == "RFC5280"

NoIdentities == [certs |-> {}, subjects |-> {}, keys |-> {}, skis |-> {}, others |-> {}]

service == [names |-> {}, type |-> Undefined, status |-> Undefined, start |-> Undefined,
            id |-> NoIdentities, history |-> <<>>]

serviceName(s, value, lang) == [s EXCEPT !.names = @ \cup {<<lang, value>>}]
serviceType(s, type) == [s EXCEPT !.type = type]
serviceStatus(s, status, now) == [s EXCEPT !.status = status, !.start = now]
addCertificate(s, val) ==
    [s EXCEPT !.id.certs = @ \cup {[encoding |-> X509_ENCODING, specRef |-> X509_SPEC_REF, val |-> val]}]
addPublicKey(s, kty) == [s EXCEPT !.id.keys = @ \cup {kty}]
addX509SubjectName(s, name) == [s EXCEPT !.id.subjects = @ \cup {name}]
addX509Ski(s, ski) == [s EXCEPT !.id.skis = @ \cup {ski}]
addOtherId(s, other) == [s EXCEPT !.id.others = @ \cup {other}]
addHistoryEntry(s, id) == [s EXCEPT !.history = Append(@, id)]

trustedEntity == [names |-> {}, address |-> Undefined, infoUris |-> <<>>, extensions |-> {}, services |-> <<>>]

EmptyAddress == [countries |-> {}, uris |-> <<>>]
entityName(e, value, lang) == [e EXCEPT !.names = @ \cup {<<lang, value>>}]
postalAddress(e, country) ==
    [e EXCEPT !.address = [Default(@, EmptyAddress) EXCEPT !.countries = @ \cup {country}]]
website(e, uri) == [e EXCEPT !.address = [Default(@, EmptyAddress) EXCEPT !.uris = Append(@, uri)]]
infoUri(e, uri) == [e EXCEPT !.infoUris = Append(@, uri)]
addEntityExtension(e, extension) == [e EXCEPT !.extensions = @ \cup {extension}]
addService(e, s) == [e EXCEPT !.services = Append(@, s)]

zTrustedEntityService(s) ==
    /\ s.names # {}
    /\ s.start # Undefined => isRfc3339DateTime(s.start)

zTrustedEntity(e) ==
    /\ e.names # {} /\ e.address # Undefined /\ e.services # <<>>
    /\ \A s \in ToSet(e.services) : zTrustedEntityService(s)

buildEntity(e) == IF zTrustedEntity(e) THEN e ELSE Invalid

----------------------------------------------------------------------------
(* signer.ts: the life of a list.  `info' has Undefined for what is not given; *)
(* `now' is the time of a Date.                                                *)

createLote(info, entities, now, zone) ==
    [info |-> [info EXCEPT !.version = Default(@, 1), !.sequence = Default(@, 1),
                           !.issued = Default(@, now), !.nextUpdate = Default(@, SixMonthsLater(now, zone))],
     entities |-> entities]

\* The issue date becomes a Date, and toISOString throws for one that is none.
updateLoteVersion(lote, issueDate, nextUpdate, zone) ==
    IF issueDate.second = 86400 THEN Invalid
    ELSE [lote EXCEPT !.info.sequence = @ + 1, !.info.issued = issueDate,
                      !.info.nextUpdate = Default(nextUpdate, SixMonthsLater(issueDate, zone))]

addTrustedEntity(lote, entity) == [lote EXCEPT !.entities = Append(@, entity)]

removeTrustedEntity(lote, name) ==
    [lote EXCEPT !.entities = SelectSeq(@, LAMBDA e : \A n \in e.names : n[2] # name)]

----------------------------------------------------------------------------
(* schemas.ts: the document *)

Policies(items) == \A i \in DOMAIN items : items[i].policy
Notices(items) == \A i \in DOMAIN items : items[i].notice # Undefined

zPolicyOrLegalNoticeList(items) ==
    /\ \A i \in DOMAIN items : items[i].notice # "uris"
    /\ Policies(items) # Notices(items)

zCompatPolicyOrLegalNoticeList(items) ==
    /\ items # <<>>
    /\ \A i \in DOMAIN items : items[i].policy \/ items[i].notice # Undefined

zLoteDocument(lote, mode) ==
    /\ lote.info.operatorName # {}
    /\ lote.info.territory # Undefined => Len(lote.info.territory) = 2
    /\ isRfc3339DateTime(lote.info.issued) /\ isRfc3339DateTime(lote.info.nextUpdate)
    /\ lote.info.policy # Undefined =>
         IF mode = "compat" THEN zCompatPolicyOrLegalNoticeList(lote.info.policy)
         ELSE zPolicyOrLegalNoticeList(lote.info.policy)
    /\ \A e \in ToSet(lote.entities) : zTrustedEntity(e)

----------------------------------------------------------------------------
(* profiles.ts *)

hasDigitalIdentity(id) == id # NoIdentities

checkDigitalIdentity(id) ==
    /\ hasDigitalIdentity(id)
    /\ \A c \in id.certs : /\ c.val # ""
                           /\ c.encoding \in {Undefined, X509_ENCODING}
                           /\ c.specRef \in {Undefined, X509_SPEC_REF}
    /\ "oct" \notin id.keys

\* What stands in an extension is free-form.
checkLocalizedValues(values) == \A v \in values : v[1] # "" /\ v[2] # ""

checkCountries(address) == \A country \in address.countries : Len(country) = 2

Profiles == {"EuPid", "EuWallet", "EuWrpac", "EuWrprc", "EuEaa", "EuPubEaa", "Mdl"}

PidNotified == <<"EuPid", "notified">>
PubEaaNotified == <<"EuPubEaa", "notified">>
PubEaaWithdrawn == <<"EuPubEaa", "withdrawn">>

profileDefinitions ==
    [p \in Profiles |->
      [loteVersionIdentifier |-> 1,
       serviceTypes |-> {<<p, "Issuance">>, <<p, "Revocation">>},
       noHistoricalPeriod |-> p \in {"EuPid", "EuWallet", "EuWrpac", "EuWrprc"},
       historicalPeriod |-> IF p = "EuPubEaa" THEN 65535 ELSE Undefined,
       noPointers |-> p \in {"EuEaa", "EuPubEaa"},
       informationUri |-> p # "Mdl",
       uriInAddress |-> p = "EuPubEaa",
       statuses |-> [strict |-> IF p = "EuPubEaa" THEN {PubEaaNotified, PubEaaWithdrawn} ELSE {Undefined},
                     compat |-> CASE p = "EuPubEaa" -> {PubEaaNotified, PubEaaWithdrawn}
                                  [] p = "EuPid" -> {Undefined, PidNotified}
                                  [] OTHER -> {Undefined}]]]

\* Six months of thirty days.
SixShortMonths == 6 * 30 * 24 * 60 * 60

SIX_MONTHS == 6 * 31 * 24 * 60 * 60

listAndSchemeInformationRefinement(info, p, mode, territories) ==
    LET list == profileDefinitions[p]
    IN /\ info.territory # Undefined /\ info.territory \in territories
       /\ info.rules = <<p>>
       /\ list.noHistoricalPeriod => info.historicalPeriod = Undefined
       /\ list.historicalPeriod # Undefined =>
            \/ info.historicalPeriod = list.historicalPeriod
            \/ mode = "compat" /\ info.historicalPeriod = Undefined
       /\ list.noPointers => info.pointers = Undefined
       /\ checkLocalizedValues(info.operatorName)
       /\ info.pointers # Undefined => \A id \in info.pointers : checkDigitalIdentity(id)
       /\ SecondsBetween(info.issued, info.nextUpdate) <= SIX_MONTHS

\* The first place that has a URI of the profile decides; in compat mode a
\* Pub-EAA list may have it where the other profiles put it.
InformationUri(e, p, mode) ==
    LET hasPrefix(u) == u[1] = p
        inAddress == SelectSeq(e.address.uris, hasPrefix)
        inInfo == SelectSeq(e.infoUris, hasPrefix)
    IN CASE ~profileDefinitions[p].uriInAddress -> inInfo
         [] inAddress # <<>> \/ mode = "strict" -> inAddress
         [] OTHER -> inInfo

trustedEntitiesListRefinement(entities, p, mode) ==
    \A e \in ToSet(entities) :
      /\ checkLocalizedValues(e.names \cup UNION {s.names : s \in ToSet(e.services)})
      /\ checkCountries(e.address)
      /\ profileDefinitions[p].informationUri =>
           /\ InformationUri(e, p, mode) # <<>>
           /\ Len(Head(InformationUri(e, p, mode))[2]) = 2
      /\ \A s \in ToSet(e.services) :
           /\ checkDigitalIdentity(s.id)
           /\ \A i \in DOMAIN s.history : checkDigitalIdentity(s.history[i])
           /\ s.start # Undefined => s.status # Undefined

createProfileSchema(lote, p, mode, territories) ==
    LET list == profileDefinitions[p]
    IN /\ lote.info.version = list.loteVersionIdentifier
       /\ lote.info.approach = p
       /\ \A s \in UNION {ToSet(e.services) : e \in ToSet(lote.entities)} :
            s.type \in list.serviceTypes /\ s.status \in list.statuses[mode]
       /\ listAndSchemeInformationRefinement(lote.info, p, mode, territories)
       /\ trustedEntitiesListRefinement(lote.entities, p, mode)

----------------------------------------------------------------------------
(* validator.ts *)

\* Without `territories' the profiles' own EU; they are an option of compat
\* mode only, and throw in strict mode.
validateLoteProfile(lote, profiles, mode, territories) ==
    LET matched == {p \in profiles : lote.info.type = p}
    IN IF matched = {} \/ (mode = "strict" /\ territories # Undefined) THEN Invalid
       ELSE LET p == CHOOSE q \in matched : TRUE
            IN IF zLoteDocument(lote, mode)
                    /\ createProfileSchema(lote, p, mode, Default(territories, {"EU"}))
               THEN lote ELSE Invalid

NOTIFIED_SERVICE_STATUSES == {Undefined, PidNotified, PubEaaNotified}

NotifiedServices(e) == SelectSeq(e.services, LAMBDA s : s.status \in NOTIFIED_SERVICE_STATUSES)

getNotifiedTrustedEntities(lote) ==
    LET notified == [i \in DOMAIN lote.entities |->
                       [lote.entities[i] EXCEPT !.services = NotifiedServices(lote.entities[i])]]
    IN SelectSeq(notified, LAMBDA e : e.services # <<>>)
=============================================================================
