----------------------------- MODULE TrustLists -----------------------------
(***************************************************************************)
(* A relying party that learns from the catalogue of attestations what to  *)
(* ask for and which list names its issuers, and then follows that list:   *)
(* an XML trusted list, found through the EU list of trusted lists (LOTL), *)
(* or a JSON list of trusted entities.                                     *)
(*                                                                         *)
(* The catalogue entry is verified, its documents are fetched one by one   *)
(* over a network that may serve something else, and a query is built      *)
(* (packages/eudi-attestation-schema).  The operators of the lists publish *)
(* new ones and rotate their keys while the relying party loads lists over *)
(* the same network, which replays, alters and forges them                 *)
(* (packages/eudi-tl), and the operator of the list of entities builds and *)
(* updates it (packages/eudi-lote).                                        *)
(*                                                                         *)
(* The three stages follow each other: no action of one reads what the     *)
(* actions of another write, so any interleaving of them has the same      *)
(* outcomes as this order.                                                 *)
(***************************************************************************)
EXTENDS TrustedList, Lote, AttestationSchema

CONSTANTS
    MaxGeneration,      \* keys 1 .. MaxGeneration of the LOTL operator
    MaxNational,        \* lists the national operator publishes
    ListLocation,       \* authority value -> "list" or "entities"
    EntryVersions,      \* the catalogue entries that are published
    Selections,         \* the format selections a relying party makes
    AuthenticDoc,       \* uri -> the document its publisher serves
    OtherDocs,          \* documents the network serves instead
    MaxExtendsDepth,
    MeantClaims,        \* uri -> the claims its publisher means
    Protected,          \* the URIs whose whole chain carries integrity
    Unresolvable,       \* the URIs whose own chain is too deep, cyclic or of another type
    Dates,              \* the days on which the list of entities is worked on
    Zones,              \* the time zones it is worked on in
    MaxEntities, MaxUpdates

VARIABLES stage, catalogue, issuer, scheme, party, operator

vars == <<stage, catalogue, issuer, scheme, party, operator>>

----------------------------------------------------------------------------
(* The catalogue: verifier.ts, resolver.ts, orchestrator.ts *)

CatalogueKey == "catalogue"

\* The signed entries on the network: the published ones, one signed with
\* another key, and one whose payload is not the one that was signed.
EntriesOnNetwork ==
    {signSchemaMeta(e, CatalogueKey) : e \in EntryVersions}
    \cup {signSchemaMeta(e, "attacker") : e \in EntryVersions}
    \cup {[signSchemaMeta(e, CatalogueKey) EXCEPT !.payload.id = "altered"] : e \in EntryVersions}

Contents(uri) ==
    {[form |-> "bytes", doc |-> d] : d \in {AuthenticDoc[uri]} \cup OtherDocs}
    \cup {[form |-> f, doc |-> AuthenticDoc[uri]] : f \in {"view", "parsed"}} \cup {Failed}

\* How a content is not the authentic bytes.
DisturbedBy(content, uri) ==
    CASE content = Failed -> {"no answer"}
      [] content # Failed /\ content.doc # AuthenticDoc[uri] -> {"other document"}
      [] OTHER -> {content.form} \ {"bytes"}

IdleCatalogue == [phase |-> "idle"]

\* What resolution waits for: the next reference, or the document the last
\* one of the chain extends.
NextFetch(c) ==
    IF c.chain = <<>> THEN [uri |-> Head(c.todo).uri, sri |-> Head(c.todo).sri]
    ELSE LET last == DocumentOf[Last(c.chain)] IN [uri |-> last.extends, sri |-> last.extendsSri]

\* The reference at the head of the list is done.
Resolved(c, metadata, schema) ==
    [c EXCEPT !.todo = Tail(@), !.chain = <<>>, !.visited = {},
              !.refs = Append(@, [format |-> Head(c.todo).format, type |-> Head(c.todo).type,
                                  metadata |-> metadata, schema |-> schema])]

GiveUp(c) == [c EXCEPT !.phase = "failed"]

\* resolveExtendsChain after one more document: the depth, then the cycle,
\* and at the end of the chain the type.
ExtendChain(c, doc) ==
    LET chain == Append(c.chain, doc)
        parent == DocumentOf[doc].extends
        merged == MergedChain(chain)
    IN CASE parseTypeMetadata(doc) = Failed -> GiveUp(c)
         [] parseTypeMetadata(doc) # Failed /\ parent # Missing ->
              IF Len(chain) > MaxExtendsDepth \/ parent \in c.visited \cup {Head(c.todo).uri} THEN GiveUp(c)
              ELSE [c EXCEPT !.chain = chain, !.visited = @ \cup {parent}]
         [] OTHER -> IF merged.vct # Head(c.todo).type THEN GiveUp(c) ELSE Resolved(c, merged, Missing)

resolveSdJwtReference(c, doc) ==
    IF c.chain # <<>> \/ IsTypeMetadata(doc) THEN ExtendChain(c, doc)
    ELSE Resolved(c, Missing, DocumentOf[doc].schema)

AfterFetch(c, content) ==
    LET doc == fetchDocument(content, NextFetch(c).sri, TRUE)
    IN CASE doc = Failed -> GiveUp(c)
         [] doc # Failed /\ Head(c.todo).format = "dc+sd-jwt" -> resolveSdJwtReference(c, doc)
         [] OTHER -> Resolved(c, Missing, DocumentOf[doc].schema)

VerifyEntry ==
    /\ stage = "catalogue" /\ catalogue.phase = "idle"
    /\ \E jws \in EntriesOnNetwork, selected \in Selections :
         LET entry == verifySchemaMeta(jws, CatalogueKey)
         IN catalogue' =
              IF entry = Failed THEN [phase |-> "failed", entry |-> Missing, disturbed |-> {"entry"}]
              ELSE [phase |-> "resolving", entry |-> entry, selected |-> selected,
                    todo |-> SelectSeq(entry.schemaURIs, LAMBDA s : s.format \in ToSet(selected)),
                    chain |-> <<>>, visited |-> {}, refs |-> <<>>, disturbed |-> {},
                    include |-> Missing, query |-> Missing]
    /\ UNCHANGED <<stage, issuer, scheme, party, operator>>

Fetch ==
    /\ catalogue.phase = "resolving" /\ catalogue.todo # <<>>
    /\ LET uri == NextFetch(catalogue).uri
       IN \E content \in Contents(uri) :
            catalogue' = [AfterFetch(catalogue, content) EXCEPT
                            !.disturbed = @ \cup DisturbedBy(content, uri)]
    /\ UNCHANGED <<stage, issuer, scheme, party, operator>>

BuildQuery ==
    /\ catalogue.phase = "resolving" /\ catalogue.todo = <<>>
    /\ \E include \in BOOLEAN :
         LET query == buildDcqlFromSchemaMeta(catalogue.entry, catalogue.selected, catalogue.refs, include)
         IN catalogue' = IF query = Failed THEN GiveUp(catalogue)
                         ELSE [catalogue EXCEPT !.phase = "built", !.query = query, !.include = include]
    /\ UNCHANGED <<stage, issuer, scheme, party, operator>>

----------------------------------------------------------------------------
(* An issuer of the attestation type: issuer-metadata.ts *)

\* What a deployment makes of the template.
Deployments == {"template", "without algs", "other alg", "other proof type", "no proof types",
                "unattested", "batch", "second configuration"}

Deploy(template, deployment) ==
    LET config ==
          CASE deployment = "without algs" -> [template EXCEPT !.algs = Missing]
            [] deployment = "other alg" -> [template EXCEPT !.algs = OrElse(@, {}) \cup {"other"}]
            [] deployment = "other proof type" ->
                 [template EXCEPT !.proofs = [t \in {"other"} |-> [algs |-> {"other"}, attested |-> TRUE]]]
            [] deployment = "no proof types" -> [template EXCEPT !.proofs = Missing]
            [] deployment = "unattested" ->
                 [template EXCEPT !.proofs =
                    IF @ = Missing THEN Missing ELSE [t \in DOMAIN @ |-> [@[t] EXCEPT !.attested = FALSE]]]
            [] OTHER -> template
    IN [configurations |->
          IF deployment = "second configuration"
          THEN [i \in {"first", "second"} |->
                  IF i = "first" THEN config ELSE [config EXCEPT !.bindings = {"other"}]]
          ELSE [i \in {"first"} |-> config],
        batch |-> deployment = "batch"]

\* The issuer publishes metadata made from the entry as it was resolved, and
\* the metadata is checked against a version of the entry then in force.
CheckIssuer ==
    /\ catalogue.phase = "built" /\ issuer = Missing
    /\ \E i \in DOMAIN catalogue.selected, deployment \in Deployments,
          current \in EntryVersions, id \in {Missing, "first"} :
         LET format == catalogue.selected[i]
             template == buildCredentialConfigurationTemplate(catalogue.entry, format, catalogue.refs)
         IN /\ template # Failed /\ UriOfFormat(current, format) # <<>>
            /\ issuer' = [format |-> format, deployment |-> deployment, made |-> catalogue.entry,
                          checked |-> current, id |-> id,
                          valid |-> validateIssuerMetadataAgainstProfile(
                                      Deploy(template, deployment), current, format, id)]
    /\ UNCHANGED <<stage, catalogue, scheme, party, operator>>

\* The relying party turns to the list an authority of the query names.
FollowAuthority ==
    /\ catalogue.phase = "built" /\ issuer = Missing
    /\ \E value \in catalogue.query.authorities :
         stage' = ListLocation[value]
    /\ catalogue' = IdleCatalogue
    /\ UNCHANGED <<issuer, scheme, party, operator>>

----------------------------------------------------------------------------
(* The operators of the trusted lists, and the network *)

LotlKey(g) == <<"lotl", g>>
NationalKey(g) == <<"national", g>>
Authority(i) == <<"ca", i>>
Attacker == <<"attacker", 0>>
Intermediate == <<"intermediate", 0>>

Shipped == {LotlKey(1)}

\* The keys a LOTL may name for itself.
LotlKeys == {LotlKey(g) : g \in 1 .. MaxGeneration} \cup {Attacker}

\* What is absent or not given is no certificate, no set of them and no type.
ASSUME ListKeysAssumption ==
    /\ MaxGeneration \in Nat \ {0}
    /\ EUlistofthelists # Omitted /\ ACTIVE_SERVICE_STATUSES # Omitted
    /\ \A i \in 1 .. 2 : None # Authority(i)
    /\ \A keys \in SUBSET LotlKeys : keys # Omitted

\* Every DigitalId of one identity; by key identifier alone, or with the certificate.
IdentityOf(key, embedded) ==
    IF embedded THEN <<[cert |-> None, subject |-> None, ski |-> key], [cert |-> key, subject |-> None, ski |-> None]>>
    ELSE <<[cert |-> None, subject |-> key, ski |-> key]>>

Pointer(location, type, territory, keys, embedded) ==
    [location |-> location, tslType |-> type, territory |-> territory,
     ids |-> [i \in DOMAIN keys |-> IdentityOf(keys[i], embedded)]]

\* The pointer of a LOTL to itself, the one to the national list, and one
\* that names no location.
LotlList(sequence, selfKeys, embedded, nationalKeys) ==
    [tslType |-> EUlistofthelists, sequence |-> sequence, territory |-> <<"EU", "upper">>,
     pointers |-> <<Pointer("lotl", <<"EUlistofthelists", "https">>, <<"EU", "upper">>, selfKeys, embedded),
                    Pointer(None, EUgeneric, <<"ES", "upper">>, <<Attacker>>, TRUE),
                    Pointer("list", EUgeneric, <<"ES", "lower">>, nationalKeys, TRUE)>>,
     providers |-> <<>>]

\* A national list names the LOTL it belongs to, and has a service that
\* lacks its status beside the two of its provider.
NationalList(statuses, key) ==
    [tslType |-> EUgeneric, sequence |-> 1, territory |-> <<"ES", "upper">>,
     pointers |-> <<Pointer("lotl", EUlistofthelists, <<"EU", "upper">>, <<key>>, TRUE)>>,
     providers |-> <<<<[type |-> Http("CA/QC"), status |-> None, ids |-> <<IdentityOf(Attacker, TRUE)>>,
                        history |-> <<Http("granted")>>]>>
                     \o [i \in DOMAIN statuses |->
                          [type |-> Http("CA/QC"), status |-> statuses[i], history |-> <<Http("granted"), None>>,
                           ids |-> <<IdentityOf(Authority(i), TRUE), <<>>>>]]>>]

SignedBy(list, key) ==
    [root |-> "TrustServiceStatusList", list |-> list,
     sigs |-> <<[place |-> "root", certs |-> <<Intermediate, key>>, key |-> key, over |-> list, object |-> None]>>]

\* What an intermediary makes of the published documents to pass off
\* `forged': signatures of keys it has, alone or with a published
\* certificate beside them; other content under a published signature;
\* content inside a signature, inside a second one, or around a signature
\* that was moved; no signature at all.
Forgeries(published, forged, keys) ==
    {SignedBy(forged, k) : k \in keys}
    \cup {[SignedBy(forged, Attacker) EXCEPT !.sigs[1].certs = d.sigs[1].certs \o @] : d \in published}
    \cup {[d EXCEPT !.list = forged] : d \in published}
    \cup {[d EXCEPT !.sigs[1].object = forged] : d \in published}
    \cup {[d EXCEPT !.sigs = Append(@, [SignedBy(forged, Attacker).sigs[1] EXCEPT !.object = forged])] : d \in published}
    \cup {[d EXCEPT !.list = forged, !.sigs[1].place = "nested"] : d \in published}
    \cup {[d EXCEPT !.list = forged, !.sigs = <<>>] : d \in published}
    \cup {[d EXCEPT !.root = "other"] : d \in published}

ForgedLotl == LotlList(9, <<Attacker>>, TRUE, <<Attacker>>)
ForgedNational == [NationalList(<<Http("granted")>>, Attacker) EXCEPT !.providers[1][1].status = Http("granted")]

AttackerKeys == {Attacker} \cup scheme.leaked

LotlsOnNetwork == scheme.lotls \cup Forgeries(scheme.lotls, ForgedLotl, AttackerKeys)
NationalsOnNetwork == scheme.nationals \cup Forgeries(scheme.nationals, ForgedNational, AttackerKeys)

\* The next LOTL, signed with the key of generation g.
PublishLotl(g, selfKeys, embedded, nationalGeneration) ==
    LET doc == SignedBy(LotlList(scheme.latest.list.sequence + 1, selfKeys, embedded,
                                 <<NationalKey(nationalGeneration)>>), LotlKey(g))
    IN [scheme EXCEPT !.lotls = @ \cup {doc}, !.latest = doc]

SelfKeys(g, announced) == IF announced THEN <<LotlKey(g), LotlKey(g + 1)>> ELSE <<LotlKey(g)>>

\* The next key is announced in a list signed with the present one.
AnnounceLotlKey ==
    /\ stage = "list" /\ ~scheme.announced /\ scheme.generation < MaxGeneration
    /\ \E embedded \in BOOLEAN :
         scheme' = [PublishLotl(scheme.generation, SelfKeys(scheme.generation, TRUE), embedded,
                                scheme.nationalGeneration) EXCEPT !.announced = TRUE]
    /\ UNCHANGED <<stage, catalogue, issuer, party, operator>>

\* The first list of the new key leaves the old one out.
RotateLotlKey ==
    /\ stage = "list" /\ scheme.announced
    /\ scheme' = [PublishLotl(scheme.generation + 1, SelfKeys(scheme.generation + 1, FALSE), TRUE,
                              scheme.nationalGeneration)
                    EXCEPT !.announced = FALSE, !.generation = @ + 1]
    /\ UNCHANGED <<stage, catalogue, issuer, party, operator>>

PublishNational(s, statuses, generation) ==
    LET doc == SignedBy(NationalList(statuses, LotlKey(s.generation)), NationalKey(generation))
    IN [s EXCEPT !.nationals = @ \cup {doc}, !.national = doc, !.statuses = statuses,
                 !.nationalGeneration = generation]

\* The national operator changes its key, and the LOTL names the new one.
RotateNationalKey ==
    /\ stage = "list" /\ scheme.nationalGeneration = 1
    /\ scheme' = PublishNational(
                   PublishLotl(scheme.generation, SelfKeys(scheme.generation, scheme.announced), TRUE, 2),
                   scheme.statuses, 2)
    /\ UNCHANGED <<stage, catalogue, issuer, party, operator>>

ChangeStatus ==
    /\ stage = "list" /\ Cardinality(scheme.nationals) < MaxNational
    /\ \E i \in DOMAIN scheme.statuses, status \in {Http("withdrawn"), Http("undersupervision")} :
         /\ scheme.statuses[i] = Http("granted")
         /\ scheme' = PublishNational(scheme, [scheme.statuses EXCEPT ![i] = status], scheme.nationalGeneration)
    /\ UNCHANGED <<stage, catalogue, issuer, party, operator>>

\* A retired key becomes known.
LeakRetiredKey ==
    /\ stage = "list"
    /\ \E key \in {LotlKey(g) : g \in 1 .. scheme.generation - 1}
                    \cup {NationalKey(g) : g \in 1 .. scheme.nationalGeneration - 1} :
         /\ key \notin scheme.leaked
         /\ scheme' = [scheme EXCEPT !.leaked = @ \cup {key}]
    /\ UNCHANGED <<stage, catalogue, issuer, party, operator>>

----------------------------------------------------------------------------
(* The relying party: eu-lotl.ts, and the use parse.ts documents *)

LoadLotl ==
    /\ stage = "list"
    /\ \E doc \in LotlsOnNetwork :
         LET lotl == loadEuLotl(doc, party.pins, Shipped)
         IN /\ lotl # Rejected
            /\ party' = [party EXCEPT !.lotl = lotl, !.lotlBy = LotlAnchors(party.pins, Shipped)]
    /\ UNCHANGED <<stage, catalogue, issuer, scheme, operator>>

AnyPointer == [location |-> Omitted, territory |-> Omitted, tslType |-> Omitted]

\* The set published in the self-pointer of the list is persisted.
RefreshPins ==
    /\ stage = "list" /\ party.lotl # Missing
    /\ party' = [party EXCEPT
                   !.pins = getPointerSigningCertificates(party.lotl, [AnyPointer EXCEPT !.tslType = EUlistofthelists]),
                   !.refreshed = party.lotl.sequence]
    /\ UNCHANGED <<stage, catalogue, issuer, scheme, operator>>

NationalAnchors(lotl) ==
    getPointerSigningCertificates(lotl, [AnyPointer EXCEPT !.location = "list", !.territory = <<"ES", "upper">>])

ActiveCertificates ==
    [serviceStatus |-> ACTIVE_SERVICE_STATUSES, serviceType |-> {Http("CA/QC")}, requireCertificate |-> TRUE]

LoadNational ==
    /\ stage = "list" /\ party.lotl # Missing
    /\ \E doc \in NationalsOnNetwork :
         LET list == loadTrustedList(doc, NationalAnchors(party.lotl))
         IN /\ list # Rejected /\ validateTrustedListProfile(list, {TrustedListProfiles.euGeneric})
            /\ party' = [party EXCEPT !.anchors = getTrustAnchors(list, ActiveCertificates),
                                      !.anchorsBy = party.lotlBy \cup NationalAnchors(party.lotl)]
    /\ UNCHANGED <<stage, catalogue, issuer, scheme, operator>>

\* What is not persisted is gone.
Restart ==
    /\ stage = "list" /\ party.lotl # Missing
    /\ party' = [party EXCEPT !.lotl = Missing, !.lotlBy = {}, !.anchors = {}, !.anchorsBy = {}]
    /\ UNCHANGED <<stage, catalogue, issuer, scheme, operator>>

----------------------------------------------------------------------------
(* The operator of the list of trusted entities: builders.ts, signer.ts *)

\* How a list may differ from what its profile asks for, in its scheme
\* information and in an entity; "none" does not.
InfoDeviations(p) ==
    {"none", "territory", "notice uris", "both notice keys", "no notices", "history", "pointers", "rules",
     "version", "late", "backdated", "operator lang", "next update format", "leap second", "late leap second"}
    \cup (IF p = "EuPubEaa" THEN {"no history"} ELSE {})

\* Those a new version mends.
DateDeviations == {"late", "backdated", "next update format", "leap second", "late leap second"}

EntityDeviations(p) ==
    {"none", "pid status", "oct key", "no identity", "encoding", "country", "empty name", "empty extension",
     "start without status", "no uri", "long uri", "type", "history identity"}
    \cup (IF p = "EuPubEaa" THEN {"withdrawn", "uri in information"} ELSE {})

MonthBefore(t) == [t EXCEPT !.month = IF @ = 1 THEN 12 ELSE @ - 1, !.day = 1,
                            !.year = IF t.month = 1 THEN @ - 1 ELSE @]

\* Dates that are given as strings: leap seconds among them.
LeapSecond(year, month, day) == [year |-> year, month |-> month, day |-> day, second |-> 86400]
Utc == [offset |-> 0, summer |-> 0]

SchemeInfo(p, deviation, now) ==
    [version |-> IF deviation = "version" THEN 2 ELSE Undefined, sequence |-> Undefined, type |-> p, approach |-> p,
     territory |-> IF deviation = "territory" THEN "DE" ELSE "EU",
     rules |-> IF deviation = "rules" THEN <<p, p>> ELSE <<p>>,
     operatorName |-> {<<IF deviation = "operator lang" THEN "" ELSE "en", "operator">>},
     policy |-> CASE deviation = "notice uris" -> <<[policy |-> FALSE, notice |-> "uris"]>>
                  [] deviation = "both notice keys" -> <<[policy |-> TRUE, notice |-> "text"]>>
                  [] deviation = "no notices" -> <<>>
                  [] OTHER -> <<[policy |-> TRUE, notice |-> Undefined], [policy |-> TRUE, notice |-> "text"]>>,
     historicalPeriod |-> CASE deviation = "history" -> 10
                            [] p = "EuPubEaa" /\ deviation # "no history" -> 65535
                            [] OTHER -> Undefined,
     pointers |-> IF deviation = "pointers" THEN {addX509Ski(service, "ski").id} ELSE Undefined,
     issued |-> CASE deviation = "backdated" -> MonthBefore(now)
                  [] deviation \in {"leap second", "late leap second"} -> LeapSecond(2016, 12, 31)
                  [] OTHER -> Undefined,
     nextUpdate |-> CASE deviation = "late" -> SixMonthsLater([SixMonthsLater(now, Utc) EXCEPT !.day = 1], Utc)
                      [] deviation = "leap second" -> LeapSecond(2017, 6, 30)
                      [] deviation = "late leap second" -> LeapSecond(2017, 12, 31)
                      [] deviation = "next update format" -> [now EXCEPT !.month = 2, !.day = 30]
                      [] OTHER -> Undefined]

ServiceOf(p, kind, deviation, now) ==
    LET named == serviceType(serviceName(service, IF deviation = "empty name" THEN "" ELSE kind, "en"),
                             <<p, IF deviation = "type" THEN "other" ELSE kind>>)
        identified == CASE deviation = "oct key" -> addPublicKey(addCertificate(named, "cert"), "oct")
                        [] deviation = "no identity" -> named
                        [] deviation = "encoding" ->
                             [named EXCEPT !.id.certs = {[encoding |-> "other", specRef |-> Undefined, val |-> "cert"]}]
                        [] OTHER -> addX509SubjectName(addCertificate(named, "cert"), "subject")
        past == IF deviation = "history identity" THEN addHistoryEntry(identified, NoIdentities)
                ELSE addHistoryEntry(identified, addOtherId(service, "id").id)
    IN CASE deviation = "pid status" -> serviceStatus(past, PidNotified, now)
         [] deviation = "withdrawn" /\ kind = "Issuance" -> serviceStatus(past, PubEaaWithdrawn, now)
         [] deviation = "start without status" -> [past EXCEPT !.start = now]
         [] p = "EuPubEaa" /\ ~(deviation = "withdrawn" /\ kind = "Issuance")
              /\ deviation \notin {"pid status", "start without status"} -> serviceStatus(past, PubEaaNotified, now)
         [] OTHER -> past

EntityOf(p, name, deviation, now) ==
    LET uri == <<p, IF deviation = "long uri" THEN "DEU" ELSE "DE">>
        addressed == postalAddress(entityName(trustedEntity, name, "en"), IF deviation = "country" THEN "DEU" ELSE "DE")
        located == CASE deviation = "no uri" -> addressed
                     [] p = "EuPubEaa" /\ deviation \notin {"no uri", "uri in information"} -> website(addressed, uri)
                     [] OTHER -> infoUri(addressed, uri)
        extended == IF deviation = "empty extension" THEN addEntityExtension(located, <<"", "">>) ELSE located
    IN buildEntity(addService(addService(extended, ServiceOf(p, "Issuance", deviation, now)),
                              ServiceOf(p, "Revocation", deviation, now)))

EntityNames == {"A", "B"}

\* What the operator means to be in force: the services of its entities but
\* the withdrawn ones.
MeantServices(listed) ==
    {<<e.name, kind>> : e \in listed, kind \in {"Issuance", "Revocation"}}
      \ {<<e.name, "Issuance">> : e \in {x \in listed : x.deviation = "withdrawn"}}

CreateLote ==
    /\ stage = "entities" /\ operator = Missing
    /\ \E p \in Profiles, now \in Dates, zone \in Zones : \E deviation \in InfoDeviations(p) :
         operator' = [profile |-> p, lote |-> createLote(SchemeInfo(p, deviation, now), <<>>, now, zone),
                      deviation |-> deviation, listed |-> {}, meant |-> {}, updates |-> 0]
    /\ UNCHANGED <<stage, catalogue, issuer, scheme, party>>

\* One deviation at a time, in the list or in an entity; each name is listed once.
AddEntity ==
    /\ stage = "entities" /\ operator # Missing /\ Cardinality(operator.listed) < MaxEntities
    /\ \E name \in EntityNames \ {e.name : e \in operator.listed}, deviation \in EntityDeviations(operator.profile) :
         /\ operator.listed # {} \/ operator.deviation # "none" => deviation = "none"
         /\ operator' = [operator EXCEPT
                           !.lote = addTrustedEntity(@, EntityOf(operator.profile, name, deviation, operator.lote.info.issued)),
                           !.listed = @ \cup {[name |-> name, deviation |-> deviation]},
                           !.meant = @ \cup MeantServices({[name |-> name, deviation |-> deviation]})]
    /\ UNCHANGED <<stage, catalogue, issuer, scheme, party>>

RemoveEntity ==
    /\ stage = "entities" /\ operator # Missing
    /\ \E name \in EntityNames :
         /\ operator.listed # {}
         /\ operator' = [operator EXCEPT !.lote = removeTrustedEntity(@, name),
                                         !.listed = {e \in @ : e.name # name}]
    /\ UNCHANGED <<stage, catalogue, issuer, scheme, party>>

\* A new version, for now or a day to come; its dates are new as well.  Where
\* updateLoteVersion throws, the operator is left with the version it has.
UpdateVersion ==
    /\ stage = "entities" /\ operator # Missing /\ operator.updates < MaxUpdates
    /\ \E issueDate \in Dates \cup {LeapSecond(2024, 12, 31)}, zone \in Zones :
         LET updated == updateLoteVersion(operator.lote, issueDate, Undefined, zone)
         IN /\ SecondsBetween(operator.lote.info.issued, issueDate) > 0
            /\ updated # Invalid
            /\ operator' = [operator EXCEPT !.lote = updated, !.updates = @ + 1,
                              !.deviation = IF @ \in DateDeviations THEN "none" ELSE @]
    /\ UNCHANGED <<stage, catalogue, issuer, scheme, party>>

Modes == {"strict", "compat"}
Territories(mode) == IF mode = "strict" THEN Undefined ELSE {"EU", "DE"}

Validated(mode) == validateLoteProfile(operator.lote, Profiles, mode, Territories(mode))

ServicesIn(entities) == UNION {{<<n[2], s.type[2]>> : n \in e.names, s \in ToSet(e.services)} : e \in ToSet(entities)}

\* The list is signed, delivered and validated.
TrustEntities ==
    /\ stage = "entities" /\ operator # Missing
    /\ \E mode \in Modes :
         /\ Validated(mode) # Invalid
         /\ party' = [party EXCEPT !.entities = ServicesIn(getNotifiedTrustedEntities(Validated(mode)))]
    /\ UNCHANGED <<stage, catalogue, issuer, scheme, operator>>

----------------------------------------------------------------------------
FirstLotl == SignedBy(LotlList(1, SelfKeys(1, FALSE), TRUE, <<NationalKey(1)>>), LotlKey(1))
FirstNational == SignedBy(NationalList(<<Http("granted"), Http("granted")>>, LotlKey(1)), NationalKey(1))

Init ==
    /\ stage = "catalogue" /\ catalogue = IdleCatalogue /\ issuer = Missing /\ operator = Missing
    /\ scheme = [lotls |-> {FirstLotl}, latest |-> FirstLotl, generation |-> 1, announced |-> FALSE,
                 nationals |-> {FirstNational}, national |-> FirstNational, nationalGeneration |-> 1,
                 statuses |-> <<Http("granted"), Http("granted")>>, leaked |-> {}]
    /\ party = [pins |-> Omitted, lotl |-> Missing, lotlBy |-> {}, anchors |-> {}, anchorsBy |-> {},
                refreshed |-> 0, entities |-> {}]

Next ==
    \/ VerifyEntry \/ Fetch \/ BuildQuery \/ CheckIssuer \/ FollowAuthority
    \/ AnnounceLotlKey \/ RotateLotlKey \/ RotateNationalKey \/ ChangeStatus \/ LeakRetiredKey
    \/ LoadLotl \/ RefreshPins \/ LoadNational \/ Restart
    \/ CreateLote \/ AddEntity \/ RemoveEntity \/ UpdateVersion \/ TrustEntities

Spec == Init /\ [][Next]_vars

----------------------------------------------------------------------------
(* Properties *)

\* The certificates of the services that a published national list has in force.
InForce(doc) ==
    {s.ids[1][2].cert : s \in {t \in UNION {ToSet(p) : p \in ToSet(doc.list.providers)} :
                                 t.status \in ACTIVE_SERVICE_STATUSES}}

\* The anchors a relying party takes from a national list are services that
\* some list the national operator really published has in force, each with
\* the key identifier of its own certificate, as long as none of the keys it
\* relied on (the pinned LOTL keys, and those the LOTL names for the list) is
\* known to anyone else: whatever the network adds to, moves in or wraps
\* around a published document (verifyTrustedListSignature, parseTrustedList,
\* loadEuLotl, getPointerSigningCertificates, getTrustAnchors).
AnchorsAuthentic ==
    party.anchorsBy \cap AttackerKeys = {} =>
      \A a \in party.anchors :
        /\ \E doc \in scheme.nationals : a.cert \in InForce(doc)
        /\ a.ski = IF SkiOf[a.cert] = None THEN a.cert ELSE SkiOf[a.cert]

\* The lowest generation among pinned keys; no key at all is above every one.
OldestPin(pins) ==
    LET keys == IF pins = Omitted THEN Shipped ELSE pins
    IN CHOOSE g \in 1 .. MaxGeneration + 1 :
         /\ \A key \in keys : key[1] = "lotl" => g <= key[2]
         /\ g = MaxGeneration + 1 \/ LotlKey(g) \in keys

\* A LOTL key that has left the pinned set does not come back: refreshing the
\* pins from the self-pointer of the list held never goes behind the oldest
\* key pinned, although the network replays every older list and nothing
\* compares sequence numbers, unless the list was accepted with a key known to
\* others.  An empty set stays closed (verifyEuLotlSignature).
NoPinRevival ==
    [][party.lotlBy \cap AttackerKeys = {} => OldestPin(party'.pins) >= OldestPin(party.pins)]_party

\* What the operators publish can be followed.  A relying party whose pins are
\* from the last LOTL or the one before, of which the self-pointer embeds its
\* certificates, accepts the last one across an announced rotation of the
\* key; and one that holds the last LOTL accepts the last national list and
\* finds in it exactly the services in force.
HonestListsAccepted ==
    /\ (/\ scheme.latest.list.sequence <= party.refreshed + 1
        /\ party.pins # {} /\ party.lotlBy \cap AttackerKeys = {}
        /\ party.refreshed <= scheme.latest.list.sequence) =>
         loadEuLotl(scheme.latest, party.pins, Shipped) # Rejected
    /\ (party.lotl # Missing /\ party.lotl = parseTrustedList(scheme.latest)) =>
         LET list == loadTrustedList(scheme.national, NationalAnchors(party.lotl))
         IN /\ list # Rejected
            /\ {a.cert : a \in getTrustAnchors(list, ActiveCertificates)} = InForce(scheme.national)

\* What a profile leaves open, and what compat mode takes over and above it,
\* as the documentation of validateLoteProfile lists it.
LeftOpen(p) ==
    {"none", "empty extension", "leap second"}
    \cup (IF p \in {"EuEaa", "Mdl"} THEN {"history"} ELSE {})
    \cup (IF p \in {"EuEaa", "EuPubEaa"} THEN {} ELSE {"pointers"})
    \cup (IF p = "Mdl" THEN {"no uri", "long uri"} ELSE {})
    \cup (IF p = "EuPubEaa" THEN {"withdrawn"} ELSE {})

Tolerated(p, mode) ==
    LeftOpen(p) \cup
    (IF mode = "strict" THEN {}
     ELSE {"territory", "notice uris", "both notice keys"}
          \cup (IF p = "EuPid" THEN {"pid status"} ELSE {})
          \cup (IF p = "EuPubEaa" THEN {"no history", "uri in information"} ELSE {}))

\* A list of entities is accepted exactly when nothing in it deviates further
\* than its mode tolerates, through every sequence of additions, removals and
\* new versions, in any time zone: the default NextUpdate is always within the
\* six months of the profiles, a leap second in a list is read as the time it
\* is, and a new version mends dates that were not.  Accepted in either mode, the same services are trusted: those
\* listed but the withdrawn ones, and nothing trusted was never meant
\* (createLote, updateLoteVersion, addTrustedEntity, removeTrustedEntity,
\* validateLoteProfile, getNotifiedTrustedEntities).
LoteAcceptance ==
    operator # Missing =>
      /\ \A mode \in Modes :
           LET deviations == {operator.deviation} \cup {e.deviation : e \in operator.listed}
           IN /\ Validated(mode) # Invalid <=> deviations \subseteq Tolerated(operator.profile, mode)
              /\ Validated(mode) # Invalid =>
                   ServicesIn(getNotifiedTrustedEntities(Validated(mode))) = MeantServices(operator.listed)
      /\ party.entities \subseteq operator.meant

\* The entry's own chain is cyclic, too deep, of another type or of an
\* integrity that cannot be checked, or it has not the format selected.
EntryAtFault ==
    \/ \E s \in ToSet(catalogue.entry.schemaURIs) : s.uri \in Unresolvable
    \/ \E i \in DOMAIN catalogue.selected :
         /\ catalogue.selected[i] = "mso_mdoc"
         /\ UriOfFormat(catalogue.entry, "mso_mdoc") = <<>>

\* A query that was built is the catalogue's: it comes from an entry the
\* catalogue signed, asks each selected format for the type the entry gives
\* it, restricts issuers to the lists it names where the caller has them
\* included and else to none, and asks for exactly the claims its publisher
\* means wherever the whole chain of documents carries integrity, whatever the
\* network served.  Where every document arrives as the bytes transferred, in
\* a buffer of their own, resolution fails only for an entry that is at fault
\* itself (verifyResolveAndBuildDcql).
QueryFromCatalogue ==
    /\ catalogue.phase = "built" =>
         LET entry == catalogue.entry
         IN /\ entry \in EntryVersions
            /\ catalogue.query.authorities =
                 {a.value : a \in {b \in ToSet(entry.authorities) : catalogue.include /\ b.verificationMethod # Missing}}
            /\ \A i \in DOMAIN catalogue.selected :
                 LET credential == catalogue.query.credentials[i]
                     declared == {s \in ToSet(entry.schemaURIs) : s.format = catalogue.selected[i]}
                     again == \E j \in 1 .. i - 1 : catalogue.selected[j] = catalogue.selected[i]
                 IN \A s \in declared :
                      /\ credential.type = s.type
                      /\ s.uri \in Protected /\ ~again => credential.claims = MeantClaims[s.uri]
                      /\ s.uri \notin Unresolvable \/ catalogue.disturbed # {}
    /\ catalogue.phase = "failed" /\ catalogue.disturbed = {} => EntryAtFault

\* Whether a version of the entry restricts a member of the profile.
Restricts(entry, member) == entry.profile # Missing /\ entry.profile[member] # Missing

\* An issuer whose metadata passes stays inside the profile in force when it
\* is checked, also when it was made from an earlier version of the entry;
\* and the template of an entry passes against that entry, unless the entry
\* asks for key binding and names no proof types to take over
\* (buildCredentialConfigurationTemplate, validateIssuerMetadataAgainstProfile).
IssuerWithinProfile ==
    issuer # Missing =>
      LET current == issuer.checked
          deployed == issuer.deployment
          asked(member) == Restricts(issuer.made, member)
      IN /\ issuer.valid =>
              /\ deployed = "other alg" => ~Restricts(current, "algs")
              /\ Restricts(current, "algs") /\ deployed # "without algs" /\ asked("algs") =>
                   issuer.made.profile.algs \subseteq current.profile.algs
              /\ deployed = "other proof type" => ~Restricts(current, "proofs")
              /\ deployed = "no proof types" => current.binding # "key"
              /\ deployed = "unattested" /\ asked("proofs") /\ Restricts(current, "proofs") =>
                   ~current.profile.keyAttestationRequired
              /\ deployed = "batch" => current.profile = Missing \/ current.profile.batchAllowed
              /\ deployed = "second configuration" /\ issuer.id = Missing => ~Restricts(current, "bindings")
         /\ (/\ deployed = "template" /\ current = issuer.made
             /\ current.binding = "key" => asked("proofs")) => issuer.valid

\* What follows from an entry of the catalogue is the catalogue's: the query a
\* relying party asks (QueryFromCatalogue), and the issuers that are found to
\* conform (IssuerWithinProfile).
CatalogueRespected == QueryFromCatalogue /\ IssuerWithinProfile
=============================================================================
