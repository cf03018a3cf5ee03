------------------------- MODULE AttestationSchema -------------------------
(***************************************************************************)
(* The catalogue of attestations (packages/eudi-attestation-schema): an    *)
(* entry and its checks, one fetched document and its integrity, the       *)
(* claims of a schema, the DCQL query built from an entry, and the         *)
(* template and the check of an issuer's metadata.                         *)
(*                                                                         *)
(* A document is named by its content, so its name is also its digest;     *)
(* DocumentOf and NodeOf give what a document and a node of a JSON schema  *)
(* hold.  A component of a claims path is <<"key", name>>, <<"index", i>>  *)
(* or <<"all", 0>>, the wildcard.                                          *)
(***************************************************************************)
EXTENDS Integers, Sequences, FiniteSets, SequencesExt

CONSTANTS
    Missing,       \* a member that is not there
    Failed,        \* the operation threw
    DocumentOf,    \* document -> [json, vct, valid, claims, extends, extendsSri, schema]
    NodeOf         \* node -> [plain, types, properties, items, prefixItems, tupleItems, variants]

OrElse(value, default) == IF value = Missing THEN default ELSE value

----------------------------------------------------------------------------
(* schemas.ts, verifier.ts, signer.ts, builders.ts *)

zTrustAuthority(a) == a.framework = "etsi_tl" <=> a.verificationMethod # Missing

zSchemaUri(s) ==
    /\ s.sri.algorithm = "sha256"
    /\ s.format = "mso_mdoc" => s.vcMetadata = Missing
    /\ s.vcMetadata # Missing => s.vcMetadata = s.type

zIssuanceProfile(profile) ==
    /\ profile.algs # {} /\ profile.bindings # {}
    /\ profile.proofs # Missing => \A t \in DOMAIN profile.proofs : profile.proofs[t] # {}

zSchemaMeta(entry) ==
    /\ \A i \in DOMAIN entry.authorities : zTrustAuthority(entry.authorities[i])
    /\ entry.schemaURIs # <<>>
    /\ \A i \in DOMAIN entry.schemaURIs : zSchemaUri(entry.schemaURIs[i])
    /\ \A i, j \in DOMAIN entry.schemaURIs :
         entry.schemaURIs[i].format = entry.schemaURIs[j].format => i = j
    /\ entry.profile # Missing =>
         /\ zIssuanceProfile(entry.profile)
         /\ entry.binding = "none" => entry.profile.bindings = Missing /\ entry.profile.proofs = Missing

\* SchemaMetaBuilder.build, and the payload signSchemaMeta signs.
SchemaMetaBuilder(entry) == IF zSchemaMeta(entry) THEN entry ELSE Failed

signSchemaMeta(entry, key) == [payload |-> entry, key |-> key, over |-> entry]

verifySchemaMeta(jws, verificationKey) ==
    IF jws.key = verificationKey /\ jws.over = jws.payload /\ zSchemaMeta(jws.payload)
    THEN jws.payload ELSE Failed

----------------------------------------------------------------------------
(* resolver.ts, type-metadata.ts *)

\* A digest of an algorithm that is not supported passed over.
verifySriIntegrityIfSupported(content, sri) ==
    content.form = "bytes" /\ (sri.algorithm = "sha256" => sri.digest = content.doc)

\* content is [form, doc], as the caller's resolve returns it: "bytes", a
\* string or an array with a buffer to itself; a "view" of a buffer that
\* holds more, of which the whole is hashed, so that no digest of what is in
\* view fits; or an object that is already "parsed".
verifySriIntegrity(content, sri) ==
    /\ content.form = "bytes"
    /\ sri.algorithm = "sha256"
    /\ sri.digest = content.doc

\* The document of a fetch.  No integrity, no check.
fetchDocument(content, sri, verifyIntegrity) ==
    IF /\ content # Failed
       /\ verifyIntegrity /\ sri # Missing => verifySriIntegrity(content, sri)
       /\ DocumentOf[content.doc].json
    THEN content.doc ELSE Failed

parseTypeMetadata(doc) == IF DocumentOf[doc].valid THEN doc ELSE Failed

\* Type metadata, against a plain JSON schema.
IsTypeMetadata(doc) == DocumentOf[doc].vct # Missing

\* The documents of a chain folded together, from the one that extends no
\* other back to the first: members of the extending document win.
mergeTypeMetadata(parent, child) ==
    [vct |-> child.vct, claims |-> parent.claims \cup child.claims]

MergedChain(chain) ==
    LET metadata == [i \in DOMAIN chain |-> [vct |-> DocumentOf[chain[i]].vct,
                                             claims |-> DocumentOf[chain[i]].claims]]
    IN FoldRight(LAMBDA child, parent : mergeTypeMetadata(parent, child),
                 Front(metadata), Last(metadata))

----------------------------------------------------------------------------
(* dcql.ts: the claims of a JSON schema *)

isArraySchema(node) ==
    /\ NodeOf[node].plain
    /\ \/ "array" \in NodeOf[node].types
       \/ NodeOf[node].items # Missing \/ NodeOf[node].prefixItems # Missing
       \/ NodeOf[node].tupleItems # Missing

getTupleItemSchemas(node) ==
    CASE NodeOf[node].prefixItems \notin {Missing, <<>>} -> NodeOf[node].prefixItems
      [] NodeOf[node].tupleItems \notin {Missing, <<>>} -> NodeOf[node].tupleItems
      [] OTHER -> Missing

isObjectSchema(node) ==
    /\ NodeOf[node].plain
    /\ NodeOf[node].properties # Missing \/ "object" \in NodeOf[node].types

\* A claim below a component of the path; the paths of a node that is a claim
\* itself are the empty one.
Below(component, paths) == {<<component>> \o path : path \in paths}
Itself == {<<>>}

\* The paths that a node adds to where it stands.  The nodes of the branch are
\* the ancestors, so that a schema that refers to itself ends and one shared by
\* two members is read at both.
collectClaims[ancestors \in SUBSET DOMAIN NodeOf, node \in DOMAIN NodeOf] ==
    LET branch == ancestors \cup {node}
        Element(item, component) ==
            Below(component,
                  IF isObjectSchema(item) \/ isArraySchema(item) THEN collectClaims[branch, item] ELSE Itself)
        collectClaimsFromArraySchema(array) ==
            LET tuple == getTupleItemSchemas(array)
                items == NodeOf[array].items
            IN CASE tuple # Missing -> UNION {Element(tuple[i], <<"index", i - 1>>) : i \in DOMAIN tuple}
                 [] tuple = Missing /\ items # Missing /\ (isObjectSchema(items) \/ isArraySchema(items)) ->
                      Element(items, <<"all", 0>>)
                 [] OTHER -> Itself
        collectClaimsFromProperty(property) ==
            CASE isArraySchema(property) -> collectClaimsFromArraySchema(property)
              [] ~isArraySchema(property) /\ isObjectSchema(property) -> collectClaims[branch, property]
              [] OTHER -> Itself
        collectClaimsFromSchemaNode ==
            UNION {collectClaims[branch, v] : v \in ToSet(NodeOf[node].variants)} \cup
            LET properties == NodeOf[node].properties
            IN CASE properties # Missing ->
                      UNION {Below(<<"key", name>>, collectClaimsFromProperty(properties[name])) :
                               name \in DOMAIN properties}
                 [] properties = Missing /\ isArraySchema(node) -> collectClaimsFromArraySchema(node)
                 [] OTHER -> Itself
    IN CASE ~NodeOf[node].plain -> Itself
         [] NodeOf[node].plain /\ node \in ancestors -> {}
         [] OTHER -> collectClaimsFromSchemaNode

\* pushClaim: the root itself is never a claim.
collectClaimsFromSchema(schema) == collectClaims[{}, schema] \ Itself

\* A reference is [format, type, metadata, schema], of which at most one of
\* the last two is there.
getClaimsFromSchema(ref) ==
    CASE ref = Missing -> {}
      [] ref # Missing /\ ref.metadata # Missing -> ref.metadata.claims
      [] ref # Missing /\ ref.metadata = Missing /\ ref.schema # Missing ->
           collectClaimsFromSchema(ref.schema)
      [] OTHER -> {}

----------------------------------------------------------------------------
(* dcql.ts: the query *)

toDcqlTrustedAuthorities(entry) ==
    {a.value : a \in {b \in ToSet(entry.authorities) : b.framework = "etsi_tl"}}

UriOfFormat(entry, format) == SelectSeq(entry.schemaURIs, LAMBDA s : s.format = format)

\* The type of a credential query: of the resolved reference, else of the
\* entry, else (SD-JWT only) the identifier of the entry.
CredentialType(entry, format, ref) ==
    CASE ref # Missing -> ref.type
      [] ref = Missing /\ UriOfFormat(entry, format) # <<>> -> UriOfFormat(entry, format)[1].type
      [] OTHER -> IF format = "dc+sd-jwt" THEN entry.id ELSE Failed

toDcqlCredentialInput(entry, format, ref) ==
    [format |-> format, claims |-> getClaimsFromSchema(ref), type |-> CredentialType(entry, format, ref)]

\* Every reference is used once: a format that is selected again has none.
ReferenceFor(i, selectedFormats, refs) ==
    LET sameFormat(r) == r.format = selectedFormats[i]
        candidates == SelectSeq(refs, sameFormat)
        used == Cardinality({j \in 1 .. i - 1 : selectedFormats[j] = selectedFormats[i]})
    IN IF used < Len(candidates) THEN candidates[used + 1] ELSE Missing

\* The authorities restrict the query only where the caller asks for them.
buildDcqlFromSchemaMeta(entry, selectedFormats, refs, includeTrustedAuthorities) ==
    LET credentials == [i \in DOMAIN selectedFormats |->
            toDcqlCredentialInput(entry, selectedFormats[i], ReferenceFor(i, selectedFormats, refs))]
    IN IF \E i \in DOMAIN credentials : credentials[i].type = Failed THEN Failed
       ELSE [credentials |-> credentials,
             authorities |-> IF includeTrustedAuthorities THEN toDcqlTrustedAuthorities(entry) ELSE {}]

----------------------------------------------------------------------------
(* issuer-metadata.ts *)

\* The claims the entry itself lists go before those of its documents.
buildCredentialConfigurationTemplate(entry, format, refs) ==
    LET uri == UriOfFormat(entry, format)
        profile == entry.profile
    IN IF uri = <<>> THEN Failed
       ELSE [format |-> format, type |-> uri[1].type,
             claims |-> OrElse(uri[1].claims, getClaimsFromSchema(ReferenceFor(1, <<format>>, refs))),
             algs |-> IF profile = Missing THEN Missing ELSE profile.algs,
             bindings |-> IF profile = Missing THEN Missing ELSE profile.bindings,
             proofs |-> IF profile = Missing \/ profile.proofs = Missing THEN Missing
                        ELSE [t \in DOMAIN profile.proofs |->
                               [algs |-> profile.proofs[t], attested |-> profile.keyAttestationRequired]]]

checkSubset(actual, allowed) == actual = Missing \/ allowed = Missing \/ actual \subseteq allowed

validateProofTypes(config, profile) ==
    profile.proofs = Missing \/ config.proofs = Missing \/
      \A t \in DOMAIN config.proofs :
        /\ t \in DOMAIN profile.proofs
        /\ checkSubset(config.proofs[t].algs, profile.proofs[t])
        /\ profile.keyAttestationRequired => config.proofs[t].attested

validateConfiguration(config, entry, format) ==
    /\ config.format = format
    /\ config.type = UriOfFormat(entry, format)[1].type
    /\ entry.binding = "key" => config.proofs # Missing
    /\ entry.profile # Missing =>
         /\ checkSubset(config.algs, entry.profile.algs)
         /\ checkSubset(config.bindings, entry.profile.bindings)
         /\ validateProofTypes(config, entry.profile)

\* The configuration named, or every one of the format and the type.
findMatchingConfigurations(metadata, entry, format, id) ==
    IF id # Missing THEN {i \in {id} : i \in DOMAIN metadata.configurations}
    ELSE {i \in DOMAIN metadata.configurations :
            /\ metadata.configurations[i].format = format
            /\ metadata.configurations[i].type = UriOfFormat(entry, format)[1].type}

validateIssuerMetadataAgainstProfile(metadata, entry, format, id) ==
    /\ UriOfFormat(entry, format) # <<>>
    /\ findMatchingConfigurations(metadata, entry, format, id) # {}
    /\ \A i \in findMatchingConfigurations(metadata, entry, format, id) :
         validateConfiguration(metadata.configurations[i], entry, format)
    /\ entry.profile # Missing /\ ~entry.profile.batchAllowed => ~metadata.batch
=============================================================================
