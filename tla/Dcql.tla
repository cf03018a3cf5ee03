--------------------------------- MODULE Dcql ---------------------------------
(***************************************************************************)
(* The Digital Credentials Query Language evaluator of packages/dcql: the  *)
(* wallet runs a query over its credentials (runDcqlQuery), the verifier   *)
(* runs the same query over what it was sent (fromDcqlPresentation).  A    *)
(* claim set is a JSON tree; a claims path walks it by key, by array index *)
(* or over every element of an array.                                      *)
(***************************************************************************)
EXTENDS Integers, Sequences, SequencesExt, FiniteSetsExt

(* JSON values, and the two marks a walk can meet instead of one. *)
Obj(m) == [t |-> "obj", m |-> m]
Arr(e) == [t |-> "arr", e |-> e]
Val(v) == [t |-> "val", v |-> v]
NotDisclosed == [t |-> "not disclosed"]
Missing == [t |-> "missing"]

(* A value and what is nested in it.  Bound: MaxNesting. *)
MaxNesting == 5

Subvalues(value) ==
    LET Children(v) == CASE v.t = "obj" -> Range(v.m) [] v.t = "arr" -> Range(v.e) [] OTHER -> {}
        nested[n \in 0 .. MaxNesting] ==
            IF n = 0 THEN {value}
            ELSE LET outer == nested[n - 1] IN outer \cup UNION {Children(v) : v \in outer}
    IN  nested[MaxNesting]

IsMergeableObject(v) == v.t \in {"obj", "arr"}

(* Elements of a claims path. *)
Key(k) == [by |-> "key", key |-> k]
Index(n) == [by |-> "index", index |-> n]
All == [by |-> "all"]

-------------------------------------------------------------------------------
(* What a claim parser makes of the value its whole path led to. *)
ClaimParser(value, values) ==
    IF value \in {Missing, NotDisclosed} \/ (values # {} /\ value \notin values) THEN Missing ELSE value

(* Mutant: only the first element of a presented array is looked at. *)
FirstElement(value, parsed) == IF parsed # <<>> /\ parsed[1] # Missing THEN value ELSE Missing

(* An index in a presentation: which element it was cannot be told, so any *)
(* element will do, and the array is handed back as it came.               *)
AnyElement(value, parsed) == IF \E i \in DOMAIN parsed : parsed[i] # Missing THEN value ELSE Missing

(* Mutant: the element is returned without marks for the ones before it. *)
ElementUnpadded(n, parsed) ==
    IF n + 1 \in DOMAIN parsed /\ parsed[n + 1] # Missing THEN Arr(<<parsed[n + 1]>>) ELSE Missing

(* An index in the wallet: that element, after marks for the ones before. *)
ThatElement(n, parsed) ==
    IF n + 1 \in DOMAIN parsed /\ parsed[n + 1] # Missing
    THEN Arr([i \in 1 .. n |-> NotDisclosed] \o <<parsed[n + 1]>>)
    ELSE Missing

(* What zod's NEVER is: over an empty array the parser returns it without  *)
(* an issue, so it becomes the output.                                     *)
Never == Obj([k \in {"status"} |-> Val("aborted")])

(* Every element that matches; the others are marked. *)
MatchingElements(parsed) ==
    IF parsed = <<>> THEN Never
    ELSE IF \A i \in DOMAIN parsed : parsed[i] = Missing THEN Missing
    ELSE Arr([i \in DOMAIN parsed |-> IF parsed[i] = Missing THEN NotDisclosed ELSE parsed[i]])

JsonClaimParser(value, path, values, presentation) ==
    LET parse[v \in Subvalues(value), n \in 1 .. Len(path) + 1] ==
            IF n > Len(path) THEN ClaimParser(v, values)
            ELSE CASE path[n].by = "key" /\ v.t = "obj" /\ path[n].key \in DOMAIN v.m ->
                        (LET sub == parse[v.m[path[n].key], n + 1]
                         IN  IF sub = Missing THEN Missing ELSE Obj([k \in {path[n].key} |-> sub]))
                   [] path[n].by # "key" /\ v.t = "arr" ->
                        (LET parsed == [i \in DOMAIN v.e |-> parse[v.e[i], n + 1]]
                         IN  CASE path[n].by = "all" -> MatchingElements(parsed)
                               [] path[n].by = "index" /\ presentation -> AnyElement(v, parsed)
                               [] OTHER -> ThatElement(path[n].index, parsed))
                   [] OTHER -> Missing
    IN  parse[value, 1]

(* Overlays source on target: what is disclosed in either stays disclosed. *)
DeepMerge(source, target) ==
    LET Entry(v, i) == IF i \notin DOMAIN v THEN NotDisclosed ELSE v[i]
        Empty(s) == IF s.t = "obj" THEN Obj(<<>>) ELSE Arr(<<>>)
        merge[from \in Subvalues(source), onto \in Subvalues(target) \cup {Obj(<<>>), Arr(<<>>)}] ==
            LET Overlay(s, t) ==
                    IF IsMergeableObject(s) THEN merge[s, IF IsMergeableObject(t) THEN t ELSE Empty(s)]
                    ELSE IF s = NotDisclosed THEN t ELSE s
                Merged(s, t, keys) == [k \in keys |-> Overlay(Entry(s, k), Entry(t, k))]
            IN  IF from.t = "obj"
                THEN Obj(Merged(from.m, onto.m, DOMAIN from.m \cup DOMAIN onto.m))
                ELSE Arr(Merged(from.e, onto.e,
                         1 .. Max({Len(onto.e)} \cup {i \in DOMAIN from.e : from.e[i] # NotDisclosed})))
    IN  merge[source, target]

-------------------------------------------------------------------------------
(* Credential query: id, format, multiple, binding, types (alternatives, {} *)
(* for any), authorities ({} for any), claims (a sequence of id, path and   *)
(* values), claimSets (a sequence of sequences of claim ids, <<>> for none).*)
(* A claim need not have an id.                                             *)
NoId == ""

(* Credential: format, binding, types, authority, claims (a JSON object).   *)
MetaMatches(query, credential) ==
    /\ credential.format = query.format
    /\ query.binding => credential.binding
    /\ query.types = {} \/ \E alternative \in query.types : alternative \subseteq credential.types

TrustedAuthorityMatches(query, credential) ==
    query.authorities = {} \/ query.authorities \cap credential.authority # {}

ClaimOutput(claim, credential, presentation) ==
    JsonClaimParser(credential.claims, claim.path, claim.values, presentation)

ClaimWithId(query, id) == SelectInSeq(query.claims, LAMBDA c : c.id = id)

(* The claims each claim set asks for, as positions in query.claims. *)
ClaimSets(query) ==
    IF query.claimSets = <<>>
    THEN <<[i \in DOMAIN query.claims |-> i]>>
    ELSE [s \in DOMAIN query.claimSets |->
            [i \in DOMAIN query.claimSets[s] |-> ClaimWithId(query, query.claimSets[s][i])]]

(* Whether a claim set is valid for a credential, and its merged output. *)
ClaimSetValid(query, set, credential, presentation) ==
    \A i \in ToSet(set) : ClaimOutput(query.claims[i], credential, presentation) # Missing

ClaimSetOutput(query, set, credential) ==
    FoldLeft(LAMBDA merged, i : DeepMerge(ClaimOutput(query.claims[i], credential, FALSE), merged),
             Obj([k \in {} |-> Missing]), set)

ValidClaimSets(query, credential, presentation) ==
    {set \in ToSet(ClaimSets(query)) : ClaimSetValid(query, set, credential, presentation)}

CredentialMatches(query, credential, presentation) ==
    /\ TrustedAuthorityMatches(query, credential)
    /\ ValidClaimSets(query, credential, presentation) # {}
    /\ MetaMatches(query, credential)

(* The positions of the credentials that are valid for a credential query. *)
RunCredentialQuery(query, credentials, presentation) ==
    {i \in DOMAIN credentials : CredentialMatches(query, credentials[i], presentation)}

-------------------------------------------------------------------------------
(* Query: credentials (credential queries) and sets (options, required). *)
QueryIds(query) == {q.id : q \in ToSet(query.credentials)}

QueryWithId(query, id) == CHOOSE q \in ToSet(query.credentials) : q.id = id

(* checkClaimIds: claim ids are unique, claim sets need one for every claim *)
(* and name none that is not there.                                        *)
ClaimIdsCorrect(query) ==
    LET ids == [i \in DOMAIN query.claims |-> query.claims[i].id]
    IN  /\ \A i, j \in DOMAIN ids : ids[i] = ids[j] => i = j \/ ids[i] = NoId
        /\ query.claimSets # <<>> => NoId \notin Range(ids)
        /\ \A set \in ToSet(query.claimSets) : ToSet(set) \subseteq Range(ids)

(* DcqlQuery.parse: ids are unique and every reference has its target. *)
QueryParses(query) ==
    /\ Cardinality(QueryIds(query)) = Len(query.credentials)
    /\ \A s \in ToSet(query.sets) : \A o \in ToSet(s.options) : ToSet(o) \subseteq QueryIds(query)
    /\ \A q \in ToSet(query.credentials) : ClaimIdsCorrect(q)

(* The options of a set all of whose credential queries are in matched. *)
MatchingOptions(set, matched) == {o \in ToSet(set.options) : ToSet(o) \subseteq matched}

CanBeSatisfied(query, matched) ==
    IF query.sets # <<>>
    THEN \A s \in ToSet(query.sets) : s.required => MatchingOptions(s, matched) # {}
    ELSE QueryIds(query) \subseteq matched

(* The wallet's side: which of its credentials are valid for each query. *)
RunDcqlQuery(query, credentials) ==
    LET matches == [id \in QueryIds(query) |-> RunCredentialQuery(QueryWithId(query, id), credentials, FALSE)]
    IN  [matches |-> matches, canBeSatisfied |-> CanBeSatisfied(query, {id \in DOMAIN matches : matches[id] # {}})]

(* The verifier's side: presented maps query ids to sequences of disclosed *)
(* credentials.  Refused is an exception, FALSE a result that validate     *)
(* refuses.                                                                *)
PresentationRefused(query, presented) ==
    \E id \in DOMAIN presented :
        \/ id \notin QueryIds(query)
        \/ presented[id] = <<>>
        \/ ~QueryWithId(query, id).multiple /\ Len(presented[id]) > 1

PresentationMatches(query, presented) ==
    LET valid == [id \in DOMAIN presented |-> RunCredentialQuery(QueryWithId(query, id), presented[id], TRUE)]
    IN  /\ \A id \in DOMAIN presented : valid[id] # {} /\ valid[id] = DOMAIN presented[id]
        /\ CanBeSatisfied(query, {id \in DOMAIN presented : valid[id] # {}})

FromDcqlPresentation(query, presented) ==
    ~PresentationRefused(query, presented) /\ PresentationMatches(query, presented)

-------------------------------------------------------------------------------
(* What is left of a value once the marks are gone: an SD-JWT discloses    *)
(* array elements without their positions.                                 *)
Disclosed(value) ==
    LET disclosed[v \in Subvalues(value)] ==
            CASE v.t = "obj" -> Obj([k \in DOMAIN v.m |-> disclosed[v.m[k]]])
              [] v.t = "arr" -> (LET kept == SelectSeq(v.e, LAMBDA x : x # NotDisclosed)
                                 IN  Arr([i \in DOMAIN kept |-> disclosed[kept[i]]]))
              [] OTHER -> v
    IN  disclosed[value]

===============================================================================
