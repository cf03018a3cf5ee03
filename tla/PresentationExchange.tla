------------------------- MODULE PresentationExchange -------------------------
(***************************************************************************)
(* OpenID4VP between a verifier V with two sessions, a wallet, and another *)
(* verifier W: V creates requests, W relays them or makes its own that     *)
(* name V, the wallet resolves what reaches it, evaluates the DCQL query,  *)
(* and answers; V parses whatever response arrives for a session, W may    *)
(* have passed it on.  Sessions, nonces, credentials and the verification  *)
(* of presentations belong to the applications.                            *)
(***************************************************************************)
EXTENDS VpVerification, Dcql

CONSTANTS
    Sessions,     \* the sessions of V
    Scenarios,    \* what V asks for, how, and how the wallet is configured
    MaxOffers     \* how many requests W brings to the wallet

Parties == {"v", "w"}

ASSUME MaxOffersAssumption == MaxOffers \in Nat

ASSUME ScenariosAssumption ==
    \A x \in Scenarios : /\ x.prefix \in ClientIdPrefixes
                         /\ x.credentials \in Seq(Range(x.credentials))
                         /\ x.transactions \in Seq(Range(x.transactions))

VARIABLES
    scenario,     \* the member of Scenarios this behaviour is about
    session,      \* per session of V: its payload and what became of it
    offers,       \* the requests that reached the wallet, by any channel
    resolved,     \* the requests the wallet accepted, with their client
    responses,    \* the responses the wallet sent
    refused       \* the responses V refused in the session they were made for

vars == <<scenario, session, offers, resolved, responses, refused>>

-------------------------------------------------------------------------------
(* The payload V creates in session s. *)
Payload(s) ==
    [maker |-> "v", prefix |-> scenario.prefix,
     id |-> IF scenario.prefix = "origin" THEN None ELSE "v",
     mode |-> scenario.mode,
     redirect |-> IF scenario.mode = "fragment" THEN "v" ELSE None,
     uri |-> IF scenario.mode \in PostModes THEN "v" ELSE None,
     queries |-> scenario.queries,
     origins |-> IF scenario.origins THEN {"v"} ELSE None,
     url |-> IF scenario.url THEN "v" ELSE None,
     state |-> IF scenario.state THEN s ELSE None,
     nonce |-> s, walletNonce |-> None,
     transactions |-> scenario.transactions, metadata |-> scenario.metadata]

(* How V signs: the method its prefix has, with its own key. *)
SignedBy(party, payload) ==
    [payload |-> payload, method |-> scenario.method, by |-> party, kid |-> TRUE, typ |-> scenario.typ,
     fresh |-> TRUE, send |-> IF scenario.jar = "reference" THEN "reference" ELSE "value", wrapped |-> scenario.wrapped,
     attestation |-> IF payload.prefix = "verifier_attestation"
                     THEN [sub |-> party, redirects |-> None] ELSE None]

ClientId(payload) == IF payload.id = None THEN None ELSE [prefix |-> payload.prefix, id |-> payload.id]

(* A request as the wallet gets it: plain or as a request object, with the *)
(* channel it came by and whose page or endpoint that is.                  *)
Request(payload, jar, at) ==
    [plain |-> IF jar = None THEN payload ELSE None, jar |-> jar, outer |-> ClientId(payload),
     channel |-> [type |-> Category(payload.mode), at |-> at]]

Init ==
    /\ scenario \in Scenarios
    /\ session = [s \in Sessions |-> [status |-> "none", payload |-> None, by |-> None]]
    /\ offers = {} /\ resolved = {} /\ responses = {} /\ refused = {}

(* createOpenid4vpAuthorizationRequest, and its delivery by V itself.  A   *)
(* wallet that POSTs to the request_uri sends its metadata, not its nonce. *)
CreateAuthorizationRequest(s) ==
    /\ session[s].status = "none"
    /\ LET payload == Payload(s)
           signed == scenario.jar # None
       IN  IF QueryParses(scenario.query) /\ CreatePayloadError(payload, signed, None) = Ok
           THEN /\ session' = [session EXCEPT ![s].status = "sent", ![s].payload = payload]
                /\ offers' = offers \cup
                     {Request(payload, IF signed THEN SignedBy("v", payload) ELSE None, "v")}
           ELSE session' = [session EXCEPT ![s].status = "invalid"] /\ UNCHANGED offers
    /\ UNCHANGED <<scenario, resolved, responses, refused>>

(* What W can bring to the wallet, given a request of V: the same request  *)
(* on W's channel, or one of its own that names either of them and has the *)
(* response sent to W, unsigned or signed with W's key.                    *)
OffersOfW(request) ==
    LET payload == IF request.jar = None THEN request.plain ELSE request.jar.payload
        Toward(p) == IF p = None THEN None ELSE "w"
        own == {[payload EXCEPT !.maker = "w", !.id = IF payload.id = None THEN None ELSE named,
                                !.uri = Toward(payload.uri), !.redirect = Toward(payload.redirect),
                                !.origins = IF payload.origins = None THEN None ELSE {"w"},
                                !.url = Toward(payload.url)] : named \in Parties}
    IN  {[request EXCEPT !.channel.at = "w", !.outer = outer] :
            outer \in {request.outer} \cup (IF request.outer = None THEN {} ELSE {[request.outer EXCEPT !.id = "w"]})}
        \cup {Request(p, None, "w") : p \in own}
        \cup {Request(p, SignedBy("w", p), "w") : p \in own}
        \cup {Request(p, [SignedBy("w", p) EXCEPT !.attestation.sub = "v"], "w") :
                p \in {x \in own : x.prefix = "verifier_attestation"}}

OfferFromW ==
    /\ scenario.w
    /\ Cardinality({o \in offers : o.channel.at = "w"}) < MaxOffers
    /\ \E request \in {o \in offers : o.channel.at = "v"} : \E offer \in OffersOfW(request) : offers' = offers \cup {offer}
    /\ UNCHANGED <<scenario, session, resolved, responses, refused>>

-------------------------------------------------------------------------------
(* resolveOpenid4vpAuthorizationRequest: the payload that counts, and the  *)
(* first complaint about it.  The payload is validated before the client.  *)
RequestPayload(request) ==
    IF request.jar # None THEN request.jar.payload
    ELSE IF request.plain.mode \in DcApiModes THEN [request.plain EXCEPT !.id = None]
    ELSE request.plain

OriginOf(request) == IF request.channel.type = "dc_api" THEN request.channel.at ELSE None

ResolveError(request) ==
    LET p == RequestPayload(request)
        signed == request.jar # None
    IN  FirstError(<<
            IF signed THEN JarError(request.jar, request.outer, request.channel) ELSE Ok,
            Require(Category(p.mode) = request.channel.type, "response mode"),
            PayloadError(p, signed, request.channel, scenario.wallet.expectedNonce),
            ClientError(p, request.jar, OriginOf(request)),
            Require("pd_uri" \notin p.queries, "presentation_definition_uri")>>)

ResolveAuthorizationRequest(request) ==
    /\ request \notin {r.request : r \in resolved}
    /\ ResolveError(request) = Ok
    /\ resolved' = resolved \cup
         {[request |-> request, client |-> EffectiveClientId(RequestPayload(request), OriginOf(request))]}
    /\ UNCHANGED <<scenario, session, offers, responses, refused>>

-------------------------------------------------------------------------------
(* What the wallet discloses of credential i for one valid claim set. *)
Presentation(query, i, set) ==
    LET credential == scenario.credentials[i]
        output == ClaimSetOutput(query, set, credential)
    IN  [format |-> credential.format, binding |-> credential.binding, types |-> credential.types,
         authority |-> credential.authority, claims |-> Disclosed(output),
         output |-> output, of |-> i, set |-> set, alg |-> "sha-256",
         hashes |-> IF scenario.wallet.approves
                    THEN {t \in DOMAIN scenario.transactions : query.id \in ToSet(scenario.transactions[t].ids)}
                    ELSE {}]

(* The presentations for one credential query: one valid credential, or    *)
(* all of them where the query takes several.                              *)
PresentationsFor(query, matches) ==
    LET Of(i) == {Presentation(query, i, set) : set \in ValidClaimSets(query, scenario.credentials[i], FALSE)}
    IN  {<<p>> : p \in UNION {Of(i) : i \in matches}}
        \cup (IF query.multiple THEN {SetToSeq({CHOOSE p \in Of(i) : TRUE : i \in matches})} ELSE {})

(* Where a response goes: the response_uri or redirect_uri, the page of a  *)
(* DC API request, or the interactive authorization endpoint.              *)
Destination(request) ==
    LET p == RequestPayload(request)
    IN  IF request.channel.type # "direct_post" THEN request.channel.at
        ELSE IF p.uri # None THEN p.uri ELSE p.redirect

(* The wallet application knows the response and redirect URIs of the      *)
(* clients that are registered with it.                                    *)
RegisteredDestination(accepted) ==
    accepted.client.prefix = "pre-registered" => Destination(accepted.request) = accepted.client.id

(* createOpenid4vpAuthorizationResponse and its submission. *)
CreateAuthorizationResponse(accepted) ==
    /\ accepted \notin {r.accepted : r \in responses}
    /\ LET p == RequestPayload(accepted.request)
           result == RunDcqlQuery(scenario.query, scenario.credentials)
           matched == {id \in DOMAIN result.matches : result.matches[id] # {}}
       IN  /\ p.queries = {"dcql"}
           /\ RegisteredDestination(accepted)
           /\ result.canBeSatisfied
           /\ CreateResponseError(p, scenario.wallet) = Ok
           /\ \E chosen \in {c \in SUBSET matched : CanBeSatisfied(scenario.query, c)} :
              \E presented \in [chosen -> UNION {PresentationsFor(QueryWithId(scenario.query, id), result.matches[id]) : id \in chosen}] :
                 /\ \A id \in chosen : presented[id] \in PresentationsFor(QueryWithId(scenario.query, id), result.matches[id])
                 /\ responses' = responses \cup
                      {[accepted |-> accepted, to |-> Destination(accepted.request), state |-> p.state,
                        nonce |-> p.nonce, aud |-> accepted.client, presented |-> presented,
                        jarm |-> Jarm(p, accepted.client, scenario.wallet)]}
    /\ UNCHANGED <<scenario, session, offers, resolved, refused>>

-------------------------------------------------------------------------------
(* The application verifies each presentation that is bound to a holder:   *)
(* its nonce and audience are those of the session.                        *)
HolderBound(response) ==
    \E id \in DOMAIN response.presented : \E p \in ToSet(response.presented[id]) : p.binding

PresentationsVerify(s, response) ==
    HolderBound(response)
        => /\ response.nonce = session[s].payload.nonce
           /\ response.aud = EffectiveClientId(session[s].payload, "v")

(* parseOpenid4vpAuthorizationResponse, the DCQL result and the            *)
(* transaction data, in a session that waits for a response.               *)
Accepts(s, response) ==
    /\ ParseResponseError(session[s].payload, response, "v") = Ok
    /\ PresentationsVerify(s, response)
    /\ FromDcqlPresentation(scenario.query, response.presented)
    /\ TransactionsVerify(scenario.transactions, response.presented)

(* Made for the request of session s, and sent to V itself. *)
MadeFor(s, response) == RequestPayload(response.accepted.request) = session[s].payload /\ response.to = "v"

ParseAuthorizationResponse(s, response) ==
    /\ session[s].status = "sent"
    /\ IF Accepts(s, response)
       THEN session' = [session EXCEPT ![s].status = "accepted", ![s].by = response] /\ UNCHANGED refused
       ELSE refused' = refused \cup {r \in {response} : MadeFor(s, r)} /\ UNCHANGED session
    /\ UNCHANGED <<scenario, offers, resolved, responses>>

Next ==
    \/ \E s \in Sessions : CreateAuthorizationRequest(s)
    \/ OfferFromW
    \/ \E request \in offers : ResolveAuthorizationRequest(request)
    \/ \E accepted \in resolved : CreateAuthorizationResponse(accepted)
    \/ \E s \in Sessions, response \in responses : ParseAuthorizationResponse(s, response)

Spec == Init /\ [][Next]_vars

-------------------------------------------------------------------------------
(* Whatever W relays, rewraps or signs, credentials only go to the party   *)
(* the effective client identifier names: the wallet's user consents to    *)
(* that identifier (resolveOpenid4vpAuthorizationRequest).                 *)
DisclosedToNamedClient == \A r \in responses : r.to = r.aud.id

(* What V accepts in a session with a credential bound to its holder       *)
(* answers the request of that session: not a response of its other        *)
(* session, nor one W obtained for a request of its own that copies V's    *)
(* nonce and state.  And whatever V accepts, no transaction is authorised  *)
(* that the wallet did not approve (parseOpenid4vpAuthorizationResponse,   *)
(* verifyTransactionData).                                                 *)
AcceptedForItsSession ==
    \A s \in Sessions :
        session[s].status = "accepted" =>
            /\ HolderBound(session[s].by) => MadeFor(s, session[s].by)
            /\ scenario.transactions # <<>> => scenario.wallet.approves

(* Wallet and verifier agree: a response the wallet made for V's request   *)
(* with what runDcqlQuery returned is never refused in that session,       *)
(* though array elements lose their positions when disclosed, the wallet   *)
(* picks one of several keys, and state and audience are set on one side   *)
(* and checked on the other (createOpenid4vpAuthorizationResponse,         *)
(* fromDcqlPresentation).  It is refused only for a transaction the wallet *)
(* did not approve or had no listed credential or hash algorithm for.      *)
HonestResponseAccepted ==
    \A r \in refused :
        \E entry \in ToSet(scenario.transactions) :
            ~(scenario.wallet.approves /\ "sha-256" \in entry.algs /\ ToSet(entry.ids) \cap DOMAIN r.presented # {})

(* The leaves of a value with their positions, and those of the leaves a   *)
(* claims path with its values leads to.                                   *)
Leaves(value) ==
    LET leaves[v \in Subvalues(value)] ==
            CASE v.t = "obj" -> UNION {{<<<<Key(k)>> \o l[1], l[2]>> : l \in leaves[v.m[k]]} : k \in DOMAIN v.m}
              [] v.t = "arr" -> UNION {{<<<<Index(i)>> \o l[1], l[2]>> : l \in leaves[v.e[i]]} : i \in DOMAIN v.e}
              [] v.t = "val" -> {<<<<>>, v>>}
              [] OTHER -> {}
    IN  leaves[value]

Asked(leaves, claim) ==
    {l \in leaves :
        /\ Len(l[1]) >= Len(claim.path)
        /\ \A i \in DOMAIN claim.path :
             \/ claim.path[i].by = "key" /\ claim.path[i] = l[1][i]
             \/ claim.path[i].by = "index" /\ l[1][i] = Index(claim.path[i].index + 1)
             \/ claim.path[i].by = "all" /\ l[1][i].by = "index"
        /\ claim.values = {} \/ (Len(l[1]) = Len(claim.path) /\ l[2] \in claim.values)}

(* Selective disclosure is exact: the merged output of a claim set has the *)
(* leaves of the credential its claims ask for, each at its place, and no  *)
(* other, although every claim is parsed alone and array outputs are       *)
(* padded and laid over each other (getJsonClaimParser, deepMerge).  The   *)
(* credentials have no empty array, over which the evaluator succeeds with *)
(* a marker that is no part of them (Never): of those it does not hold.    *)
OutputExact ==
    \A r \in responses : \A id \in DOMAIN r.presented : \A p \in ToSet(r.presented[id]) :
        Leaves(p.output) = UNION {Asked(Leaves(scenario.credentials[p.of].claims), QueryWithId(scenario.query, id).claims[i]) :
                                    i \in ToSet(p.set)}

===============================================================================
