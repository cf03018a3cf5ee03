# Verification of identity-common-ts

TLA+ specifications of the packages of
`openwallet-foundation-labs/identity-common-ts`, TLC configurations that check
them on small instances, and TLAPS proofs for the parts where a result for
every instance matters. Paths below are relative to `packages/` of the
repository.

The repository is a set of libraries for digital credentials: a wallet, an
issuer or a verifier calls them and supplies cryptography, the network, storage
and the user interface as callbacks. Most packages keep little state of their
own. What can go wrong is therefore in three places: in state that lives across
an `await` (allocators, caches, retries), in long chains of checks whose order
and completeness decide what is accepted, and in the agreement of two sides
that evaluate the same request separately. The models put each library in the
hands of the applications it is written for, next to a network that loses and
repeats, a clock that moves and another party that relays, and ask what the
parties may rely on.

## 1. Inventory

### Components that are modelled

| Component | State | Operations | What is hard | What makes it correct |
|---|---|---|---|---|
| Feistel index allocator, `token-status-list/src/status-list-index-feistel.ts` | position, key, stored state | `next`, `getState`, `fromState` | overlapping `next()` calls, a rejecting `encryptBlock`, a restart, an unbounded loop | no index twice; the walk ends |
| FF1, `ff1.ts` | two halves of a value per call | ten rounds, an await in each | alternating moduli when the length is odd; rounds of concurrent calls interleave, any may reject | a permutation; each call as if it were atomic |
| Shuffle allocator, `status-list-index.ts` | shuffled order, position, seed | `next`, `getState`, restart | the order is derived again after a restart | the same order again; no index twice |
| Status lists, `status-list.ts`, `status-list-cbor.ts`, `status-list-cwt.ts`, `cose/src/cose/cwt.ts` | compressed bytes, lazily inflated list, retained payload bytes | read, update, replace, mark, sign, decode | three copies of one list, changes during an asynchronous signature | a published token shows what was set |
| Trust chain resolution, `openid-federation` | configuration cache, request and visit counters, tree of calls | discovery, validation, policies | concurrent discovery, loops, shared budgets, failing requests | valid, complete, bounded, terminating |
| Metadata policies, `openid-federation/src/resolveTrustChains/policies` | none | merge, apply | order of operators of several superiors | every superior is obeyed |
| OAuth 2, `oauth2` | nonces and challenges held by the client, the call in progress | PAR, challenge, token, resource calls; server verification of DPoP, PKCE, attestation, grants | rotating nonces, retries, lost and repeated requests, stolen codes and tokens | grants and tokens stay with their client; proofs count once; honest clients complete |
| OpenID4VCI, `openid4vci` | nonce, transaction, encryption keys | offer, metadata, authorization, nonce, credential, deferred, notification | version and encryption negotiation, proofs for another issuer, expiring nonces | keys proved here; responses hidden; compatible wallets are served |
| DCQL, `dcql` | none | claim, meta, authority, set evaluation, presentation results | evaluation on a credential and on its presentation | both agree; output is exactly what was asked |
| OpenID4VP, `openid4vp` | request and response of a session | create, resolve, respond, parse, transaction data | nine client prefixes, relayed requests and responses, two sessions | disclosure to the named client; acceptance in the right session |
| SD-JWT, `sd-jwt-core` | disclosures, digests, key binding | issue, present, reduce, verify, safeVerify, general JSON | nested disclosures, two verification paths, tampering | accepted claims are those presented |
| SD-JWT VC, `sd-jwt-vc` | status list, chain of type metadata | verify, safeVerify, `getVct`, `verifyTypeMetadata` | answers that arrive late, change between requests, loops of `extends` | revocation takes effect; only authorised requests |
| mdoc, `mdoc` | session transcript, matches, verdicts | request, match, select, respond, decrypt, verify, report | two sides match the same request; which document answers which doc request; relayed requests | what is declined stays hidden; an honest answer is accepted; a foreign one is not |
| Relying party trust: `x509`, `jose`, `eudi-access-certificate`, `eudi-jades`, `eudi-registration-certificate` | a cached CRL, the wallet's progress | verify a request, a link of a chain, a CRL and a certificate's status; sign and decode a registration; compare a query with it | a revocation between two checks, lists of limited scope, signatures over an empty payload, pooled registrations | the certificate was valid when the list was made; nothing beyond the registration is disclosed |
| Trusted lists (XML), `eudi-tl` | the pinned certificates of the LOTL, the lists in force | fetch and verify a list, resolve the LOTL and its pointers, select national anchors, take trust anchors | key rotation while lists are replayed, wrapped signatures, retired keys that leak, several pointers for one list | trust comes from the operators in force; a retired key never returns; their lists are accepted |
| Lists of trusted entities, `eudi-lote` | the list under construction | create, add, remove and update, validate against six profiles | six months over month ends and leap days, reckoned in local time; leap seconds in the dates of a list; updates of a list another profile governs | what a profile demands is what is accepted |
| Attestation schema catalogue, `eudi-attestation-schema` | a chain of documents being resolved | build, sign and verify an entry, resolve its documents, build a query, template and check issuer metadata | documents fetched one by one from a network, loops and depth of `extends`, integrity at every link and over whatever bytes are returned, two versions of an entry | the query asks what the publisher meant; an issuer stays within the profile |

How they interact: the status list packages feed the `status` checks of SD-JWT
VC and mdoc (which model a list by what a verifier reads from it, mdoc with the
token around it); OpenID4VCI
issuance runs on the OAuth 2 client and server; OpenID4VP requests are evaluated
with DCQL; the protocol packages call jose, cose, x509 and the crypto callbacks,
whose signatures, digests and ciphers are ideal in the models (a signature *is*
the key it was made with and what it covers).

### Components that are not modelled

`PROJECT.json` names each with its reason. In short: builders, schema validation
and codecs (mdoc builders and engagement, federation statement creation, OAuth
and OpenID4VCI schemas, DER, CBOR and XML parsing) have no state and no
interleaving; cryptography and utilities are ideal functions of the modules that
use them. Of the relying party trust packages the checks a wallet makes are
modelled; creation of certificates and time-stamped JAdES profiles are not. The
strong customer authentication profile is a function of two documents.

Within the components that are modelled, these checks are left out. Each would only
refuse more, and each holds of everything the parties of the models make:

* the `client_id_scheme` of older drafts of OpenID4VP, which names the prefix next
  to the `client_id`, and its comparison with that of the request object;
* `exp` and the signature of a signed JARM response: its key is named by the response
  itself, so that it tells the verifier nothing of who made it;
* of an mdoc, the country and the `x5t` of the issuer's certificate, the agreement
  of `issuing_country` and `issuing_jurisdiction` with it, and the device MAC;
* of a JAdES header, the rules for `b64` and repeated entries of `crit`.

An encrypted credential request has one flag for all that an issuer refuses in its
header (`zip`, `crit`, an `alg` other than that of the key), and `certified` in a
JAdES header includes that its critical parameters are there.

## 2. Modules

An arrow is EXTENDS. Every module that a run checks has an `MC` module with the
instance (model values, scenarios, symmetry) and a `.cfg` of the same name.

    StatusListIndexFeistel, Ff1 -> StatusListIndexFf1   -> StatusListIndexFf1Proofs
    StatusListIndex    -> StatusListCwt                 -> CredentialStatusProofs
    FederationPolicy   -> TrustChainResolution          -> TrustChainResolutionProofs
    OAuthVerification  -> OAuthFlow                     -> OAuthFlowProofs
    CredentialRequests -> CredentialIssuance            -> CredentialIssuanceProofs
    VpVerification, Dcql -> PresentationExchange        -> PresentationProofs
    MdocMatching, MdocVerification -> MdocPresentation  -> PresentationProofs
    SdJwt -> SdJwtVcTypeMetadata -> SdJwtVc             -> CredentialStatusProofs
    Revocation -> Registration, Jose -> RelyingPartyTrust -> TrustProofs
    TrustedList, Lote, AttestationSchema -> TrustLists  -> TrustProofs

`Basics` has the first error of a sequence of checks, which the protocol modules
share, `Within`, which filters a sequence by a set, and the lemmas about both and
about induction that several proofs cite. `PresentationProofs`, `TrustProofs` and
`CredentialStatusProofs` have several machines each, which share no variable and are
proved about one after the other; `MdocSpec`, `WalletSpec` and `VcSpec` are the
specifications of `MdocPresentation`, `RelyingPartyTrust` and `SdJwtVc`.

The left-hand modules are operators, one per function of the code, with the
checks in the order of the code and the first error as the result. The
right-hand ones are the machines: variables for the state of each party, one
action per call or per stretch of a call between two awaits.

**StatusListIndexFeistel.** `pc`, `claimed` and `value` are the locals of each
call of `next()`, `position` the field. `Claim` is the synchronous part up to the
first await, `Encrypt` one turn of the do/while loop, `EncryptBlockRejects` a
rejected callback, `Issue` the storing of `getState()` together with the use of
the index, `Restart` a process that stops and restores what it stored. FF1 is
any permutation.

**Ff1.** Any number of encryptions under one key, each in a round of its own:
`Begin`, `Round` (one awaited block), `End`. The CBC-MAC is any function of the
round and the half. `halves` keeps the pair of halves before every round, the
last of which is the state of the code; the earlier ones are history, which lets
`Permutes` compare calls that are never in the same round.

**StatusListIndexFf1.** The allocator on FF1 itself: where
`StatusListIndexFeistel` encrypts in one step, here `BlockEncrypted` is one round
and `Encrypted` the resolution of the call; `BlockRejected` may end it in any
round and `Stopped` ends all. `AtomicPermutation` is the specification of
`StatusListIndexFeistel`, with `cipher` a history variable that no step reads: the
permutation which the round functions chosen at the start amount to. So what is
proved of the allocator over an ideal cipher is about the allocator over FF1.

**StatusListIndex, StatusListCwt.** The rejection sampling of `SeededRandom`, the
Fisher-Yates shuffle, `next()`, storing and restoring; then the list in its
three forms with each method that reads or writes one of them, a signature that
resolves later than it was asked for, and decoding of a published token.
Compressed bytes carry the name of the compressor, since DEFLATE has many
outputs for one input.

**FederationPolicy, TrustChainResolution.** A `task` per path is a call of
`discover()`; `ConfigSettles` resolves a cached promise, `Collect` is
`Promise.allSettled`. `FetchStatement`, `FinishPath` and `Validated` are the
sequential second half. A statement is its signing key, the keys it vouches for
and one flag for its time and claim checks. Policies are the seven standard
operators over one parameter; an array is a set listed in one of two orders, which
tell apart arrays of two members, since only two `value`s or `default`s are compared
in order.

**OAuthVerification, OAuthFlow.** `OAuthVerification` is the server: DPoP, PKCE,
client attestation, pushed request objects, token and resource requests. `OAuthFlow` is the client's
chain of requests and retries, the servers' answers, lost and duplicated
requests, rotating nonces and challenges, and a second client that holds the
wallet's codes and tokens.

**CredentialRequests, CredentialIssuance.** The rules between version, metadata
and request on both sides, and the run of a wallet from the offer to the
notification. The issuer `E` passes on nonces of the honest issuer `H` and keeps
the proofs it is sent; a proxy may read and rewrite plaintext.

**Dcql, VpVerification, PresentationExchange.** The evaluator; the client
prefixes, request objects, payload rules and response checks; and two sessions
of a verifier `v`, a wallet, and another verifier `w` that relays and rewraps.
Recursion over JSON is a function on `Subvalues`, what is nested in a value.

**SdJwt, SdJwtVcTypeMetadata, SdJwtVc.** Packing and unpacking with nested
frames, arrays and decoys; merging and evaluating a chain of type metadata; and
issuance, reduction, presentation, tampering and the steps of verification
between its requests. Recursion over JSON goes over what is `Reached` from a value, or
level by level (`Unpacked`). `After` and `Settle` are the stretch of `verify` and
`safeVerify` from one request to the next.

**MdocMatching, MdocVerification, MdocPresentation.**
Augmenting-path attribution of documents to doc requests; `matchElements` in its
two modes, age attestations, issuers and use cases; the selection of
`createWithDeviceRequest`; the checks on a document in their order under a
callback that throws or collects; and sessions over the Digital Credentials API
with a site `W` that relays a request. `MdocVerification` begins with what makes a status
list (CWT or JWT) or an identifier list count: content type and `typ`, the signer
from the protected `x5chain` or one bound by `x5t`, a signature and not a tag, and
the claims `sub`, `iat`, `nbf` and `exp`. What is served for a URI
(`MdocPresentation!Servable`) is any list the publisher made for it up to then,
older ones included, the list of another reference, one whose header, claims,
format or signer is wrong, or nothing.

**Revocation, Jose, Registration, RelyingPartyTrust.** `getRevocationStatus` and
the profile of an access certificate; `verifyJwt`; JAdES, the payload rules and
`checkOverAsking`. The machine is a wallet that decides about a request in the
order the packages' READMEs show: `VerifyRequest`, `CheckAccessCertificate`
(with whatever CRL is in its cache and any CA certificate it trusts),
`CheckRegistration`, `CheckQuery`. Meanwhile the CAs change the status of
certificates and publish full, partial, delta and indirect lists. The wallet
application, the CAs and the registrar are external. `records` keeps what the
CAs had on file at each time, so that a list can be compared with the time it
was made at.

**TrustedList, Lote, AttestationSchema, TrustLists.** The functions of the three
packages, and a relying party that uses them one after another. It takes an entry
of the catalogue, fetches what the entry refers to (`Fetch`, one document at a
time, the chain of `extends` included) and builds a query; an issuer's metadata
is templated from one version of the entry and checked against another
(`CheckIssuer`). It follows an authority the query names (`FollowAuthority`): to
the list of trusted lists and a national list, whose operators announce and
rotate keys and change the status of services while the relying party loads,
refreshes its pins and restarts; or to a list of entities, which its operator
creates and edits with one deviation from the profile at a time, in one of several time
zones: dates the library makes are six months later in local time. A date given as a
string may have a leap second. An assessment reads it; `updateLoteVersion`, which makes
a `Date` of it, throws, and the list stays as it was. The bytes of a document may
come as a string, in an array of their own, as a view of a larger buffer or already
parsed; trusted authorities are part of the query where the caller asks for them.
On the network
are all lists ever published, each also signed with another key, altered, with a
second signature or wrapped in another document, and forged lists under every
key the attacker has, retired keys that leaked included. The stages share no
state but the choice of the list, so that their interleavings have no outcome the
order does not have. The operators, the network and the application are external.

## 3. Runs

| Run | Properties | What it shows |
|---|---|---|
| `feistel` | NoIndexHandedOutTwice, Permutes, AtomicPermutation, WalkEnds | Three overlapping calls on five indices of three bits, each encryption round by round, a dozen round functions, rejections in any round and restarts: no index twice, FF1 permutes, every walk ends, and the whole implements the allocator over one atomic permutation. |
| `status_list` | NoIndexIssuedTwice, PublishedStatuses | No update, in-place change, reload, read or late signature loses a status, and a published token has its bits where the wire format wants them. |
| `federation` | ReturnedChainsValid, CompleteResolution, RequestsBounded, PoliciesObeyed, ResolutionEnds | A mesh of four entities with a loop, one fault at a time, ample and tight budgets: the result does not depend on the order of arrival. |
| `oauth2` | RedeemedByItsClient, TokenServesItsHolder, ProofOnce, WalletCompletes | Sixteen configurations of the three grants against a second client, which also pushes request objects of the wallet, and an unreliable network. |
| `oauth2_par_dpop_bound` | DpopServesAsPop (violated) | Finding 1. |
| `openid4vci` | CodeToListedServer, EncryptionAgreed, HiddenFromProxy, KeyProvedHere, WalletServed | Nearly three thousand combinations of version, encryption, offer, server and proof. |
| `openid4vp` | DisclosedToNamedClient, AcceptedForItsSession, HonestResponseAccepted, OutputExact | Two thousand combinations of prefix, mode, signature, keys and queries, in two sessions. |
| `sd_jwt_vc` | AcceptedIsPresented, HonestAccepted, RevocationTakesEffect, FetchesAuthorised | From issuance to verification while lists and type metadata change. |
| `sd_jwt_reserved` | ReservedClaimsRejected (violated) | Finding 2. |
| `mdoc` | DeclinedStaysHidden, AuthenticatedReaderOnly, AcceptedAsMade, StatusFetchesAuthorised, VerdictAsAnswered | Five device requests, three credentials, every bounded choice of the user, a relaying site, revocation and expiry during verification, stale, foreign and forged revocation lists. |
| `relying_party_trust` | AuthenticRelyingParty, DisclosedWithinRegistration | A wallet goes on only with a relying party whose certificate was not revoked when the CRL it holds was made, and answers without a warning only what a registration signed for that subject covers. |
| `trust_lists` | AnchorsAuthentic, HonestListsAccepted, LoteAcceptance, CatalogueRespected, NoPinRevival | What a relying party asks, whom it trusts and what it pins stay the publishers', through replays, wrapped signatures, rotations and leaks of retired keys; what they publish is accepted; a list of entities is accepted exactly when its profile is met. |

Each property has a mutant: an operator beside the definition of the code that
makes a plausible mistake (a dropped guard, a swapped order, a missing reset).
With the mutant in place the same configuration violates the property, so the
bounds reach the cases the property is about.

### Findings

1. *DPoP-bound client attestation at the authorization endpoint.*
   `oauth2/src/authorization-request/parse-authorization-request.ts:44` says the
   PoP is "Absent for the DPoP-bound `attest_jwt_client_auth_dpop` method (draft
   09), where the DPoP proof serves as the Client Attestation PoP."
   `verify-authorization-request.ts:159` refuses every attestation without a PoP.
   Only the token endpoint implements the method.
2. *Reserved claims in `safeVerify`.* `verify` rejects claims named like fields
   of the format (`sd-jwt-core/src/index.ts:480`, CHANGELOG line 111);
   `safeVerify` unpacks the claims itself and lacks that check.

### What the properties leave out

In three places the code falls short of what it promises, and a property that is
checked is stated for the other cases only. No run shows these:

* *The verifier after a presentation.* A PKCE verifier that is not provided is
  generated (`oauth2/src/authorization-challenge/send-authorization-challenge.ts:68`),
  and after a presentation an authorization code can be retrieved "using {@link
  retrieveAuthorizationCodeUsingPresentation}" (`openid4vci/src/Openid4vciClient.ts:233`).
  Neither result of a presentation has the verifier (`:320`, `:372`), whose
  challenge has been sent: the code cannot be redeemed unless the application
  supplied the verifier. The model loses the verifier as the code does
  (`InitiateAuthorization`), and every property but `WalletServed` is checked of such
  wallets; `Compatible` takes them out of `WalletServed`.
* *Values over an empty array.* A claim with `values` should be returned only if
  one matches (`dcql/src/dcql-query/m-dcql-claims-query.ts:7`). Of a path to all
  elements of an empty array, `dcql-claims-query-result.ts:138` finds that every
  element failed, and returns `z.NEVER` without an issue: the claim counts as
  found, and the output has the marker `{ status: 'aborted' }` in its place. `Dcql`
  evaluates it so (`Never`); with such a credential `OutputExact` is false. The
  credentials of `openid4vp` have no empty array, and its four properties are shown
  for those.
* *Integrity of a view.* "SRI is defined over the bytes as transferred"
  (`eudi-attestation-schema/src/resolver.ts:47`); line 59 hashes the whole buffer
  under the array that was returned, so that authentic bytes in a pooled `Buffer`
  or a subarray are refused. The model refuses them as well. They are never accepted
  wrongly, which `CatalogueRespected` includes; that resolution succeeds, it says
  only where every document arrives in a buffer of its own.

The scope of a CRL and `removeFromCRL` meet in one more place that no run reaches: in a
list that is no delta and has some reasons only, such an entry answers good before
the reasons are looked at (`x509/src/crl.ts:275`). `Revocation` has the
order of the code, and no CRL of the run has that entry outside a delta.

## 4. Bounds

Every bound is a CONSTANT of the `.cfg` or a scenario set of the `MC` module.

* `feistel`: `RadixU = 2`, `RadixV = 4` are values of three bits, of odd length, the
  only case in which the moduli differ; two rounds are one full alternation;
  `Length = 5` is the smallest list of three bits, so that some calls walk once and
  others up to four times; three calls let two hold neighbouring positions while
  a third stops or fails. A dozen round functions; the proofs remove the bounds.
* `status_list`: `Length = 3` at `Bits = 4` leaves a half-filled last byte;
  `Statuses = {0, 12}` has a status whose bits are not symmetric; two updates and
  two signatures are one change before and one during a signature. `Range32 = 8`
  stands for 2^32 with a rejected remainder.
* `federation`: depth 3 with four entities gives every shape of path with an
  intermediate, a second path that converges and a loop; budgets 8 and 14 cut
  discovery and suffice for it. The policies include arrays in two orders.
* `oauth2`: `MaxRotations = 1` per behaviour is the rotation between request and
  retry; `MaxMoves = 2` lets the second client redeem and then use a token.
* `openid4vci`: `MaxPolls = 2` and `MaxExpiries = 1` give a deferral that is
  repeated and a retry with a new nonce. `WalletServed` leaves out wallets without
  a verifier of their own that are asked for a presentation (section 3).
* `openid4vp`: two sessions (symmetric), one request brought by `w`. The queries
  were chosen per rule of the evaluator: value lists, `null` and index paths,
  claim sets, credential sets, multiple presentations; some are refused for their ids.
  No credential has an empty array (section 3). `MaxNesting = 5` in `Dcql` is above
  the nesting of every credential there; TLC would report a deeper one.
* `sd_jwt_vc`: `StatusLifetime = 2`, `DefaultSkew = 1`, `MaxVctDepth = 2`: lists
  that overlap at a revocation, and a chain longer than permitted. `MaxNesting = 5` in
  `SdJwt` is above the nesting of every credential and frame there.
* `mdoc`: two sessions, two documents, one declined element, one tick, one
  revocation. Only verification reads the clock and the lists, so both move only
  between a response and its verdict. `W` relays the request with two doc
  requests, the only one in which order and attribution of documents differ. Four
  list references (status and identifier list, each at two URIs) and
  `ListLifetime = 1` let a list made before a revocation, or for another URI, be
  served after it, while it lives and when it has expired.
* `relying_party_trust`: `MaxTime = 2`, `CrlLifetime = 1` and `Lag = 1` (a wallet
  whose clock is behind) give a list that is current, one that has expired and
  one of the future; a hold can be placed and released. Two CAs use the same
  serial number and one has two keys. The CAs move until the certificate is
  accepted, since no later check reads what they do. `Year = 3` has expiries
  within and beyond it.
* `trust_lists`: `MaxGeneration = 2` keys of the LOTL operator are one announced
  rotation, after which the first key may leak; `MaxNational = 2` gives a national
  list before and after a rotation or a change of status. The entries have a chain
  of type metadata with and without integrity, one that loops, one deeper than
  `MaxExtendsDepth = 2`, one of another type, one with an unsupported digest and a
  JSON schema with every shape the walk distinguishes. `MaxEntities = 2` and
  `MaxUpdates = 1` edit a list of entities in every way once; the dates are ends of
  months and a leap day, strings with leap seconds included, in a zone with
  summer time and in one fourteen hours ahead of UTC. The keys of a list's signers are
  of kinds whose verification returns false for another key or throws.

Deadlock is not checked where a run has an end that is no step of the system:
the allocators are exhausted, or every response has been judged (`feistel`,
`status_list`, `openid4vp`, `sd_jwt_vc`, `mdoc`, `relying_party_trust`,
`trust_lists` and the run of finding 2). In the
federation, OAuth 2 and OpenID4VCI runs it is checked.

## 5. Fairness

* `feistel`: WF of `BlockEncrypted(c) \/ Encrypted(c)`. A pending promise of the
  block cipher settles and the loop resumes. Nothing is assumed of callers or of restarts.
* `federation`: WF of `Next`. Promise jobs are run and each request settles, with
  an answer or with a failure; the choice between the two is free.
* `oauth2`: WF of the wallet's steps, of the servers' answers and of the user. A
  response may still be lost (`ConnectionFails` answers the call with an error)
  and duplicated requests are never owed. Rotation and the second client are not
  fair.
* `openid4vci`: WF of the wallet and of the issuer's answers, for the same reason.

`WalletCompletes` and `WalletServed` excuse what the code cannot repair: a lost
connection, a refusal by the user, another party's code in the redirect, an
expired session, a request the network delivered twice, a second rotation after
the single retry, a server that withholds the nonce it asks for.

## 6. Proofs

Every theorem is `Spec => []P` for a specification and a property of a run,
where the table does not say otherwise. The assumptions are those of the modules;
TLC evaluates them on the instance of each run.

| Theorem | Establishes | Assumptions |
|---|---|---|
| `StatusListIndexFf1Proofs!NeverTwice` | NoIndexHandedOutTwice over an ideal cipher | `Length > 0`, `Length <= Domain`, each cipher an injection of the domain into itself |
| `!IndexInvariant` | `[]IndexInv`, the invariant behind it | the same |
| `!Ff1Permutes` | Permutes for `Ff1Spec` | radices positive, an even number of rounds, MACs natural numbers |
| `!CipherOfPermutes` | FF1 without interruption is a permutation of its domain | the same |
| `!WalksAreFf1` | `WalkSpec => Ff1Spec` | the domain of the allocator is that of FF1 |
| `!WalkRefinesIndex` | `WalkSpec => AtomicPermutation`, the refinement | the same |
| `!NeverTwiceOverFf1`, `!WalksPermute` | NoIndexHandedOutTwice and Permutes for the composed system | the same |
| `CredentialStatusProofs!IndicesIssuedOnce` | NoIndexIssuedTwice | `0 < Length < Range32`; digests are words below `Range32` |
| `!TokensShowStatuses` | PublishedStatuses | 1, 2, 4 or 8 bits; statuses that fit them |
| `!RevocationSeen` | RevocationTakesEffect | an issued payload is an object; its status, where it is not hidden, refers to index 1 of a list and its `vct` is a string; three entry points; `None` is no number |
| `!VcFetchesAuthorised` | FetchesAuthorised | the same |
| `!VcInvariant` | `[]VcInv`, the invariant behind both | the same |
| `TrustChainResolutionProofs!RequestsStayBounded` | RequestsBounded | hints are sequences of entities, expiries and budgets natural numbers |
| `!ReturnedChainsAreValid` | ReturnedChainsValid | the same; at least one anchor |
| `!EachPolicyObeyed` | PoliciesObeyed | policies are those the schema accepts; a missing parameter is no value |
| `!ResolutionIsComplete` | CompleteResolution | as for ReturnedChainsValid; finitely many entities |
| `OAuthFlowProofs!ProofsCountOnce` | ProofOnce | `None` is no client, key, challenge or attestation |
| `!HolderIsServed` | TokenServesItsHolder | the same |
| `!GrantsRedeemedByTheirClient` | RedeemedByItsClient | the same; grant, authentication and PKCE method are of those supported |
| `CredentialIssuanceProofs!CodeReachesListedServer` | CodeToListedServer | servers are listed in a sequence |
| `!KeysProvedHere` | KeyProvedHere | proofs are `jwt`, `di_vp` or `attestation` |
| `!EncryptionIsAgreed` | EncryptionAgreed | a wallet asks for encryption to a key of its own; `None` is no such request |
| `!ProxySeesNothing` | HiddenFromProxy | the same |
| `PresentationProofs!DisclosedToNamed` | DisclosedToNamedClient | the prefix is one of the nine; credentials and transactions are sequences |
| `!AcceptedInSession` | AcceptedForItsSession | the same |
| `!ReaderOnly` | AuthenticatedReaderOnly | none |
| `!FetchesAuthorised` | StatusFetchesAuthorised | none |
| `!DeclinedHidden` | DeclinedStaysHidden | none |
| `!AcceptedMade` | AcceptedAsMade | `W` is no issuer, signs no list and has no device key; an identifier names one credential, whose references are of published lists; skew and lifetimes are natural numbers |
| `TrustProofs!RelyingPartyIsAuthentic` | AuthenticRelyingParty | finitely many certificates, each names its issuer; a CA with several keys identifies the one it signs with |
| `!DisclosureStaysWithin` | DisclosedWithinRegistration | other signed documents have another `typ`; a registered `null` stands where the credential has an array |
| `!AnchorsAreAuthentic` | AnchorsAuthentic | `None` is no certificate; `Omitted` is no set of keys, set of statuses or type |
| `!NoPinComesBack` | NoPinRevival | the same |

The code justifies these assumptions: the schemas of the packages check the
shapes of metadata, hints, policies and proofs before anything modelled here
runs. `Absent`, `None`, `NotGiven`, `Undefined` and `Omitted` stand for `undefined`, which
equals nothing else. `W` of the mdoc run is by definition not one of the issuers
and signers a verifier trusts (`AttackerAssumption`), and the issuer gives an
identifier to one credential (`CredentialsAssumption`); credentials without a device
key of the wallet are not presented. `ScenariosAssumption` fixes where the
status list of the SD-JWT VC model has the credential, at index 1 of what
`signStatusListJwt` published for it; TLC evaluates it on what `Pack` makes of the claims
of every scenario. Two say more and are needed. `KeysAssumption`: `createCertificate` and `createCrl` always add
key identifiers (`x509/src/create.ts:176`, `crl.ts:347`); of a CA with two keys and
no identifiers, a list under one key would count for certificates under the
other, although that key's holder may know nothing of them. `PathsAssumption`:
`pathCovered` takes a registered `null` for a name in an object as well, so that
a registrar that puts it there registers more than the elements of an array.

**Indices.** That two returned indices differ is not inductive: the step that
returns an index says nothing of the walks still going on. `IndexInv` adds that
the positions of live calls are distinct and below `position`
(`PositionsApart`), that a walk holds only values outside the list but its last,
each the image of the claimed position or of an earlier value (`WalkShape`), and
that the walks of live calls are disjoint (`WalksDisjoint`). The central lemma,
`StepsApart`, is that one encryption cannot land on another walk: by injectivity
the predecessor would be common to both, yet it is a claimed position of one or
a value of both walks. `Restart` keeps the invariant because the calls that had
not been issued are dead and the stored position is above all that were.

**FF1.** Calls that encrypt different values are seldom in the same round, so that
an invariant over their current halves says nothing. The proof is about the
histories: `Ff1TypeOK` (the ranges of the halves swap with each round),
`Traces` (each pair is what its round makes of the pair before) and, from
both, `NeverMerge`: two calls have the same pair in a round exactly when they
encrypt the same value. A round is invertible since addition modulo `m` is
(`AddModInjective`, over all natural numbers); `HalvesUnique` carries this to the
results.

**The refinement.** `CipherOf`, the recursive function that runs all rounds at once,
is a permutation by the same argument as FF1 (`CipherOfPermutes`, by induction on
the round). A step of the composed system is a step of FF1 and either a stutter of
the allocator (`BlockEncrypted`) or the action of the same name (`Encrypted` is
`Encrypt`: by `Traces` the pair of halves in the last round is what `CipherOf` says).
So `NeverTwice` carries over to the rounds: `NeverTwiceOverFf1`.

**Status list.** An issued index is the content of the shuffled array at a position
below the stored one (`IssuedInv`). After a restart the array is shuffled again,
and that it becomes the same array is a statement about two runs: `ShuffleInv`
says that the state of a shuffle is reached from the fresh one by its steps
(`Trace`), and two traces of one hash agree as far as both go (`TracesAgree`). The
array stays injective since each step swaps two places. For the list, `FormsInv`
says what each of the three copies has: the inflated list is the compressed one
unless modified, the payload bytes retained carry what the issuer set, and the
inflated list agrees with it unless a change in place is not marked. `TokensInv`
is the same of a token that is being signed. Both rest on `Carries`, that encoding
and reading a list of 1, 2, 4 or 8 bits are inverse, also in the last byte.

**SD-JWT VC.** `VcInv` has three parts. `TokenInv`: the token at hand is what its issuer
signed, and no carrier changes its payload (`MessageSigned`). `ListsInv`: a published list
that says valid was made before the revocation and lives `StatusLifetime`.
`CheckUnderWay` says what the verifier has established in each phase: until the
last check of the credential nothing was asked for (`Unfetched`), and an error-free
verdict means that the signature passed and, for `verify`, the `typ` and the protected
claims, which `safeVerify` comes to in `Settle` (`Passed`);
from then on the claims it reads have the status reference and `vct` of the signed payload
(`MayFetch`), what was asked for is one of these or extended by a document
(`AskedAsSigned`), the chain has no type twice (`ChainFor`) and can grow only to
another (`ChainOpen`), and a list taken without an error was current (`ListCurrent`).
The central lemma is `ReferencesSigned`: unpacking could replace `status` or `vct` by a
disclosed claim, and `validateProtectedClaims` rules that out, as a member without
disclosable parts is unpacked as it is (`MembersKept`, `LeafUnpacked`). `SettleUnderWay`
is where `verify` and `safeVerify` differ: the second goes on after an error, and then
must not fetch, and falls back to the signed claims when protected ones were disclosed.

**Federation.** `BudgetInv`: requests sent have different numbers up to the counter,
and an entity whose configuration was requested is in the cache. `ChainInv` adds
to it that a cached configuration is accepted (`CacheInv`), that the result of each
`discover()` is a set of loop-free paths along accepted configurations up to an
anchor (`TaskInv`), what holds of the statements collected for the path under
validation (`ValidateInv`) and that each returned chain is valid (`ReturnedInv`).
The lemmas of policies say that merging keeps each superior's demand
(`MergeRefines`, `CombinedRefines`) and that an operator applied later leaves an
earlier one's demand met (`ApplyInOrder`, `ApplyStages`), which depends on the order.

For completeness `ThoroughInv` says what holds while nothing was cut off or lost
(`Spared`): a configuration that failed was not acceptable and a call that failed
had reason to; a call that goes on calls every superior (`Superiors`); one that is
done has every path to an anchor that goes over it (`Complete`); a failure is of no
valid chain; and each path to an anchor is yet to be validated, returned or reported
(`AllAccounted`). No induction over paths is needed in the step: a call ends after
those it made, whose results have the paths over them (`CollectThorough`).
`PathsReach` says that what `PathsToAnchors` collects layer by layer are climbs
along the hints that end in an anchor, `SpawnCounts` that a call is refused by the
budget only if a counter exceeds it. The statements of a path are fetched
with the same verdict as `ValidChain` gives (`ValidSigned`, `FetchThorough`).

**OAuth 2.** `ProofInv`: the proofs accepted are those whose `jti` the server has stored.
`HolderInv`: what a request under way is signed with. `RedeemInv` follows a grant from
both ends: every request of the wallet carries its verifier, key and attestation
(`CallInv`), a wallet that pushes has a session before it comes to the browser
(`PushedInv`), and each session that can still be redeemed is bound to what the
configuration protects it with (`WalletSession`, `OtherSession`). The last has to
know of the wallet's request objects that the other client pushes again, and of
the codes that the wallet redeems in the other's session; a refresh token is as
protected as the request that obtained it (`RefreshBound`).

**OpenID4VCI.** `WireInv`: a request under way is what the wallet makes within the
issuer's metadata, or what a proxy made of its plaintext. `CapturedInv` says what
the other issuer has to pass on. `IssuanceInv` joins them with what the issuer has
bound so far: each key by a proof for its audience, vouched for by an attester
where it asks for that (`ProvedHere`). What is decided from the metadata alone, the
choice of a server and the encoding of an encryption request against its parser,
are lemmas over all metadata.

**OpenID4VP.** `ExchangeInv` follows a request from `v` to the session that accepts its
response. What reaches the wallet is a request of `v`, on `v`'s channel or `w`'s, or one
of `w`'s own, signed with `w`'s key or not at all (`BroughtByW`). Of a request the
wallet accepts, `ClientKnown` says that its response goes to the client shown: a
signed one has the key of the client it names, in each of the prefixes
(`RequestObjectOk`, `SignedPrefix`), an unsigned one has a prefix that is bound to where
the response goes or one the application registered (`UnsignedPrefix`), and the
payload rules of the three channels tie that destination to the channel or to the
URI (`PayloadChecks`, `DestinationOf`, `NamedClient`). Of the response, `Answers` says
that it copies nonce and client of its request, and that without approval a query
that was answered has a presentation without hashes (`PresentationsCarry`); of a session that
accepted, `Verified` keeps what was checked. That nonce and audience of a session
only come from its request needs both together: `w` can copy the nonce, and then
the client is another; or leave the client, and then the request is `v`'s
(`MadeForSession`). Responses without holder binding are excepted, since nothing in
them tells who they were made for. The lemmas treat the DCQL evaluator as any
function that returns sets of credentials of the wallet.

**mdoc.** Three properties need little more than `MdocBasicInv`: a reader authentication
is for the transcript of the session it was made in, and a transcript has origin and
key of one offer (`ReaderOnly`); a list is asked for after the chain and the
signature were checked, of that document and not of another (`FetchesAuthorised`);
and `SelectionHidesDeclined` says of `selectElements`, over all doc requests merged
into one, that what it returns has no item which answers a declined element.
`AcceptedMade` has an inductive invariant of its own, `VerificationInv`: every document
the wallet made is bound to the transcript of its offer and to a device key
(`ResponsesMade`), whatever was revoked is of a credential with a list
(`RevokedKnown`), and a verification under way is `Sound`: no document that went through
failed a check, and either all of them are those of one response of the wallet for
this session or each is `Foreign`: of another transcript, without the key of its
device, or of no trusted issuer. The case of altered responses is `AlteredForeign`. For revocation,
`NoServedListCounts` says that of all that may be served for a reference of a revoked
credential (old, foreign, forged, expired lists) none is accepted with the credential in
order, once a list made before the revocation cannot be alive any more.

**Relying party trust.** `TrustInv`: the cached CRL was made at a time on record and
whatever it answers `good` for was valid then (`CrlInv`), the request was signed
with the key of its certificate (`SignedInv`), and of a wallet that goes on both
hold for the same certificate (`AcceptedInv`). `CrlInv` rests on the lemmas on
single lists, `OwnSound`, `IndirectSound` and `DeltaSound`: the entries of a list that
apply to a certificate are found by walking it with the certificate issuer of the
entries before, and a list that is restricted by scope or reasons answers
`unknown`. `PayloadInv` follows the registration to the answer; `NothingBeyond` says of
`checkOverAsking` that without a finding each value disclosed is of a registered path.

**Trusted lists.** `ForgeriesRejected` says of every document the network can make of
the published ones that, accepted with keys nobody else has, it carries a
published list under its own signature: the key that verifies is a trusted one, of
one signature that stands in the root and was made over what the parser reads.
`SchemeInv` says what the operators publish at any time, that no LOTL names a key
older than the one it is signed with included (`OwnKeysRead`). So the anchors
read are those of a published list (`AnchorsRead`), and stay so since lists are
only added and known keys stay known (`Grows`). For the pins, `PinsInv` ties the list
held to the pins it was accepted with: it names no key before one of them, and the
pins are still those or the list's own. Then a refresh cannot go behind the
oldest (`OlderPins`). `WithinKeeps` is the one induction, over the length of a
filtered sequence.

**Induction.** The library's induction theorems take an operator, which the provers
cannot instantiate. `Basics` derives from the well-foundedness of the natural numbers
that a set of them with 0 and every successor is all of them (`SetInduction`), and
that a set of them has a least element (`LeastNat`). Induction over data is done with
the set of lengths or indices for which the statement holds; it reaches recursive
functions, not RECURSIVE operators, of which no module has any.

Only model-checked:

- `HonestAccepted` and `AcceptedIsPresented` of `sd_jwt_vc`: that unpacking undoes
  packing, and that frames select what they name, are inductions over the nesting of JSON.
- `HonestResponseAccepted` and `OutputExact` of `openid4vp`, inductions over JSON
  values; the first also compares runs of the evaluator over a credential and over what was
  disclosed of it.
- `VerdictAsAnswered` of `mdoc`: that augmenting paths find a maximum matching is
  Berge's theorem, an induction over the search.
- Of `trust_lists`, `LoteAcceptance` and `CatalogueRespected`, which compare the code
  with the calendar and with the catalogue entries and documents of the instance;
  and `HonestListsAccepted`, whose first part rests on the forged list's number,
  which no list of the instance has and one of a longer run could.
- The liveness properties `WalkEnds`, `ResolutionEnds`, `WalletCompletes` and
  `WalletServed`, which need fairness and ENABLED.

## 7. Plan

In this order; the first nine are done.

1. Status lists: both allocators, FF1, the list and its token, with proofs.
2. Federation: policies and trust chain resolution.
3. OAuth 2 and OpenID4VCI.
4. DCQL with OpenID4VP; SD-JWT with SD-JWT VC.
5. mdoc over the Digital Credentials API.
6. Relying party trust: revocation, signed requests, registrations and
   over-asking, composed for a wallet that decides about a request.
7. The allocator composed with FF1 and shown to implement the allocator over an
   atomic permutation; pushed request objects; trusted lists, lists of entities and the catalogue,
   composed for a relying party.
8. Proofs of the allocators, of FF1 and the refinement, of the status list, the
   federation, OAuth 2, OpenID4VCI, the trust in relying parties and trusted lists.
9. Proofs of OpenID4VP, mdoc and SD-JWT VC, whose recursion over data are functions
   or levels now.
10. Keys chosen from a key set during a rotation; the builders of registrations;
   displayed claims of strong customer authentication.
