------------------------------- MODULE SdJwtVc -------------------------------
(***************************************************************************)
(* An SD-JWT VC from issuance to verification (packages/sd-jwt-core and    *)
(* packages/sd-jwt-vc).  The issuer packs and signs the claims, the holder *)
(* stores, reduces and presents them, a carrier brings some token, some    *)
(* disclosures and some key binding JWT to a verifier, and the verifier    *)
(* runs verify, safeVerify or verifyTypeMetadata over them.  Verification  *)
(* is asynchronous: time passes, the issuer revokes and publishes status   *)
(* lists, and a host replaces type metadata between its steps.             *)
(***************************************************************************)
EXTENDS SdJwtVcTypeMetadata

CONSTANTS
    Scenarios,        \* credentials, what is hosted for their types, how the holder
                      \* is asked and the verifier called, and bounds on both
    StatusLifetime,   \* from iat to exp of a status list token
    DefaultSkew,      \* of verifyJwtClaims when no skew is given
    MaxVctDepth       \* maxVctExtendsDepth

ASSUME BoundsAssumption ==
    /\ {DefaultSkew, MaxVctDepth} \subseteq Nat
    /\ StatusLifetime \in Nat \ {0}
    /\ None \notin Nat

VARIABLES
    scenario,     \* the member of Scenarios this behaviour is about
    now,          \* the time
    token,        \* the issued token with its disclosures, or None
    held,         \* the disclosures the holder still has
    heldPaths,    \* what they disclose, as the holder meant it
    sent,         \* the presentations the holder made, and what each shows
    revoked,      \* when the status of the credential was set, or None
    lists,        \* the status list tokens published so far
    hosted,       \* the type metadata by type
    check         \* the verification under way

vcVars == <<scenario, now, token, held, heldPaths, sent, revoked, lists, hosted, check>>

AllowedHashes == {"sha-256", "sha-512"}
ProtectedClaims == {"iss", "nbf", "exp", "cnf", "vct", "vct#integrity", "status"}
VcType == "dc+sd-jwt"

-------------------------------------------------------------------------------
(* The issuer. *)
FrameNames(frame) == IF frame = None THEN {} ELSE frame.sd \cup DOMAIN frame.sub

(* What issue refuses. *)
IssueRefused ==
    \/ HasReservedFields(scenario.claims)
    \/ scenario.instance = "vc" /\ FrameNames(scenario.frame) \cap ProtectedClaims # {}
    \/ scenario.alg \notin AllowedHashes
    \/ SaltsRepeat(scenario.stuck, scenario.frame, Pack(scenario.alg, scenario.claims, scenario.frame).disclosures)

Signature(by) == [by |-> by, alg |-> "ES256", crit |-> FALSE, typ |-> VcType]

(* One signature, or in the general JSON form one per signer. *)
Signatures ==
    IF scenario.instance = "general" THEN <<Signature("issuer"), [Signature("issuer") EXCEPT !.alg = "ES384"]>>
    ELSE <<Signature("issuer")>>

Issue ==
    /\ token = None
    /\ scenario.foreign = None
    /\ ~IssueRefused
    /\ \E pack \in {Pack(scenario.alg, scenario.claims, scenario.frame)} :
          /\ token' = [payload |-> pack.packed,
                       alg |-> IF scenario.frame = None THEN None ELSE scenario.alg,
                       sigs |-> Signatures]
          /\ held' = pack.disclosures
    /\ heldPaths' = {d.salt : d \in ToSet(held')}
    /\ UNCHANGED <<scenario, now, sent, revoked, lists, hosted, check>>

(* A token the issuer signed with other software. *)
ForeignIssue ==
    /\ token = None
    /\ scenario.foreign # None
    /\ token' = scenario.foreign.token
    /\ held' = scenario.foreign.disclosures
    /\ UNCHANGED <<scenario, now, heldPaths, sent, revoked, lists, hosted, check>>

HashAlg(t) == IF t.alg = None THEN "sha-256" ELSE t.alg

(* The issuer's status list: the credential is at index 1. *)
StatusList(uri, status, t) ==
    [by |-> "issuer", typ |-> "statuslist+jwt", sub |-> uri, iat |-> t, exp |-> t + StatusLifetime,
     statuses |-> <<status, 0>>]

Publish ==
    /\ lists' = lists \cup {StatusList("list", IF revoked = None THEN 0 ELSE 1, now)}
    /\ lists' # lists
    /\ UNCHANGED <<scenario, now, token, held, heldPaths, sent, revoked, hosted, check>>

Revoke ==
    /\ revoked = None
    /\ revoked' = now
    /\ UNCHANGED <<scenario, now, token, held, heldPaths, sent, lists, hosted, check>>

-------------------------------------------------------------------------------
(* The holder. *)
Presentable == ~RepeatedDisclosure(held) /\ ~UnpackError(token.payload, HashMapping(HashAlg(token), held))

ShownBy(frame) == IF frame = None THEN heldPaths ELSE heldPaths \cap FramePaths(frame)

(* present without a key binding: the holder keeps the result. *)
Reduce ==
    /\ token # None
    /\ sent = {}
    /\ Presentable
    /\ \E frame \in scenario.frames :
          /\ held' = PresentDisclosures(HashAlg(token), token.payload, held, frame)
          /\ heldPaths' = ShownBy(frame)
    /\ heldPaths' # heldPaths
    /\ UNCHANGED <<scenario, now, token, sent, revoked, lists, hosted, check>>

(* What the sd_hash is taken over: the first signature, the payload and    *)
(* the disclosures in their order.                                         *)
SdHash(t, disclosures) == Digest(HashAlg(t), [sig |-> t.sigs[1], payload |-> t.payload, disclosures |-> disclosures])

KeyBinding(key, ask, hash) ==
    [key |-> key, typ |-> "kb+jwt", nonce |-> ask.nonce, aud |-> ask.aud, iat |-> now, hash |-> hash]

Present ==
    /\ token # None
    /\ Cardinality(sent) < scenario.presentations
    /\ Presentable
    /\ \E frame \in scenario.frames, ask \in scenario.asks :
       \E disclosures \in {PresentDisclosures(HashAlg(token), token.payload, held, frame)} :
          sent' = sent \cup {[disclosures |-> disclosures, shows |-> ShownBy(frame),
                              kb |-> IF ask = None THEN None
                                     ELSE KeyBinding("holder", ask, SdHash(token, disclosures))]}
    /\ sent' # sent
    /\ UNCHANGED <<scenario, now, token, held, heldPaths, revoked, lists, hosted, check>>

-------------------------------------------------------------------------------
(* The carrier: the token or a forgery of it, the disclosures of some      *)
(* presentation, less one, with one more of another, or reversed, and a    *)
(* key binding of the holder, of its own, or none.                         *)
Tokens ==
    {token, [token EXCEPT !.sigs[1].by = "carrier"], [token EXCEPT !.sigs[1].alg = "none"],
     [token EXCEPT !.sigs = Reverse(@)]}
    \cup {[token EXCEPT !.sigs[i].by = "carrier"] : i \in DOMAIN token.sigs}

DisclosureLists ==
    UNION {LET own == p.disclosures
               others == UNION {ToSet(q.disclosures) : q \in sent}
           IN {own, Reverse(own)} \cup {RemoveAt(own, i) : i \in DOMAIN own} \cup {Append(own, d) : d \in others}
           : p \in sent}

Bindings(t, disclosures, opts) ==
    {p.kb : p \in sent} \cup {None}
    \cup IF opts.nonce = None THEN {} ELSE {KeyBinding("carrier", opts, SdHash(t, disclosures))}

Messages(opts) ==
    IF scenario.tampered
    THEN UNION {{[token |-> t, disclosures |-> d, kb |-> kb] : kb \in Bindings(t, d, opts)}
                : t \in Tokens, d \in DisclosureLists}
    ELSE {[token |-> token, disclosures |-> p.disclosures, kb |-> p.kb] : p \in sent}

-------------------------------------------------------------------------------
(* The verifier.  The first of a sequence of checks that fails, as a set   *)
(* of at most one code.                                                    *)
FirstFailing(checks) ==
    LET failing == {i \in DOMAIN checks : checks[i].fails}
    IN IF failing = {} THEN {} ELSE {checks[Min(failing)].code}

Check(code, fails) == [code |-> code, fails |-> fails]

(* A time claim that is not there passes. *)
TimeFails(iat, nbf, exp, t, skew) ==
    \/ iat # None /\ iat - skew > t
    \/ nbf # None /\ nbf - skew > t
    \/ exp # None /\ exp + skew <= t

NumberIn(claims, name) == IF name \in DOMAIN claims.m THEN claims.m[name].n ELSE None

ClaimTimesFail(claims, t) ==
    TimeFails(NumberIn(claims, "iat"), NumberIn(claims, "nbf"), NumberIn(claims, "exp"), t, 0)

(* Jwt.verify with the verifier of the issuer. *)
SignatureFails(sig) == sig.alg = "none" \/ sig.crit \/ sig.by # "issuer"

(* A compact token has one signature to check; of the general JSON form    *)
(* all have to verify.                                                     *)
SignaturesFail(t, opts) ==
    IF opts.instance = "general" THEN \E i \in DOMAIN t.sigs : SignatureFails(t.sigs[i]) ELSE SignatureFails(t.sigs[1])

Opens(msg) == HashMapping(HashAlg(msg.token), msg.disclosures)

UnpackingFails(msg) == RepeatedDisclosure(msg.disclosures) \/ UnpackError(msg.token.payload, Opens(msg))

Claims(msg) == Unpacked(msg.token.payload, Opens(msg))

\* An _sd counts also when it is empty.
HasDisclosableParts(claim) ==
    \E v \in ValuesIn(claim) : v.t = "digest" \/ (v.t = "obj" /\ (v.sd # <<>> \/ "_sd" \in DOMAIN v.m))

ProtectedClaimsFail(claims, signed) ==
    \E name \in ProtectedClaims :
       \/ name \in DOMAIN claims.m /\ name \notin DOMAIN signed.m
       \/ name \in DOMAIN signed.m /\ HasDisclosableParts(signed.m[name])

TypFails(t) == t.sigs[1].typ # VcType

DecodeFails(msg) ==
    \/ HashAlg(msg.token) \notin AllowedHashes
    \/ \E d \in ToSet(msg.disclosures) : d.key \in {"_sd", "..."}

RequiredMissing(msg, opts) == ~(opts.required \subseteq ListKeys(Claims(msg)))

IsVc(opts) == opts.instance = "vc"

(* validate and requiredClaimKeys, as verify goes through them (the        *)
(* general JSON form decodes after the signatures: only the code differs). *)
VerifyErrors(msg, opts) ==
    IF DecodeFails(msg) THEN {"INVALID_SD_JWT"}
    ELSE IF SignaturesFail(msg.token, opts) THEN {"INVALID_JWT_SIGNATURE"}
    ELSE IF UnpackingFails(msg) THEN {"UNKNOWN_ERROR"}
    ELSE FirstFailing(<<
            Check("RESERVED", HasReservedFields(Claims(msg))),
            Check("JWT_TIME", ClaimTimesFail(Claims(msg), now)),
            Check("INVALID_SD_JWT", IsVc(opts) /\ TypFails(msg.token)),
            Check("INVALID_SD_JWT", IsVc(opts) /\ ProtectedClaimsFail(Claims(msg), msg.token.payload)),
            Check("MISSING_REQUIRED_CLAIMS", RequiredMissing(msg, opts))>>)

(* The same in safeVerify, which goes on after a failure.  The type and    *)
(* the protected claims are looked at when everything else has passed.     *)
SafeVerifyErrors(msg, opts) ==
    IF DecodeFails(msg) THEN {"INVALID_SD_JWT"}
    ELSE (IF SignaturesFail(msg.token, opts) THEN {"INVALID_JWT_SIGNATURE"}
          ELSE IF UnpackingFails(msg) THEN {"UNKNOWN_ERROR"}
          ELSE IF ClaimTimesFail(Claims(msg), now) THEN {"JWT_TIME"} ELSE {})
         \cup (IF opts.required = {} THEN {}
               ELSE IF UnpackingFails(msg) THEN {"UNKNOWN_ERROR"}
               ELSE IF RequiredMissing(msg, opts) THEN {"MISSING_REQUIRED_CLAIMS"} ELSE {})

(* getVct and verifyTypeMetadata before anything is fetched. *)
TypeMetadataErrors(msg, opts) ==
    IF DecodeFails(msg) THEN {"INVALID_SD_JWT"}
    ELSE FirstFailing(<<
            Check("INVALID_JWT_SIGNATURE", SignaturesFail(msg.token, opts)),
            Check("INVALID_SD_JWT", TypFails(msg.token))>>)

(* safeVerify has no claims to go on with when they could not be unpacked. *)
HasClaims(msg, opts) == ~DecodeFails(msg) /\ ~SignaturesFail(msg.token, opts) /\ ~UnpackingFails(msg)

(* verifyKb. *)
KeyBindingChecks(msg, opts, claims) ==
    <<Check("KEY_BINDING_SIGNATURE_INVALID", msg.kb.typ # "kb+jwt"),
      Check("KEY_BINDING_SIGNATURE_INVALID", msg.kb.nonce # opts.nonce),
      Check("KEY_BINDING_SIGNATURE_INVALID", opts.aud # None /\ msg.kb.aud # opts.aud),
      Check("KEY_BINDING_JWT_TOO_OLD", opts.maxAge # None /\ msg.kb.iat + opts.maxAge < now),
      Check("KEY_BINDING_JWT_NOT_YET_VALID", TimeFails(msg.kb.iat, None, None, now, 0)),
      Check("KEY_BINDING_SIGNATURE_INVALID", "cnf" \notin DOMAIN claims.m \/ claims.m["cnf"] # Str(msg.kb.key))>>

(* Mutant: the sd_hash of a key binding is not compared. *)
KeyBindingErrorsWithoutHash(msg, opts, claims) ==
    IF msg.kb = None THEN {"KEY_BINDING_JWT_MISSING"} ELSE FirstFailing(KeyBindingChecks(msg, opts, claims))

(* verifyKb and the comparison of sd_hash. *)
KeyBindingErrors(msg, opts, claims) ==
    IF msg.kb = None THEN {"KEY_BINDING_JWT_MISSING"}
    ELSE FirstFailing(Append(KeyBindingChecks(msg, opts, claims),
                             Check("KEY_BINDING_SD_HASH_INVALID", msg.kb.hash # SdHash(msg.token, msg.disclosures))))

(* What the status claim refers to. *)
HasStatus(claims) ==
    /\ "status" \in DOMAIN claims.m
    /\ claims.m["status"].t = "obj"
    /\ "status_list" \in DOMAIN claims.m["status"].m

StatusReference(claims) == IF HasStatus(claims) THEN claims.m["status"].m["status_list"] ELSE None

(* Mutant: only the claims of the list are checked, with the default skew. *)
StatusErrorsSkewed(list, reference) ==
    FirstFailing(<<
        Check("STATUS_VERIFICATION_FAILED", list.by # "issuer" \/ list.typ # "statuslist+jwt"),
        Check("STATUS_VERIFICATION_FAILED", list.sub # reference.uri),
        Check("STATUS_VERIFICATION_FAILED", TimeFails(list.iat, None, list.exp, now, DefaultSkew)),
        Check("STATUS_INVALID", list.statuses[reference.idx] # 0)>>)

(* The signature and times of the list, with no skew, then its type, and   *)
(* the claims with the skew of verifyJwtClaims.                            *)
StatusErrors(list, reference) ==
    FirstFailing(<<
        Check("STATUS_VERIFICATION_FAILED", TimeFails(list.iat, None, list.exp, now, 0)),
        Check("STATUS_VERIFICATION_FAILED", list.by # "issuer"),
        Check("STATUS_VERIFICATION_FAILED", list.typ # "statuslist+jwt"),
        Check("STATUS_VERIFICATION_FAILED", list.sub # reference.uri),
        Check("STATUS_VERIFICATION_FAILED", TimeFails(list.iat, None, list.exp, now, DefaultSkew)),
        Check("STATUS_INVALID", list.statuses[reference.idx] # 0)>>)

-------------------------------------------------------------------------------
(* The steps of a verification.  settled is what the checks of the         *)
(* credential itself come to; what is fetched afterwards follows it.       *)
Idle == [phase |-> "idle"]

AwaitsStatus(c) == ~c.opts.noStatus /\ StatusReference(c.claims) # None

(* Where a verification goes once the phases up to one are over. *)
After(phase, c) ==
    LET stop == c.opts.op # "safeVerify" /\ c.errors # {}
        vct == IF c.opts.metadata THEN "vct" ELSE "done"
    IN IF stop \/ ~IsVc(c.opts) \/ ~c.fetches THEN [c EXCEPT !.phase = "done"]
       ELSE IF phase = "credential" /\ AwaitsStatus(c) THEN [c EXCEPT !.phase = "status"]
       ELSE [c EXCEPT !.phase = vct]

(* safeVerify looks at the type and the protected claims only of a         *)
(* credential that passed, and fetches only for the right type; it falls   *)
(* back to the signed claims when protected ones were disclosed.  Of one   *)
(* that did not pass it still reports the protected claims.                *)
Settle(c) ==
    LET passed == c.errors = {}
        isVc == ~TypFails(c.msg.token)
        protected == ProtectedClaimsFail(c.claims, c.msg.token.payload)
    IN IF c.opts.op = "safeVerify" /\ IsVc(c.opts)
       THEN After("credential",
                  IF ~passed
                  THEN [c EXCEPT !.fetches = FALSE,
                                 !.errors = @ \cup IF ProtectedClaimsFail(c.msg.token.payload, c.msg.token.payload)
                                                   THEN {"INVALID_SD_JWT"} ELSE {}]
                  ELSE [c EXCEPT !.fetches = isVc,
                                 !.errors = IF isVc /\ ~protected THEN {} ELSE {"INVALID_SD_JWT"},
                                 !.claims = IF protected THEN c.msg.token.payload ELSE @])
       ELSE After("credential", c)

(* The checks of the entry point that is called. *)
Verdict(msg, opts) ==
    CASE opts.op = "verify" -> VerifyErrors(msg, opts)
      [] opts.op = "safeVerify" -> SafeVerifyErrors(msg, opts)
      [] OTHER -> TypeMetadataErrors(msg, opts)

Started(msg, opts, errors) ==
    [phase |-> "kb", opts |-> opts, msg |-> msg, errors |-> errors,
     claims |-> IF opts.op = "verifyTypeMetadata" THEN msg.token.payload
                ELSE IF HasClaims(msg, opts) THEN Claims(msg) ELSE None,
     at |-> now, fetches |-> errors = {}, asked |-> {}, list |-> None, listAt |-> None,
     chain |-> <<>>, issues |-> None]

(* A key binding that was asked for and is not there is an error of        *)
(* safeVerify even where its checks are not come to.                       *)
WithoutBinding(c) ==
    IF c.opts.op = "safeVerify" /\ c.opts.nonce # None /\ ~DecodeFails(c.msg) /\ c.msg.kb = None
    THEN [c EXCEPT !.errors = @ \cup {"KEY_BINDING_JWT_MISSING"}] ELSE c

(* A presentation reaches the verifier. *)
Deliver ==
    /\ check = Idle
    /\ sent # {}
    /\ \E opts \in scenario.options :
       \E msg \in Messages(opts) :
       \E c \in {Started(msg, opts, Verdict(msg, opts))} :
          check' = IF opts.op = "verifyTypeMetadata" THEN After("status", c)
                   ELSE IF opts.nonce # None /\ c.claims # None /\ (opts.op = "safeVerify" \/ c.errors = {}) THEN c
                   ELSE Settle(WithoutBinding(c))
    /\ UNCHANGED <<scenario, now, token, held, heldPaths, sent, revoked, lists, hosted>>

VerifyKeyBinding ==
    /\ check.phase = "kb"
    /\ check' = Settle([check EXCEPT !.errors = @ \cup KeyBindingErrors(check.msg, check.opts, check.claims)])
    /\ UNCHANGED <<scenario, now, token, held, heldPaths, sent, revoked, lists, hosted>>

(* The answer to the request for the status list: any list published, for  *)
(* this or another uri, or a failure of the request.                       *)
VerifyStatus ==
    /\ check.phase = "status"
    /\ \E reference \in {StatusReference(check.claims)}, list \in lists \cup {None} :
          check' = After("status",
                     [check EXCEPT
                        !.asked = @ \cup {reference.uri}, !.list = list, !.listAt = now,
                        !.errors = @ \cup IF list = None THEN {"STATUS_VERIFICATION_FAILED"}
                                          ELSE StatusErrors(list, reference)])
    /\ UNCHANGED <<scenario, now, token, held, heldPaths, sent, revoked, lists, hosted>>

(* The type a verification asks for next, and the integrity its answer     *)
(* must have.                                                              *)
VctOf(claims) == IF "vct" \in DOMAIN claims.m THEN claims.m["vct"].v ELSE None

NextVct(c) == IF c.chain # <<>> THEN Last(c.chain).extends ELSE VctOf(c.claims)

NextIntegrity(c) ==
    IF c.chain # <<>> THEN Last(c.chain).integrity
    ELSE IF "vct#integrity" \in DOMAIN c.claims.m THEN c.claims.m["vct#integrity"].entries ELSE None

VctFailed(c) == [c EXCEPT !.errors = @ \cup {"VCT_VERIFICATION_FAILED"}, !.phase = "done"]

(* The chain is complete: it is merged and the claims are held against it. *)
Resolved(c) ==
    IF ChainMergeFails(c.chain) \/ (c.opts.op = "verifyTypeMetadata" /\ UnpackingFails(c.msg)) THEN VctFailed(c)
    ELSE [c EXCEPT !.phase = "done", !.issues = ClaimIssues(MergedChain(c.chain), c.msg.token.payload, Opens(c.msg))]

(* Mutant: the chain may return to a type it has been to. *)
ExtendUnvisited(c, document) ==
    IF document.extends = None THEN Resolved(c) ELSE IF Len(c.chain) > MaxVctDepth THEN VctFailed(c) ELSE c

(* resolveVctExtendsChain, up to its next request. *)
Extend(c, document) ==
    IF document.extends = None THEN Resolved(c)
    ELSE IF Len(c.chain) > MaxVctDepth THEN VctFailed(c)
    ELSE IF document.extends \in {c.chain[i].vct : i \in DOMAIN c.chain} THEN VctFailed(c)
    ELSE c

HostedAt(vct) == IF vct \in DOMAIN hosted THEN hosted[vct] ELSE None

(* A fetcher may have no document for the type of a credential;            *)
(* verifyTypeMetadata then has nothing to go by.                           *)
Answered(c, vct, document) ==
    IF document = None
    THEN IF c.chain = <<>> /\ c.opts.op # "verifyTypeMetadata" THEN [c EXCEPT !.phase = "done"] ELSE VctFailed(c)
    ELSE IF document.vct # vct \/ ~IntegrityHolds(NextIntegrity(c), document) THEN VctFailed(c)
    ELSE Extend([c EXCEPT !.chain = Append(@, document)], document)

(* The answer to a request for type metadata: what is hosted, or a         *)
(* failure.                                                                *)
FetchVct ==
    /\ check.phase = "vct"
    /\ \E reached \in BOOLEAN :
          LET vct == NextVct(check)
              c == [check EXCEPT !.asked = @ \cup {vct}]
          IN check' = IF reached THEN Answered(c, vct, HostedAt(vct)) ELSE VctFailed(c)
    /\ UNCHANGED <<scenario, now, token, held, heldPaths, sent, revoked, lists, hosted>>

(* A host replaces a document. *)
Rehost ==
    /\ \E vct \in DOMAIN scenario.rehosted :
          hosted' = [hosted EXCEPT ![vct] = scenario.rehosted[vct]]
    /\ hosted' # hosted
    /\ UNCHANGED <<scenario, now, token, held, heldPaths, sent, revoked, lists, check>>

Tick ==
    /\ now < scenario.time
    /\ now' = now + 1
    /\ UNCHANGED <<scenario, token, held, heldPaths, sent, revoked, lists, hosted, check>>

VcInit ==
    /\ scenario \in Scenarios
    /\ now = 0
    /\ token = None
    /\ held = <<>>
    /\ heldPaths = {}
    /\ sent = {}
    /\ revoked = None
    /\ lists = {StatusList("list", 0, 0), StatusList("other", 0, 0)}
    /\ hosted = scenario.hosted
    /\ check = Idle

VcNext ==
    \/ Issue \/ ForeignIssue \/ Reduce \/ Present
    \/ Deliver \/ VerifyKeyBinding \/ VerifyStatus \/ FetchVct
    \/ Publish \/ Revoke \/ Rehost \/ Tick

VcSpec == VcInit /\ [][VcNext]_vcVars

(* What the issuer of each scenario signs is an object.  Where it is not   *)
(* hidden, its status is a reference to where the status list has it and   *)
(* its vct is a string.  The verifier has three entry points.              *)
SignedPayload(s) ==
    IF s.foreign = None THEN Pack(s.alg, s.claims, s.frame).packed ELSE s.foreign.token.payload

ASSUME ScenariosAssumption ==
    \A s \in Scenarios :
       LET signed == SignedPayload(s)
       IN /\ signed.t = "obj"
          /\ HasStatus(signed) => StatusReference(signed).t = "ref" /\ StatusReference(signed).idx = 1
          /\ "vct" \in DOMAIN signed.m => signed.m["vct"].t = "str"
          /\ s.foreign # None => DOMAIN s.foreign.token = {"payload", "alg", "sigs"}
          /\ \A opts \in s.options : opts.op \in {"verify", "safeVerify", "verifyTypeMetadata"}

-------------------------------------------------------------------------------
(* Correctness. *)
Done == check.phase = "done"

Verified == Done /\ check.errors = {} /\ check.opts.op # "verifyTypeMetadata"

Issued == Pack(scenario.alg, scenario.claims, scenario.frame)

ClaimsShownAt(paths) == Shown(scenario.claims, scenario.frame, paths)

(* The claims a verification returns are what the holder chose to show: of *)
(* a key-bound one exactly what it showed for that nonce and audience, of  *)
(* another at most what it showed to anyone, whatever the carrier left     *)
(* out, added, reordered or signed (verify, safeVerify, verifyKb, pack,    *)
(* unpack, present).                                                       *)
AcceptedIsPresented ==
    Verified /\ scenario.foreign = None =>
       IF check.opts.nonce # None
       THEN \E p \in sent :
               /\ p.kb # None
               /\ p.kb.nonce = check.opts.nonce
               /\ check.opts.aud # None => p.kb.aud = check.opts.aud
               /\ check.claims = ClaimsShownAt(p.shows)
       ELSE \E paths \in SUBSET UNION {p.shows : p \in sent} : check.claims = ClaimsShownAt(paths)

(* A presentation that arrives as the holder made it, for the nonce and    *)
(* audience it was asked for, in time and with a current status list that  *)
(* says valid, is not refused; and reducing a credential never makes it    *)
(* one that cannot be presented (transformPresentationFrame keeps every    *)
(* disclosure together with those it is inside of).                        *)
ArrivesAccepted ==
    /\ token # None /\ scenario.foreign = None /\ sent = {} => Presentable
    /\ Done /\ scenario.foreign = None /\ check.msg.token = token =>
          \A p \in sent :
             LET opts == check.opts
             IN /\ p.disclosures = check.msg.disclosures
                /\ p.kb = check.msg.kb
                /\ opts.nonce # None => p.kb # None /\ p.kb.nonce = opts.nonce /\ opts.aud \in {None, p.kb.aud}
                /\ opts.nonce # None /\ opts.maxAge # None => p.kb.iat + opts.maxAge >= now
                /\ opts.required \subseteq ListKeys(ClaimsShownAt(p.shows))
                /\ ~ClaimTimesFail(scenario.claims, check.at)
                /\ check.listAt # None =>
                      /\ check.list # None
                      /\ check.list.sub = "list"
                      /\ check.list.exp > check.listAt
                      /\ check.list.statuses[1] = 0
                => check.errors \subseteq {"VCT_VERIFICATION_FAILED"}

(* A credential whose status was set is refused once the status lists of   *)
(* before have expired, however late the answer to the request for the     *)
(* list comes and whichever list it brings (verifyStatus).                 *)
RevocationTakesEffect ==
    Verified /\ check.listAt # None /\ revoked # None => check.listAt < revoked + StatusLifetime

(* A verifier asks only for the status list and type that the issuer of an *)
(* SD-JWT VC signed, and for types the documents it got extend: at most    *)
(* the permitted number, none of them twice (safeVerify, getVct,           *)
(* resolveVctExtendsChain).                                                *)
FetchesAuthorised ==
    check # Idle /\ check.asked # {} =>
       LET signed == check.msg.token.payload
           extended == {check.chain[i].extends : i \in DOMAIN check.chain}
           list == StatusReference(signed)
       IN /\ check.msg.token.sigs[1].by = "issuer"
          /\ check.msg.token.sigs[1].typ = VcType
          /\ check.asked \subseteq {VctOf(signed)} \cup extended \cup IF list = None THEN {} ELSE {list.uri}
          /\ Len(check.chain) <= MaxVctDepth + 1
          /\ IsInjective([i \in DOMAIN check.chain |-> check.chain[i].vct])

(* Withholding claims never makes a credential look malformed: if with all *)
(* its disclosures it conforms to its type, what a presentation of it is   *)
(* told to lack is undisclosed, never missing, and that is told of exactly *)
(* the mandatory claims that cannot be seen (mandatoryClaimStatus).        *)
WithholdingIsNotBlamed ==
    Done /\ check.issues # None /\ scenario.foreign = None =>
       LET document == MergedChain(check.chain)
           whole == ClaimIssues(document, token.payload, HashMapping(scenario.alg, Issued.disclosures))
           of == check.issues
           mandatory == {ClaimsOf(document)[i].path : i \in {j \in DOMAIN ClaimsOf(document) : ClaimsOf(document)[j].mandatory}}
           named == {path \in mandatory : EveryElement \notin ToSet(path)}
       IN whole.extra \cup whole.missing \cup whole.notDisclosable \cup whole.disclosable = {} =>
             /\ of.extra \cup of.missing \cup of.notDisclosable \cup of.disclosable = {}
             /\ of.undisclosed \cap named = {path \in named : path \notin PathsOf(Claims(check.msg))}

(* What an honest holder presents is neither refused nor blamed for what   *)
(* was withheld: ArrivesAccepted for the verdict, WithholdingIsNotBlamed   *)
(* for the report on its type metadata.                                    *)
HonestAccepted == ArrivesAccepted /\ WithholdingIsNotBlamed

(* safeVerify accepts no claims that use a name reserved for the format,   *)
(* as verify does not.                                                     *)
ReservedClaimsRejected == Verified => ~HasReservedFields(check.claims)
================================================================================
