------------------------ MODULE TrustChainResolution ------------------------
(***************************************************************************)
(* resolveTrustChainsWithFailures of @owf/openid-federation.  Discovery    *)
(* follows authority hints with one asynchronous call of discover() per    *)
(* path, all of them running at once (Promise.allSettled) and sharing a    *)
(* cache of entity configurations and two budgets; then the paths found    *)
(* are validated one after another.                                        *)
(*                                                                         *)
(* The federation is a record fixed at the start: what each entity         *)
(* publishes about itself and what each superior states about a            *)
(* subordinate.  A signature is the key it was made with, and the time     *)
(* and claim checks of a statement are one flag, `sound`.                  *)
(***************************************************************************)
EXTENDS FederationPolicy

CONSTANTS
    Entities,           \* entity identifiers
    Leaf,               \* the entity that is resolved
    Anchors,            \* configured trust anchors
    PinnedKeys,         \* [anchor |-> its jwks given out of band, or Absent]
    Federations,        \* the federations considered
    ConfigOf(_, _),     \* ConfigOf(f, e): what e publishes about itself in f
    StmtOf(_, _),       \* StmtOf(f, <<sup, sub>>): what sup states about sub
    MaxDepth, MaxAuthorityHints,
    Budgets,            \* the values of maxRequests considered
    NoLimit             \* max_path_length that is not set

ASSUME BudgetAssumption == Budgets \subseteq Nat
ASSUME AnchorAssumption == Anchors # {} /\ Anchors \subseteq Entities /\ Leaf \in Entities /\ IsFiniteSet(Entities)

\* zEntityConfigurationClaims, zEntityStatementClaims: authority_hints is an
\* array of entity identifiers, exp a number.
ASSUME FederationAssumption ==
    \A f \in Federations : \A e \in Entities :
        /\ ConfigOf(f, e).hints \in Seq(Entities) /\ ConfigOf(f, e).exp \in Nat
        /\ \A sub \in Entities : StmtOf(f, <<e, sub>>).exp \in Nat

\* zMetadataPolicy, and the JSON values of the leaf's parameter.
ASSUME PolicyAssumption ==
    \A f \in Federations : \A e \in Entities :
        /\ ConfigOf(f, e).metadata \in Values \cup {Absent}
        /\ \A sub \in Entities :
              LET s == StmtOf(f, <<e, sub>>)
              IN  /\ s.metadata \in Values \cup {Absent}
                  /\ OperatorSchemas(s.policy) /\ WellFormed(s.policy)

VARIABLES
    fed,        \* the federation
    maxRequests, \* the option of that name
    cache,      \* entityConfigurations: none, pending, ok or failed
    requests,   \* requests counted by get()
    visits,     \* calls of discover()
    sent,       \* history: the requests sent, each with its number: [no, of]
    task,       \* discover() calls: path -> [st, kids, res]
    failures,   \* paths with a failure, as entity identifiers
    phase,      \* "discover", "validate" or "finished"
    paths,      \* paths still to validate
    stmts,      \* statements fetched so far for Head(paths)
    chains,     \* trustChains: [path, expiresAt, value]
    lost        \* history: a request failed on the network

vars == <<fed, maxRequests, cache, requests, visits, sent, task, failures, phase, paths,
          stmts, chains, lost>>

Config(e) == ConfigOf(fed, e)
Stmt(sup, sub) == StmtOf(fed, <<sup, sub>>)
LastOf(path) == path[Len(path)]

-----------------------------------------------------------------------------
(* Discovery *)

\* fetchEntityConfiguration accepts what it got: about this entity, signed by
\* a key it lists itself, current, and without a subordinate's claims.
ConfigAccepted(e) ==
    LET c == Config(e) IN c.sub = e /\ c.by \in c.keys /\ c.sound

\* The superiors discover() follows: the hints that are neither on the path
\* nor repeated, up to the limit, unless the path is as deep as allowed; each at
\* its position among the hints.
Followed(path) ==
    LET hints == Config(LastOf(path)).hints
        Fresh(n) == /\ \A m \in DOMAIN path : path[m] # hints[n]
                    /\ \A m \in 1 .. n - 1 : hints[m] # hints[n]
        fresh == {n \in DOMAIN hints : Fresh(n)}
        kept == {n \in fresh : Cardinality({m \in fresh : m <= n}) <= MaxAuthorityHints}
    IN  [n \in IF Len(path) > MaxDepth THEN {} ELSE kept |-> hints[n]]

(***************************************************************************)
(* discover() is called for each of `sups` after `path`, in order and in   *)
(* one turn: each call counts a visit, and asks for the configuration,     *)
(* which counts a request when no other call asked for it before.          *)
(***************************************************************************)
Visited(sups, k) == visits + Cardinality({j \in DOMAIN sups : j <= k}) <= maxRequests
\* Mutant: the cache is filled only once the configuration has arrived.
AsksUntilSettled(sups, k) == Visited(sups, k) /\ cache[sups[k]] \in {"none", "pending"}
Asks(sups, k)    == Visited(sups, k) /\ cache[sups[k]] = "none"
RequestNo(sups, k) == requests + Cardinality({j \in DOMAIN sups : j <= k /\ Asks(sups, j)})
Sends(sups, k)   == Asks(sups, k) /\ RequestNo(sups, k) <= maxRequests

Spawn(path, sups) ==
    LET kids == [k \in DOMAIN sups |-> Append(path, sups[k])]
        asked == {k \in DOMAIN sups : Asks(sups, k)}
        sending == {k \in DOMAIN sups : Sends(sups, k)}
    IN  /\ visits' = visits + Cardinality(DOMAIN sups)
        /\ requests' = requests + Cardinality(asked)
        /\ cache' = [e \in Entities |->
              IF \E k \in sending : sups[k] = e THEN "pending"
              ELSE IF \E k \in asked : sups[k] = e THEN "failed" ELSE cache[e]]
        /\ sent' = sent \cup {[no |-> RequestNo(sups, k), of |-> <<sups[k]>>] : k \in sending}
        /\ task' = [p \in DOMAIN task \cup {path} \cup {kids[k] : k \in DOMAIN kids} |->
              IF p = path THEN [st |-> "exploring", kids |-> kids, res |-> <<>>]
              ELSE IF p \in DOMAIN task THEN task[p]
              ELSE [st |-> IF Visited(sups, CHOOSE k \in DOMAIN kids : kids[k] = p)
                           THEN "waiting" ELSE "failed",
                    kids |-> <<>>, res |-> <<>>]]

\* The leaf's discover() has been called, which asked for its configuration.
Init ==
    /\ fed \in Federations
    /\ maxRequests \in Budgets
    /\ cache = [e \in Entities |-> IF e = Leaf /\ maxRequests > 0 THEN "pending" ELSE "none"]
    /\ requests = IF maxRequests > 0 THEN 1 ELSE 0
    /\ visits = 1
    /\ sent = IF maxRequests > 0 THEN {[no |-> 1, of |-> <<Leaf>>]} ELSE {}
    /\ task = [p \in {<<Leaf>>} |->
                 [st |-> IF maxRequests > 0 THEN "waiting" ELSE "failed",
                  kids |-> <<>>, res |-> <<>>]]
    /\ failures = {}
    /\ phase = "discover"
    /\ paths = <<>>
    /\ stmts = <<>>
    /\ chains = <<>>
    /\ lost = FALSE

\* The configuration of e arrives and is checked; or the request fails.  The
\* promise in the cache settles either way, and stays.
ConfigSettles(e) ==
    /\ cache[e] = "pending"
    /\ \/ cache' = [cache EXCEPT ![e] = IF ConfigAccepted(e) THEN "ok" ELSE "failed"]
          /\ UNCHANGED lost
       \/ cache' = [cache EXCEPT ![e] = "failed"] /\ lost' = TRUE
    /\ UNCHANGED <<fed, maxRequests, requests, visits, sent, task, failures, phase, paths, stmts, chains>>

\* discover() goes on once the configuration it awaits has settled.
Discover(path) ==
    /\ task[path].st = "waiting"
    /\ \/ /\ cache[LastOf(path)] = "failed"
          /\ task' = [task EXCEPT ![path].st = "failed"]
          /\ UNCHANGED <<cache, requests, visits, sent>>
       \/ /\ cache[LastOf(path)] = "ok"
          /\ Spawn(path, Followed(path))
    /\ UNCHANGED <<fed, maxRequests, failures, phase, paths, stmts, chains, lost>>

\* The concatenation of the results of the calls that fulfilled, in order.
ResultsOf(path) ==
    LET kids == task[path].kids
        last == Len(Config(LastOf(path)).hints)
        cat[n \in 0 .. last] ==
            IF n = 0 THEN <<>>
            ELSE cat[n - 1] \o (IF n \in DOMAIN kids /\ task[kids[n]].st = "done" THEN task[kids[n]].res ELSE <<>>)
    IN  cat[last]

\* Mutant: Promise.all in place of allSettled: one failing superior fails all.
CollectAll(path) ==
    /\ task[path].st = "exploring"
    /\ LET kids == task[path].kids
           bad == {kids[k] : k \in {n \in DOMAIN kids : task[kids[n]].st = "failed"}}
       IN  /\ \A k \in DOMAIN kids : task[kids[k]].st \in {"done", "failed"}
           /\ failures' = failures \cup bad
           /\ task' = [task EXCEPT
                 ![path].st = "done",
                 ![path].res = IF bad # {} THEN <<>> ELSE
                     (IF LastOf(path) \in Anchors THEN <<path>> ELSE <<>>) \o ResultsOf(path)]
    /\ UNCHANGED <<fed, maxRequests, cache, requests, visits, sent, phase, paths, stmts, chains, lost>>

\* Promise.allSettled resolves: the paths found below, the failures recorded.
Collect(path) ==
    /\ task[path].st = "exploring"
    /\ LET kids == task[path].kids
           bad == {kids[k] : k \in {n \in DOMAIN kids : task[kids[n]].st = "failed"}}
       IN  /\ \A k \in DOMAIN kids : task[kids[k]].st \in {"done", "failed"}
           /\ failures' = failures \cup bad
           /\ task' = [task EXCEPT
                 ![path].st = "done",
                 ![path].res = (IF LastOf(path) \in Anchors THEN <<path>> ELSE <<>>)
                                 \o ResultsOf(path)]
    /\ UNCHANGED <<fed, maxRequests, cache, requests, visits, sent, phase, paths, stmts, chains, lost>>

\* The leaf's discover() settles.
Discovered ==
    /\ phase = "discover"
    /\ \/ /\ task[<<Leaf>>].st = "failed"
          /\ failures' = {<<Leaf>>}
          /\ phase' = "finished"
          /\ UNCHANGED paths
       \/ /\ task[<<Leaf>>].st = "done"
          /\ paths' = task[<<Leaf>>].res
          /\ phase' = "validate"
          /\ UNCHANGED failures
    /\ UNCHANGED <<fed, maxRequests, cache, requests, visits, sent, task, stmts, chains, lost>>

-----------------------------------------------------------------------------
(* Validation *)

\* validatePath throws: the path is a failure and the next one is tried.
PathFails ==
    /\ failures' = failures \cup {Head(paths)}
    /\ paths' = Tail(paths)
    /\ stmts' = <<>>

\* The checks on the statement about path[index] (counted from 0 in the code).
StatementAccepted(path, n) ==
    LET s == Stmt(path[n + 1], path[n])
    IN  /\ s.matches                       \* iss and sub are the ones asked for
        /\ s.sound                         \* assertCurrent, allowed claims
        /\ ~s.naming                       \* naming_constraints
        /\ s.maxPath # NoLimit => n - 1 <= s.maxPath

AnchorPinned(path) ==
    LET anchor == LastOf(path)
    IN  PinnedKeys[anchor] # Absent => Config(anchor).by \in PinnedKeys[anchor]

\* Mutant: a failing path stays at the head of the list.
FetchStatementForever ==
    /\ phase = "validate" /\ paths # <<>>
    /\ LET path == Head(paths)
           n == Len(stmts) + 1
       IN  /\ n < Len(path)
           /\ StatementAccepted(path, n)
           /\ requests' = requests + 1
           /\ sent' = sent \cup {[no |-> requests + 1, of |-> <<path[n + 1], path[n]>>]}
           /\ stmts' = Append(stmts, <<path[n + 1], path[n]>>)
    /\ UNCHANGED <<fed, maxRequests, cache, visits, task, phase, chains, failures, paths, lost>>

\* One turn of the first loop of validatePath: get() the subordinate statement.
FetchStatement ==
    /\ phase = "validate" /\ paths # <<>>
    /\ LET path == Head(paths)
           n == Len(stmts) + 1
       IN  /\ n < Len(path)
           /\ IF ~AnchorPinned(path) \/ ~Config(path[n + 1]).endpoint
              THEN PathFails /\ UNCHANGED <<requests, sent, lost>>
              ELSE /\ requests' = requests + 1
                   /\ IF requests + 1 > maxRequests
                      THEN PathFails /\ UNCHANGED <<sent, lost>>
                      ELSE /\ sent' = sent \cup {[no |-> requests + 1, of |-> <<path[n + 1], path[n]>>]}
                           /\ \/ /\ StatementAccepted(path, n)
                                 /\ stmts' = Append(stmts, <<path[n + 1], path[n]>>)
                                 /\ UNCHANGED <<failures, paths, lost>>
                              \/ ~StatementAccepted(path, n) /\ PathFails /\ UNCHANGED lost
                              \/ PathFails /\ lost' = TRUE
    /\ UNCHANGED <<fed, maxRequests, cache, visits, task, phase, chains>>

\* Section 10.2: the leaf's configuration and each statement are signed with a
\* key the next statement lists, the last with one of the trust anchor.
KeysListedAbove(path, n) ==
    IF n = Len(path) THEN Config(LastOf(path)).keys ELSE Stmt(path[n + 1], path[n]).keys

SignerOf(path, n) ==
    IF n = 1 THEN Config(path[1]).by ELSE Stmt(path[n], path[n - 1]).by

\* Mutant: every signature is checked against the signer's own configuration.
SignaturesChainToOwnKeys(path) ==
    \A n \in 1 .. Len(path) : SignerOf(path, n) \in Config(path[n]).keys

SignaturesChain(path) ==
    Len(path) = 1 \/ \A n \in 1 .. Len(path) : SignerOf(path, n) \in KeysListedAbove(path, n)

Exps(path) == {Config(path[n]).exp : n \in DOMAIN path}
                \cup {Stmt(path[n + 1], path[n]).exp : n \in 1 .. Len(path) - 1}
Earliest(S) == CHOOSE x \in S : \A y \in S : x <= y

\* The leaf's parameter: its entity type must pass every allowed_entity_types,
\* the superior's metadata replaces the leaf's, and the policies apply.
Restricted(path) ==
    \E n \in 1 .. Len(path) - 1 : ~Stmt(path[n + 1], path[n]).typeAllowed

MergedPolicy(path) ==
    CombinePolicies([n \in 1 .. Len(path) - 1 |-> Stmt(path[n + 1], path[n]).policy])

ResolvedValue(path) ==
    IF Len(path) = 1 THEN Config(path[1]).metadata
    ELSE LET direct == Stmt(path[2], path[1]).metadata
             merged == IF direct # Absent THEN direct ELSE Config(path[1]).metadata
         IN  CHOOSE value \in {IF policy # PolicyError /\ Restricted(path) THEN Absent
                               ELSE ApplyPolicy(policy, merged) : policy \in {MergedPolicy(path)}} : TRUE

\* The rest of validatePath, once all the statements are there.
FinishPath ==
    /\ phase = "validate" /\ paths # <<>>
    /\ LET path == Head(paths)
       IN  /\ Len(stmts) = Len(path) - 1
           /\ \E value \in {ResolvedValue(path)} :
                IF ~AnchorPinned(path) \/ ~SignaturesChain(path) \/ value = PolicyError
                THEN PathFails /\ UNCHANGED chains
                ELSE /\ chains' = Append(chains, [path |-> path, value |-> value,
                                                  expiresAt |-> Earliest(Exps(path))])
                     /\ paths' = Tail(paths)
                     /\ stmts' = <<>>
                     /\ UNCHANGED failures
    /\ UNCHANGED <<fed, maxRequests, cache, requests, visits, sent, task, phase, lost>>

Validated ==
    /\ phase = "validate" /\ paths = <<>>
    /\ phase' = "finished"
    /\ UNCHANGED <<fed, maxRequests, cache, requests, visits, sent, task, failures, paths, stmts, chains, lost>>

Finished == phase = "finished" /\ UNCHANGED vars

Next ==
    \/ \E e \in Entities : ConfigSettles(e)
    \/ \E path \in DOMAIN task : Discover(path) \/ Collect(path)
    \/ Discovered
    \/ FetchStatement \/ FinishPath \/ Validated
    \/ Finished

Spec == Init /\ [][Next]_vars

\* Every promise job that can run is run, and every request settles.
FairSpec == Spec /\ WF_vars(Next)

-----------------------------------------------------------------------------
\* All the loop-free paths from the leaf the hints and the limits allow.
PathsToAnchors ==
    LET Up(path) == {Append(path, Followed(path)[k]) : k \in DOMAIN Followed(path)}
        layer[n \in 1 .. Cardinality(Entities)] ==
            {path \in IF n = 1 THEN {<<Leaf>>} ELSE UNION {Up(p) : p \in layer[n - 1]} :
                ConfigAccepted(LastOf(path))}
    IN  {path \in UNION {layer[n] : n \in 1 .. Cardinality(Entities)} : LastOf(path) \in Anchors}

\* What Section 10 asks of a chain, on its own terms.
ValidChain(path) ==
    /\ \A n \in DOMAIN path : ConfigAccepted(path[n])
    /\ LastOf(path) \in Anchors /\ AnchorPinned(path)
    /\ \A n \in 1 .. Len(path) - 1 :
          LET s == Stmt(path[n + 1], path[n])
          IN  /\ \E k \in DOMAIN Config(path[n]).hints : Config(path[n]).hints[k] = path[n + 1]
              /\ Config(path[n + 1]).endpoint
              /\ s.matches /\ s.sound /\ ~s.naming
              /\ s.maxPath # NoLimit => n - 1 <= s.maxPath
              /\ s.by \in (IF n + 1 = Len(path) THEN Config(path[n + 1]).keys
                           ELSE Stmt(path[n + 2], path[n + 1]).keys)
    /\ Len(path) > 1 => Config(path[1]).by \in Stmt(path[2], path[1]).keys
    /\ \A m, n \in DOMAIN path : path[m] = path[n] => m = n

\* Every chain returned is valid link by link up to a trust anchor, whatever
\* the order in which the configurations arrived, and expires with the first
\* of its statements.
ReturnedChainsValid ==
    \A k \in DOMAIN chains :
        /\ ValidChain(chains[k].path)
        /\ \A t \in Exps(chains[k].path) : chains[k].expiresAt <= t

\* Nothing is lost: when no request failed and no budget was exceeded, each
\* path to an anchor is either returned or reported, and the valid ones whose
\* policies agree are returned.
CompleteResolution ==
    phase = "finished" /\ ~lost /\ requests <= maxRequests /\ visits <= maxRequests =>
        \A path \in PathsToAnchors :
            LET returned == \E k \in DOMAIN chains : chains[k].path = path
            IN  /\ returned # (path \in failures)
                /\ returned = (ValidChain(path) /\ ResolvedValue(path) # PolicyError)

\* No more than maxRequests requests are sent, and no entity configuration is
\* requested twice, however many paths reach it at the same time.
RequestsBounded ==
    /\ Cardinality(sent) <= maxRequests
    /\ \A r, q \in sent : r.of = q.of /\ Len(r.of) = 1 => r = q

\* The leaf's resolved metadata obeys the policy of every superior of the
\* chain, not only the merged one.
PoliciesObeyed ==
    \A k \in DOMAIN chains :
        LET path == chains[k].path
        IN  ~Restricted(path) =>
                \A n \in 1 .. Len(path) - 1 :
                    Obeys(chains[k].value, Stmt(path[n + 1], path[n]).policy)

\* The resolution ends, with loops in the hints and failing requests too.
ResolutionEnds == <>(phase = "finished")
=============================================================================
