----------------------- MODULE MCTrustChainResolution -----------------------
(* A leaf under two intermediates that name each other, and a trust anchor: *)
(* four loop-free chains.  One thing at a time is wrong with a statement;   *)
(* and, for the policies, one chain with every pair of small policies.      *)
EXTENDS TrustChainResolution, TLC

CONSTANTS l, i, j, t, a, b

NoPolicy == [op \in {} |-> 0]

BaseConfig(hints) ==
    [e \in Entities |->
        [sub |-> e, hints |-> hints[e], by |-> e, keys |-> {e}, sound |-> TRUE,
         endpoint |-> TRUE, exp |-> IF e = j THEN 3 ELSE 5, metadata |-> Array({a, b})]]
BaseStmt ==
    [p \in Entities \X Entities |->
        [matches |-> TRUE, sound |-> TRUE, naming |-> FALSE, maxPath |-> NoLimit,
         by |-> p[1], keys |-> {p[2]}, exp |-> IF p = <<t, i>> THEN 4 ELSE 6,
         metadata |-> Absent, typeAllowed |-> TRUE, policy |-> NoPolicy]]

Meshed  == (l :> <<i, j>>) @@ (i :> <<t, j, t>>) @@ (j :> <<i, t>>) @@ (t :> <<>>)
Linear  == (l :> <<i>>) @@ (i :> <<t>>) @@ (j :> <<>>) @@ (t :> <<>>)
Base(hints) == [config |-> BaseConfig(hints), stmt |-> BaseStmt]

Faulty ==
    LET m == Base(Meshed) IN
    <<m,
      [m EXCEPT !.config[i].by = j],
      [m EXCEPT !.config[j].sub = i],
      [m EXCEPT !.config[t].by = l, !.config[t].keys = {t, l}],
      [m EXCEPT !.config[l].keys = {l, j}, !.config[l].by = j],
      [m EXCEPT !.config[i].endpoint = FALSE],
      [m EXCEPT !.stmt[<<i, l>>].matches = FALSE],
      [m EXCEPT !.stmt[<<t, j>>].naming = TRUE],
      [m EXCEPT !.stmt[<<t, i>>].maxPath = 1],
      [m EXCEPT !.stmt[<<i, j>>].by = l],
      [m EXCEPT !.stmt[<<j, i>>].keys = {l}],
      [m EXCEPT !.stmt[<<j, l>>].typeAllowed = FALSE]>>

\* Policies with up to two operators over the values a and b.
Arrays == {{}, {a}, {a, b}}
Single ==
    {"value" :> v : v \in {Null, Scalar(a), Reordered({a, b})} \cup {Array(S) : S \in Arrays}}
    \cup {op :> S : op \in {"add", "subset_of", "superset_of"}, S \in Arrays}
    \cup {"default" :> Array({b}), "default" :> Array({a, b}), "default" :> Reordered({a, b})}
    \cup {"one_of" :> {a, b}, "one_of" :> {b}}
    \cup {"essential" :> v : v \in BOOLEAN}
Policies == {p \in {p @@ q : p, q \in Single} : WellFormed(p)}

MCFederations ==
    {[fault |-> n, below |-> NoPolicy, above |-> NoPolicy, leaf |-> Absent] : n \in DOMAIN Faulty}
    \cup [fault : {0}, below : Policies, above : Single,
          leaf : {Absent, Scalar(a), Array({a})}]

Chain == Base(Linear)
MCConfigOf(f, e) ==
    IF f.fault # 0 THEN Faulty[f.fault].config[e]
    ELSE IF e = l THEN [Chain.config[l] EXCEPT !.metadata = f.leaf]
    ELSE Chain.config[e]
MCStmtOf(f, p) ==
    IF f.fault # 0 THEN Faulty[f.fault].stmt[p]
    ELSE [Chain.stmt[p] EXCEPT !.policy = IF p = <<i, l>> THEN f.below
                                          ELSE IF p = <<t, i>> THEN f.above ELSE NoPolicy]
MCPinned == t :> {t}
============================================================================
