-------------------------- MODULE FederationPolicy --------------------------
(***************************************************************************)
(* Metadata policies of @owf/openid-federation for one metadata parameter: *)
(* how the policies of a chain are combined and applied to the leaf.       *)
(*                                                                         *)
(* A policy is a function from the operators it uses to their values.  A   *)
(* metadata value is a record of its kind and its members: an array is the *)
(* set of them (the code builds its unions and intersections through Set), *)
(* in one order or, when it is reordered, in another; only the comparison  *)
(* of two `value`s or `default`s looks at the order.  A scalar has one     *)
(* member.  Null is the JSON null of `value`, Absent a parameter *)
(* that is undefined, and PolicyError what a thrown error yields.          *)
(***************************************************************************)
EXTENDS Integers, Sequences, FiniteSets

CONSTANTS
    Members,    \* strings, numbers and booleans: what arrays and policies hold
    Null, Absent, PolicyError

\* The values a metadata parameter that is present may have.
Values == [kind : {"array", "reordered", "scalar"}, vs : SUBSET Members]
ASSUME ValueAssumption == Absent \notin Values

Array(S)  == [kind |-> "array", vs |-> S]
Reordered(S) == [kind |-> "reordered", vs |-> S]
Scalar(v) == [kind |-> "scalar", vs |-> {v}]
IsArray(x)  == x.kind # "scalar"
\* The members S in the order in which x has them.
Listing(x, S) == [x EXCEPT !.vs = S]

Operators == {"value", "add", "default", "one_of", "subset_of", "superset_of", "essential"}

\* canBeCombinedWith of the seven operators, which is symmetric.
CanBeCombined(op1, op2) ==
    op1 = op2 \/ "one_of" \notin {op1, op2}
              \/ {op1, op2} \cap {"add", "subset_of", "superset_of"} = {}

\* conditionalCombinationErrors is empty.
ConditionsHold(policy) ==
    LET Has(op) == op \in DOMAIN policy
        value == IF policy["value"] = Null THEN Array({}) ELSE policy["value"]
    IN  /\ Has("value") =>
              /\ policy["value"] = Null =>
                    ~Has("default") /\ ~(Has("essential") /\ policy["essential"])
              /\ Has("add") => IsArray(value) /\ policy["add"] \subseteq value.vs
              /\ Has("one_of") => ~IsArray(value) /\ value.vs \subseteq policy["one_of"]
              /\ Has("subset_of") => IsArray(value) /\ value.vs \subseteq policy["subset_of"]
              /\ Has("superset_of") => IsArray(value) /\ policy["superset_of"] \subseteq value.vs
        /\ Has("add") /\ Has("subset_of") => policy["add"] \subseteq policy["subset_of"]
        /\ Has("subset_of") /\ Has("superset_of") =>
              policy["superset_of"] \subseteq policy["subset_of"]

\* operatorSchema of each operator.
OperatorSchemas(policy) ==
    /\ DOMAIN policy \subseteq Operators
    /\ "value" \in DOMAIN policy => policy["value"] \in Values \cup {Null}
    /\ "default" \in DOMAIN policy => policy["default"] \in Values
    /\ "essential" \in DOMAIN policy => policy["essential"] \in BOOLEAN
    /\ \A op \in {"add", "one_of", "subset_of", "superset_of"} \cap DOMAIN policy :
          policy[op] \subseteq Members

\* What zMetadataPolicy refines its schema with.
WellFormed(policy) ==
    /\ \A op1, op2 \in DOMAIN policy : CanBeCombined(op1, op2)
    /\ ConditionsHold(policy)

\* The value an operator gets when a superior's `old` meets a subordinate's
\* `new`, by its mergeStrategy; PolicyError where the code throws.
MergeOperator(op, old, new) ==
    CASE op \in {"value", "default"}     -> IF old = new THEN old ELSE PolicyError
      [] op \in {"add", "superset_of"}   -> old \cup new
      [] op = "one_of"                   -> IF old \cap new = {} THEN PolicyError
                                            ELSE old \cap new
      [] op = "subset_of"                -> old \cap new
      [] op = "essential"                -> old \/ new

\* combineExistingMetadataPolicyOperators, then the check that the result is
\* a policy.  `old` is PolicyError once a merge has failed.
MergePolicy(old, new) ==
    IF old = PolicyError THEN PolicyError
    ELSE IF DOMAIN old = {} THEN new
    ELSE LET both == DOMAIN old \cap DOMAIN new
             merged == [op \in DOMAIN old \cup DOMAIN new |->
                          IF op \in both THEN MergeOperator(op, old[op], new[op])
                          ELSE IF op \in DOMAIN old THEN old[op] ELSE new[op]]
         IN  IF (\E op \in both : merged[op] = PolicyError) \/ ~WellFormed(merged)
             THEN PolicyError ELSE merged

\* What one operator makes of the parameter's value.
ApplyOperator(op, arg, target) ==
    IF target = PolicyError THEN PolicyError ELSE
    CASE op = "value"   -> IF arg = Null THEN Absent ELSE arg
      [] op = "add"     -> IF target = Absent THEN Array(arg)
                           ELSE IF IsArray(target) THEN Listing(target, target.vs \cup arg)
                           ELSE PolicyError
      [] op = "default" -> IF target = Absent THEN arg ELSE target
      [] op = "one_of"  -> IF target = Absent \/ (~IsArray(target) /\ target.vs \subseteq arg)
                           THEN target ELSE PolicyError
      [] op = "subset_of" -> IF target = Absent THEN target
                             ELSE IF IsArray(target) THEN Listing(target, target.vs \cap arg)
                             ELSE PolicyError
      [] op = "superset_of" -> IF target = Absent \/ (IsArray(target) /\ arg \subseteq target.vs)
                               THEN target ELSE PolicyError
      [] op = "essential" -> IF arg /\ target = Absent THEN PolicyError ELSE target

\* Mutant: subset_of filters before `add` and `default` have put values in.
OrderOfApplicationSubsetFirst ==
    <<"value", "subset_of", "add", "default", "one_of", "superset_of", "essential">>

\* MetadataOrderOfApplication
OrderOfApplication ==
    <<"value", "add", "default", "one_of", "subset_of", "superset_of", "essential">>

\* applyMetadataPolicyToMetadata for one parameter: the operators in order.
ApplyPolicy(policy, target) ==
    LET apply[n \in 0 .. Len(OrderOfApplication)] ==
            IF n = 0 THEN target
            ELSE LET op == OrderOfApplication[n] IN
                 IF op \in DOMAIN policy
                 THEN ApplyOperator(op, policy[op], apply[n - 1])
                 ELSE apply[n - 1]
    IN  IF policy = PolicyError THEN PolicyError
        ELSE apply[Len(OrderOfApplication)]

\* combineMetadataPolicies: from the trust anchor's policy (the last) down.
CombinePolicies(policies) ==
    LET merge[n \in 0 .. Len(policies)] ==
            IF n = 0 THEN [op \in {} |-> 0]
            ELSE MergePolicy(merge[n - 1], policies[Len(policies) + 1 - n])
    IN  merge[Len(policies)]

-----------------------------------------------------------------------------
\* A value obeys a policy: what each operator demands of the result.
Obeys(target, policy) ==
    \A op \in DOMAIN policy :
        CASE op = "value"       -> IF policy[op] = Null THEN target \in {Absent, Array({})}
                                   ELSE target = policy[op]
          [] op = "add"         -> target # Absent /\ policy[op] \subseteq target.vs
          [] op = "default"     -> target # Absent
          [] op \in {"one_of", "subset_of"} ->
                                   target = Absent \/ target.vs \subseteq policy[op]
          [] op = "superset_of" -> target = Absent \/ policy[op] \subseteq target.vs
          [] op = "essential"   -> policy[op] => target # Absent
=============================================================================
