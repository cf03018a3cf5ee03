------------------------------ MODULE MCSdJwtVc ------------------------------
(***************************************************************************)
(* Small credentials for SdJwtVc.  In "names", a member spelled "a.b" sits *)
(* beside a member a with a member b; an array has a hidden element, a     *)
(* hidden member of an element and a decoy.                                *)
(***************************************************************************)
EXTENDS SdJwtVc

MCSpelling ==
    [k \in {"vct", "cnf", "status", "status_list", "exp", "a", "b", "ab", "l", "#0", "#1", "#2", "_sd_alg", "_sd_decoy"} |->
        CASE k = "ab" -> <<"a", ".", "b">>
          [] k = "#0" -> <<"0">> [] k = "#1" -> <<"1">> [] k = "#2" -> <<"2">>
          [] OTHER -> <<k>>]

Num(n) == [t |-> "num", n |-> n]
Reference(uri, idx) == [t |-> "ref", uri |-> uri, idx |-> idx]
Frame(sd, decoys, sub) == [sd |-> sd, decoys |-> decoys, sub |-> sub]
NoSub == [k \in {} |-> None]

Base == [vct |-> Str("type"), cnf |-> Str("holder")]
WithStatus == [status |-> Plain([status_list |-> Reference("list", 1)])]

Nested == [a |-> Plain([b |-> Str("x")]), ab |-> Str("y"),
           l |-> Arr(<<Str("p"), Plain([a |-> Str("q")])>>)]

NestedFrame ==
    Frame({"a", "ab"}, 0,
          [k \in {"a", "l"} |->
              IF k = "a" THEN Frame({"b"}, 0, NoSub)
              ELSE Frame({"#0"}, 1, [i \in {"#1"} |-> Frame({"a"}, 0, NoSub)])])

Ab == [k \in {"ab"} |-> Yes]
InA == [k \in {"a", "ab"} |-> IF k = "a" THEN [b |-> Yes] ELSE None]
InL == [k \in {"l"} |-> [i \in {"#0", "#1"} |-> IF i = "#0" THEN None ELSE [a |-> Yes]]]

(* Type metadata. *)
Claim(path, sd, mandatory) == [path |-> path, sd |-> sd, mandatory |-> mandatory]
Document(vct, extends, integrity, claims) ==
    [vct |-> vct, extends |-> extends, integrity |-> integrity, claims |-> claims]

Root == Document("root", None, None, <<Claim(<<"a", "b">>, "allowed", TRUE), Claim(<<"l", "null">>, None, FALSE)>>)
Lax == Document("root", None, None, None)
Strict == Document("root", None, None, <<Claim(<<"a", "b">>, "never", TRUE)>>)
Typed == Document("type", "root", {[alg |-> 1, of |-> Strict], [alg |-> 2, of |-> Root], [alg |-> 2, of |-> Lax]},
                  <<Claim(<<"a", "b">>, "always", TRUE), Claim(<<"ab">>, None, TRUE), Claim(<<"l", "null", "a">>, None, FALSE)>>)
Chained(vct, extends) == Document(vct, extends, None, <<Claim(<<"a">>, None, TRUE)>>)

(* How holders are asked and verifiers called. *)
Ask(nonce, aud) == [nonce |-> nonce, aud |-> aud]

Call(op, instance, nonce, aud) ==
    [op |-> op, instance |-> instance, nonce |-> nonce, aud |-> aud, maxAge |-> None, required |-> {},
     noStatus |-> FALSE, metadata |-> FALSE]

Credential ==
    [claims |-> Plain(Base @@ Nested), frame |-> NestedFrame, alg |-> "sha-256", stuck |-> FALSE,
     instance |-> "vc", foreign |-> None, frames |-> {None, Ab, InA, InL}, asks |-> {None}, presentations |-> 1,
     options |-> {}, tampered |-> FALSE, time |-> 0, hosted |-> NoSub, rehosted |-> NoSub]

(* Key binding under tampering, compact and general JSON. *)
Bound ==
    [Credential EXCEPT
        !.frames = {Ab, InA}, !.presentations = 2, !.tampered = TRUE,
        !.asks = {Ask("n1", "v"), Ask("n1", "w"), Ask("n2", "v")},
        !.options = {Call(op, "vc", "n1", "v") : op \in {"verify", "safeVerify"}}]

Unbound ==
    [Credential EXCEPT
        !.presentations = 2, !.tampered = TRUE,
        !.options = {[Call(op, "core", None, None) EXCEPT !.required = r] : op \in {"verify", "safeVerify"},
                                                               r \in {{}, {<<"a", ".", "b">>}}}]

General ==
    [Credential EXCEPT
        !.instance = "general", !.alg = "sha-512", !.frames = {None, InA}, !.tampered = TRUE,
        !.asks = {None, Ask("n1", "v")}, !.options = {Call("verify", "general", n, None) : n \in {None, "n1"}}]

(* Time: expiry, age of a key binding, revocation. *)
Timed ==
    [Credential EXCEPT
        !.claims = Plain(Base @@ WithStatus @@ [exp |-> Num(2)] @@ Nested), !.frames = {InA}, !.time = 3,
        !.asks = {Ask("n1", "v")},
        !.options = {[Call(op, "vc", "n1", "v") EXCEPT !.maxAge = 1] : op \in {"verify", "safeVerify"}}
                    \cup {[Call("verify", "vc", None, None) EXCEPT !.noStatus = b] : b \in BOOLEAN}]

Lasting == [Timed EXCEPT !.claims = Plain(Base @@ WithStatus @@ Nested), !.time = 4]

(* Type metadata: one that is replaced, a chain that returns, one too long. *)
Metadata(documents, replaced) ==
    [Credential EXCEPT
        !.claims = Plain(Base @@ WithStatus @@ Nested), !.hosted = documents, !.rehosted = replaced, !.presentations = 2,
        !.tampered = TRUE, !.frames = {None, Ab, InL},
        !.options = {[Call(op, "vc", None, None) EXCEPT !.metadata = TRUE]
                     : op \in {"verify", "safeVerify", "verifyTypeMetadata"}}]

Types == [type |-> Typed, root |-> Root]

(* Issuance that is refused, and tokens of other issuers. *)
Refused ==
    {[Credential EXCEPT !.stuck = TRUE], [Credential EXCEPT !.alg = "md5"],
     [Credential EXCEPT !.claims = Plain([_sd_decoy |-> Str("x")] @@ Base)],
     [Credential EXCEPT !.frame = Frame({"cnf"}, 0, NoSub)]}

Hidden(k, v) == [salt |-> <<k>>, key |-> k, value |-> v]

Foreign(payload, alg, typ, disclosures) ==
    [Credential EXCEPT
        !.foreign = [token |-> [payload |-> payload, alg |-> alg, sigs |-> <<[Signature("issuer") EXCEPT !.typ = typ]>>],
                     disclosures |-> disclosures],
        !.frames = {None}, !.hosted = Types,
        !.options = {[Call(op, "vc", None, None) EXCEPT !.metadata = TRUE]
                     : op \in {"verify", "safeVerify", "verifyTypeMetadata"}}]

Of(disclosures) == [i \in DOMAIN disclosures |-> Digest("sha-256", disclosures[i])]

ForeignTokens ==
    {Foreign(Obj(Base, Of(<<Hidden("a", Str("x"))>>)), None, typ, <<Hidden("a", Str("x"))>>) : typ \in {VcType, "statuslist+jwt"}}
    \cup {Foreign(Obj(Base, Of(<<Hidden("a", Str("x"))>>)), "sha-256-32", VcType, <<Hidden("a", Str("x"))>>)}
    \cup {Foreign(Obj(m, Of(<<Hidden(k, v)>>)), None, VcType, <<Hidden(k, v)>>)
          : m \in {Base, [cnf |-> Str("holder")]}, k \in {"a", "vct"}, v \in {Str("type")}}
    \cup {Foreign(Obj([a |-> Str("x")] @@ Base, Of(<<Hidden("a", Str("y"))>>)), None, VcType, <<Hidden("a", Str("y"))>>),
          Foreign(Obj(Base, Of(<<Hidden("a", Str("x")), Hidden("a", Str("x"))>>)), None, VcType, <<Hidden("a", Str("x"))>>)}

ReservedTokens ==
    {Foreign(Obj(Base, Of(<<Hidden("_sd_alg", Str("x"))>>)), None, VcType, <<Hidden("_sd_alg", Str("x"))>>)}

MCScenarios ==
    {Bound, Unbound, General, Timed, Lasting} \cup Refused \cup ForeignTokens
    \cup {Metadata(Types, NoSub), Metadata(Types, [root |-> Lax]), Metadata(Types, [root |-> Strict]),
          Metadata([Types EXCEPT !["type"].integrity = {}], NoSub),
          Metadata([type |-> Chained("type", "root"), root |-> Chained("root", "type")], NoSub),
          Metadata([type |-> Chained("type", "t2"), t2 |-> Chained("t2", "t3"), t3 |-> Chained("t3", "t4"),
                    t4 |-> Chained("t4", None)], NoSub),
          Metadata([type |-> Chained("root", None)], NoSub)}

MCReserved == ReservedTokens
================================================================================
