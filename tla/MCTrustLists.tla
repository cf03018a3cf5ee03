---------------------------- MODULE MCTrustLists ----------------------------
(***************************************************************************)
(* A small world for TrustLists: an entry in several shapes (a chain of    *)
(* type metadata with and without integrity, one that loops, one too deep, *)
(* one of another type, one with an unsupported digest, a plain JSON       *)
(* schema), two versions of a profile, and days around the ends of months. *)
(***************************************************************************)
EXTENDS TrustLists

Key(name) == <<"key", name>>
Sri(doc) == [algorithm |-> "sha256", digest |-> doc]
Sri384(doc) == [algorithm |-> "sha384", digest |-> doc]

Metadata(vct, claims, extends, sri) ==
    [json |-> TRUE, vct |-> vct, valid |-> TRUE, claims |-> claims, extends |-> extends,
     extendsSri |-> sri, schema |-> Missing]
Schema(node) == [Metadata(Missing, {}, Missing, Missing) EXCEPT !.schema = node]

MCDocumentOf ==
    [d \in {"child", "parent", "open", "loop", "loop2", "deep1", "deep2", "deep3", "other type", "sha384",
            "schema", "evil", "evil child", "evil schema", "no json", "no metadata"} |->
       CASE d = "child" -> Metadata("T", {<<Key("a")>>}, "u:parent", Sri("parent"))
         [] d = "parent" -> Metadata("P", {<<Key("a")>>, <<Key("b")>>}, Missing, Missing)
         [] d = "open" -> Metadata("T", {<<Key("a")>>}, "u:parent", Missing)
         [] d = "loop" -> Metadata("T", {<<Key("a")>>}, "u:loop2", Sri("loop2"))
         [] d = "loop2" -> Metadata("P", {}, "u:loop", Missing)
         [] d = "deep1" -> Metadata("T", {}, "u:deep2", Sri("deep2"))
         [] d = "deep2" -> Metadata("P", {}, "u:deep3", Sri("deep3"))
         [] d = "deep3" -> Metadata("P", {}, "u:parent", Sri("parent"))
         [] d = "other type" -> Metadata("P", {<<Key("a")>>}, Missing, Missing)
         [] d = "sha384" -> Metadata("T", {}, "u:parent", Sri384("parent"))
         [] d = "schema" -> Schema("root")
         [] d = "evil" -> Metadata("T", {<<Key("evil")>>}, Missing, Missing)
         [] d = "evil child" -> Metadata("T", {<<Key("evil")>>}, "u:open", Missing)
         [] d = "evil schema" -> Schema("leaf")
         [] d = "no json" -> [Metadata("T", {}, Missing, Missing) EXCEPT !.json = FALSE]
         [] OTHER -> [Metadata("T", {}, Missing, Missing) EXCEPT !.valid = FALSE]]

MCAuthenticDoc ==
    [u \in {"u:child", "u:parent", "u:open", "u:loop", "u:loop2", "u:deep", "u:deep2", "u:deep3", "u:type",
            "u:sha384", "u:schema"} |->
       CASE u = "u:child" -> "child" [] u = "u:parent" -> "parent" [] u = "u:open" -> "open"
         [] u = "u:loop" -> "loop" [] u = "u:loop2" -> "loop2" [] u = "u:deep" -> "deep1"
         [] u = "u:deep2" -> "deep2" [] u = "u:deep3" -> "deep3" [] u = "u:type" -> "other type"
         [] u = "u:sha384" -> "sha384" [] OTHER -> "schema"]

MCOtherDocs == {"evil", "evil child", "evil schema", "no json", "no metadata"}

\* An object with a leaf, an object shared by two members, arrays of leaves
\* and of objects, a tuple, itself, and a variant.
Node == [plain |-> TRUE, types |-> {}, properties |-> Missing, items |-> Missing, prefixItems |-> Missing,
         tupleItems |-> Missing, variants |-> <<>>]
MCNodeOf ==
    [n \in {"root", "leaf", "shared", "leaves", "objects", "tuple", "draft tuple", "variant", "true"} |->
       CASE n = "root" -> [Node EXCEPT !.variants = <<"variant">>, !.properties =
                             [m \in {"name", "home", "work", "tags", "cars", "pair", "old", "self"} |->
                                CASE m = "name" -> "leaf" [] m \in {"home", "work"} -> "shared"
                                  [] m = "tags" -> "leaves" [] m = "cars" -> "objects" [] m = "pair" -> "tuple"
                                  [] m = "old" -> "draft tuple" [] OTHER -> "root"]]
         [] n = "shared" -> [Node EXCEPT !.types = {"object"}, !.properties = [m \in {"city"} |-> "leaf"]]
         [] n = "leaves" -> [Node EXCEPT !.types = {"array"}, !.items = "leaf"]
         [] n = "objects" -> [Node EXCEPT !.items = "shared"]
         [] n = "tuple" -> [Node EXCEPT !.prefixItems = <<"leaf", "shared">>, !.items = "leaf"]
         [] n = "draft tuple" -> [Node EXCEPT !.tupleItems = <<"objects">>]
         [] n = "variant" -> [Node EXCEPT !.properties = [m \in {"extra", "any"} |->
                                                            IF m = "extra" THEN "leaf" ELSE "true"]]
         [] n = "true" -> [Node EXCEPT !.plain = FALSE]
         [] OTHER -> [Node EXCEPT !.types = {"string"}]]

SchemaClaims ==
    {<<Key("name")>>, <<Key("home"), Key("city")>>, <<Key("work"), Key("city")>>, <<Key("tags")>>,
     <<Key("cars"), <<"all", 0>>, Key("city")>>, <<Key("pair"), <<"index", 0>>>>,
     <<Key("pair"), <<"index", 1>>, Key("city")>>, <<Key("old"), <<"index", 0>>, <<"all", 0>>, Key("city")>>,
     <<Key("extra")>>, <<Key("any")>>}

MCProtected == {"u:child", "u:schema", "u:type"}
MCMeantClaims ==
    [u \in MCProtected |-> CASE u = "u:child" -> {<<Key("a")>>, <<Key("b")>>}
                              [] u = "u:schema" -> SchemaClaims [] OTHER -> {}]
MCUnresolvable == {"u:loop", "u:deep", "u:type", "u:sha384"}

Uri(format, uri, type) ==
    [format |-> format, uri |-> uri, sri |-> Sri(MCAuthenticDoc[uri]), type |-> type, vcMetadata |-> Missing,
     claims |-> IF uri = "u:open" THEN {<<Key("a")>>} ELSE Missing]

TheList == [framework |-> "etsi_tl", value |-> "national", verificationMethod |-> "certificate"]
TheEntities == [framework |-> "etsi_tl", value |-> "entities", verificationMethod |-> "certificate"]
TheRoot == [framework |-> "x509", value |-> "certificate", verificationMethod |-> Missing]
MCListLocation == [v \in {"national", "entities"} |-> IF v = "national" THEN "list" ELSE "entities"]

Profile(algs, proofs, attested, batch) ==
    [algs |-> algs, bindings |-> {"jwk"}, proofs |-> proofs, keyAttestationRequired |-> attested, batchAllowed |-> batch]
Jwt(algs) == [t \in {"jwt"} |-> algs]

Entry(uris, binding, profile) ==
    SchemaMetaBuilder([id |-> "entry", authorities |-> <<TheList, TheEntities, TheRoot>>, binding |-> binding,
                       schemaURIs |-> uris, profile |-> profile])

Both == <<Uri("dc+sd-jwt", "u:child", "T"), Uri("mso_mdoc", "u:schema", "D")>>
MCEntryVersions ==
    {Entry(Both, "key", Profile({"ES256", "ES384"}, Jwt({"ES256", "ES384"}), FALSE, TRUE)),
     Entry(Both, "key", Profile({"ES256"}, Jwt({"ES256"}), TRUE, FALSE)),
     Entry(Both, "key", Missing),
     Entry(<<Uri("dc+sd-jwt", "u:schema", "T")>>, "none", [Profile({"ES256"}, Missing, FALSE, TRUE) EXCEPT !.bindings = Missing])}
    \cup {Entry(<<Uri("dc+sd-jwt", u, "T")>>, "claim", Missing) : u \in {"u:open"} \cup MCUnresolvable}

MCSelections == {<<"dc+sd-jwt">>, <<"mso_mdoc", "dc+sd-jwt", "dc+sd-jwt">>}

Day(year, month, day) == [year |-> year, month |-> month, day |-> day, second |-> 43200]
MCDates == {Day(2023, 8, 31), Day(2024, 2, 29), Day(2024, 3, 1), Day(2024, 8, 30), Day(2024, 12, 31)}

\* One with summer time, and one in which the day begins before noon UTC.
MCZones == {[offset |-> 3600, summer |-> 3600], [offset |-> 50400, summer |-> 0]}

\* The LOTL operator goes over to keys of another kind; the certificate of the
\* second authority cannot be parsed.
Certificates == {LotlKey(g) : g \in 1 .. 3} \cup {NationalKey(g) : g \in 1 .. 2}
                \cup {Authority(i) : i \in 1 .. 2} \cup {Attacker, Intermediate}
MCKindOf == [c \in Certificates |-> IF c \in {LotlKey(g) : g \in 2 .. 3} THEN "EC" ELSE "RSA"]
MCSkiOf == [c \in Certificates |->
              IF c = Authority(2) THEN None ELSE <<"ski", c>>]
=============================================================================
