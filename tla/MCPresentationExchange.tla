------------------------ MODULE MCPresentationExchange ------------------------
(***************************************************************************)
(* The scenarios of PresentationExchange: combinations of client prefix,   *)
(* response mode and signature with one simple query; key and algorithm    *)
(* configurations with encrypted responses; and queries over nested claims *)
(* with one way of asking.                                                 *)
(***************************************************************************)
EXTENDS PresentationExchange

(* Credentials.  None has an empty array: over one the evaluator answers    *)
(* what no credential has (Never).                                          *)
Person ==
    [format |-> "sd-jwt", binding |-> TRUE, types |-> {"pid"}, authority |-> {"ca1"},
     claims |-> Obj([name |-> Val("ada"),
                     nations |-> Arr(<<Val("fr"), Val("de"), Val("fr")>>),
                     address |-> Obj([city |-> Val("paris"), zip |-> Val("75")]),
                     degrees |-> Arr(<<Obj([type |-> Val("bsc")]), Obj([type |-> Val("msc"), by |-> Val("uni")])>>)])]
Licence ==
    [format |-> "mdoc", binding |-> TRUE, types |-> {"mdl"}, authority |-> {},
     claims |-> Obj([ns |-> Obj([name |-> Val("ada"), class |-> Val("b")])])]
Ticket ==
    [format |-> "sd-jwt", binding |-> FALSE, types |-> {"ticket", "base"}, authority |-> {"ca2"},
     claims |-> Obj([name |-> Val("bob"), nations |-> Arr(<<Val("de")>>)])]

Claim(id, path, values) == [id |-> id, path |-> path, values |-> values]
NameClaim == Claim("n", <<Key("name")>>, {})
Nation(i) == Claim("i", <<Key("nations"), Index(i)>>, {})
Nations(values) == Claim("a", <<Key("nations"), All>>, values)
City == Claim("c", <<Key("address"), Key("city")>>, {})
Address == Claim("d", <<Key("address")>>, {})
DegreeType(i) == Claim("t", <<Key("degrees"), Index(i), Key("type")>>, {})
Degrees(values) == Claim("g", <<Key("degrees"), All, Key("type")>>, values)
Degree(i) == Claim("h", <<Key("degrees"), Index(i)>>, {})

CredentialQuery(id, claims) ==
    [id |-> id, format |-> "sd-jwt", multiple |-> FALSE, binding |-> TRUE, types |-> {}, authorities |-> {},
     claims |-> claims, claimSets |-> <<>>]
MdocQuery(id) ==
    [CredentialQuery(id, <<Claim("m", <<Key("ns"), Key("class")>>, {Val("b"), Val("c")})>>) EXCEPT
        !.format = "mdoc", !.types = {{"mdl"}}]
Query(credentials, sets) == [credentials |-> credentials, sets |-> sets]
Set(options, required) == [options |-> options, required |-> required]

SimpleQuery == Query(<<CredentialQuery("q", <<NameClaim>>)>>, <<>>)

(* Pairs of claims, so that every two kinds of path are laid over each     *)
(* other, with claim sets that make the second one optional.               *)
Claims == {NameClaim, City, Address, Nations({}), Nations({Val("fr")}), Nations({Val("de"), Val("it")}),
           Degrees({}), Degrees({Val("msc")})}
          \cup {Claim("v", <<Key("nations"), Index(1)>>, {Val("de")})} \cup {Nation(i) : i \in 0 .. 3} \cup {DegreeType(i) : i \in 0 .. 1} \cup {Degree(i) : i \in 0 .. 1}
PairQueries ==
    {Query(<<[CredentialQuery("q", <<c, [d EXCEPT !.id = "second"]>>) EXCEPT !.claimSets = sets]>>, <<>>) :
        c \in Claims, d \in Claims, sets \in {<<>>}}
    \cup {Query(<<[CredentialQuery("q", <<c, [Nation(3) EXCEPT !.id = "second"]>>) EXCEPT
                    !.claimSets = <<<<"second">>, <<c.id>>>>]>>, <<>>) : c \in Claims}

(* Several credential queries, sets and options, with and without holder   *)
(* binding, authorities, types, several presentations, broken references.  *)
Tickets == [CredentialQuery("t", <<Nations({Val("de")})>>) EXCEPT !.multiple = TRUE, !.binding = FALSE]
SetQueries ==
    LET q == CredentialQuery("q", <<NameClaim, Nation(1)>>)
        m == MdocQuery("m")
    IN  {Query(<<q, m>>, <<>>), Query(<<q, m>>, <<Set(<<<<"q", "m">>>>, TRUE)>>),
         Query(<<q, m>>, <<Set(<<<<"m">>, <<"q">>>>, TRUE)>>),
         Query(<<q, m, Tickets>>, <<Set(<<<<"q">>, <<"m">>>>, TRUE), Set(<<<<"t">>>>, FALSE)>>),
         Query(<<Tickets>>, <<>>), Query(<<[Tickets EXCEPT !.types = {{"ticket"}, {"base", "pid"}}]>>, <<>>),
         Query(<<[Tickets EXCEPT !.authorities = {"ca1"}]>>, <<>>),
         Query(<<[Tickets EXCEPT !.authorities = {"ca3"}]>>, <<>>),
         Query(<<[Tickets EXCEPT !.binding = TRUE]>>, <<>>),
         Query(<<q, q>>, <<>>), Query(<<q>>, <<Set(<<<<"x">>>>, TRUE)>>),
         Query(<<[q EXCEPT !.claimSets = <<<<"x">>>>]>>, <<>>)}
        \cup {Query(<<[CredentialQuery("q", <<[NameClaim EXCEPT !.id = a], [City EXCEPT !.id = b]>>) EXCEPT !.claimSets = sets]>>, <<>>) :
                a \in {"c", NoId}, b \in {"c", NoId}, sets \in {<<>>, <<<<"c">>>>}}

-------------------------------------------------------------------------------
(* Keys and algorithms. *)
Jwk(alg, use, kid) == [alg |-> alg, use |-> use, kid |-> kid]
Metadata(keys, encs, legacyAlg, legacyEnc) ==
    [keys |-> keys, encs |-> encs, legacyAlg |-> legacyAlg, legacyEnc |-> legacyEnc]
DefaultMetadata == Metadata(<<Jwk("ES", "enc", "k1")>>, <<"G1">>, None, None)
Metadatas ==
    {DefaultMetadata,
     Metadata(<<Jwk("ES", "sig", "k1"), Jwk("KW", None, "k2"), Jwk("ES", "enc", "k3")>>, <<"G3", "G2">>, None, None),
     Metadata(<<Jwk("KW", "enc", "k1"), Jwk("ES", None, "k2")>>, <<"G3">>, None, None),
     Metadata(<<Jwk("ES", None, None)>>, None, "ES", "G2"),
     Metadata(<<Jwk(None, None, None)>>, None, "ES", None),
     Metadata(<<Jwk("KW", None, "k1"), Jwk("ES", None, "k2")>>, None, "KW", "G1"),
     Metadata(<<Jwk("KW", None, None), Jwk("ES", None, None)>>, None, "ES", "G1"),
     Metadata(<<Jwk("ES", "sig", "k1")>>, <<"G1">>, None, None)}

DefaultWallet ==
    [expectedNonce |-> None, approves |-> TRUE, jarm |-> FALSE, external |-> TRUE, algs |-> {"ES"},
     encs |-> <<"G1", "G2">>, sign |-> FALSE, encrypt |-> TRUE]
JarmWallets ==
    {[DefaultWallet EXCEPT !.jarm = jarm, !.external = external, !.sign = sign, !.encrypt = encrypt] :
        jarm \in BOOLEAN, external \in BOOLEAN, sign \in BOOLEAN, encrypt \in BOOLEAN}

-------------------------------------------------------------------------------
MethodOf(prefix) ==
    CASE prefix = "decentralized_identifier" -> "did"
      [] prefix \in {"x509_san_dns", "x509_san_uri", "x509_hash"} -> "x5c"
      [] prefix = "openid_federation" -> "federation"
      [] prefix = "pre-registered" -> "custom"
      [] OTHER -> "jwk"

Scenario(prefix, mode, jar) ==
    [w |-> TRUE, prefix |-> prefix, mode |-> mode, jar |-> jar, method |-> MethodOf(prefix), typ |-> TRUE, wrapped |-> "none",
     state |-> TRUE, origins |-> jar # None /\ Category(mode) = "dc_api", url |-> jar # None /\ Category(mode) = "iae",
     queries |-> {"dcql"}, query |-> SimpleQuery, credentials |-> <<Person, Licence, Ticket>>,
     transactions |-> <<>>, metadata |-> DefaultMetadata,
     wallet |-> [DefaultWallet EXCEPT !.jarm = mode \in JarmModes]]

(* Every way of asking. *)
AskingScenarios ==
    LET base == {Scenario(prefix, mode, jar) : prefix \in ClientIdPrefixes,
                    mode \in PostModes \cup DcApiModes \cup IaeModes \cup {"fragment"}, jar \in {None, "value", "reference"}}
        signed == {b \in base : b.jar # None}
    IN  base \cup {[b EXCEPT !.state = FALSE] : b \in base}
        \cup {[b EXCEPT !.typ = FALSE] : b \in signed} \cup {[b EXCEPT !.origins = FALSE, !.url = FALSE] : b \in signed}
        \cup {[b EXCEPT !.method = IF b.method = "x5c" THEN "custom" ELSE "x5c"] : b \in signed}
        \cup {[b EXCEPT !.wrapped = w] : b \in signed, w \in {"jwe", "jwe without kid"}}
        \cup {[b EXCEPT !.queries = q] : b \in base, q \in {{"pd"}, {"pd_uri"}, {"dcql", "scope"}}}
        \cup {[b EXCEPT !.wallet.expectedNonce = "n"] : b \in base}

(* Every way of answering. *)
AnsweringScenarios ==
    {[Scenario(prefix, "direct_post.jwt", "value") EXCEPT !.w = FALSE, !.metadata = metadata, !.wallet = wallet] :
        prefix \in {"x509_hash", "openid_federation"},
        metadata \in Metadatas, wallet \in JarmWallets}

Entry(ids, algs) == [ids |-> ids, algs |-> algs]
TransactionLists ==
    {<<Entry(<<"q">>, {"sha-256"})>>, <<Entry(<<"m", "q">>, {"sha-256", "sha-1"}), Entry(<<"q">>, {"sha-256"})>>,
     <<Entry(<<"x">>, {"sha-256"})>>, <<Entry(<<"q">>, {"sha-1"})>>}

QueryScenarios ==
    {[Scenario("redirect_uri", "direct_post", None) EXCEPT !.w = FALSE, !.query = query] : query \in PairQueries \cup SetQueries}

TransactionScenarios ==
    {[Scenario("redirect_uri", "direct_post", None) EXCEPT !.transactions = t, !.wallet.approves = approves, !.query = query] :
        t \in TransactionLists, approves \in BOOLEAN,
        query \in {SimpleQuery, Query(<<CredentialQuery("q", <<NameClaim>>), MdocQuery("m")>>, <<>>)}}

SessionSymmetry == Permutations(Sessions)

MCScenarios == AskingScenarios \cup AnsweringScenarios \cup QueryScenarios \cup TransactionScenarios

===============================================================================
