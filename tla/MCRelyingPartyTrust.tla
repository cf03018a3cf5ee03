------------------------ MODULE MCRelyingPartyTrust ------------------------
(***************************************************************************)
(* Two CAs that share a serial number, one of them with an old key, and an *)
(* issuer of indirect CRLs; a legal person, a natural person and an        *)
(* intermediary; registrations and queries over two kinds of credential.   *)
(***************************************************************************)
EXTENDS RelyingPartyTrust, TLC

Ca(name, key, delegate, crlSign) ==
    [name |-> name, key |-> key, ski |-> key, delegate |-> delegate, crlSign |-> crlSign]

MCCaCertificates ==
    {Ca("CA", "kCA", FALSE, TRUE), Ca("CA", "kOld", FALSE, TRUE), Ca("CB", "kCB", FALSE, FALSE),
     Ca("RA", "kRA", TRUE, TRUE)}

NCPl == [subjectType |-> "legal", qualified |-> FALSE]
QCPn == [subjectType |-> "natural", qualified |-> TRUE]

Legal == [issuer |-> "CA", by |-> "kCA", aki |-> "kCA", serial |-> 1, ca |-> FALSE, dps |-> {"u1"},
          notBefore |-> 0, notAfter |-> 9, key |-> "kL", policies |-> {NCPl}, complete |-> TRUE, qcCompliance |-> FALSE,
          subject |-> [organizationName |-> TRUE, organizationIdentifier |-> "LEIXG-L", serialNumber |-> Absent,
                       personName |-> FALSE, wellFormed |-> TRUE]]
Natural == [Legal EXCEPT !.issuer = "CB", !.by = "kCB", !.aki = Absent, !.dps = {"u2"}, !.key = "kN",
                         !.policies = {QCPn}, !.qcCompliance = TRUE, !.notAfter = 1,
                         !.subject = [organizationName |-> FALSE, organizationIdentifier |-> "VATIT-M", serialNumber |-> "TINIT-N",
                                     personName |-> TRUE, wellFormed |-> TRUE]]
Intermediary == [Legal EXCEPT !.issuer = "CB", !.by = "kCB", !.aki = "kCB", !.serial = 2, !.dps = {"u2"},
                              !.key = "kM", !.subject.organizationIdentifier = "VATIT-M"]
MCLeaves == {Legal, Natural, Intermediary}

ES256 == [named |-> TRUE, symmetric |-> FALSE, kty |-> "EC"]
HS256 == [named |-> TRUE, symmetric |-> TRUE, kty |-> "oct"]

Request(l) == [alg |-> ES256, x5c |-> l, trust_chain |-> Absent, kid |-> Absent, jwk |-> Absent, crit |-> {}, b64 |-> TRUE,
               iss |-> Absent, iat |-> 0, nbf |-> Absent, exp |-> 1, signature |-> l.key]
MCRequests ==
    {Request(l) : l \in MCLeaves}
    \cup {[Request(Legal) EXCEPT !.alg = HS256, !.signature = <<"mac", "kL">>],
          [Request(Legal) EXCEPT !.signature = <<"key", "other">>, !.jwk = "other"],
          [Request(Legal) EXCEPT !.kid = [form |-> "did", did |-> "did:l"], !.iss = "did:l", !.nbf = 1],
          [Request(Legal) EXCEPT !.crit = {"exp"}]}

Claim(path) == [path |-> path, values |-> Absent]
OneOf(path, values) == [path |-> path, values |-> values]
Cred(meta, claims) == [format |-> "dc+sd-jwt", meta |-> meta, claims |-> claims]

Name == <<"name">>
Address == <<"address">>
City == <<"address", "city">>
Street == <<"address", "street">>
Nations == <<"nations">>
EachNation == <<"nations", Null>>
FirstNation == <<"nations", "0">>

MCIndexes == {"0", "1"}
Held(type, city) == [format |-> "dc+sd-jwt", type |-> type,
                     claims |-> (Name :> "n" @@ City :> city @@ Street :> "s" @@ FirstNation :> "DE" @@ <<"nations", "1">> :> "IT")]
MCCredentials == {Held("pid", "X"), Held("pid", "Y"), Held("mdl", "X")}

Payload(sub, intermediary, credentials) ==
    [sub |-> sub, intermediary |-> intermediary, iat |-> 1, exp |-> 3, semantic |-> TRUE,
     entitlements |-> {"Service_Provider"}, credentials |-> credentials]

MCPayloads ==
    {Payload("LEIXG-L", Absent, cs) :
        cs \in {Absent,
                {Cred({"pid"}, {Claim(Name), Claim(City)})},
                {Cred({"pid"}, {Claim(Address)}), Cred({"pid", "mdl"}, {Claim(Name)})},
                {Cred({"pid"}, {Claim(EachNation), OneOf(City, {"X"})})},
                {Cred(Absent, {Claim(FirstNation)}), Cred({"mdl"}, {Claim(Nations)})},
                {Cred({"pid"}, Absent), Cred({"mdl"}, {Claim(Name)})},
                {Cred({"pid"}, {OneOf(Nations, {"DE"})})}}}
    \cup {Payload("TINIT-N", Absent, {Cred({"mdl"}, {Claim(Name)})}),
          Payload("LEIXG-L", "VATIT-M", {Cred({"pid"}, {Claim(Name)})}),
          [Payload("LEIXG-L", Absent, Absent) EXCEPT !.exp = 9],
          [Payload("LEIXG-L", Absent, Absent) EXCEPT !.entitlements = {"sub_entitlement"}]}

MCOtherDocuments ==
    {[typ |-> "policy", certified |-> TRUE, iat |-> 0, sigT |-> Absent, crit |-> {}, sigD |-> ByUriHash]}

MCQueries ==
    {{Cred(m, cs)} : m \in {Absent, {"pid"}, {"pid", "mdl"}},
                     cs \in {Absent, {Claim(Name)}, {Claim(Name), Claim(Address)}, {Claim(Street)}, {Claim(City)}, {OneOf(City, {"X"})},
                             {OneOf(City, {"X", "Y"})}, {Claim(Nations)}, {Claim(EachNation)}, {OneOf(EachNation, {"DE"})}, {Claim(FirstNation)}}}
    \cup {{Cred({"pid"}, {Claim(Name)}), Cred({"mdl"}, {Claim(FirstNation)})}}
=============================================================================
