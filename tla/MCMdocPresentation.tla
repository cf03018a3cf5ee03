------------------------- MODULE MCMdocPresentation -------------------------
(* Three credentials of two issuers, and five device requests: ages that    *)
(* one attestation answers, unique documents, use cases with alternatives   *)
(* and device-signed elements, doc requests as alternatives with a size     *)
(* limit, and one with too many ages.                                       *)
EXTENDS MdocPresentation

MCAgeOf == [a18 |-> 18, a19 |-> 19, a20 |-> 20, a21 |-> 21]

Issued(ns, id, value) == [element |-> <<ns, id>>, value |-> value, source |-> "issuerSigned"]
OnDevice(ns, id, value) == [element |-> <<ns, id>>, value |-> value, source |-> "deviceSigned"]

Credential(docType, issuer, id, status, validUntil, issued, onDevice, elements) ==
    [docType |-> docType, issuers |-> {"aki" \o issuer}, items |-> issued \cup onDevice,
     authorized |-> [namespaces |-> {}, elements |-> elements], x5chain |-> <<issuer>>,
     mso |-> [docType |-> docType, signer |-> issuer, deviceKey |-> "device" \o id,
              digests |-> issued, authorized |-> [namespaces |-> {}, elements |-> elements],
              id |-> id, status |-> status, signed |-> 0, validFrom |-> 0, validUntil |-> validUntil]]

StatusA == [kind |-> "status", uri |-> "uriA"]
IdentifierA == [kind |-> "identifier", uri |-> "uriI"]
MCListReferences == {StatusA, IdentifierA, [StatusA EXCEPT !.uri = "uriB"], [IdentifierA EXCEPT !.uri = "uriJ"]}

MCCredentials ==
    [pidA |-> Credential("pid", "A", "pidA", <<StatusA>>, 1,
        {Issued("p", "name", "x"), Issued("p", "a18", "true"), Issued("p", "a21", "true")},
        {OnDevice("p", "loc", "x")}, {<<"p", "loc">>}),
     pidB |-> Credential("pid", "B", "pidB", <<>>, 0,
        {Issued("p", "name", "y"), Issued("p", "a18", "false")}, {}, {}),
     mdl |-> Credential("mdl", "A", "mdl", <<StatusA, IdentifierA>>, 1,
        {Issued("m", "a20", "true"), Issued("m", "birth", "x"), Issued("m", "given", "x")}, {}, {})]

MCAnchors == {"A", "B"}
MCKeyIds == [A |-> {"akiA"}, B |-> {"akiB"}]
MCStatusSigners == [A |-> {"status"}, B |-> {}]
MCCertValidity == [c \in {"A", "B", "W"} |-> [notBefore |-> -1, notAfter |-> 2]]

DocRequest(docType, ns, ids, alternatives, unique, issuers, expects, size) ==
    [docType |-> docType, elements |-> {<<ns, id>> : id \in ids}, alternatives |-> alternatives,
     unique |-> unique, issuers |-> issuers, expects |-> expects, maximumResponseSize |-> size]

Plain(docType, ns, ids) == DocRequest(docType, ns, ids, <<>>, FALSE, {}, <<>>, 9)

Names == <<{<<"m", "birth">>}, {<<"m", "given">>, <<"m", "a18">>}>>

MCDeviceRequests ==
    [ages |-> [docRequests |-> <<DocRequest("pid", "p", {"a19", "a20", "name"}, <<>>, FALSE, {},
                   <<"p", "name">> :> [source |-> "issuerSigned", optional |-> TRUE], 9)>>,
               useCases |-> <<>>, asAlternatives |-> FALSE],
     two |-> [docRequests |-> <<DocRequest("pid", "p", {"name"}, <<>>, TRUE, {}, <<>>, 9),
                                DocRequest("pid", "p", {"a18"}, <<>>, TRUE, {"akiA"}, <<>>, 9)>>,
              useCases |-> <<>>, asAlternatives |-> FALSE],
     cases |-> [docRequests |-> <<DocRequest("mdl", "m", {"family", "a18"},
                                      <<"m", "family">> :> Names, FALSE, {}, <<>>, 9),
                                  DocRequest("pid", "p", {"name"},
                                      <<"p", "name">> :> <<{<<"p", "a18">>}>>, FALSE, {}, <<>>, 9),
                                  DocRequest("pid", "p", {"loc", "name"}, <<>>, FALSE, {},
                                      <<"p", "loc">> :> [source |-> "deviceSigned", optional |-> FALSE], 9)>>,
                useCases |-> <<[mandatory |-> TRUE, sets |-> <<{1}, {2}>>],
                               [mandatory |-> FALSE, sets |-> <<{3}>>]>>,
                asAlternatives |-> FALSE],
     either |-> [docRequests |-> <<DocRequest("mdl", "m", {"birth", "given"}, <<>>, FALSE, {}, <<>>, 2),
                                   DocRequest("pid", "p", {"name", "loc"}, <<>>, FALSE, {},
                                       <<"p", "loc">> :> [source |-> "any", optional |-> FALSE], 9)>>,
                 useCases |-> <<>>, asAlternatives |-> TRUE],
     many |-> [docRequests |-> <<Plain("pid", "p", {"a18", "a19", "a21"})>>,
               useCases |-> <<>>, asAlternatives |-> FALSE]]

MCRelayed == {"two"}

MCVerifyOptions ==
    {[disableChain |-> FALSE, disableStatus |-> FALSE, throws |-> TRUE],
     [disableChain |-> FALSE, disableStatus |-> FALSE, throws |-> FALSE],
     [disableChain |-> FALSE, disableStatus |-> TRUE, throws |-> FALSE],
     [disableChain |-> TRUE, disableStatus |-> FALSE, throws |-> FALSE]}
=============================================================================
