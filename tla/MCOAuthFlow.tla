---------------------------- MODULE MCOAuthFlow ----------------------------
(* Configurations of server and wallet that differ where the code does.     *)
EXTENDS OAuthFlow

Reachable == [oauth |-> "found", legacy |-> "404", openid |-> "404"]
Base ==
    [dpop |-> TRUE, auth |-> "public", pkce |-> "S256", par |-> FALSE, jar |-> FALSE, challengeEndpoint |-> FALSE,
     grant |-> "authorization_code", tx_code |-> None, refresh |-> FALSE, meta |-> Reachable, subpath |-> FALSE,
     issSupported |-> TRUE, wantsNonce |-> FALSE, wantsChallenge |-> FALSE, stubborn |-> FALSE,
     requireDpop |-> FALSE, requireAttestation |-> FALSE, matchKeys |-> FALSE, methods |-> None]

MCConfigs == {
    Base,
    [Base EXCEPT !.requireDpop = TRUE, !.wantsNonce = TRUE, !.par = TRUE, !.refresh = TRUE],
    [Base EXCEPT !.dpop = FALSE, !.pkce = "plain", !.issSupported = FALSE, !.refresh = TRUE],
    [Base EXCEPT !.dpop = FALSE, !.pkce = None],
    [Base EXCEPT !.par = TRUE, !.jar = TRUE, !.dpop = FALSE],
    [Base EXCEPT !.par = TRUE, !.jar = TRUE, !.pkce = None, !.requireDpop = TRUE, !.wantsNonce = TRUE],
    [Base EXCEPT !.pkce = None, !.auth = "attest", !.requireAttestation = TRUE, !.par = TRUE, !.matchKeys = TRUE,
                 !.methods = {"attest"}],
    [Base EXCEPT !.auth = "attest", !.wantsChallenge = TRUE, !.wantsNonce = TRUE,
                 !.grant = "pre-authorized_code", !.tx_code = "1234", !.requireAttestation = TRUE, !.matchKeys = TRUE],
    [Base EXCEPT !.auth = "attest_dpop", !.wantsChallenge = TRUE, !.grant = "pre-authorized_code",
                 !.requireAttestation = TRUE, !.requireDpop = TRUE],
    [Base EXCEPT !.auth = "attest_dpop", !.par = TRUE, !.requireAttestation = TRUE, !.methods = {"attest", "attest_dpop"}],
    [Base EXCEPT !.challengeEndpoint = TRUE, !.wantsNonce = TRUE],
    [Base EXCEPT !.challengeEndpoint = TRUE, !.par = TRUE, !.requireDpop = TRUE, !.pkce = None],
    [Base EXCEPT !.stubborn = TRUE, !.grant = "pre-authorized_code"],
    [Base EXCEPT !.stubborn = TRUE, !.auth = "attest", !.wantsChallenge = TRUE, !.grant = "pre-authorized_code"],
    [Base EXCEPT !.subpath = TRUE, !.dpop = FALSE,
                 !.meta = [oauth |-> "network_error", legacy |-> "404", openid |-> "found"]],
    [Base EXCEPT !.subpath = TRUE, !.meta = [oauth |-> "404", legacy |-> "wrong_issuer", openid |-> "found"]]
  }
=============================================================================
