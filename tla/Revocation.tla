----------------------------- MODULE Revocation -----------------------------
(***************************************************************************)
(* Certificates and revocation lists as @owf/x509 checks them, and the     *)
(* profile of an access certificate that @owf/eudi-access-certificate adds *)
(* to them.  Everything is a function of parsed structures; DER is left    *)
(* out, a signature is the key it was made with, a key identifier is the   *)
(* key.                                                                    *)
(*                                                                         *)
(* A certificate is [issuer, aki, serial, ca, dps, notBefore, notAfter,    *)
(* key, by, name, ...]; a CRL is [issuer, aki, by, thisUpdate, nextUpdate, *)
(* delta, critical, idp, entries]; idp is Absent or [uris, user, cas,      *)
(* attribute, indirect, reasons].                                          *)
(***************************************************************************)
EXTENDS Naturals, Sequences, FiniteSets, FiniteSetsExt

CONSTANT Absent     \* a field that is not there

-----------------------------------------------------------------------------
(* Signatures *)

\* Key identifiers are compared only when both sides have one.
KeyIdsAgree(a, b) == a # Absent /\ b # Absent => a = b

\* verifyCertificateSignature: one link of a chain.
VerifyCertificateSignature(cert, issuer) ==
    /\ cert.issuer = issuer.name
    /\ KeyIdsAgree(cert.aki, issuer.ski)
    /\ cert.by = issuer.key

\* verifyCrlSignature
VerifyCrlSignature(crl, issuer) ==
    /\ crl.issuer = issuer.name
    /\ KeyIdsAgree(crl.aki, issuer.ski)
    /\ issuer.crlSign
    /\ crl.by = issuer.key

-----------------------------------------------------------------------------
(* Revocation lists *)

\* prepareCrl and createCrl: the list of a CA over the given entries.  A
\* scope other than distribution points, user and CA certificates is in a
\* custom extension of the template.
CreateCrl(issuer, thisUpdate, nextUpdate, idp, entries) ==
    [issuer |-> issuer.name, aki |-> issuer.ski, by |-> issuer.key,
     thisUpdate |-> thisUpdate, nextUpdate |-> nextUpdate,
     delta |-> FALSE, critical |-> FALSE, idp |-> idp, entries |-> entries]

\* Mutant: an entry that does not name an issuer has none.
RevokedCertificatesAsListed(entries) == entries

\* toRevokedCertificates: an entry that names no certificate issuer has the
\* one of the entry before it.
ToRevokedCertificates(entries) ==
    [i \in DOMAIN entries |->
        LET named == {j \in 1..i : entries[j].certificateIssuer # Absent}
        IN  IF named = {} THEN entries[i]
            ELSE [entries[i] EXCEPT !.certificateIssuer = entries[Max(named)].certificateIssuer]]

Indirect(crl) == crl.idp # Absent /\ crl.idp.indirect

\* The entries of a certificate: its serial, and on an indirect list its issuer.
EntriesOf(cert, crl) ==
    LET revoked == ToRevokedCertificates(crl.entries)
    IN  {i \in DOMAIN revoked :
            /\ revoked[i].serial = cert.serial
            /\ Indirect(crl) => cert.issuer = IF revoked[i].certificateIssuer = Absent THEN crl.issuer
                                              ELSE revoked[i].certificateIssuer}

EntryStatus(entry) ==
    CASE entry.critical                 -> "unknown"
      [] entry.reason = "removeFromCRL" -> "good"
      [] OTHER                          -> "revoked"

\* The list is one that can say something of the certificate at all.
IssuerMatches(cert, crl) ==
    \/ Indirect(crl)
    \/ crl.issuer = cert.issuer /\ KeyIdsAgree(crl.aki, cert.aki)

Current(crl, now) == crl.thisUpdate <= now /\ now <= crl.nextUpdate

InScope(cert, idp) ==
    idp # Absent => /\ ~idp.attribute
                    /\ idp.cas => cert.ca
                    /\ idp.user => ~cert.ca
                    /\ idp.uris # {} => idp.uris \cap cert.dps # {}

\* getRevocationStatus: the first entry counts; a list of some reasons
\* answers only for what it lists.
GetRevocationStatus(cert, crl, now) ==
    IF \/ crl.delta \/ crl.critical
       \/ ~IssuerMatches(cert, crl) \/ ~Current(crl, now) \/ ~InScope(cert, crl.idp)
    THEN "unknown"
    ELSE LET found == EntriesOf(cert, crl)
         IN  IF found # {} THEN EntryStatus(ToRevokedCertificates(crl.entries)[Min(found)])
             ELSE IF crl.idp # Absent /\ crl.idp.reasons # Absent THEN "unknown"
             ELSE "good"

\* checkRevocation
CheckRevocation(cert, crl, issuer, now) ==
    IF VerifyCrlSignature(crl, issuer) THEN GetRevocationStatus(cert, crl, now) ELSE "unknown"

-----------------------------------------------------------------------------
(* Access certificates *)

\* deriveSubjectType: the policies decide, then the names of the subject.
SubjectType(cert) ==
    LET types == {p.subjectType : p \in cert.policies}
    IN  CASE Cardinality(types) = 1                    -> CHOOSE t \in types : TRUE
          [] Cardinality(types) > 1                    -> Absent
          [] cert.subject.organizationIdentifier # Absent -> "legal"
          [] cert.subject.personName                   -> "natural"
          [] OTHER                                     -> Absent

\* getAccessCertificateSubjectIdentifier
SubjectIdentifier(cert) ==
    IF SubjectType(cert) = "natural" THEN cert.subject.serialNumber ELSE cert.subject.organizationIdentifier

\* The naming rules of a subject: names that do not parse as a semantic
\* identifier are not well formed.  A natural person's serial number gives
\* no more than a warning.
SubjectNamed(cert) ==
    CASE SubjectType(cert) = "legal"   -> /\ cert.subject.organizationName
                                          /\ cert.subject.organizationIdentifier # Absent
                                          /\ cert.subject.wellFormed
      [] SubjectType(cert) = "natural" -> cert.subject.personName
      [] OTHER                         -> FALSE

\* Qualified certificates carry the QcCompliance statement.
QualifiedComplies(cert) == (\E p \in cert.policies : p.qualified) => cert.qcCompliance

\* validateAccessCertificate: no issue of severity error.  Version, contact,
\* CPS URI, common and country name are the flag complete.
AccessCertificateValid(cert, now) ==
    /\ cert.notBefore <= now /\ now <= cert.notAfter
    /\ ~cert.ca
    /\ cert.policies # {}
    /\ Cardinality({p.subjectType : p \in cert.policies}) <= 1
    /\ cert.complete
    /\ SubjectNamed(cert)
    /\ QualifiedComplies(cert)
=============================================================================
