------------------------------- MODULE MxAuth -------------------------------
(***************************************************************************)
(* internal/target/remote: how secure a connection to an MX is, and whether*)
(* the policies of mx_auth accept it (connect, attemptMX, security.go,     *)
(* dane.go).  Nothing here has state: what the DNS, the MTA-STS policy and *)
(* the server answer decides the outcome of an attempt.                    *)
(*                                                                         *)
(* The first half of the module is the code, the second half says what the *)
(* outcomes should mean, from docs/seclevels.md.                           *)
(***************************************************************************)
EXTENDS Naturals, Sequences

CONSTANTS
    Configured,     \* policies of the mx_auth directive
    MinTLS,         \* min_tls_level of local_policy
    MinMX           \* min_mx_level of local_policy

PolicyNames == {"mtasts", "dane", "dnssec", "local_policy"}

\* module.TLSLevel and module.MXLevel.
TLSNone == 0
TLSEncrypted == 1
TLSAuthenticated == 2
MXNone == 0
MX_MTASTS == 1
MX_DNSSEC == 2

ASSUME MxAuthAssumption ==
    /\ Configured \subseteq PolicyNames
    /\ MinTLS \in TLSNone .. TLSAuthenticated
    /\ MinMX \in MXNone .. MX_DNSSEC

\* The larger of two levels.
Higher(l, m) == IF l < m THEN m ELSE l

-----------------------------------------------------------------------------
(***************************************************************************)
(* connect: STARTTLS with verification, without, and plain text            *)
(***************************************************************************)

\* How a server may answer one attempt: no connection, no STARTTLS, a
\* handshake, a certificate that does not verify, a handshake that fails.
Answers == {"refuses", "noSTARTTLS", "handshake", "unverifiable", "broken"}

\* The TLS configuration of an attempt.
Modes == {"verify", "skipVerify", "plain"}

\* What the connection is in the end; "failed" when there is none.
Wires == {"failed", "plain", "unverified", "verified"}

\* The TLS configuration of the next attempt after an error in StartTLS.
NextMode(mode, answer) ==
    IF answer = "unverifiable" /\ mode = "verify" THEN "skipVerify" ELSE "plain"

\* STARTTLS fails in this mode.
StartTLSFails(mode, answer) ==
    mode # "plain" /\ answer \in {"unverifiable", "broken"}

\* The end of an attempt that is not repeated.
WireOf(mode, answer) ==
    IF answer = "refuses" THEN "failed"
    ELSE IF mode = "plain" \/ answer = "noSTARTTLS" THEN "plain"
    ELSE IF mode = "verify" THEN "verified" ELSE "unverified"

\* connect, when the server answers its attempts one after the other.
Connect(answers) ==
    LET mode[i \in 1 .. Len(answers)] ==
            IF i = 1 THEN "verify" ELSE NextMode(mode[i - 1], answers[i - 1])
        fails(i) == StartTLSFails(mode[i], answers[i])
        last == CHOOSE i \in DOMAIN answers :
                    ~fails(i) /\ \A j \in 1 .. i - 1 : fails(j)
    IN  WireOf(mode[last], answers[last])

\* The third attempt has no TLS and is the last.
Connections == {Connect(answers) : answers \in [1 .. 3 -> Answers]}

\* Mutant: the level is not lowered when verification is given up.
WireLevelKept(wire) ==
    IF wire \in {"verified", "unverified"} THEN TLSAuthenticated ELSE TLSNone

\* The level connect returns.
WireLevel(wire) ==
    IF wire = "verified" THEN TLSAuthenticated
    ELSE IF wire = "unverified" THEN TLSEncrypted ELSE TLSNone

-----------------------------------------------------------------------------
(***************************************************************************)
(* DANE                                                                    *)
(***************************************************************************)

\* Answers to a TLSA query: an error, no such name, records without an
\* authenticated signature, an authenticated empty answer, only records of
\* unknown types, records that match the certificate, records that do not.
TLSAAnswers == {"error", "notFound", "unsigned", "empty", "unusable", "match",
                "mismatch"}

\* The records that come with an authenticated answer.
Records == {"unusable", "match", "mismatch"}

\* discoverTLSA, with what CheckConn makes of its error.  host: CheckCNAMEAD
\* failed, found no name, no address, an unauthenticated or an authenticated
\* one; alias: the name is a CNAME, with this answer to the query for it;
\* canon, own: the TLSA answers for the canonical name and for the name
\* itself.
DiscoverTLSA(host, alias, canon, own) ==
    CASE host \in {"error", "noAddress"} -> "error"
      [] host = "notFound" -> "none"
      [] host = "unsigned" /\ alias \in {"none", "unsigned", "notFound"}
            -> "none"
      [] host = "unsigned" /\ alias = "error" -> "error"
      [] OTHER ->
            IF alias # "none" /\ canon = "error" THEN "error"
            ELSE IF alias # "none" /\ canon \in Records THEN canon
            ELSE IF own = "error" THEN "error"
            ELSE IF own \in Records THEN own
            ELSE "none"

\* All it may find.
TLSAs == {DiscoverTLSA(host, alias, canon, own) :
            host \in {"error", "notFound", "noAddress", "unsigned", "signed"},
            alias \in {"none", "error", "notFound", "unsigned", "signed"},
            canon \in TLSAAnswers, own \in TLSAAnswers}

\* Mutant: records that do not match are only logged.
VerifyDANELenient(tlsa, wire) ==
    [ok |-> wire # "plain" \/ tlsa = "none", overridePKIX |-> tlsa = "match"]

\* verifyDANE.
VerifyDANE(tlsa, wire) ==
    [ok           |-> \/ tlsa = "none"
                      \/ wire # "plain" /\ tlsa \in {"unusable", "match"},
     overridePKIX |-> wire # "plain" /\ tlsa = "match"]

-----------------------------------------------------------------------------
(***************************************************************************)
(* CheckMX and CheckConn of the policies                                   *)
(***************************************************************************)

\* What is known about the MX: sts is the mode of the domain's MTA-STS policy
\* ("none" when there is none or it cannot be fetched), match whether it
\* lists the MX, ad whether the MX records are signed.
Facts == [sts : {"none", "testing", "enforce"}, match : BOOLEAN, ad : BOOLEAN,
          tlsa : TLSAs, wire : Connections]

\* A policy that has no objection and sets no level.
NoObjection == [ok |-> TRUE, level |-> 0]

\* MTA-STS.
MtastsCheckMX(f) ==
    [ok    |-> ~(f.sts = "enforce" /\ ~f.match),
     level |-> IF f.sts # "none" /\ f.match THEN MX_MTASTS ELSE MXNone]
MtastsCheckConn(f) ==
    [ok |-> f.sts = "enforce" => f.wire = "verified", level |-> TLSNone]

\* DNSSEC.
DnssecCheckMX(f) == [ok |-> TRUE, level |-> IF f.ad THEN MX_DNSSEC ELSE MXNone]

\* DANE.
DaneCheckConn(f) ==
    LET dane == VerifyDANE(f.tlsa, f.wire)
    IN  [ok    |-> f.tlsa # "error" /\ dane.ok,
         level |-> IF dane.overridePKIX THEN TLSAuthenticated ELSE TLSNone]

\* local_policy, given the level reached before it.
LocalCheckMX(level) == [ok |-> level >= MinMX, level |-> MXNone]
LocalCheckConn(level) == [ok |-> level >= MinTLS, level |-> TLSNone]

\* CheckMX and CheckConn of a policy.
CheckMX(p, f, level) ==
    IF p = "mtasts" THEN MtastsCheckMX(f)
    ELSE IF p = "dnssec" THEN DnssecCheckMX(f)
    ELSE IF p = "local_policy" THEN LocalCheckMX(level) ELSE NoObjection
CheckConn(p, f, level) ==
    IF p = "mtasts" THEN MtastsCheckConn(f)
    ELSE IF p = "dane" THEN DaneCheckConn(f)
    ELSE IF p = "local_policy" THEN LocalCheckConn(level) ELSE NoObjection

\* PolicyGroup.Init: local_policy considers the levels the others set.
PolicyOrder == <<"mtasts", "dane", "dnssec", "local_policy">>

\* A policy adds its say to the verdict of those before it; one that is not
\* among policies has none.  check names the method that is called.
Consider(policies, check, f, v, p) ==
    IF p \notin policies \/ ~v.ok THEN v
    ELSE LET r == IF check = "CheckMX" THEN CheckMX(p, f, v.level)
                  ELSE CheckConn(p, f, v.level)
         IN  [ok |-> r.ok, level |-> Higher(v.level, r.level)]

\* The verdict of the policies in their order.
Verdict(policies, check, f, start) ==
    LET say(v, i) == Consider(policies, check, f, v, PolicyOrder[i])
    IN  say(say(say(say([ok |-> TRUE, level |-> start], 1), 2), 3), 4)

\* attemptMX: where it ends, and the levels of the connection.
Attempt(policies, f) ==
    LET onMX == Verdict(policies, "CheckMX", f, MXNone)
        onConn == Verdict(policies, "CheckConn", f, WireLevel(f.wire))
    IN  [end |-> IF ~onMX.ok THEN "mxRejected"
                 ELSE IF f.wire = "failed" THEN "connectFailed"
                 ELSE IF ~onConn.ok THEN "connRejected"
                 ELSE "connected",
         tlsLevel |-> onConn.level,
         mxLevel  |-> onMX.level]

-----------------------------------------------------------------------------
(***************************************************************************)
(* What the levels mean (docs/seclevels.md)                                *)
(***************************************************************************)

\* "the server certificate passes X.509 or DANE verification".
ServerAuthenticated(f) ==
    \/ f.wire = "verified"
    \/ f.wire = "unverified" /\ f.tlsa = "match"

\* "Used MX matches the MTA-STS policy ... (even one in testing mode)", or
\* "MX record is signed".
MXAuthenticated(f) == (f.sts # "none" /\ f.match) \/ f.ad

\* The connection is one that a message with REQUIRETLS may take.
Strong(f) == ServerAuthenticated(f) /\ MXAuthenticated(f)

\* The TLS and the MX level a connection deserves, by the configured
\* policies.
TrueTLS(f) ==
    IF f.wire \in {"plain", "failed"} THEN TLSNone
    ELSE IF f.wire = "verified" \/ ("dane" \in Configured /\ f.tlsa = "match")
    THEN TLSAuthenticated ELSE TLSEncrypted
TrueMX(f) ==
    IF "dnssec" \in Configured /\ f.ad THEN MX_DNSSEC
    ELSE IF "mtasts" \in Configured /\ f.sts # "none" /\ f.match
    THEN MX_MTASTS ELSE MXNone

\* The connection is one the configured policies ask for.
Meets(f) ==
    /\ "mtasts" \in Configured /\ f.sts = "enforce" =>
          f.match /\ f.wire = "verified"
    /\ "dane" \in Configured =>
          /\ f.tlsa \notin {"error", "mismatch"}
          /\ f.tlsa # "none" => f.wire # "plain"
    /\ "local_policy" \in Configured =>
          TrueTLS(f) >= MinTLS /\ TrueMX(f) >= MinMX

-----------------------------------------------------------------------------
\* The test of connectionForDomain for a message with REQUIRETLS.
SecureEnough(a) ==
    a.tlsLevel >= TLSAuthenticated /\ a.mxLevel >= MX_MTASTS

\* What an attempt under these policies may come to: where it ends, and for a
\* connection whether it passes SecureEnough, and what it really is.
Outcomes(policies) ==
    {LET a == Attempt(policies, f)
         open == a.end = "connected"
     IN  [end |-> a.end, secure |-> open /\ SecureEnough(a),
          meets |-> open /\ Meets(f), strong |-> open /\ Strong(f)] :
        f \in Facts}
=============================================================================
