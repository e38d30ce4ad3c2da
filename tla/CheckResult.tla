---------------------------- MODULE CheckResult -----------------------------
(***************************************************************************)
(* What checks return and how the fail action of the configuration turns a *)
(* finding into a verdict (framework/config/module/check_action.go,        *)
(* internal/check/stateless_check.go), and DMARC evaluation                *)
(* (internal/dmarc), which works on the results of SPF and DKIM.           *)
(*                                                                         *)
(* A reason is an SMTP error; only the class of its code is kept.          *)
(***************************************************************************)
EXTENDS Naturals, FiniteSets

CONSTANTS
    Domains,
    NoDomain,
    OrgDomain,      \* publicsuffix: organizational domain of each domain
    Published       \* the TXT records at _dmarc.<domain>

ASSUME CheckResultAssumption ==
    /\ NoDomain \notin Domains
    /\ OrgDomain \in [Domains -> Domains \union {NoDomain}]
    /\ DOMAIN Published = Domains
    /\ \A d \in Domains : \A t \in Published[d] :
        t.dmarc \in BOOLEAN /\ (t.dmarc => t.pct \in 0..100)

Reasons == {"none", "temp", "perm"}

\* module.CheckResult; auth holds the results for Authentication-Results.
Result(reason, reject, quarantine, auth) ==
    [reason |-> reason, reject |-> reject, quarantine |-> quarantine,
     auth |-> auth]

Pass == Result("none", FALSE, FALSE, {})
Finding(reason) == Result(reason, FALSE, FALSE, {})
Rejection(reason) == Result(reason, TRUE, FALSE, {})

(***************************************************************************)
(* Fail actions.  A directive is a word and the class of the code that may *)
(* follow it, "none" when no code does.                                    *)
(***************************************************************************)
FailAction == [quarantine : BOOLEAN, reject : BOOLEAN, override : Reasons]

ParseActionDirective(word, code) ==
    [quarantine |-> word = "quarantine", reject |-> word = "reject",
     override |-> IF word = "ignore" THEN "none" ELSE code]

Ignore == ParseActionDirective("ignore", "none")
Quarantine == ParseActionDirective("quarantine", "none")
Reject == ParseActionDirective("reject", "none")

Apply(action, res) ==
    IF res.reason = "none" THEN res
    ELSE Result(IF action.override = "none" THEN res.reason
                ELSE action.override,
                action.reject \/ res.reject,
                action.quarantine \/ res.quarantine, res.auth)

(***************************************************************************)
(* DMARC.  A TXT record is a record [dmarc, policy, sub, pct, dkim, spf]:  *)
(* whether it is a DMARC record, its policy ("malformed" when it does not  *)
(* parse), that for subdomains ("" when not given), the percentage (100    *)
(* when not given) and the alignment modes.                                *)
(***************************************************************************)
NoRecord == [dmarc |-> FALSE]

\* One lookup of TXT records: the published ones, or a failure.
LookupTXT(domain) ==
    {[err |-> "none", txts |-> Published[domain]],
     [err |-> "temp", txts |-> {}], [err |-> "perm", txts |-> {}]}

Fetched(err, policyDomain, record) ==
    [err |-> err, domain |-> policyDomain, record |-> record]

\* FetchRecord: the answer for the domain, and the one for its
\* organizational domain that is asked for when the first has no records.
FetchRecord(from, answer, orgAnswer) ==
    LET org == OrgDomain[from]
        useOrg == answer.txts = {}
        txts == IF useOrg THEN orgAnswer.txts ELSE answer.txts
        records == {t \in txts : t.dmarc}
        rec == CHOOSE t \in records : TRUE
    IN  IF answer.err # "none" THEN Fetched(answer.err, NoDomain, NoRecord)
        ELSE IF useOrg /\ org = NoDomain THEN Fetched("perm", NoDomain, NoRecord)
        ELSE IF useOrg /\ orgAnswer.err # "none"
             THEN Fetched(orgAnswer.err, NoDomain, NoRecord)
        ELSE IF Cardinality(records) # 1 THEN Fetched("none", NoDomain, NoRecord)
        ELSE IF rec.policy = "malformed" THEN Fetched("perm", NoDomain, NoRecord)
        ELSE Fetched("none", IF useOrg THEN org ELSE from, rec)

\* All that a run of FetchRecord can return.
Fetches(from) ==
    {FetchRecord(from, a, b) : a \in LookupTXT(from),
        b \in IF OrgDomain[from] = NoDomain
              THEN {[err |-> "none", txts |-> {}]}
              ELSE LookupTXT(OrgDomain[from])}

\* The policy that the record has for a sender in this domain.
PolicyFor(data, from) ==
    IF data.domain # from /\ data.record.sub # "" THEN data.record.sub
    ELSE data.record.policy

isAligned(from, domain, mode) ==
    IF mode = "strict" THEN from = domain
    ELSE /\ domain # NoDomain
         /\ OrgDomain[from] # NoDomain
         /\ OrgDomain[from] = OrgDomain[domain]

\* A mistake: any SPF pass counts, whatever its domain.
EvaluateAnySpf(from, record, results) ==
    LET dkim == {r \in results : r.method = "dkim"}
        spf == {r \in results : r.method = "spf"}
        dkimAligned == \E r \in dkim : /\ isAligned(from, r.domain, record.dkim)
                                      /\ r.value = "pass"
        spfPass == \E r \in spf : r.value = "pass"
    IN  IF dkim = {} \/ spf = {} THEN "none"
        ELSE IF dkimAligned \/ spfPass THEN "pass" ELSE "fail"

\* Results: [method, value, domain], the domain being the one of the
\* signature, of MAIL FROM, or of EHLO when MAIL FROM has none.
EvaluateAlignment(from, record, results) ==
    LET dkim == {r \in results : r.method = "dkim"}
        spf == {r \in results : r.method = "spf"}
        Aligned(r) ==
            isAligned(from, r.domain,
                      IF r.method = "dkim" THEN record.dkim ELSE record.spf)
        dkimAligned == \E r \in dkim : Aligned(r) /\ r.value = "pass"
        dkimTempFail == \E r \in dkim : Aligned(r) /\ r.value = "temperror"
        spfAligned == \E r \in spf : Aligned(r) /\ r.value = "pass"
    IN  IF dkim = {} \/ spf = {} THEN "none"
        ELSE IF dkimTempFail /\ ~dkimAligned /\ ~spfAligned THEN "temperror"
        ELSE IF ~dkimAligned /\ \E r \in spf : r.value = "temperror"
             THEN "temperror"
        ELSE IF dkimAligned \/ spfAligned THEN "pass" ELSE "fail"

\* Verifier.Apply: data is what the fetching goroutine sent, dice the random
\* number below 100.
ApplyDMARC(data, from, results, dice) ==
    LET value == EvaluateAlignment(from, data.record, results)
        Verdict(v, p) == [value |-> v, policy |-> p]
    IN  IF data.err = "temp" THEN Verdict("temperror", "reject")
        ELSE IF data.err # "none" THEN Verdict("permerror", "none")
        ELSE IF data.record = NoRecord THEN Verdict("none", "none")
        ELSE IF value \in {"pass", "none"} THEN Verdict(value, "none")
        ELSE IF dice > data.record.pct THEN Verdict(value, "none")
        ELSE Verdict(value, PolicyFor(data, from))

=============================================================================
