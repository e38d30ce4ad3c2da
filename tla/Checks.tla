------------------------------- MODULE Checks -------------------------------
(***************************************************************************)
(* The check modules (internal/check) on one message: DNS blocklists       *)
(* queried in parallel when the client connects, SPF evaluated in the      *)
(* background, the DMARC record fetched in the background, the session     *)
(* with a milter, and the other checks, run by internal/msgpipeline's      *)
(* checkRunner in two groups (the global checks, then those of the source  *)
(* block), all checks of a group at once.                                  *)
(*                                                                         *)
(* How the runner keeps states over recipients and replays calls is in     *)
(* MsgPipeline; here each group is run in the order the pipeline runs it.  *)
(***************************************************************************)
EXTENDS CheckResult, Integers, Sequences, FiniteSets, Functions

CONSTANTS
    Confs, Conf,            \* configurations: names and records
    Messages, Message,      \* messages with their connections
    Zones, ListedIn,        \* blocklists; the identities each one lists, with
                            \* whether the answer is in the default range
    DomainOf,               \* of an address; NoDomain for <postmaster>
    Malformed,              \* an address that does not parse
    Prepare,                \* table of prepare_email: addresses to sets
    UserEmails,             \* table of user_to_email: users to sets
    MaxRcpts                \* bound on recipients

ASSUME ChecksAssumption == MaxRcpts \in Nat \ {0}

VARIABLES
    conf, msg,      \* this instance
    stage, blk,     \* what is being checked, by which group
    pending,        \* checks of the group that have not returned
    rejectErr, quarantineErr,   \* of runAndMergeResults
    merged,         \* checkRunner.mergedRes: quarantine flag and auth results
    rcpts,          \* recipients seen and recipients accepted
    bl,             \* blocklist queries, and the result kept in ModData
    rdns,           \* the future of the connection's rDNS name
    spf,            \* the state of check.spf: its channel, its skip flag
    fetch,          \* the DMARC verifier's channel
    milter,         \* the milter session
    outcome, refusal,
    objections,     \* history: checks that found the message wanting
    authentic,      \* history: what SPF and DKIM really found
    panicked        \* history: where a panic was recovered

runVars == <<stage, blk, pending, rejectErr, quarantineErr, merged, rcpts>>
endVars == <<outcome, refusal>>
histVars == <<objections, authentic, panicked>>
vars == <<conf, msg, runVars, bl, rdns, spf, fetch, milter, endVars, histVars>>

C == Conf[conf]
M == Message[msg]
Null == ""
Local == M.conn = "local"       \* msgMeta.Conn = nil
Tcp == M.conn \in {"tcp4", "tcp6"}
SpfValues == {"none", "neutral", "pass", "fail", "softfail", "temperror",
              "permerror"}
NoFetch == [err |-> "nothing yet"]

TypeOK ==
    /\ conf \in Confs /\ msg \in Messages
    /\ stage \in {"early", "conn", "sender", "ready", "rcpt", "body", "apply",
                  "done"}
    /\ blk \in 1..2
    /\ pending \subseteq C.groups[1] \union C.groups[2]
    /\ rejectErr \in Reasons /\ quarantineErr \in BOOLEAN
    /\ merged.quarantine \in BOOLEAN
    /\ rcpts.seen \in 0..MaxRcpts /\ rcpts.accepted \in 0..rcpts.seen
    /\ bl.pending \subseteq Zones /\ bl.score \in Int /\ bl.err \in Reasons
    /\ rdns \in {"off", "pending", "match", "other", "none", "temp", "perm"}
    /\ spf.chan \in {"unused", "running", "closed", "drained", "sent"}
    /\ spf.res \in SpfValues /\ spf.skip \in BOOLEAN
    /\ milter.session \in {"none", "open", "closed"} /\ milter.skip \in BOOLEAN
    /\ outcome \in {"none", "accepted", "refused", "aborted"}
    /\ refusal \in Reasons

(***************************************************************************)
(* The actions that the modules take when the configuration names none.    *)
(***************************************************************************)
StatelessDefaults ==
    [require_tls |-> Reject, require_matching_rdns |-> Quarantine,
     require_mx_record |-> Quarantine]
SpfDefaults == [v \in SpfValues |-> IF v = "fail" THEN Quarantine ELSE Ignore]
DkimDefaults == [no_sig |-> Ignore, broken_sig |-> Ignore]
RspamdDefaults ==
    [io_error |-> Ignore, error_resp |-> Ignore, add_header |-> Quarantine,
     rewrite_subj |-> Quarantine]
CommandDefaults == <<Reject, Quarantine>>       \* by exit code
AuthzDefaults == [unauth |-> Reject, no_match |-> Reject, err |-> Reject]

\* What parsing the directives of the checks makes sure of, and that the
\* addresses of a message are the ones that DomainOf can split.
ASSUME ConfAssumption ==
    \A c \in Confs :
        LET k == Conf[c]
        IN  /\ IsFiniteSet(DOMAIN k.lists)
            /\ \A z \in DOMAIN k.lists : ~k.lists[z].inline =>
                    k.lists[z].score \in Int
            /\ k.rejectThres \in Int /\ k.quarantineThres \in Int
            /\ k.run_on \in {"conn", "sender", "rcpt", "body"}
            /\ k.act \in [DOMAIN StatelessDefaults \union DOMAIN DkimDefaults
                            \union DOMAIN RspamdDefaults
                            \union DOMAIN AuthzDefaults -> FailAction]
            /\ k.spf \in [SpfValues -> FailAction]
            /\ k.spfResults \subseteq SpfValues
            /\ \A n \in DOMAIN k.codes : k.codes[n] \in FailAction

ASSUME MessageAssumption ==
    /\ DomainOf \in [DOMAIN DomainOf -> Domains \union {NoDomain}]
    /\ \A m \in Messages :
        /\ Message[m].from \in Seq(Seq(DOMAIN DomainOf \union {Malformed}))
        /\ Message[m].sigs \in Seq([domain : Domains, complete : BOOLEAN])

(***************************************************************************)
(* DNS blocklists.  A zone given inline has the fields of defaultBL only.  *)
(***************************************************************************)
List(z) ==
    LET given == C.lists[z]
    IN  IF given.inline
        THEN [v4 |-> TRUE, v6 |-> FALSE, ehlo |-> FALSE, mailfrom |-> FALSE,
              score |-> 0, filter |-> FALSE]
        ELSE [v4 |-> TRUE, v6 |-> TRUE, ehlo |-> given.ehlo,
              mailfrom |-> given.mailfrom, score |-> given.score,
              filter |-> TRUE]

checkIP(z) ==
    LET l == List(z)
    IN  /\ (M.conn = "tcp4" /\ l.v4) \/ (M.conn = "tcp6" /\ l.v6)
        /\ M.conn \in DOMAIN ListedIn[z]
        /\ l.filter => ListedIn[z][M.conn] = "in"

checkDomain(z, domain) == domain \in DOMAIN ListedIn[z]

\* checkList without lookup errors.  An address literal in EHLO ends it.
checkList(z, mailFrom) ==
    LET l == List(z)
        literal == M.ehlo = NoDomain
        domain == IF mailFrom = Null THEN NoDomain ELSE DomainOf[mailFrom]
    IN  \/ checkIP(z)
        \/ l.ehlo /\ ~literal /\ checkDomain(z, M.ehlo)
        \/ /\ l.mailfrom /\ ~(l.ehlo /\ literal) /\ domain # NoDomain
           /\ ~(l.ehlo /\ domain = M.ehlo)
           /\ checkDomain(z, domain)

ScoreVerdict(score, err) ==
    IF err # "none" THEN Rejection(err)
    ELSE IF score >= C.rejectThres THEN Rejection("perm")
    ELSE IF score >= C.quarantineThres THEN Result("perm", FALSE, TRUE, {})
    ELSE Pass

(***************************************************************************)
(* The runner.  Which checks have something to do at a stage, and the      *)
(* calls that checkStates leaves out because an earlier group made them.   *)
(***************************************************************************)
Methods ==
    [conn |-> {"require_matching_rdns", "require_tls", "dnsbl", "spf",
               "milter"},
     sender |-> {"require_mx_record", "milter", "authorize_sender"},
     rcpt |-> {"milter"},
     body |-> {"spf", "dkim", "milter", "rspamd", "authorize_sender"}]

Due(s, b) ==
    LET earlier == IF b = 2 /\ s # "body" THEN C.groups[1] ELSE {}
        active == Methods[s] \union (IF C.run_on = s THEN {"command"} ELSE {})
    IN  (C.groups[b] \ earlier) \intersect active

Begin(s, b) ==
    /\ stage' = s /\ blk' = b /\ pending' = Due(s, b)
    /\ rejectErr' = "none" /\ quarantineErr' = FALSE

\* A mistake: the last check to return decides on quarantine.
MergeLast(c, res) ==
    /\ pending' = pending \ {c}
    /\ merged' = [merged EXCEPT !.auth = @ \union res.auth]
    /\ quarantineErr' = res.quarantine
    /\ rejectErr' = IF ~res.quarantine /\ res.reject /\ rejectErr = "none"
                    THEN res.reason ELSE rejectErr
    /\ objections' = IF (res.reject \/ res.quarantine) /\ stage # "rcpt"
                     THEN objections \union {c} ELSE objections
    /\ UNCHANGED <<conf, msg, stage, blk, rcpts, bl, rdns, fetch, endVars,
                   panicked>>

\* What runAndMergeResults does with the result of a check.
Merge(c, res) ==
    /\ pending' = pending \ {c}
    /\ merged' = [merged EXCEPT !.auth = @ \union res.auth]
    /\ quarantineErr' = (quarantineErr \/ res.quarantine)
    /\ rejectErr' = IF ~res.quarantine /\ res.reject /\ rejectErr = "none"
                    THEN res.reason ELSE rejectErr
    /\ objections' = IF (res.reject \/ res.quarantine) /\ stage # "rcpt"
                     THEN objections \union {c} ELSE objections
    /\ UNCHANGED <<conf, msg, stage, blk, rcpts, bl, rdns, fetch, endVars,
                   panicked>>

\* A check that panics is recovered and counts as finished.
Recover(c) ==
    /\ pending' = pending \ {c}
    /\ panicked' = panicked \union {c}
    /\ UNCHANGED <<conf, msg, stage, blk, rejectErr, quarantineErr, merged,
                   rcpts, bl, rdns, spf, fetch, milter, endVars, objections,
                   authentic>>

Calls(c, s) == stage = s /\ c \in pending
Returned(s) == stage = s /\ pending = {} /\ outcome = "none"

Init ==
    /\ conf \in Confs /\ msg \in Messages
    /\ stage = "early" /\ blk = 1 /\ pending = {}
    /\ rejectErr = "none" /\ quarantineErr = FALSE
    /\ merged = [quarantine |-> FALSE, auth |-> {}]
    /\ rcpts = [seen |-> 0, accepted |-> 0]
    /\ bl = [pending |-> IF "dnsbl" \in C.groups[1] /\ Tcp
                         THEN DOMAIN C.lists ELSE {},
             score |-> 0, err |-> "none", result |-> Pass]
    /\ rdns = IF C.rdns /\ ~Local THEN "pending" ELSE "off"
    /\ spf = [chan |-> "unused", res |-> "none", skip |-> FALSE]
    /\ fetch = NoFetch
    /\ milter = [session |-> "none", skip |-> FALSE]
    /\ outcome = "none" /\ refusal = "none"
    /\ objections = {} /\ authentic = {} /\ panicked = {}

Refuse(reason) ==
    /\ outcome' = "refused" /\ refusal' = reason

\* One of the goroutines of checkLists; MAIL FROM is not known yet.
QueryList(z) ==
    /\ z \in bl.pending
    /\ \/ bl' = [bl EXCEPT !.pending = @ \ {z},
                           !.score = IF checkList(z, Null)
                                     THEN @ + List(z).score ELSE @]
       \/ \E e \in {"temp", "perm"} :
            bl' = [bl EXCEPT !.pending = @ \ {z},
                             !.err = IF @ = "none" THEN e ELSE @]
    /\ UNCHANGED <<conf, msg, runVars, rdns, spf, fetch, milter, endVars,
                   histVars>>

\* CheckStateForMsg of the states that are new at this group: only the
\* milter's can fail, when there is no session to be had.
OpenStates(b, ok) ==
    /\ IF "milter" \in C.groups[b] /\ milter.session = "none" /\ ok
       THEN milter' = [milter EXCEPT !.session = "open"]
       ELSE UNCHANGED milter
    /\ ok \/ ("milter" \in C.groups[b] /\ milter.session = "none")

StartGroup(b) ==
    \E ok \in BOOLEAN :
        /\ OpenStates(b, ok)
        /\ IF ok
           THEN Begin("conn", b) /\ UNCHANGED endVars
           ELSE /\ Refuse("perm")
                /\ UNCHANGED <<stage, blk, pending, rejectErr, quarantineErr>>

\* The end of RunEarlyChecks, and MAIL.
CheckEarly ==
    /\ stage = "early" /\ outcome = "none" /\ bl.pending = {}
    /\ LET res == ScoreVerdict(bl.score, bl.err)
       IN  IF res.reject /\ C.check_early
           THEN /\ Refuse(res.reason)
                /\ UNCHANGED <<bl, milter, stage, blk, pending, rejectErr,
                               quarantineErr>>
           ELSE bl' = [bl EXCEPT !.result = res] /\ StartGroup(1)
    /\ UNCHANGED <<conf, msg, merged, rcpts, rdns, spf, fetch, histVars>>

(***************************************************************************)
(* The ends of runAndMergeResults, and what comes next.                    *)
(***************************************************************************)
MergeQuarantine ==
    merged' = [merged EXCEPT !.quarantine = @ \/ quarantineErr]

FailGroup ==
    /\ \E s \in {"conn", "sender", "body"} : Returned(s)
    /\ rejectErr # "none"
    /\ Refuse(rejectErr)
    /\ UNCHANGED <<conf, msg, runVars, bl, rdns, spf, fetch, milter, histVars>>

EndConn ==
    /\ Returned("conn") /\ rejectErr = "none"
    /\ MergeQuarantine /\ Begin("sender", blk)
    /\ UNCHANGED <<conf, msg, rcpts, bl, rdns, spf, fetch, milter, endVars,
                   histVars>>

EndSender ==
    /\ Returned("sender") /\ rejectErr = "none"
    /\ MergeQuarantine
    /\ IF blk = 1 THEN StartGroup(2)
       ELSE /\ stage' = "ready"
            /\ UNCHANGED <<blk, pending, rejectErr, quarantineErr, milter,
                           endVars>>
    /\ UNCHANGED <<conf, msg, rcpts, bl, rdns, spf, fetch, histVars>>

Rcpt ==
    /\ Returned("ready") /\ rcpts.seen < MaxRcpts
    /\ rcpts' = [rcpts EXCEPT !.seen = @ + 1]
    /\ Begin("rcpt", 1)
    /\ UNCHANGED <<conf, msg, merged, bl, rdns, spf, fetch, milter, endVars,
                   histVars>>

EndRcpt ==
    /\ Returned("rcpt")
    /\ IF rejectErr # "none"
       THEN stage' = "ready" /\ UNCHANGED <<blk, pending, rejectErr,
                                            quarantineErr, merged, rcpts>>
       ELSE /\ MergeQuarantine
            /\ IF blk = 1 THEN Begin("rcpt", 2) /\ UNCHANGED rcpts
               ELSE /\ stage' = "ready"
                    /\ rcpts' = [rcpts EXCEPT !.accepted = @ + 1]
                    /\ UNCHANGED <<blk, pending, rejectErr, quarantineErr>>
    /\ UNCHANGED <<conf, msg, bl, rdns, spf, fetch, milter, endVars, histVars>>

\* The From domain, NoDomain when the header has no single From address.
ExtractFromDomain ==
    IF Len(M.from) # 1 \/ Len(M.from[1]) # 1 \/ M.from[1][1] = Malformed
    THEN NoDomain ELSE DomainOf[M.from[1][1]]

\* DATA: checkBody begins by starting the DMARC lookup.
Body ==
    /\ Returned("ready") /\ rcpts.accepted > 0
    /\ Begin("body", 1)
    /\ fetch' = IF ~C.dmarc THEN fetch
                ELSE IF ExtractFromDomain = NoDomain
                THEN Fetched("perm", NoDomain, NoRecord)
                ELSE [err |-> "running"]
    /\ UNCHANGED <<conf, msg, merged, rcpts, bl, rdns, spf, milter, endVars,
                   histVars>>

EndBody ==
    /\ Returned("body") /\ rejectErr = "none"
    /\ MergeQuarantine
    /\ IF blk = 1 THEN Begin("body", 2)
       ELSE /\ stage' = "apply"
            /\ UNCHANGED <<blk, pending, rejectErr, quarantineErr>>
    /\ UNCHANGED <<conf, msg, rcpts, bl, rdns, spf, fetch, milter, endVars,
                   histVars>>

\* applyResults; the message is then passed on.
ApplyResults ==
    /\ Returned("apply")
    /\ ~C.dmarc \/ fetch.err \notin {"nothing yet", "running"}
    /\ \E dice \in {0, 50, 99} :
        LET verdict == IF C.dmarc
                       THEN ApplyDMARC(fetch, ExtractFromDomain, merged.auth,
                                       dice)
                       ELSE [value |-> "none", policy |-> "none"]
        IN  /\ merged' = [merged EXCEPT !.quarantine =
                            @ \/ verdict.policy = "quarantine"]
            /\ IF verdict.policy = "reject"
               THEN Refuse(IF verdict.value = "temperror" THEN "temp" ELSE "perm")
               ELSE outcome' = "accepted" /\ UNCHANGED refusal
    /\ UNCHANGED <<conf, msg, stage, blk, pending, rejectErr, quarantineErr,
                   rcpts, bl, rdns, spf, fetch, milter, histVars>>

\* The client quits, or is timed out, between commands.
GiveUp ==
    /\ Returned("ready")
    /\ outcome' = "aborted"
    /\ UNCHANGED <<conf, msg, runVars, bl, rdns, spf, fetch, milter, refusal,
                   histVars>>

\* checkRunner.close.
Close ==
    /\ outcome # "none" /\ stage # "done"
    /\ stage' = "done"
    /\ milter' = IF milter.session = "open"
                 THEN [milter EXCEPT !.session = "closed"] ELSE milter
    /\ UNCHANGED <<conf, msg, blk, pending, rejectErr, quarantineErr, merged,
                   rcpts, bl, rdns, spf, fetch, endVars, histVars>>

(***************************************************************************)
(* Background goroutines.                                                  *)
(***************************************************************************)
FetchRDNSName ==
    /\ rdns = "pending"
    /\ rdns' \in IF Tcp THEN {"match", "other", "none", "temp", "perm"}
                 ELSE {"none"}
    /\ UNCHANGED <<conf, msg, runVars, bl, spf, fetch, milter, endVars,
                   histVars>>

\* The domain that an SPF result is about: that of MAIL FROM, if it has one.
SpfDomain ==
    IF M.mail = Null \/ DomainOf[M.mail] = NoDomain THEN M.ehlo
    ELSE DomainOf[M.mail]
SpfAuth(res) == {[method |-> "spf", value |-> res, domain |-> SpfDomain]}

\* A mistake: the recovered goroutine does not close the channel.
EvaluateSpfOpen ==
    /\ spf.chan = "running"
    /\ \/ \E res \in C.spfResults :
            /\ spf' = [spf EXCEPT !.chan = "sent", !.res = res]
            /\ authentic' = authentic \union SpfAuth(res)
            /\ UNCHANGED panicked
       \/ /\ spf' = [spf EXCEPT !.chan = "drained"]
          /\ panicked' = panicked \union {"spf"}
          /\ UNCHANGED authentic
    /\ UNCHANGED <<conf, msg, runVars, bl, rdns, fetch, milter, endVars,
                   objections>>

\* A panic in the SPF library closes the channel.
EvaluateSpf ==
    /\ spf.chan = "running"
    /\ \/ \E res \in C.spfResults :
            /\ spf' = [spf EXCEPT !.chan = "sent", !.res = res]
            /\ authentic' = authentic \union SpfAuth(res)
            /\ UNCHANGED panicked
       \/ /\ spf' = [spf EXCEPT !.chan = "closed"]
          /\ panicked' = panicked \union {"spf"}
          /\ UNCHANGED authentic
    /\ UNCHANGED <<conf, msg, runVars, bl, rdns, fetch, milter, endVars,
                   objections>>

FetchDmarc ==
    /\ fetch.err = "running"
    /\ \/ fetch' \in Fetches(ExtractFromDomain) /\ UNCHANGED panicked
       \/ /\ fetch' = Fetched("panic", NoDomain, NoRecord)
          /\ panicked' = panicked \union {"dmarc"}
    /\ UNCHANGED <<conf, msg, runVars, bl, rdns, spf, milter, endVars,
                   objections, authentic>>

(***************************************************************************)
(* Stateless checks.                                                       *)
(***************************************************************************)
requireTLS ==
    /\ Calls("require_tls", "conn")
    /\ Merge("require_tls",
             Apply(C.act["require_tls"],
                   IF ~Local /\ M.tls THEN Pass ELSE Finding("perm")))
    /\ UNCHANGED <<spf, milter, authentic>>

requireMatchingRDNS ==
    /\ Calls("require_matching_rdns", "conn")
    /\ rdns # "pending"
    /\ Merge("require_matching_rdns",
             Apply(C.act["require_matching_rdns"],
                   CASE rdns \in {"off", "match"} -> Pass
                     [] rdns \in {"none", "other"} -> Finding("perm")
                     [] OTHER -> Finding(rdns)))
    /\ UNCHANGED <<spf, milter, authentic>>

requireMXRecord ==
    /\ Calls("require_mx_record", "sender")
    /\ \E mx \in {"mx", "null mx", "none", "temp", "perm"} :
        Merge("require_mx_record",
              Apply(C.act["require_mx_record"],
                    IF M.mail = Null THEN Pass
                    ELSE IF M.mail = Malformed \/ DomainOf[M.mail] = NoDomain
                    THEN Finding("perm")
                    ELSE CASE mx = "mx" -> Pass
                           [] mx \in {"none", "null mx"} -> Finding("perm")
                           [] OTHER -> Finding(mx)))
    /\ UNCHANGED <<spf, milter, authentic>>

\* The result that the early check left, if any.
dnsblConnection ==
    /\ Calls("dnsbl", "conn")
    /\ Merge("dnsbl", IF Local THEN Pass ELSE bl.result)
    /\ UNCHANGED <<spf, milter, authentic>>

(***************************************************************************)
(* check.spf and check.dkim.                                               *)
(***************************************************************************)
spfResult(res) ==
    LET reason == IF res = "pass" THEN "none"
                  ELSE IF res = "temperror" THEN "temp" ELSE "perm"
    IN  Apply(C.spf[res], Result(reason, FALSE, FALSE, SpfAuth(res)))

SpfConnection ==
    /\ Calls("spf", "conn")
    /\ \/ /\ ~Tcp
          /\ spf' = [spf EXCEPT !.skip = TRUE]
          /\ Merge("spf", Pass) /\ UNCHANGED authentic
       \/ /\ Tcp /\ M.mail = Malformed
          /\ spf' = [spf EXCEPT !.skip = TRUE]
          /\ Merge("spf", Rejection("perm")) /\ UNCHANGED authentic
       \/ /\ Tcp /\ M.mail # Malformed /\ C.enforce_early
          /\ \E res \in C.spfResults :
                /\ Merge("spf", spfResult(res))
                /\ authentic' = authentic \union SpfAuth(res)
          /\ UNCHANGED spf
       \/ /\ Tcp /\ M.mail # Malformed /\ ~C.enforce_early
          /\ spf' = [spf EXCEPT !.chan = "running"]
          /\ Merge("spf", Pass) /\ UNCHANGED authentic
    /\ UNCHANGED milter

\* The policy that relyOnDMARC looks up for itself.
RelyOnDMARC(data) ==
    /\ data.err = "none" /\ data.record # NoRecord
    /\ PolicyFor(data, ExtractFromDomain) # "none"

Deferred(res) == [res EXCEPT !.quarantine = FALSE, !.reject = FALSE]

SpfBody ==
    /\ Calls("spf", "body")
    /\ \/ /\ C.enforce_early \/ spf.skip
          /\ Merge("spf", Pass) /\ UNCHANGED spf
       \/ /\ ~C.enforce_early /\ ~spf.skip /\ spf.chan = "closed"
          /\ Merge("spf", Rejection("temp")) /\ UNCHANGED spf
       \/ /\ ~C.enforce_early /\ ~spf.skip /\ spf.chan = "sent"
          /\ spf' = [spf EXCEPT !.chan = "drained"]
          /\ \E data \in IF ExtractFromDomain = NoDomain
                         THEN {Fetched("perm", NoDomain, NoRecord)}
                         ELSE Fetches(ExtractFromDomain) :
                Merge("spf", IF RelyOnDMARC(data)
                             THEN Deferred(spfResult(spf.res))
                             ELSE spfResult(spf.res))
    /\ UNCHANGED <<milter, authentic>>

\* Verification of the signatures: ok, fail, perm or temp for each.
DkimValue(sig, out) ==
    CASE out = "ok" -> IF sig.complete THEN "pass" ELSE "permerror"
      [] out = "fail" -> "fail"
      [] out = "perm" -> "permerror"
      [] out = "temp" -> "temperror"

DkimAuth(outs) ==
    {[method |-> "dkim", value |-> DkimValue(M.sigs[i], outs[i]),
      domain |-> M.sigs[i].domain] : i \in DOMAIN M.sigs}

DkimVerdict(outs) ==
    LET auth == DkimAuth(outs)
    IN  IF ~C.fail_open /\ \E i \in DOMAIN outs : outs[i] = "temp"
        THEN Rejection("temp")
        ELSE IF \E r \in auth : r.value = "pass"
        THEN Result("none", FALSE, FALSE, auth)
        ELSE Apply(C.act["broken_sig"], Result("perm", FALSE, FALSE, auth))

DkimBody ==
    /\ Calls("dkim", "body")
    /\ \/ /\ M.sigs = <<>>
          /\ Merge("dkim",
                   Apply(C.act["no_sig"],
                         Result("perm", FALSE, FALSE,
                                {[method |-> "dkim", value |-> "none",
                                  domain |-> NoDomain]})))
          /\ UNCHANGED authentic
       \/ /\ M.sigs # <<>>       \* the body cannot be read
          /\ Merge("dkim", Rejection("temp")) /\ UNCHANGED authentic
       \/ /\ M.sigs # <<>>
          /\ \E outs \in [DOMAIN M.sigs -> {"ok", "fail", "perm", "temp"}] :
                /\ Merge("dkim", DkimVerdict(outs))
                /\ authentic' = authentic \union DkimAuth(outs)
    /\ UNCHANGED <<spf, milter>>

(***************************************************************************)
(* check.milter.  An answer is an action code, or io when there is none.   *)
(***************************************************************************)
ioError ==
    IF C.fail_open THEN [skip |-> TRUE, res |-> Pass]
    ELSE [skip |-> FALSE, res |-> Rejection("temp")]

handleAction(answer) ==
    CASE answer = "io" -> ioError
      [] answer = "accept" -> [skip |-> TRUE, res |-> Pass]
      [] answer \in {"discard", "tempfail"} ->
            [skip |-> FALSE, res |-> Rejection("temp")]
      [] answer \in {"reply code", "reject"} ->
            [skip |-> FALSE, res |-> Rejection("perm")]
      [] OTHER -> [skip |-> FALSE, res |-> Pass]

Ask(c, s, h, mods) ==
    /\ Calls(c, s)
    /\ milter' = [milter EXCEPT !.skip = @ \/ h.skip]
    /\ Merge(c, [h.res EXCEPT !.quarantine = @ \/ mods,
                              !.reason = IF mods THEN "perm" ELSE @])
    /\ UNCHANGED <<spf, authentic>>

NotAsked(s) ==
    /\ Calls("milter", s)
    /\ Merge("milter", Pass)
    /\ UNCHANGED <<spf, milter, authentic>>

\* Conn and Helo, but those that the milter does not want.
MilterConnection ==
    \E a, b \in C.answers :
        LET first == Local \/ "conn" \notin C.unwanted
            second == Local \/ "helo" \notin C.unwanted
        IN  Ask("milter", "conn",
                IF first /\ a # "continue" THEN handleAction(a)
                ELSE IF second THEN handleAction(b)
                ELSE handleAction("continue"), FALSE)

MilterSender ==
    \/ (milter.skip \/ "mail" \in C.unwanted) /\ NotAsked("sender")
    \/ /\ ~milter.skip /\ "mail" \notin C.unwanted /\ ~Local
       /\ \E a \in C.answers : Ask("milter", "sender", handleAction(a), FALSE)
    \/ /\ ~milter.skip /\ "mail" \notin C.unwanted /\ Local
       /\ Calls("milter", "sender")     \* msgMeta.Conn is dereferenced
       /\ Recover("milter")

MilterRcpt ==
    \/ milter.skip /\ NotAsked("rcpt")
    \/ /\ ~milter.skip
       /\ \E a \in C.answers : Ask("milter", "rcpt", handleAction(a), FALSE)

\* Header, then body; with the last answer come modifications, of which a
\* quarantine counts.
MilterBody ==
    \/ milter.skip /\ NotAsked("body")
    \/ /\ ~milter.skip
       /\ \E a \in C.answers \ {"continue"} :
            Ask("milter", "body", handleAction(a), FALSE)
    \/ /\ ~milter.skip /\ "body" \notin C.unwanted      \* body.Open fails
       /\ Calls("milter", "body")
       /\ Merge("milter", Rejection("temp"))
       /\ UNCHANGED <<spf, milter, authentic>>
    \/ /\ ~milter.skip
       /\ \E a \in C.answers, mods \in BOOLEAN :
            Ask("milter", "body", handleAction(a), mods /\ a # "io")

(***************************************************************************)
(* check.rspamd and check.command.                                         *)
(***************************************************************************)
RspamdVerdict(answer) ==
    CASE answer \in {"no response", "not json"} ->
            Apply(C.act["io_error"], Finding("temp"))
      [] answer = "http error" -> Apply(C.act["error_resp"], Finding("temp"))
      [] answer = "add header" -> Apply(C.act["add_header"], Finding("temp"))
      [] answer = "rewrite subject" ->
            Apply(C.act["rewrite_subj"], Finding("temp"))
      [] answer \in {"body error", "reject"} -> Rejection("perm")
      [] answer = "soft reject" -> Rejection("temp")
      [] answer \in {"no action", "greylist", "other"} -> Pass

RspamdAnswers ==
    {"no response", "not json", "http error", "add header", "rewrite subject",
     "body error", "reject", "soft reject", "no action", "greylist", "other"}

\* The request carries the rDNS name, if there is a connection.
RspamdBody ==
    /\ Calls("rspamd", "body")
    /\ \/ /\ Local \/ rdns \notin {"off", "pending"}
          /\ \E a \in RspamdAnswers : Merge("rspamd", RspamdVerdict(a))
          /\ UNCHANGED <<spf, milter, authentic>>
       \/ ~Local /\ rdns = "off" /\ Recover("rspamd")

\* The program's exit code, or that it could not be run to the end.
NotRun == -1

CommandVerdict(code) ==
    IF code = NotRun THEN Rejection("temp")
    ELSE IF code = 0 THEN Pass
    ELSE IF code \in DOMAIN C.codes THEN Apply(C.codes[code], Finding("perm"))
    ELSE Rejection("temp")

\* {source_rdns} among the arguments makes expandCommand wait for the name.
CommandWaits == C.wants_rdns /\ ~Local

RunCommand ==
    /\ Calls("command", C.run_on)
    /\ \/ /\ CommandWaits => rdns \notin {"off", "pending"}
          /\ \E code \in NotRun..3 : Merge("command", CommandVerdict(code))
          /\ UNCHANGED <<spf, milter, authentic>>
       \/ CommandWaits /\ rdns = "off" /\ Recover("command")

(***************************************************************************)
(* check.authorize_sender.  A fault is a name that cannot be normalized    *)
(* or a table that cannot be asked.                                        *)
(***************************************************************************)
AuthorizeEmailUse(user, addrs) ==
    \E a \in addrs : UserEmails[user] \intersect {DomainOf[a], "*", a} # {}

authzSender(email, fault) ==
    IF M.user = Null THEN Apply(C.act["unauth"], Finding("perm"))
    ELSE IF fault # "none"
    THEN Apply(C.act["err"], Finding(IF fault = "norm" THEN "perm" ELSE "temp"))
    ELSE LET prepared == IF email \in DOMAIN Prepare THEN Prepare[email]
                         ELSE {email}
         IN  IF AuthorizeEmailUse(M.user, prepared) THEN Pass
             ELSE Apply(C.act["no_match"], Finding("perm"))

AuthzFaults == {"none", "norm", "table"}

AuthzSender ==
    /\ Calls("authorize_sender", "sender")
    /\ \E fault \in AuthzFaults :
        Merge("authorize_sender",
              IF Local THEN Pass
              ELSE IF M.mail \in {Null, Malformed} THEN authzSender(Null, "norm")
              ELSE authzSender(M.mail, fault))
    /\ UNCHANGED <<spf, milter, authentic>>

\* From, or else Sender, has to be the user's.
AuthzHeader(fault, fault2) ==
    LET bad == \/ M.from = <<>> \/ M.from[1] = <<>> \/ Len(M.from[1]) > 1
               \/ M.from[1][1] = Malformed \/ M.sender = Malformed
        from == M.from[1][1]
    IN  IF bad THEN Apply(C.act["err"], Finding("perm"))
        ELSE IF authzSender(from, fault).reason = "none" THEN Pass
        ELSE IF /\ M.sender \notin {Null, from}
                /\ authzSender(M.sender, fault2).reason = "none" THEN Pass
        ELSE Apply(C.act["no_match"], Finding("perm"))

AuthzBody ==
    /\ Calls("authorize_sender", "body")
    /\ \E f, g \in AuthzFaults :
        Merge("authorize_sender",
              IF ~C.check_header \/ Local THEN Pass ELSE AuthzHeader(f, g))
    /\ UNCHANGED <<spf, milter, authentic>>

-----------------------------------------------------------------------------
CheckCall ==
    \/ requireTLS \/ requireMatchingRDNS \/ requireMXRecord \/ dnsblConnection
    \/ SpfConnection \/ SpfBody \/ DkimBody
    \/ MilterConnection \/ MilterSender \/ MilterRcpt \/ MilterBody
    \/ RspamdBody \/ RunCommand \/ AuthzSender \/ AuthzBody

Runner ==
    \/ CheckEarly \/ FailGroup \/ EndConn \/ EndSender \/ EndRcpt \/ EndBody
    \/ ApplyResults \/ Close

Background ==
    \/ \E z \in Zones : QueryList(z)
    \/ FetchRDNSName \/ EvaluateSpf \/ FetchDmarc

Server == CheckCall \/ Runner \/ Background

Client == Rcpt \/ Body \/ GiveUp

Next == Server \/ Client

\* Lookups and the peers of the checks answer or time out, so what the server
\* has begun goes on; the client owes nothing.
Spec == Init /\ [][Next]_vars /\ WF_vars(Server)

\* The record that speaks for the senders of a domain.
Governing(from) ==
    LET site == IF Published[from] = {} THEN OrgDomain[from] ELSE from
        records == IF site = NoDomain THEN {}
                   ELSE {t \in Published[site] : t.dmarc}
        rec == CHOOSE t \in records : TRUE
    IN  IF Cardinality(records) # 1 THEN "none"
        ELSE IF rec.pct < 100 \/ rec.policy = "malformed" THEN "none"
        ELSE IF site # from /\ rec.sub # "" THEN rec.sub
        ELSE rec.policy

(***************************************************************************)
(* A message that some check asked to refuse or to quarantine, at the      *)
(* connection, the sender or the body, is not passed on as a clean one,    *)
(* however the results of the parallel checks come in; and when the lists  *)
(* that name the client weigh enough, that counts although they were asked *)
(* long before (runAndMergeResults, checkLists and ModData).               *)
(***************************************************************************)
ObjectionsHeeded ==
    outcome = "accepted" /\ ~merged.quarantine =>
        /\ objections = {}
        /\ "dnsbl" \in C.groups[1] /\ Tcp =>
            C.quarantineThres >
                SumFunctionOnSet([z \in DOMAIN C.lists |-> List(z).score],
                                 {z \in DOMAIN C.lists : checkList(z, Null)})

(***************************************************************************)
(* With DMARC on and both SPF and DKIM checked, a message of a domain that *)
(* publishes a policy for all its mail is held to it unless SPF or DKIM    *)
(* authenticated an aligned domain: SPF's own action, which steps back in  *)
(* favour of DMARC, and DMARC's, which looks the policy up again, never    *)
(* both let it through.  A lookup that fails for good, or panics, is       *)
(* excepted, as the code lets such mail pass.                              *)
(***************************************************************************)
UnalignedHeld ==
    LET from == ExtractFromDomain
        policy == Governing(from)
        aligned == \E r \in authentic :
                        /\ r.value = "pass" /\ r.domain # NoDomain
                        /\ \/ r.domain = from
                           \/ OrgDomain[r.domain] = OrgDomain[from]
    IN  /\ outcome = "accepted" /\ C.dmarc /\ Tcp /\ M.mail # Malformed
        /\ {"spf", "dkim"} \subseteq C.groups[1] \union C.groups[2]
        /\ from # NoDomain /\ fetch.err = "none" /\ ~aligned
        => /\ policy # "reject"
           /\ policy = "quarantine" => merged.quarantine

(***************************************************************************)
(* No stage waits for ever for one of its checks: not for an SPF result,   *)
(* though its goroutine may die, nor for the rDNS name, a milter or a list *)
(* (the channels of check.spf and of the Verifier, the Future).            *)
(***************************************************************************)
StagesEnd ==
    stage \in {"conn", "sender", "rcpt", "body"}
        ~> stage \in {"ready", "apply", "done"}

=============================================================================
