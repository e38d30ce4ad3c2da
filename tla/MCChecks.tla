------------------------------ MODULE MCChecks ------------------------------
(***************************************************************************)
(* Instances of Checks: configurations that between them use every         *)
(* check, and messages that meet their branches.                           *)
(***************************************************************************)
EXTENDS Checks, TLC

MCDomains == {"d.com", "a.d.com", "e.com", "f.com", "com"}
MCOrgDomain ==
    [d \in MCDomains |-> IF d = "com" THEN "none"
                         ELSE IF d = "a.d.com" THEN "d.com" ELSE d]

Policy(p, sub, pct, mode) ==
    [dmarc |-> TRUE, policy |-> p, sub |-> sub, pct |-> pct, dkim |-> mode,
     spf |-> mode]

MCPublished ==
    ("d.com" :> {Policy("reject", "quarantine", 100, "relaxed")} @@
     "a.d.com" :> {} @@
     "e.com" :> {Policy("quarantine", "", 50, "strict"), [dmarc |-> FALSE]} @@
     "f.com" :> {Policy("reject", "", 100, "strict"),
                 Policy("none", "", 100, "strict")} @@
     "com" :> {})

MCDomainOf ==
    ("u@d.com" :> "d.com" @@ "u@a.d.com" :> "a.d.com" @@
     "v@e.com" :> "e.com" @@ "w@f.com" :> "f.com" @@ "postmaster" :> "none")

MCPrepare == "v@e.com" :> {"u@d.com"}
MCUserEmails == "u" :> {"u@d.com", "f.com"} @@ "admin" :> {"*"}

Zone(ehlo, mailfrom, score) ==
    [inline |-> FALSE, ehlo |-> ehlo, mailfrom |-> mailfrom, score |-> score]
Lists == ("z1" :> Zone(TRUE, TRUE, 1) @@ "z2" :> Zone(FALSE, FALSE, 1) @@
          "z3" :> [inline |-> TRUE] @@ "z4" :> Zone(FALSE, FALSE, -1))
MCListedIn ==
    ("z1" :> ("e.com" :> "in" @@ "tcp4" :> "out") @@
     "z2" :> ("tcp4" :> "in" @@ "tcp6" :> "in") @@
     "z3" :> ("tcp4" :> "out") @@
     "z4" :> ("tcp6" :> "in"))

Actions ==
    ("require_mx_record" :> ParseActionDirective("reject", "temp") @@
     "broken_sig" :> Quarantine) @@
    StatelessDefaults @@ DkimDefaults @@ RspamdDefaults @@ AuthzDefaults

Base ==
    [groups |-> <<{}, {}>>, lists |-> Lists, check_early |-> FALSE,
     rejectThres |-> 2, quarantineThres |-> 1, rdns |-> TRUE, dmarc |-> FALSE,
     enforce_early |-> FALSE,
     spf |-> SpfDefaults,
     spfResults |-> {"pass", "fail", "temperror"},
     act |-> Actions, fail_open |-> FALSE,
     run_on |-> "body", codes |-> CommandDefaults, wants_rdns |-> FALSE,
     answers |-> {"continue", "accept", "tempfail", "reject", "io"},
     unwanted |-> {}, check_header |-> TRUE]

MCConf ==
    [dns |-> [Base EXCEPT !.groups =
                <<{"require_matching_rdns", "require_tls", "dnsbl"},
                  {"require_mx_record"}>>],
     early |-> [Base EXCEPT !.groups = <<{"dnsbl"}, {}>>,
                            !.check_early = TRUE, !.rdns = FALSE],
     dmarc |-> [Base EXCEPT !.groups = <<{"spf"}, {"dkim"}>>, !.dmarc = TRUE,
                            !.rdns = FALSE, !.spfResults = SpfValues],
     spf |-> [Base EXCEPT !.groups = <<{"spf", "dkim"}, {}>>, !.dmarc = TRUE,
                          !.enforce_early = TRUE, !.fail_open = TRUE,
                          !.rdns = FALSE],
     milter |-> [Base EXCEPT !.groups = <<{"milter"}, {"command"}>>,
                             !.run_on = "rcpt"],
     lenient |-> [Base EXCEPT !.groups = <<{"milter", "authorize_sender"}, {}>>,
                              !.rdns = FALSE, !.fail_open = TRUE,
                              !.unwanted = {"conn", "mail", "body"},
                              !.answers = {"continue", "other", "discard",
                                           "reply code", "io"}],
     scan |-> [Base EXCEPT !.groups = <<{"rspamd", "command"},
                                        {"authorize_sender"}>>,
                           !.wants_rdns = TRUE],
     blind |-> [Base EXCEPT !.groups = <<{"rspamd", "command"}, {}>>,
                            !.rdns = FALSE, !.wants_rdns = TRUE],
     \* checks of several kinds in one group
     full |-> [Base EXCEPT !.groups = <<{"dnsbl", "spf", "dkim",
                                         "require_matching_rdns"}, {"milter"}>>,
                           !.dmarc = TRUE, !.answers = {"continue", "io"},
                           !.lists = [z \in {"z1", "z2"} |-> Lists[z]],
                           !.spf = [v \in SpfValues |-> IF v = "pass"
                                        THEN Ignore ELSE Reject]],
     \* check.spf under one name in both groups
     twice |-> [Base EXCEPT !.groups = <<{"spf"}, {"spf"}>>, !.rdns = FALSE]]

Mail(conn, ehlo, mail, from, sigs) ==
    [conn |-> conn, ehlo |-> ehlo, tls |-> conn = "tcp4", mail |-> mail,
     user |-> "", from |-> from, sender |-> "", sigs |-> sigs]
Sig(domain, complete) == [domain |-> domain, complete |-> complete]

MCMessage ==
    [plain |-> Mail("tcp4", "e.com", "u@d.com", <<<<"u@d.com">>>>,
                    <<Sig("d.com", TRUE), Sig("e.com", TRUE)>>),
     sub |-> Mail("tcp6", "a.d.com", "", <<<<"u@a.d.com">>>>,
                  <<Sig("a.d.com", FALSE)>>),
     other |-> Mail("tcp4", "none", "v@e.com", <<<<"u@a.d.com">>>>, <<>>),
     strict |-> Mail("unix", "d.com", "u@d.com", <<<<"v@e.com">>>>,
                     <<Sig("d.com", TRUE)>>),
     two |-> Mail("tcp4", "e.com", "bad", <<<<"w@f.com">>, <<"u@d.com">>>>, <<>>),
     many |-> Mail("local", "none", "", <<<<"w@f.com", "u@d.com">>>>, <<>>),
     helo |-> Mail("tcp4", "d.com", "postmaster", <<<<"u@d.com">>>>, <<>>),
     user |-> [Mail("tcp4", "e.com", "v@e.com", <<<<"v@e.com">>>>, <<>>)
                EXCEPT !.user = "u", !.sender = "w@f.com"],
     fake |-> [Mail("tcp4", "e.com", "w@f.com", <<<<"u@a.d.com">>>>, <<>>)
                EXCEPT !.user = "u", !.sender = "u@d.com"]]

=============================================================================
