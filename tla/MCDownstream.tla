---------------------------- MODULE MCDownstream ----------------------------
(***************************************************************************)
(* Values for the constants of Downstream: an endpoint with implicit TLS   *)
(* before one without, and five recipients: three ASCII ones, one with an  *)
(* internationalised domain, and one that has no ASCII form.               *)
(***************************************************************************)
EXTENDS Downstream, TLC

CONSTANTS r1, r2, r3, idn, utf8, ascii

MCSchemes == <<"tls", "tcp">>

MCAscii == r1 :> r1 @@ r2 :> r2 @@ r3 :> r3 @@ idn :> ascii
                @@ utf8 :> NoAddr

Conf(lmtp, require, starttls, auth, partial, from, to) ==
    [lmtp |-> lmtp, requireTLS |-> require, attemptStartTLS |-> starttls,
     auth |-> auth, partial |-> partial, from |-> from, to |-> to]

\* target.smtp, with and without TLS, for recipients of every kind.
SmtpConfs ==
    {Conf(FALSE, require, starttls, "forward", TRUE, "utf8", {r1, utf8}) :
        require, starttls \in BOOLEAN}
    \cup {Conf(FALSE, require, TRUE, "off", TRUE, "ascii", {idn, r1}) :
            require \in BOOLEAN}

\* target.lmtp, with its defaults: no STARTTLS.
LmtpConfs ==
    {Conf(TRUE, FALSE, FALSE, "plain", TRUE, "ascii", {r1, r2, r3}),
     Conf(TRUE, TRUE, FALSE, "external", TRUE, "idn", {r1, r2}),
     Conf(TRUE, FALSE, FALSE, "off", FALSE, "idn", {r1, idn})}

MCConfs == SmtpConfs \cup LmtpConfs

\* A recipient whose name the target changes gets an answer of its own.
MCConfsNames == {Conf(TRUE, FALSE, FALSE, "off", TRUE, "ascii", {r1, idn})}
=============================================================================
