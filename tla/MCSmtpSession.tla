--------------------------- MODULE MCSmtpSession ---------------------------
(***************************************************************************)
(* Values for the constants of SmtpSession.  "A" is another spelling of    *)
(* domain "a", "bad" cannot be normalised.  The two sessions come from one *)
(* remote address; s1 belongs to a submission endpoint with deferred       *)
(* rejects, s2 to one that rejects at MAIL.                                *)
(***************************************************************************)
EXTENDS SmtpSession, TLC

MCRemoteAddr == "s1" :> "ip" @@ "s2" :> "ip"
MCDeferred == "s1" :> TRUE @@ "s2" :> FALSE
MCAuthRequired == "s1" :> TRUE @@ "s2" :> FALSE

MCCleanDomain ==
    "null" :> "null" @@ "a" :> "a" @@ "A" :> "a" @@ "bad" :> "inv"

\* Clients of the second endpoint spell their domain as it is stored.
CleanSenders == "s1" :> {"null", "A", "bad"} @@ "s2" :> {"null", "a", "bad"}

MCAllL == <<[kind |-> "concurrency", size |-> 2]>>
MCIpL == <<[kind |-> "concurrency", size |-> 2],
           [kind |-> "rate", size |-> 1]>>
MCSourceL == <<[kind |-> "concurrency", size |-> 1]>>
=============================================================================
