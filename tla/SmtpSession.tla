---------------------------- MODULE SmtpSession ----------------------------
(***************************************************************************)
(* internal/endpoint/smtp: the sessions of SMTP and LMTP endpoints that    *)
(* share one set of limits (Limits).  Each session is served by one        *)
(* goroutine of the go-smtp library, which calls its methods in the order  *)
(* of the protocol; Logout may be called by another one, when the endpoint *)
(* is closed, while a command waits for msgLock.  A transaction takes the  *)
(* limits and starts a delivery in the message pipeline, at MAIL or, with  *)
(* defer_sender_reject, at the first RCPT.                                 *)
(*                                                                         *)
(* An address is represented by its domain, as the client spelt it; the    *)
(* pipeline by the results its methods may return.  msgLock is held from   *)
(* the action that begins a command to the one that ends it.               *)
(***************************************************************************)
EXTENDS Limits

CONSTANTS
    RemoteAddr,     \* the remote address of each session
    Addresses,      \* sender addresses
    Senders,        \* the ones the client of each session may give
    Null,           \* the null sender
    CleanDomain,    \* the canonical spelling of each sender's domain
    Invalid,        \* CleanDomain of an address that cannot be normalised
    NoDelivery,     \* s.delivery = nil
    Deferred,       \* defer_sender_reject of each session's endpoint
    AuthRequired    \* its authAlwaysRequired

Sessions == Callers

ASSUME SendersAssumption ==
    /\ Null \in Addresses \cap Domains
    /\ Senders \in [Sessions -> SUBSET Addresses]
    /\ CleanDomain \in [Addresses -> Domains \cup {Invalid}]
    /\ Invalid \notin Domains
    /\ NoDelivery \notin Domains
    /\ CleanDomain[Null] = Null
    /\ \A a \in Addresses : CleanDomain[a] # Invalid => a \in Domains
ASSUME SessionAssumption ==
    /\ RemoteAddr \in [Sessions -> IPs]
    /\ Deferred \in [Sessions -> BOOLEAN]
    /\ AuthRequired \in [Sessions -> BOOLEAN]

VARIABLES
    pc,         \* what the session's goroutine is doing
    req,        \* the command it serves
    tx,         \* how far go-smtp thinks the transaction has come
    authed,     \* connState.AuthUser # ""
    mailFrom,   \* s.mailFrom
    del,        \* s.delivery: the sender it was started for, or NoDelivery
    err,        \* s.deliveryErr
    out,        \* Logout was called
    sessionCnt  \* Endpoint.sessionCnt

sessVars == <<pc, req, tx, authed, mailFrom, del, err, out, sessionCnt>>
vars == <<limitVars, sessVars>>

Verbs == {"none", "AUTH", "MAIL", "RCPT", "DATA", "RSET"}

PcStates == {"off", "idle", "waiting", "taking", "rcpt", "body", "commit",
             "failed", "committed", "panicked", "closed"}

SessTypeOK ==
    /\ pc \in [Sessions -> PcStates]
    /\ req \in [Sessions -> [verb : Verbs, from : Addresses]]
    /\ tx \in [Sessions -> {"none", "mail", "rcpt"}]
    /\ authed \in [Sessions -> BOOLEAN]
    /\ mailFrom \in [Sessions -> Addresses \cup Domains]
    /\ del \in [Sessions -> Domains \cup {NoDelivery}]
    /\ err \in [Sessions -> {"none", "kept"}]
    /\ out \in [Sessions -> BOOLEAN]
    /\ sessionCnt \in Int

TypeOK == LimitsTypeOK /\ SessTypeOK

NoReq == [verb |-> "none", from |-> Null]

Init ==
    /\ LimitsInit
    /\ pc = [s \in Sessions |-> "off"]
    /\ req = [s \in Sessions |-> NoReq]
    /\ tx = [s \in Sessions |-> "none"]
    /\ authed = [s \in Sessions |-> FALSE]
    /\ mailFrom = [s \in Sessions |-> Null]
    /\ del = [s \in Sessions |-> NoDelivery]
    /\ err = [s \in Sessions |-> "none"]
    /\ out = [s \in Sessions |-> FALSE]
    /\ sessionCnt = 0

Goto(s, p) == pc' = [pc EXCEPT ![s] = p]

\* The command returns: go-smtp reads the next one, unless it is closed.
Return(s) ==
    /\ Goto(s, IF out[s] THEN "closed" ELSE "idle")
    /\ req' = [req EXCEPT ![s] = NoReq]

-----------------------------------------------------------------------------
(***************************************************************************)
(* Connections and commands                                                *)
(***************************************************************************)

\* NewSession.  When an early check fails the session is logged out before
\* it was counted.
NewSession(s) ==
    /\ pc[s] = "off"
    /\ \/ Goto(s, "idle") /\ sessionCnt' = sessionCnt + 1
       \/ Goto(s, "closed") /\ sessionCnt' = sessionCnt - 1
    /\ UNCHANGED <<limitVars, req, tx, authed, mailFrom, del, err, out>>

\* go-smtp calls a method of the session: MAIL once per transaction, RCPT
\* after an accepted MAIL, DATA after an accepted RCPT, RSET any time.
Command(s, verb, from) ==
    /\ pc[s] = "idle"
    /\ ~out[s]
    /\ \/ verb = "AUTH" /\ ~authed[s]
       \/ verb = "MAIL" /\ tx[s] = "none"
       \/ verb = "RCPT" /\ tx[s] # "none"
       \/ verb = "DATA" /\ tx[s] = "rcpt"
       \/ verb = "RSET"
    /\ IF verb = "MAIL" THEN from \in Senders[s] ELSE from = Null
    /\ Goto(s, "waiting")
    /\ req' = [req EXCEPT ![s] = [verb |-> verb, from |-> from]]
    /\ UNCHANGED <<limitVars, tx, authed, mailFrom, del, err, out, sessionCnt>>

Serving(s, verb) == pc[s] = "waiting" /\ req[s].verb = verb

\* AuthPlain: the early checks or the credentials may fail.
AuthPlain(s) ==
    /\ Serving(s, "AUTH")
    /\ \E ok \in BOOLEAN : authed' = [authed EXCEPT ![s] = ok]
    /\ Return(s)
    /\ UNCHANGED <<limitVars, tx, mailFrom, del, err, out, sessionCnt>>

\* cleanSession: the limits are released for the domain of s.mailFrom.
CleanSession(s) ==
    /\ ReleaseMsg(RemoteAddr[s], mailFrom[s])
    /\ calls' = [calls EXCEPT ![s] = NoCall]
    /\ mailFrom' = [mailFrom EXCEPT ![s] = Null]
    /\ del' = [del EXCEPT ![s] = NoDelivery]
    /\ err' = [err EXCEPT ![s] = "none"]

\* Reset and Logout: an open delivery is aborted.  Without one nothing is
\* cleared.
EndDelivery(s) ==
    IF del[s] # NoDelivery THEN CleanSession(s)
                           ELSE UNCHANGED <<limitVars, mailFrom, del, err>>

\* Reset: called for RSET, and by go-smtp after DATA.
Reset(s) ==
    /\ Serving(s, "RSET")
    /\ EndDelivery(s)
    /\ tx' = [tx EXCEPT ![s] = "none"]
    /\ Return(s)
    /\ UNCHANGED <<authed, out, sessionCnt>>

\* Logout: QUIT, a broken connection, or Endpoint.Close while a command
\* waits for msgLock; go-smtp calls it after a panic too.
Logout(s) ==
    /\ pc[s] \in {"idle", "waiting", "panicked"}
    /\ ~out[s]
    /\ EndDelivery(s)
    /\ out' = [out EXCEPT ![s] = TRUE]
    /\ IF pc[s] = "waiting" THEN UNCHANGED pc ELSE Goto(s, "closed")
    /\ sessionCnt' = sessionCnt - 1
    /\ UNCHANGED <<req, tx, authed>>

\* The panic of a command: msgLock is released by a deferred Unlock and
\* go-smtp recovers.
Panic(s) ==
    /\ Goto(s, IF out[s] THEN "closed" ELSE "panicked")
    /\ req' = [req EXCEPT ![s] = NoReq]

-----------------------------------------------------------------------------
(***************************************************************************)
(* MAIL, RCPT and startDelivery                                            *)
(***************************************************************************)

\* A failed startDelivery: MAIL returns the error, RCPT keeps it too.
StartFails(s) ==
    /\ err' = IF req[s].verb = "RCPT" THEN [err EXCEPT ![s] = "kept"] ELSE err
    /\ Return(s)

\* startDelivery: a sender that cannot be normalised is refused, for any
\* other TakeMsg is called.
StartDelivery(s, from) ==
    \/ /\ CleanDomain[from] # Invalid
       /\ TakeMsg(s, RemoteAddr[s], CleanDomain[from])
       /\ Goto(s, "taking")
       /\ UNCHANGED <<req, err>>
    \/ /\ CleanDomain[from] = Invalid
       /\ StartFails(s)
       /\ UNCHANGED limitVars

\* Mutant: no authentication is asked for.
MailOpen(s) ==
    /\ Serving(s, "MAIL")
    /\ Deferred[s]
    /\ mailFrom' = [mailFrom EXCEPT ![s] = req[s].from]
    /\ tx' = [tx EXCEPT ![s] = "mail"]
    /\ Return(s)
    /\ UNCHANGED <<limitVars, authed, del, err, out, sessionCnt>>

\* Mail.
Mail(s) ==
    /\ Serving(s, "MAIL")
    /\ \/ /\ AuthRequired[s] /\ ~authed[s]
          /\ Return(s)
          /\ UNCHANGED <<limitVars, mailFrom, err, tx>>
       \/ /\ AuthRequired[s] => authed[s]
          /\ Deferred[s]
          /\ mailFrom' = [mailFrom EXCEPT ![s] = req[s].from]
          /\ tx' = [tx EXCEPT ![s] = "mail"]
          /\ Return(s)
          /\ UNCHANGED <<limitVars, err>>
       \/ /\ AuthRequired[s] => authed[s]
          /\ ~Deferred[s]
          /\ StartDelivery(s, req[s].from)
          /\ UNCHANGED <<mailFrom, tx>>
    /\ UNCHANGED <<authed, del, out, sessionCnt>>

\* Rcpt, up to AddRcpt: without a delivery the stored error is returned, or
\* the delivery is started now.
Rcpt(s) ==
    /\ Serving(s, "RCPT")
    /\ \/ /\ del[s] # NoDelivery
          /\ Goto(s, "rcpt")
          /\ UNCHANGED <<limitVars, req, err>>
       \/ /\ del[s] = NoDelivery
          /\ err[s] # "none"
          /\ Return(s)
          /\ UNCHANGED <<limitVars, err>>
       \/ /\ del[s] = NoDelivery
          /\ err[s] = "none"
          /\ StartDelivery(s, mailFrom[s])
    /\ UNCHANGED <<tx, authed, mailFrom, del, out, sessionCnt>>

\* TakeMsg goes on.
TakeLimits(s) ==
    /\ pc[s] = "taking"
    /\ TakeBucket(s) \/ TakeOne(s)
    /\ UNCHANGED sessVars

\* Mutant: TakeMsg has no time limit.
LimitTimeoutNever(s) == FALSE /\ UNCHANGED vars

\* TakeMsg returns the context's error, or panics instead.
LimitTimeout(s) ==
    /\ pc[s] = "taking"
    /\ TakeTimeout(s)
    /\ IF NilBucketSet(s) THEN Panic(s) /\ UNCHANGED err ELSE StartFails(s)
    /\ UNCHANGED <<tx, authed, mailFrom, del, out, sessionCnt>>

\* A method of the missing bucket is called.
LimitPanic(s) ==
    /\ pc[s] = "taking"
    /\ BucketsFull(s)
    /\ Panic(s)
    /\ UNCHANGED <<limitVars, tx, authed, mailFrom, del, err, out, sessionCnt>>

\* startDelivery: pipeline.Start.  MAIL then replaces s.mailFrom by what the
\* client sent, RCPT goes on with the recipient.
PipelineStart(s) ==
    LET clean == calls[s].dom
    IN
    /\ pc[s] = "taking"
    /\ TakeDone(s)
    /\ \/ /\ ReleaseMsg(calls[s].ip, clean)
          /\ calls' = [calls EXCEPT ![s] = NoCall]
          /\ StartFails(s)
          /\ UNCHANGED <<tx, mailFrom, del>>
       \/ /\ req[s].verb = "MAIL"
          /\ del' = [del EXCEPT ![s] = clean]
          /\ mailFrom' = [mailFrom EXCEPT ![s] = req[s].from]
          /\ tx' = [tx EXCEPT ![s] = "mail"]
          /\ Return(s)
          /\ UNCHANGED <<limitVars, err>>
       \/ /\ req[s].verb = "RCPT"
          /\ del' = [del EXCEPT ![s] = clean]
          /\ mailFrom' = [mailFrom EXCEPT ![s] = clean]
          /\ Goto(s, "rcpt")
          /\ UNCHANGED <<limitVars, err, req, tx>>
    /\ UNCHANGED <<authed, out, sessionCnt>>

\* rcpt: the recipient is accepted or not.
AddRcpt(s) ==
    /\ pc[s] = "rcpt"
    /\ tx' = [tx EXCEPT ![s] = "rcpt"] \/ UNCHANGED tx
    /\ Return(s)
    /\ UNCHANGED <<limitVars, authed, mailFrom, del, err, out, sessionCnt>>

-----------------------------------------------------------------------------
(***************************************************************************)
(* DATA                                                                    *)
(***************************************************************************)

\* go-smtp calls Reset when DATA is done.
ThenReset(s) ==
    /\ Goto(s, IF out[s] THEN "closed" ELSE "waiting")
    /\ req' = [req EXCEPT ![s] = [verb |-> "RSET", from |-> Null]]

\* Data, LMTPData, up to the routing loop check: prepareBody may fail, and a
\* session that was logged out meanwhile has no delivery.
Data(s) ==
    /\ Serving(s, "DATA")
    /\ \/ /\ del[s] = NoDelivery
          /\ Panic(s)
       \/ /\ del[s] # NoDelivery
          /\ ThenReset(s)
       \/ /\ del[s] # NoDelivery
          /\ Goto(s, "body")
          /\ UNCHANGED req
    /\ UNCHANGED <<limitVars, tx, authed, mailFrom, del, err, out, sessionCnt>>

\* checkRoutingLoops and Body, or BodyNonAtomic.
Body(s) ==
    /\ pc[s] = "body"
    /\ Goto(s, "commit") \/ Goto(s, "failed")
    /\ UNCHANGED <<limitVars, req, tx, authed, mailFrom, del, err, out,
                   sessionCnt>>

\* Commit; its error is reported.
Commit(s) ==
    /\ pc[s] = "commit"
    /\ Goto(s, "committed")
    /\ UNCHANGED <<limitVars, req, tx, authed, mailFrom, del, err, out,
                   sessionCnt>>

\* The deferred function of Data: cleanSession, whatever happened.
DataCleanup(s) ==
    /\ pc[s] \in {"failed", "committed"}
    /\ CleanSession(s)
    /\ ThenReset(s)
    /\ UNCHANGED <<tx, authed, out, sessionCnt>>

-----------------------------------------------------------------------------
\* What the client and the administrator do.
Client(s) ==
    \/ NewSession(s)
    \/ \E verb \in Verbs, from \in Addresses : Command(s, verb, from)
    \/ Logout(s)

\* What the endpoint does.
Serve(s) ==
    \/ AuthPlain(s) \/ Reset(s) \/ Mail(s) \/ Rcpt(s)
    \/ TakeLimits(s) \/ LimitTimeout(s) \/ LimitPanic(s) \/ PipelineStart(s)
    \/ AddRcpt(s) \/ Data(s) \/ Body(s) \/ Commit(s) \/ DataCleanup(s)

FillRate == \E l \in Limiters : Fill(l) /\ UNCHANGED sessVars

Next == (\E s \in Sessions : Client(s) \/ Serve(s)) \/ FillRate

Spec == Init /\ [][Next]_vars

(***************************************************************************)
(* The goroutine of a session is scheduled, the pipeline's methods return, *)
(* and the context of TakeMsg ends after 5 seconds.  No client sends       *)
(* anything and no token is refilled by necessity.                         *)
(***************************************************************************)
FairSpec == Spec /\ \A s \in Sessions : WF_vars(Serve(s))

-----------------------------------------------------------------------------
(***************************************************************************)
(* Properties                                                              *)
(***************************************************************************)

\* The limiters a session with an open delivery must be holding.
Holding(s) ==
    {l \in Limiters : l[2] = KeyIn(l[1], RemoteAddr[s], del[s])}

\* TakeMsg has returned nil, pipeline.Start has not returned.
Starting(s) == pc[s] = "taking" /\ TakeDone(s)

\* The sessions that l is taken for.
HoldersOf(l) ==
    {s \in Sessions :
        \/ l \in Taking(s)
        \/ Starting(s) /\ l[2] = KeyIn(l[1], calls[s].ip, calls[s].dom)
        \/ del[s] # NoDelivery /\ l \in Holding(s)}

(* A concurrency limiter counts exactly the sessions that hold it: each    *)
(* path through startDelivery, its errors and time-outs, Reset, Logout and *)
(* DATA returns what was taken, once, and Release never finds an empty     *)
(* channel ("mismatched Release call").  Only a call that panicked keeps   *)
(* what it took.                                                           *)
LimitsBalanced ==
    \A l \in Limiters :
        Kind(l) = "concurrency" /\ Size(l) > 0 =>
            tokens[l] = Cardinality(HoldersOf(l))

(* Where authentication is required no delivery is started before it, by   *)
(* a RCPT that runs after Logout either.                                   *)
AuthBeforeDelivery ==
    \A s \in Sessions : AuthRequired[s] /\ del[s] # NoDelivery => authed[s]

(* Every command is answered, however many sessions compete for the        *)
(* limits.                                                                 *)
CommandAnswered ==
    \A s \in Sessions :
        pc[s] = "waiting" ~> pc[s] \in {"idle", "panicked", "closed"}

=============================================================================
