----------------------------- MODULE Downstream -----------------------------
(***************************************************************************)
(* internal/target/smtp, as target.smtp and target.lmtp, on top of         *)
(* internal/smtpconn: a message on its way to the first of a list of       *)
(* servers that lets itself be used.  The caller is the queue, which tries *)
(* again what failed temporarily; conf.partial says whether it can use an  *)
(* answer per recipient (an SMTP client on the other side cannot).         *)
(*                                                                         *)
(* Servers answer every command with success, a temporary or a permanent   *)
(* error, or the connection is lost before the answer arrives, which may   *)
(* be after the server has taken the message.                              *)
(***************************************************************************)
EXTENDS Naturals, Sequences, FiniteSets, SequencesExt

CONSTANTS
    Schemes,        \* the scheme of each endpoint, "tcp" or "tls"
    Rcpts,          \* addresses of recipients
    NonASCII,       \* those that are not ASCII
    Ascii,          \* what ToASCII makes of each, where it can
    NoAddr,         \* where it cannot
    Confs,          \* configurations of the target, with a message each
    MaxTries        \* attempts the caller makes

\* What Init and saslAuthDirective let a configuration say, and the message
\* that the target is given: its sender and its recipients.
IsConf(c) ==
    /\ DOMAIN c = {"lmtp", "requireTLS", "attemptStartTLS", "auth", "partial",
                   "from", "to"}
    /\ c.lmtp \in BOOLEAN /\ c.requireTLS \in BOOLEAN
    /\ c.attemptStartTLS \in BOOLEAN /\ c.partial \in BOOLEAN
    /\ c.auth \in {"off", "plain", "forward", "external"}
    /\ c.from \in {"ascii", "idn", "utf8"}
    /\ c.to \subseteq Rcpts

\* Init: at least one target endpoint is required.
IsEndpoints(s) == s \in Seq({"tcp", "tls"}) /\ s # <<>>

ASSUME DownstreamAssumption ==
    /\ IsEndpoints(Schemes)
    /\ NonASCII \subseteq Rcpts
    /\ DOMAIN Ascii = Rcpts
    /\ \A r \in Rcpts \ NonASCII : Ascii[r] = r
    /\ NoAddr \notin Rcpts
    /\ MaxTries \in Nat \ {0}
    /\ \A c \in Confs : IsConf(c)

VARIABLES
    conf,       \* the target's configuration and the message
    user,       \* the client of the message gave a name and a password
    pc,         \* where the delivery is
    at,         \* the endpoint connect tries, or uses
    link,       \* smtpconn.C and its smtp.Client
    rcpts,      \* d.rcpts, and as Ascii or themselves c.rcpts
    rcptIndx,   \* LMTP answers read
    todo,       \* recipients that AddRcpt is still to be called for
    errs,       \* partialError.Errs, by the name the error was set for
    tries,      \* attempts made
    told,       \* what the caller knows of each recipient
    \* the servers
    copies,     \* whole messages that servers hold for each recipient
    cut,        \* recipients that servers hold a part of the message for
    \* history
    clear,      \* commands sent over a connection without TLS
    repeats     \* recipients with a reason to be tried again

Names == Rcpts \cup ({Ascii[r] : r \in Rcpts} \ {NoAddr})

Errors == {"temp", "perm"}

\* No connection: what New returns.
NoLink == [tls |-> FALSE, utf8 |-> FALSE, lost |-> FALSE, half |-> FALSE]

callVars == <<rcpts, rcptIndx, todo, errs, tries, told>>
histVars == <<clear, repeats>>
vars == <<conf, user, pc, at, link, callVars, copies,
          cut, histVars>>

Connecting == {"dial", "hello", "starttls", "connected"}

TypeOK ==
    /\ conf \in Confs
    /\ user \in BOOLEAN
    /\ pc \in Connecting \cup {"auth", "mail", "open", "body", "statuses",
                               "sent", "ended"}
    /\ at \in 1 .. Len(Schemes)
    /\ link \in [DOMAIN NoLink -> BOOLEAN]
    /\ ToSet(rcpts) \subseteq Rcpts /\ IsInjective(rcpts)
    /\ rcptIndx \in 0 .. Len(rcpts)
    /\ todo \subseteq Rcpts
    /\ errs \in [Names -> {"none"} \cup Errors]
    /\ tries \in 0 .. MaxTries
    /\ told \in [Rcpts -> {"none", "ok", "perm"}]
    /\ copies \in [Rcpts -> 0 .. MaxTries]
    /\ cut \subseteq Rcpts
    /\ clear \subseteq {"AUTH", "MAIL", "RCPT", "DATA"}
    /\ repeats \subseteq Rcpts

NoErrs == [n \in Names |-> "none"]

\* Recipients the queue is not done with.
Undecided == {r \in conf.to : told[r] = "none"}

Init ==
    /\ conf \in Confs
    /\ user \in BOOLEAN
    /\ pc = "dial"
    /\ at = 1
    /\ link = NoLink
    /\ rcpts = <<>>
    /\ rcptIndx = 0
    /\ todo = conf.to
    /\ errs = NoErrs
    /\ tries = 1
    /\ told = [r \in Rcpts |-> "none"]
    /\ copies = [r \in Rcpts |-> 0]
    /\ cut = {}
    /\ clear = {}
    /\ repeats = {}

-----------------------------------------------------------------------------
(***************************************************************************)
(* smtpconn                                                                *)
(***************************************************************************)

\* wrapClientErr: the class of error the caller sees for a reply.  552 is
\* made a 452; an error of the network is 450, or has no class, which the
\* queue takes for temporary.
wrapClientErr(reply) == IF reply = "552" THEN "temp" ELSE reply

\* Error replies of a server, as it sent them.
Replies == {"temp", "perm", "552"}

\* A TLS failure is passed on as it is: its class is that of the error of
\* crypto/tls or of the network inside it.  So is an error of the resolver.
AnyClass == Errors

\* The class of the error when the connection breaks.  wrapClientErr knows the
\* errors of net; those of crypto/tls say themselves that they are permanent,
\* or nothing.
LostClasses == IF link.tls THEN Errors ELSE {"temp"}

\* The command is sent in the clear.
Sent(cmd) == clear' = IF link.tls THEN clear ELSE clear \cup {cmd}

\* C.Rcpts: the name RCPT TO was sent with.
WireName(r) == IF r \in NonASCII /\ ~link.utf8 THEN Ascii[r] ELSE r

-----------------------------------------------------------------------------
(***************************************************************************)
(* The caller: deliver and tryDelivery of the queue                        *)
(***************************************************************************)

\* errs after all of rs failed with error e.
Failed(rs, e) == [n \in Names |-> IF n \in rs THEN e ELSE errs[n]]

\* tryDelivery after deliver has returned with errors es: those without an
\* error are delivered, those with a permanent one, or too often tried, are
\* given up, and the others wait for the next attempt.
EndAttempt(es) ==
    LET tried == Undecided
        gone == {r \in tried : es[r] = "perm"
                                \/ (es[r] = "temp" /\ tries = MaxTries)}
        again == {r \in tried : es[r] = "temp"} \ gone
    IN
    /\ told' = [r \in Rcpts |->
                    IF r \notin tried \/ r \in again THEN told[r]
                    ELSE IF r \in gone THEN "perm" ELSE "ok"]
    /\ IF again = {}
       THEN pc' = "ended" /\ UNCHANGED <<tries, todo, at>>
       ELSE pc' = "dial" /\ tries' = tries + 1 /\ todo' = again /\ at' = 1
    /\ errs' = NoErrs
    /\ rcpts' = <<>>
    /\ rcptIndx' = 0
    /\ link' = NoLink

\* Start returns an error: deliver reports it for every recipient.
StartFails(e) == EndAttempt(Failed(Undecided, e))

-----------------------------------------------------------------------------
(***************************************************************************)
(* connect                                                                 *)
(***************************************************************************)

\* The endpoint cannot be used, because of e: the next one is tried, and
\* after the last one e is what Start returns.
NextEndpoint(e) ==
    IF at < Len(Schemes)
    THEN /\ at' = at + 1
         /\ pc' = "dial"
         /\ link' = NoLink
         /\ UNCHANGED callVars
    ELSE StartFails(e)

\* attemptConnect up to the dialer.
Dial ==
    /\ pc = "dial"
    /\ \/ /\ pc' = "hello"
          /\ link' = [NoLink EXCEPT !.tls = (Schemes[at] = "tls")]
          /\ UNCHANGED <<at, callVars>>
       \/ \E e \in AnyClass : NextEndpoint(e)
    /\ UNCHANGED <<conf, user, cut, copies, histVars>>

\* attemptConnect: the greeting and EHLO or LHLO, over TLS if the endpoint
\* says so.  The server's reply names its extensions.
Hello ==
    /\ pc = "hello"
    /\ \/ \E starttls, utf8 \in BOOLEAN :
            /\ link' = [link EXCEPT !.utf8 = utf8]
            /\ pc' = IF ~link.tls /\ conf.attemptStartTLS /\ starttls
                     THEN "starttls" ELSE "connected"
            /\ UNCHANGED <<at, callVars>>
       \/ \E e \in AnyClass : NextEndpoint(e)
    /\ UNCHANGED <<conf, user, cut, copies, histVars>>

\* attemptConnect: STARTTLS and the handshake.  EHLO is sent again, and may
\* have another answer.
StartTLS ==
    /\ pc = "starttls"
    /\ \/ \E utf8 \in BOOLEAN :
            /\ link' = [link EXCEPT !.tls = TRUE, !.utf8 = utf8]
            /\ pc' = "connected"
            /\ UNCHANGED <<at, callVars>>
       \/ \E e \in AnyClass : NextEndpoint(e)
    /\ UNCHANGED <<conf, user, cut, copies, histVars>>

CheckTLSAtLast ==
    /\ pc = "connected"
    /\ IF ~link.tls /\ conf.requireTLS /\ at < Len(Schemes)
       THEN NextEndpoint("temp")
       ELSE /\ pc' = IF conf.auth = "off" THEN "mail" ELSE "auth"
            /\ UNCHANGED <<at, link, callVars>>
    /\ UNCHANGED <<conf, user, cut, copies, histVars>>

\* connect: the connection is used if it has TLS or need not have it.
CheckTLS ==
    /\ pc = "connected"
    /\ IF ~link.tls /\ conf.requireTLS
       THEN NextEndpoint("temp")
       ELSE /\ pc' = IF conf.auth = "off" THEN "mail" ELSE "auth"
            /\ UNCHANGED <<at, link, callVars>>
    /\ UNCHANGED <<conf, user, cut, copies, histVars>>

\* saslAuthDirective: whether the factory makes a client for the message.
\* "forward" needs the password of the client the message comes from.
HasCredentials == conf.auth = "forward" => user

\* connect: authentication.
Auth ==
    /\ pc = "auth"
    /\ \/ /\ ~HasCredentials
          /\ StartFails("perm")
          /\ UNCHANGED clear
       \/ /\ HasCredentials
          /\ Sent("AUTH")
          /\ \/ /\ pc' = "mail"
                /\ UNCHANGED <<at, link, callVars>>
             \/ \E e \in Errors : StartFails(e)
    /\ UNCHANGED <<conf, user, cut, copies, repeats>>

-----------------------------------------------------------------------------
(***************************************************************************)
(* Start and AddRcpt                                                       *)
(***************************************************************************)

\* C.Mail refuses a sender that only SMTPUTF8 can carry.
SenderFits == conf.from = "utf8" => link.utf8

\* Start: MAIL.
Mail ==
    /\ pc = "mail"
    /\ \/ ~SenderFits /\ StartFails("perm") /\ UNCHANGED clear
       \/ /\ SenderFits
          /\ Sent("MAIL")
          /\ \/ /\ pc' = "open"
                /\ UNCHANGED <<at, link, callVars>>
             \/ \E e \in Replies : StartFails(wrapClientErr(e))
    /\ UNCHANGED <<conf, user, cut, copies, repeats>>

\* C.Rcpt refuses an address that it cannot convert.
Unsendable(r) == WireName(r) = NoAddr

\* AddRcpt: RCPT.  When the connection is lost, here or before, all that
\* follows fails too.
AddRcpt(r) ==
    /\ pc = "open"
    /\ r \in todo
    /\ todo' = todo \ {r}
    /\ \/ /\ Unsendable(r)
          /\ errs' = Failed({r}, "perm")
          /\ UNCHANGED <<link, rcpts, clear>>
       \/ /\ ~Unsendable(r)
          /\ Sent("RCPT")
          /\ \/ /\ ~link.lost
                /\ rcpts' = Append(rcpts, r)
                /\ UNCHANGED <<link, errs>>
             \/ /\ ~link.lost
                /\ \E e \in Replies : errs' = Failed({r}, wrapClientErr(e))
                /\ UNCHANGED <<link, rcpts>>
             \/ /\ \E e \in LostClasses : errs' = Failed({r}, e)
                /\ link' = [link EXCEPT !.lost = TRUE]
                /\ UNCHANGED rcpts
    /\ UNCHANGED <<conf, user, cut, pc, at, rcptIndx, tries, told,
                   copies, repeats>>

\* Abort closes the connection, and what that returns is ignored.  QUIT is
\* also sent half-way through a message; as the writer of the message ends
\* it with a dot before any other command, the server may take the part for
\* the whole.
Abort ==
    /\ \/ UNCHANGED cut
       \/ link.half /\ cut' = cut \cup ToSet(rcpts)
    /\ EndAttempt(errs)

\* deliver: nobody to deliver to.
NoneAccepted ==
    /\ pc = "open"
    /\ todo = {} /\ rcpts = <<>>
    /\ Abort
    /\ UNCHANGED <<conf, user, copies, histVars>>

-----------------------------------------------------------------------------
(***************************************************************************)
(* Body and BodyNonAtomic                                                  *)
(***************************************************************************)

Accepted == ToSet(rcpts)

\* deliver: BodyNonAtomic, if the delivery has it and the caller uses it.
StartBody ==
    /\ pc = "open"
    /\ todo = {} /\ rcpts # <<>>
    /\ pc' = IF conf.lmtp /\ conf.partial THEN "statuses" ELSE "body"
    /\ UNCHANGED <<conf, user, cut, at, link, callVars,
                   copies, histVars>>

\* The server takes the message for rs.
Take(rs) == copies' = [r \in Rcpts |->
                        IF r \in rs THEN copies[r] + 1 ELSE copies[r]]

\* Body fails with error e, for all recipients.
BodyFails(e) ==
    /\ errs' = Failed(Accepted, e)
    /\ pc' = "sent"
    /\ UNCHANGED <<at, rcpts, rcptIndx, todo, tries, told>>

\* The stored message cannot be read.
BodyOpenFails ==
    /\ pc = "body"
    /\ BodyFails("temp")
    /\ UNCHANGED <<conf, user, cut, link, copies, histVars>>

\* C.Data and LMTPData fail before the final dot: the server refuses DATA,
\* the connection is lost, or reading the message fails half-way.
DataFails ==
    /\ pc = "body"
    /\ Sent("DATA")
    /\ \/ /\ ~link.lost
          /\ \E e \in Replies : BodyFails(wrapClientErr(e))
          /\ UNCHANGED link
       \/ /\ \E e \in LostClasses : BodyFails(e)
          /\ link' = [link EXCEPT !.lost = TRUE]
       \/ /\ ~link.lost
          /\ BodyFails("temp")
          /\ link' = [link EXCEPT !.half = TRUE]
    /\ UNCHANGED <<conf, user, cut, copies, repeats>>

\* C.Data on SMTP: the answer to the final dot is for all recipients, or is
\* lost.
Data ==
    /\ pc = "body" /\ ~conf.lmtp /\ ~link.lost
    /\ Sent("DATA")
    /\ \/ /\ Take(Accepted)
          /\ pc' = "sent"
          /\ UNCHANGED <<at, link, callVars,
                         repeats>>
       \/ /\ \E e \in Replies : BodyFails(wrapClientErr(e))
          /\ UNCHANGED <<link, copies, repeats>>
       \/ /\ \E e \in LostClasses : BodyFails(e)
          /\ Take(Accepted)
          /\ repeats' = repeats \cup Accepted
          /\ link' = [link EXCEPT !.lost = TRUE]
    /\ UNCHANGED <<conf, user, cut>>

singleErrorFirst(answers) ==
    LET failed == {r \in DOMAIN answers : answers[r] # "ok"}
    IN IF Cardinality(failed) # 1 THEN "none"
       ELSE LET e == answers[CHOOSE r \in failed : TRUE]
            IN IF e = "552" THEN "perm" ELSE e

\* The last of the recipients that RCPT was sent for under a name.
Latest(n) == CHOOSE i \in 1 .. Len(rcpts) :
                /\ WireName(rcpts[i]) = n
                /\ \A j \in i + 1 .. Len(rcpts) : WireName(rcpts[j]) # n

\* lmtpError.SetStatus: the map has one entry for each name, that of the
\* last answer.
lmtpError(answers) ==
    [n \in {WireName(r) : r \in Accepted} |-> answers[rcpts[Latest(n)]]]

\* smtpToLMTPData with the answers in the map: Unwrap finds the reply when
\* just one failed.
singleError(answers) ==
    LET failed == {r \in DOMAIN answers : answers[r] # "ok"}
    IN IF failed = {} THEN "none"
       ELSE IF Cardinality(failed) = 1
            THEN LET e == answers[CHOOSE r \in failed : TRUE]
                 IN IF e = "552" THEN "perm" ELSE e
            ELSE "temp"

\* Body on LMTP: the server answers for each recipient, and there is one
\* result for all.
smtpToLMTPData ==
    /\ pc = "body" /\ conf.lmtp /\ ~link.lost
    /\ Sent("DATA")
    /\ \/ \E answers \in [Accepted -> {"ok"} \cup Replies] :
            LET took == {r \in Accepted : answers[r] = "ok"}
                e == singleError(lmtpError(answers))
            IN
            /\ Take(took)
            /\ IF e = "none"
               THEN /\ pc' = "sent"
                    /\ UNCHANGED <<at, callVars,
                                   repeats>>
               ELSE BodyFails(e) /\ repeats' = repeats \cup took
            /\ UNCHANGED link
       \/ \E took \in SUBSET Accepted :
            /\ Take(took)
            /\ \E e \in LostClasses : BodyFails(e)
            /\ repeats' = repeats \cup took
            /\ link' = [link EXCEPT !.lost = TRUE]
    /\ UNCHANGED <<conf, user, cut>>

RestAll(i) == ToSet(rcpts)

\* d.rcpts from index i on, which BodyNonAtomic reports the same error for.
Rest(i) == {rcpts[j] : j \in i + 1 .. Len(rcpts)}

\* BodyNonAtomic: LMTPData fails with error e.
StatusesFail(e) ==
    /\ errs' = Failed(Rest(rcptIndx), e)
    /\ pc' = "sent"
    /\ UNCHANGED <<at, rcpts, rcptIndx, todo, tries, told>>

\* BodyNonAtomic: DATA is refused, or the message breaks off.  That is also
\* what becomes of a message that cannot be opened: its error is reported,
\* and the reader that is not there fails after the header is sent.
LMTPDataFails ==
    /\ pc = "statuses" /\ rcptIndx = 0
    /\ Sent("DATA")
    /\ \/ /\ ~link.lost
          /\ \E e \in Replies : StatusesFail(wrapClientErr(e))
          /\ UNCHANGED link
       \/ /\ \E e \in LostClasses : StatusesFail(e)
          /\ link' = [link EXCEPT !.lost = TRUE]
       \/ /\ ~link.lost
          /\ StatusesFail("temp")
          /\ link' = [link EXCEPT !.half = TRUE]
    /\ UNCHANGED <<conf, user, cut, copies, repeats>>

\* BodyNonAtomic: the answer for the next recipient.  The callback is given
\* the name that RCPT had, and the reply as the server sent it.
LMTPStatus ==
    /\ pc = "statuses" /\ ~link.lost /\ rcptIndx < Len(rcpts)
    /\ Sent("DATA")
    /\ LET r == rcpts[rcptIndx + 1] IN
       \/ Take({r}) /\ UNCHANGED errs
       \/ /\ \E e \in {"temp", "perm"} : errs' = Failed({WireName(r)}, e)
          /\ UNCHANGED copies
    /\ rcptIndx' = rcptIndx + 1
    /\ pc' = IF rcptIndx' = Len(rcpts) THEN "sent" ELSE pc
    /\ UNCHANGED <<conf, user, cut, at, link, rcpts, todo, tries, told,
                   repeats>>

\* BodyNonAtomic: the connection is lost between two answers.  The server
\* may have taken the message for some of the others.
LMTPLost ==
    /\ pc = "statuses" /\ ~link.lost /\ rcptIndx < Len(rcpts)
    /\ Sent("DATA")
    /\ \E took \in SUBSET {rcpts[j] : j \in rcptIndx + 1 .. Len(rcpts)} :
        /\ Take(took)
        /\ repeats' = repeats \cup took
    /\ \E e \in LostClasses : StatusesFail(e)
    /\ link' = [link EXCEPT !.lost = TRUE]
    /\ UNCHANGED <<conf, user, cut>>

-----------------------------------------------------------------------------
(***************************************************************************)
(* Commit and Abort                                                        *)
(***************************************************************************)

AllFailed == \A r \in Accepted : errs[r] # "none"

AbortAll ==
    /\ pc = "sent"
    /\ AllFailed
    /\ Abort
    /\ UNCHANGED <<conf, user, copies, histVars>>

\* C.Close: nothing after QUIT.  If that fails the connection is closed
\* without it, and for TLS that may fail, as its last record cannot be sent.
CloseResults == {"none"} \cup (IF link.tls THEN Errors ELSE {})

\* Commit returns what C.Close returns.  deliver reports an error for all.
Commit ==
    /\ pc = "sent"
    /\ ~AllFailed
    /\ \E e \in CloseResults :
        /\ EndAttempt(IF e = "none" THEN errs ELSE Failed(Accepted, e))
        /\ repeats' = IF e = "none" THEN repeats
                      ELSE repeats \cup {r \in Accepted : errs[r] = "none"}
    /\ UNCHANGED <<conf, user, cut, copies, clear>>

-----------------------------------------------------------------------------
Next ==
    \/ Dial \/ Hello \/ StartTLS \/ CheckTLS \/ Auth \/ Mail
    \/ \E r \in Rcpts : AddRcpt(r)
    \/ NoneAccepted \/ StartBody
    \/ BodyOpenFails \/ DataFails \/ Data \/ smtpToLMTPData
    \/ LMTPDataFails \/ LMTPStatus \/ LMTPLost
    \/ AbortAll \/ Commit

Spec == Init /\ [][Next]_vars

-----------------------------------------------------------------------------
(***************************************************************************)
(* Properties                                                              *)
(***************************************************************************)

\* A recipient that the caller counts as delivered is one that a server has
\* taken the whole message for: no way through Body, the answers of LMTP, a
\* lost connection or a later attempt turns a failure into a success.
ToldIsHeld == \A r \in Rcpts : told[r] = "ok" => copies[r] > 0

\* A recipient gets a second copy only if the answer for the first was lost,
\* the closing of the connection failed, or one answer had to stand for
\* several: an error for the others never makes the caller repeat it.
NoNeedlessCopy == \A r \in Rcpts : copies[r] > 1 => r \in repeats

\* With require_tls nothing of the message, and no password, is sent over a
\* connection without TLS, whichever of the endpoints is used in the end.
\* (Refuse to pass messages over plain-text connections.)
TLSRequired == conf.requireTLS => clear = {}
=============================================================================
