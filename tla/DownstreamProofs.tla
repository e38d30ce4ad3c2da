-------------------------- MODULE DownstreamProofs --------------------------
(***************************************************************************)
(* Proofs about Downstream, for every list of endpoints, every set of      *)
(* recipients and configurations, and every number of attempts.            *)
(*                                                                         *)
(* What an attempt ends with is decided in EndAttempt, which every failure *)
(* and every success reaches with the errors it has collected.  The        *)
(* inductive invariant says what these errors mean while the attempt is    *)
(* under way: a recipient that is neither waiting for RCPT nor accepted    *)
(* has an error, one whose answer has been read has an error or a copy,    *)
(* and one that has a copy, no error and no reason to be tried again got   *)
(* it in this very attempt.                                                *)
(***************************************************************************)
EXTENDS Downstream, WellFoundedInduction, TLAPS

\* The answers of LMTP are reported under the name that RCPT was sent with,
\* which for an address that is not ASCII need not be the name the caller
\* asks for, and lmtpError has one entry for all recipients that are sent
\* under one name.  The theorems about what the caller is told are for
\* targets that meet neither.
AnswersNamed ==
    \A c \in Confs : c.lmtp =>
        IF c.partial THEN c.to \cap NonASCII = {}
        ELSE \A r, q \in c.to : Ascii[r] = Ascii[q] => r = q

Outcomes == {"none"} \cup Errors

Checked == {"auth", "mail", "open", "body", "statuses", "sent"}

States == Connecting \cup {"ended"} \cup Checked

\* Recipients whose answers of LMTP have been read.
Answered == {rcpts[j] : j \in 1 .. rcptIndx}

\* Recipients that a server may have taken the message for in this attempt.
Passed == {r \in Rcpts : \/ pc \in {"sent", "ended"}
                         \/ pc = "statuses" /\ r \in Answered}

TypeInv ==
    /\ conf \in Confs
    /\ user \in BOOLEAN
    /\ pc \in States
    /\ at \in 1 .. Len(Schemes)
    /\ link \in [tls : BOOLEAN, utf8 : BOOLEAN, lost : BOOLEAN, half : BOOLEAN]
    /\ rcpts \in Seq(Rcpts)
    /\ rcptIndx \in 0 .. Len(rcpts)
    /\ todo \subseteq Rcpts
    /\ errs \in [Names -> Outcomes]
    /\ tries \in 1 .. MaxTries
    /\ told \in [Rcpts -> {"none", "ok", "perm"}]
    /\ copies \in [Rcpts -> Nat]
    /\ cut \subseteq Rcpts
    /\ clear \subseteq {"AUTH", "MAIL", "RCPT", "DATA"}
    /\ repeats \subseteq Rcpts

\* A connection that has been let through has the TLS it must have.
LinkInv == /\ pc \in Checked /\ conf.requireTLS => link.tls
           /\ conf.requireTLS => clear = {}

\* No address is accepted twice, and an answer is for an accepted one.
ListInv ==
    /\ \A i, j \in 1 .. Len(rcpts) : rcpts[i] = rcpts[j] => i = j
    /\ \A i \in 1 .. Len(rcpts) : rcpts[i] \notin todo
    /\ pc \in {"statuses", "sent"} \/ rcptIndx = 0
    /\ pc = "statuses" => conf.lmtp /\ conf.partial

\* Servers take at most one message of an attempt for each recipient.
BoundInv ==
    \A r \in Rcpts : copies[r] <= IF r \in Passed THEN tries ELSE tries - 1

\* The recipients of an attempt: all that are undecided, each of them
\* waiting for RCPT, accepted, or failed.
RcptInv ==
    /\ pc \in Connecting \cup {"auth", "mail"} =>
            rcpts = <<>> /\ todo = Undecided /\ errs = NoErrs
    /\ \A i \in 1 .. Len(rcpts) : rcpts[i] \in Undecided
    /\ pc \in Checked \ {"auth", "mail"} =>
            /\ todo \subseteq Undecided
            /\ \A r \in Undecided \ todo : r \in Accepted \/ errs[r] # "none"
    /\ pc \in {"body", "statuses", "sent"} => todo = {}

\* A recipient has no error before its RCPT, and an accepted one none before
\* its answer.
CleanInv ==
    /\ pc = "open" => \A r \in todo : errs[r] = "none"
    /\ pc \in {"open", "body"} => \A r \in Accepted : errs[r] = "none"
    /\ pc = "statuses" => \A r \in Accepted \ Answered : errs[r] = "none"

\* An answer without an error is a copy.
HeldInv ==
    /\ \A r \in Rcpts : told[r] = "ok" => copies[r] > 0
    /\ pc = "statuses" =>
            \A r \in Answered : errs[r] = "none" => copies[r] > 0
    /\ pc = "sent" => \A r \in Accepted : errs[r] = "none" => copies[r] > 0

\* A copy for a recipient that the caller is not done with was taken in this
\* attempt, and without an error, or there is a reason for another.
CopyInv ==
    /\ \A r \in Rcpts : copies[r] > 1 => r \in repeats
    /\ \A r \in Undecided : copies[r] > 0 =>
            \/ r \in repeats
            \/ pc = "sent" /\ r \in Accepted /\ errs[r] = "none"
            \/ pc = "statuses" /\ r \in Answered /\ errs[r] = "none"

\* What holds whatever the names are, and what depends on them.
Inv == TypeInv /\ LinkInv /\ ListInv /\ BoundInv

ToldInv == RcptInv /\ CleanInv /\ HeldInv /\ CopyInv

-----------------------------------------------------------------------------
(***************************************************************************)
(* The operators                                                           *)
(***************************************************************************)

\* A configuration is what Init lets it be, and its recipients are names
\* that errors are kept for.
LEMMA ConfIsConf ==
    ASSUME conf \in Confs
    PROVE  /\ conf.requireTLS \in BOOLEAN
           /\ conf.lmtp \in BOOLEAN /\ conf.partial \in BOOLEAN
           /\ conf.to \subseteq Rcpts
           /\ Undecided \subseteq Rcpts
           /\ Rcpts \subseteq Names
  <1>1. IsConf(conf)
    BY DownstreamAssumption
  <1> QED
    BY <1>1 DEF IsConf, Undecided, Names

\* Failed sets the error of the given recipients and of nobody else.
LEMMA FailedIs ==
    ASSUME errs \in [Names -> Outcomes], NEW rs, NEW e \in Outcomes
    PROVE  /\ Failed(rs, e) \in [Names -> Outcomes]
           /\ \A n \in Names : Failed(rs, e)[n] = IF n \in rs THEN e ELSE errs[n]
  BY DEF Failed

\* wrapClientErr makes an error of every reply.
LEMMA WrapIsError ==
    ASSUME NEW e \in Replies
    PROVE  wrapClientErr(e) \in Errors
  BY DEF Replies, wrapClientErr, Errors

\* Nothing sent over a connection with TLS is sent in the clear.
LEMMA SentIs ==
    ASSUME TypeInv, LinkInv, NEW cmd \in {"AUTH", "MAIL", "RCPT", "DATA"},
           pc \in Checked, Sent(cmd)
    PROVE  /\ clear' \subseteq {"AUTH", "MAIL", "RCPT", "DATA"}
           /\ conf.requireTLS => clear' = {}
  BY DEF TypeInv, LinkInv, Sent

\* Take gives one more copy to the given recipients.
LEMMA TakeIs ==
    ASSUME TypeInv, NEW rs, Take(rs)
    PROVE  /\ copies' \in [Rcpts -> Nat]
           /\ \A r \in Rcpts :
                copies'[r] = IF r \in rs THEN copies[r] + 1 ELSE copies[r]
  BY DEF TypeInv, Take

\* singleError is an error exactly when an answer is.
LEMMA SingleErrorIs ==
    ASSUME NEW S, NEW answers \in [S -> {"ok"} \cup Replies]
    PROVE  /\ singleError(answers) \in Outcomes
           /\ singleError(answers) = "none" <=> \A r \in S : answers[r] = "ok"
  <1> DEFINE failed == {r \in DOMAIN answers : answers[r] # "ok"}
             one == answers[CHOOSE r \in failed : TRUE]
  <1>1. failed # {} => one \in Replies
    BY DEF Replies
  <1>2. CASE failed = {}
    BY <1>2 DEF singleError, Outcomes
  <1>3. CASE failed # {}
    <2>1. singleError(answers) \in Errors
      BY <1>1, <1>3 DEF singleError, Replies, Errors
    <2> QED
      BY <2>1, <1>3 DEF Errors, Outcomes
  <1> QED
    BY <1>2, <1>3

\* lmtpError has an answer for every name that RCPT was sent with.
Wired == {WireName(r) : r \in Accepted}

LEMMA LatestIs ==
    ASSUME TypeInv, NEW n \in Wired
    PROVE  Latest(n) \in 1 .. Len(rcpts) /\ WireName(rcpts[Latest(n)]) = n
  <1> DEFINE I == {i \in 1 .. Len(rcpts) : WireName(rcpts[i]) = n}
             T == {Len(rcpts) - i : i \in I}
             R == OpToRel(<, Nat)
  <1>1. Len(rcpts) \in Nat /\ DOMAIN rcpts = 1 .. Len(rcpts)
    BY DEF TypeInv
  <1>2. T \subseteq Nat /\ T # {}
    BY <1>1 DEF Wired, Accepted, ToSet
  <1>3. IsWellFoundedOn(R, Nat)
    BY NatLessThanWellFounded
  <1> HIDE DEF R
  <1>4. PICK x \in T : \A y \in T : ~ (<<y, x>> \in R)
    BY <1>2, <1>3, WFMin
  <1>5. PICK i \in I : x = Len(rcpts) - i
    BY <1>4
  <1>6. ASSUME NEW j \in i + 1 .. Len(rcpts), WireName(rcpts[j]) = n
        PROVE  FALSE
    <2>1. j \in I /\ Len(rcpts) - j \in T /\ Len(rcpts) - j \in Nat /\ x \in Nat
      BY <1>1, <1>2, <1>4, <1>5, <1>6
    <2>2. Len(rcpts) - j < x
      BY <1>1, <1>5, <1>6
    <2>3. <<Len(rcpts) - j, x>> \in R
      BY <2>1, <2>2 DEF R, OpToRel
    <2> QED
      BY <1>4, <2>1, <2>3
  <1>7. /\ i \in 1 .. Len(rcpts) /\ WireName(rcpts[i]) = n
        /\ \A j \in i + 1 .. Len(rcpts) : WireName(rcpts[j]) # n
    BY <1>5, <1>6
  <1> HIDE DEF I, T
  <1> QED
    BY <1>7 DEF Latest

LEMMA LastAnswers ==
    ASSUME TypeInv, NEW answers \in [Accepted -> {"ok"} \cup Replies]
    PROVE  lmtpError(answers) \in [Wired -> {"ok"} \cup Replies]
  <1>1. \A i \in 1 .. Len(rcpts) : rcpts[i] \in Accepted
    BY DEF Accepted, ToSet, TypeInv
  <1>2. \A n \in Wired : rcpts[Latest(n)] \in Accepted
    BY <1>1, LatestIs
  <1> QED
    BY <1>2 DEF lmtpError, Wired

\* Where names are apart, it is the answer of the recipient.
LEMMA OwnAnswers ==
    ASSUME AnswersNamed, TypeInv, RcptInv, conf.lmtp,
           NEW answers \in [Accepted -> {"ok"} \cup Replies], NEW r \in Accepted
    PROVE  lmtpError(answers)[WireName(r)] = answers[r]
  <1>1. Accepted \subseteq conf.to /\ Accepted \subseteq Rcpts
    BY ConfIsConf DEF Accepted, ToSet, TypeInv, RcptInv, Undecided
  <1>2. ASSUME NEW q \in Accepted, WireName(r) = WireName(q)
        PROVE  r = q
    <2>1. conf \in Confs /\ conf.partial \in BOOLEAN /\ link.utf8 \in BOOLEAN
      BY ConfIsConf DEF TypeInv
    <2>2. CASE conf.partial
      BY <1>1, <1>2, <2>1, <2>2 DEF AnswersNamed, WireName
    <2>3. CASE ~conf.partial
      <3>1. \A s, t \in conf.to : Ascii[s] = Ascii[t] => s = t
        BY <2>1, <2>3 DEF AnswersNamed
      <3>2. CASE link.utf8
        BY <1>2, <3>2 DEF WireName
      <3>3. CASE ~link.utf8
        <4>1. WireName(r) = Ascii[r] /\ WireName(q) = Ascii[q]
          BY <1>1, <3>3, DownstreamAssumption DEF WireName
        <4> QED
          BY <1>1, <1>2, <3>1, <4>1
      <3> QED
        BY <3>2, <3>3
    <2> QED
      BY <2>1, <2>2, <2>3
  <1>3. WireName(r) \in Wired
    BY DEF Wired
  <1>4. LET i == Latest(WireName(r))
        IN  i \in 1 .. Len(rcpts) /\ WireName(rcpts[i]) = WireName(r)
    BY <1>3, LatestIs
  <1>5. rcpts[Latest(WireName(r))] \in Accepted
    BY <1>4 DEF Accepted, ToSet, TypeInv
  <1>6. rcpts[Latest(WireName(r))] = r
    BY <1>2, <1>4, <1>5
  <1>7. lmtpError(answers)[WireName(r)] = answers[rcpts[Latest(WireName(r))]]
    BY <1>3 DEF lmtpError, Wired
  <1> QED
    BY <1>6, <1>7

-----------------------------------------------------------------------------
(***************************************************************************)
(* The connection, the list of recipients and the number of copies         *)
(***************************************************************************)

\* EndAttempt leaves a state in which the next attempt, if there is one, may
\* begin.
LEMMA EndAttemptInv ==
    ASSUME Inv, NEW es \in [Names -> Outcomes], EndAttempt(es),
           conf' = conf, user' = user, copies' = copies,
           cut' \subseteq Rcpts, repeats' \subseteq Rcpts,
           clear' \subseteq {"AUTH", "MAIL", "RCPT", "DATA"},
           conf.requireTLS => clear' = {}
    PROVE  Inv'
  <1> DEFINE gone == {r \in Undecided : es[r] = "perm"
                                \/ (es[r] = "temp" /\ tries = MaxTries)}
             again == {r \in Undecided : es[r] = "temp"} \ gone
  <1>1. Undecided \subseteq Rcpts /\ Rcpts \subseteq Names
    BY ConfIsConf DEF Inv, TypeInv
  <1>2. /\ told' = [r \in Rcpts |->
                    IF r \notin Undecided \/ r \in again THEN told[r]
                    ELSE IF r \in gone THEN "perm" ELSE "ok"]
        /\ errs' = NoErrs /\ rcpts' = <<>> /\ rcptIndx' = 0 /\ link' = NoLink
    BY DEF EndAttempt
  <1>3. IF again = {}
        THEN pc' = "ended" /\ tries' = tries /\ todo' = todo /\ at' = at
        ELSE pc' = "dial" /\ tries' = tries + 1 /\ todo' = again /\ at' = 1
    BY DEF EndAttempt
  <1>4. MaxTries \in Nat /\ 1 \in 1 .. Len(Schemes)
    BY DownstreamAssumption DEF IsEndpoints
  <1>5. again # {} => tries + 1 \in 1 .. MaxTries
    BY <1>4 DEF Inv, TypeInv
  <1> HIDE DEF again
  <1>6. pc' \in {"ended", "dial"}
    BY <1>3
  <1>7. TypeInv'
    <2>1. told' \in [Rcpts -> {"none", "ok", "perm"}]
      BY <1>2 DEF Inv, TypeInv
    <2>2. errs' \in [Names -> Outcomes]
      BY <1>2 DEF NoErrs, Outcomes
    <2>3. /\ tries' \in 1 .. MaxTries /\ at' \in 1 .. Len(Schemes)
          /\ todo' \subseteq Rcpts
      <3>1. again \subseteq Rcpts
        BY <1>1 DEF again
      <3> QED
        BY <1>3, <1>4, <1>5, <3>1 DEF Inv, TypeInv
    <2>4. rcpts' \in Seq(Rcpts) /\ rcptIndx' \in 0 .. Len(rcpts')
      BY <1>2
    <2>5. link' \in [tls : BOOLEAN, utf8 : BOOLEAN, lost : BOOLEAN,
                     half : BOOLEAN]
      BY <1>2 DEF NoLink
    <2> QED
      BY <2>1, <2>2, <2>3, <2>4, <2>5, <1>6
         DEF Inv, TypeInv, States, Connecting
  <1>8. LinkInv'
    BY <1>6 DEF LinkInv, Checked
  <1>9. ListInv'
    BY <1>2, <1>6 DEF ListInv
  <1>10. BoundInv'
    <2>1. \A r \in Rcpts : copies[r] <= tries
      BY DEF Inv, TypeInv, BoundInv
    <2>2. CASE again = {}
      BY <2>1, <2>2, <1>3 DEF BoundInv, Passed
    <2>3. CASE again # {}
      <3>1. Passed' = {}
        BY <2>3, <1>3 DEF Passed
      <3> QED
        BY <2>1, <2>3, <3>1, <1>3 DEF BoundInv, Inv, TypeInv
    <2> QED
      BY <2>2, <2>3
  <1> QED
    BY <1>7, <1>8, <1>9, <1>10 DEF Inv

\* Start that fails with an error.
LEMMA StartFailsInv ==
    ASSUME Inv, NEW e \in Errors, StartFails(e),
           conf' = conf, user' = user, copies' = copies,
           cut' = cut, repeats' = repeats,
           clear' \subseteq {"AUTH", "MAIL", "RCPT", "DATA"},
           conf.requireTLS => clear' = {}
    PROVE  Inv'
  <1>1. Failed(Undecided, e) \in [Names -> Outcomes]
    BY FailedIs DEF Inv, TypeInv, Outcomes
  <1> HIDE DEF Failed
  <1> QED
    BY <1>1, EndAttemptInv DEF StartFails, Inv, TypeInv

\* connect goes on to the next endpoint, or gives up.
LEMMA NextEndpointInv ==
    ASSUME Inv, pc \in Connecting, NEW e \in Errors, NextEndpoint(e),
           UNCHANGED <<conf, user, cut, copies, histVars>>
    PROVE  Inv'
  <1>1. CASE at < Len(Schemes)
    <2>1. /\ at' = at + 1 /\ pc' = "dial" /\ link' = NoLink
          /\ UNCHANGED callVars
      BY <1>1 DEF NextEndpoint
    <2>2. at' \in 1 .. Len(Schemes)
      BY <1>1, <2>1, DownstreamAssumption DEF Inv, TypeInv, IsEndpoints
    <2>3. TypeInv'
      BY <2>1, <2>2
         DEF Inv, TypeInv, callVars, histVars, NoLink, States, Connecting
    <2>4. LinkInv' /\ ListInv'
      BY <2>1 DEF Inv, LinkInv, ListInv, Checked, callVars, histVars, Connecting
    <2>5. BoundInv'
      BY <2>1 DEF Inv, BoundInv, Passed, callVars, Connecting
    <2> QED
      BY <2>3, <2>4, <2>5 DEF Inv
  <1>2. CASE ~(at < Len(Schemes))
    BY <1>2, StartFailsInv DEF NextEndpoint, histVars, Inv, TypeInv, LinkInv
  <1> QED
    BY <1>1, <1>2

\* A step of connect that goes on with the same endpoint.
LEMMA ConnectInv ==
    ASSUME Inv, pc \in Connecting, pc' \in Connecting \cup Checked,
           pc' \notin {"statuses", "sent"},
           link' \in [tls : BOOLEAN, utf8 : BOOLEAN, lost : BOOLEAN,
                      half : BOOLEAN],
           pc' \in Checked /\ conf.requireTLS => link'.tls,
           UNCHANGED <<conf, user, at, callVars, cut, copies, histVars>>
    PROVE  Inv'
  <1>1. TypeInv'
    BY DEF Inv, TypeInv, callVars, histVars, States
  <1>2. LinkInv' /\ ListInv'
    BY DEF Inv, LinkInv, ListInv, Checked, callVars, histVars, Connecting
  <1>3. BoundInv'
    BY DEF Inv, BoundInv, Passed, callVars, Connecting, Checked
  <1> QED
    BY <1>1, <1>2, <1>3 DEF Inv

\* AddRcpt.
LEMMA AddRcptInv ==
    ASSUME Inv, NEW r \in Rcpts, AddRcpt(r)
    PROVE  Inv'
  <1>1. /\ pc = "open" /\ r \in todo /\ todo' = todo \ {r}
        /\ UNCHANGED <<conf, user, cut, pc, at, rcptIndx, tries, told,
                       copies, repeats>>
    BY DEF AddRcpt
  <1>2. /\ clear' \subseteq {"AUTH", "MAIL", "RCPT", "DATA"}
        /\ conf.requireTLS => clear' = {}
    <2>1. clear' = clear \/ Sent("RCPT")
      BY DEF AddRcpt
    <2> QED
      BY <2>1, <1>1, SentIs DEF Inv, TypeInv, LinkInv, Checked
  <1>3. errs' \in [Names -> Outcomes]
    <2>1. \/ errs' = errs
          \/ \E e \in Outcomes : errs' = Failed({r}, e)
      BY WrapIsError DEF AddRcpt, Outcomes, Errors, LostClasses
    <2> QED
      BY <2>1, FailedIs DEF Inv, TypeInv
  <1>4. /\ link' \in [tls : BOOLEAN, utf8 : BOOLEAN, lost : BOOLEAN,
                      half : BOOLEAN]
        /\ link'.tls = link.tls
    BY DEF AddRcpt, Inv, TypeInv
  <1>5. rcpts' = rcpts \/ rcpts' = Append(rcpts, r)
    BY DEF AddRcpt
  <1>6. rcptIndx = 0
    BY <1>1 DEF Inv, ListInv
  <1>7. rcpts' \in Seq(Rcpts) /\ rcptIndx' \in 0 .. Len(rcpts')
    <2>1. rcpts \in Seq(Rcpts) /\ Len(rcpts) \in Nat
      BY DEF Inv, TypeInv
    <2>2. rcpts' \in Seq(Rcpts)
      BY <2>1, <1>5
    <2>3. Len(rcpts') \in Nat
      BY <2>2
    <2> QED
      BY <2>2, <2>3, <1>1, <1>6
  <1>8. TypeInv'
    BY <1>1, <1>2, <1>3, <1>4, <1>7 DEF Inv, TypeInv
  <1>9. LinkInv'
    BY <1>1, <1>2, <1>4 DEF Inv, LinkInv
  <1>10. ListInv'
    <2>1. CASE rcpts' = rcpts
      BY <2>1, <1>1, <1>6 DEF Inv, ListInv
    <2>2. CASE rcpts' = Append(rcpts, r)
      <3>1. /\ Len(rcpts') = Len(rcpts) + 1
            /\ rcpts'[Len(rcpts) + 1] = r
            /\ \A i \in 1 .. Len(rcpts) : rcpts'[i] = rcpts[i]
            /\ Len(rcpts) \in Nat
        BY <2>2 DEF Inv, TypeInv
      <3>2. \A i \in 1 .. Len(rcpts') : i \in 1 .. Len(rcpts) \/ i = Len(rcpts) + 1
        BY <3>1
      <3>3. \A i \in 1 .. Len(rcpts) : rcpts[i] # r /\ rcpts[i] \notin todo'
        BY <1>1 DEF Inv, ListInv
      <3>4. \A i, j \in 1 .. Len(rcpts') : rcpts'[i] = rcpts'[j] => i = j
        BY <3>1, <3>2, <3>3 DEF Inv, ListInv
      <3>5. \A i \in 1 .. Len(rcpts') : rcpts'[i] \notin todo'
        BY <3>1, <3>2, <3>3, <1>1
      <3> QED
        BY <3>4, <3>5, <1>1, <1>6 DEF ListInv
    <2> QED
      BY <2>1, <2>2, <1>5
  <1>11. BoundInv'
    BY <1>1 DEF Inv, BoundInv, Passed
  <1> QED
    BY <1>8, <1>9, <1>10, <1>11 DEF Inv

\* A message that servers took for some of the recipients in one go, or for
\* none, after which the delivery is to be ended.
LEMMA DataInv ==
    ASSUME Inv, pc \in {"body", "statuses"}, pc' = "sent",
           UNCHANGED <<conf, user, cut, at, rcpts, rcptIndx, todo, tries, told>>,
           clear' = clear \/ Sent("DATA"),
           link' \in [tls : BOOLEAN, utf8 : BOOLEAN, lost : BOOLEAN,
                      half : BOOLEAN],
           link'.tls = link.tls,
           errs' \in [Names -> Outcomes],
           NEW took \in SUBSET (Accepted \ Passed),
           copies' = copies \/ Take(took),
           repeats' \subseteq Rcpts
    PROVE  Inv'
  <1>1. /\ clear' \subseteq {"AUTH", "MAIL", "RCPT", "DATA"}
        /\ conf.requireTLS => clear' = {}
    BY SentIs DEF Inv, TypeInv, LinkInv, Checked
  <1>2. copies' \in [Rcpts -> Nat]
    BY TakeIs DEF Inv, TypeInv
  <1>3. TypeInv'
    BY <1>1, <1>2 DEF Inv, TypeInv, States, Checked
  <1>4. LinkInv' /\ ListInv'
    BY <1>1 DEF Inv, LinkInv, ListInv, Checked
  <1>5. BoundInv'
    <2>1. Passed' = Rcpts
      BY DEF Passed
    <2>2. ASSUME NEW r \in Rcpts
          PROVE  copies'[r] <= tries
      <3>1. CASE copies' = copies
        BY <3>1 DEF Inv, TypeInv, BoundInv
      <3>2. CASE Take(took)
        <4>1. CASE r \in took
          BY <4>1, <3>2, TakeIs DEF Inv, TypeInv, BoundInv
        <4>2. CASE r \notin took
          BY <4>2, <3>2, TakeIs DEF Inv, TypeInv, BoundInv
        <4> QED
          BY <4>1, <4>2
      <3> QED
        BY <3>1, <3>2
    <2> QED
      BY <2>1, <2>2 DEF BoundInv
  <1> QED
    BY <1>3, <1>4, <1>5 DEF Inv

\* The recipients that BodyNonAtomic reports an error of LMTPData for are
\* those that no answer has been read for.
LEMMA RestIs ==
    ASSUME Inv, pc = "statuses"
    PROVE  /\ Rest(rcptIndx) \subseteq Accepted
           /\ Rest(rcptIndx) \cap Answered = {}
           /\ Rest(rcptIndx) \cup Answered = Accepted
           /\ Passed = Answered
           /\ Accepted \subseteq Rcpts
  <1>1. DOMAIN rcpts = 1 .. Len(rcpts) /\ Len(rcpts) \in Nat
        /\ rcptIndx \in 0 .. Len(rcpts)
    BY DEF Inv, TypeInv
  <1>2. Accepted \subseteq Rcpts
    BY DEF Accepted, ToSet, Inv, TypeInv
  <1>3. Rest(rcptIndx) \subseteq Accepted
    BY <1>1 DEF Rest, Accepted, ToSet
  <1>4. Rest(rcptIndx) \cap Answered = {}
    BY <1>1 DEF Rest, Answered, Inv, ListInv
  <1>5. Answered \subseteq Accepted
    BY <1>1 DEF Answered, Accepted, ToSet
  <1>6. Accepted \subseteq Rest(rcptIndx) \cup Answered
    <2>1. \A j \in 1 .. Len(rcpts) :
                j \in 1 .. rcptIndx \/ j \in rcptIndx + 1 .. Len(rcpts)
      BY <1>1
    <2> QED
      BY <2>1, <1>1 DEF Answered, Accepted, ToSet, Rest
  <1>7. Passed = Answered
    BY <1>5, <1>2 DEF Passed
  <1> QED
    BY <1>2, <1>3, <1>4, <1>5, <1>6, <1>7

\* The answer to one recipient.
LEMMA LMTPStatusInv ==
    ASSUME Inv, LMTPStatus
    PROVE  Inv'
  <1> DEFINE r == rcpts[rcptIndx + 1]
  <1>1. /\ pc = "statuses" /\ rcptIndx < Len(rcpts) /\ Sent("DATA")
        /\ rcptIndx' = rcptIndx + 1
        /\ pc' = IF rcptIndx' = Len(rcpts) THEN "sent" ELSE pc
        /\ UNCHANGED <<conf, user, cut, at, link, rcpts, todo, tries, told,
                       repeats>>
    BY DEF LMTPStatus
  <1>2. \/ Take({r}) /\ errs' = errs
        \/ /\ \E e \in {"temp", "perm"} : errs' = Failed({WireName(r)}, e)
           /\ copies' = copies
    BY DEF LMTPStatus
  <1>3. /\ Len(rcpts) \in Nat /\ rcptIndx \in Nat
        /\ rcptIndx + 1 \in 1 .. Len(rcpts)
    BY <1>1 DEF Inv, TypeInv
  <1>4. r \in Rcpts
    BY <1>3 DEF Inv, TypeInv
  <1>5. r \in Accepted /\ r \notin Answered
    <2>1. \A j \in 1 .. rcptIndx : j \in 1 .. Len(rcpts) /\ j # rcptIndx + 1
      BY <1>3
    <2> QED
      BY <2>1, <1>3 DEF Accepted, Answered, ToSet, Inv, TypeInv, ListInv
  <1>6. r \notin Passed /\ Passed = Answered
    BY <1>5, <1>1, RestIs
  <1>7. errs' \in [Names -> Outcomes]
    <2>1. \/ errs' = errs
          \/ \E e \in Outcomes : errs' = Failed({WireName(r)}, e)
      BY <1>2 DEF Outcomes, Errors
    <2> QED
      BY <2>1, FailedIs DEF Inv, TypeInv
  <1> HIDE DEF r
  <1>8. copies' = copies \/ Take({r})
    BY <1>2
  <1>9. /\ copies' \in [Rcpts -> Nat]
        /\ \A s \in Rcpts : s # r => copies'[s] = copies[s]
        /\ copies'[r] \in {copies[r], copies[r] + 1}
    BY <1>4, <1>8, TakeIs DEF Inv, TypeInv
  <1>10. TypeInv'
    <2>1. /\ clear' \subseteq {"AUTH", "MAIL", "RCPT", "DATA"}
      BY <1>1, SentIs DEF Inv, Checked
    <2>2. pc' \in States /\ rcptIndx' \in 0 .. Len(rcpts')
      BY <1>1, <1>3 DEF States, Checked
    <2> QED
      BY <1>1, <1>7, <1>9, <2>1, <2>2 DEF Inv, TypeInv
  <1>11. LinkInv'
    <2>1. conf.requireTLS => clear' = {}
      BY <1>1, SentIs DEF Inv, Checked
    <2> QED
      BY <2>1, <1>1 DEF Inv, LinkInv, Checked
  <1>12. ListInv'
    BY <1>1 DEF Inv, ListInv
  <1>13. BoundInv'
    <2>1. Answered' = Answered \cup {r}
      <3>1. \A j : j \in 1 .. rcptIndx + 1 <=> j \in 1 .. rcptIndx \/ j = rcptIndx + 1
        BY <1>3
      <3> QED
        BY <3>1, <1>1 DEF Answered, r
    <2>2. Passed \cup {r} \subseteq Passed'
      BY <2>1, <1>1, <1>4, <1>6 DEF Passed
    <2>3. ASSUME NEW s \in Rcpts
          PROVE  copies'[s] <= IF s \in Passed' THEN tries ELSE tries - 1
      <3>1. copies[s] <= IF s \in Passed THEN tries ELSE tries - 1
        BY DEF Inv, BoundInv
      <3>2. CASE s = r
        BY <3>1, <3>2, <2>2, <1>6, <1>9 DEF Inv, TypeInv
      <3>3. CASE s # r
        BY <3>1, <3>3, <2>2, <1>9 DEF Inv, TypeInv
      <3> QED
        BY <3>2, <3>3
    <2> QED
      BY <2>3, <1>1 DEF BoundInv
  <1> QED
    BY <1>10, <1>11, <1>12, <1>13 DEF Inv

\* BodyFails and StatusesFail end the sending with errors.
LEMMA FailsType ==
    ASSUME Inv, NEW e \in Errors, BodyFails(e) \/ StatusesFail(e)
    PROVE  /\ errs' \in [Names -> Outcomes]
           /\ pc' = "sent"
           /\ UNCHANGED <<at, rcpts, rcptIndx, todo, tries, told>>
  <1>1. \E rs : errs' = Failed(rs, e)
    BY DEF BodyFails, StatusesFail
  <1>2. errs' \in [Names -> Outcomes]
    <2>1. e \in Outcomes
      BY DEF Outcomes
    <2> QED
      BY <1>1, <2>1, FailedIs DEF Inv, TypeInv
  <1> QED
    BY <1>2 DEF BodyFails, StatusesFail

\* The steps that send the message.
LEMMA BodyInv ==
    ASSUME Inv,
           \/ BodyOpenFails \/ DataFails \/ Data \/ smtpToLMTPData
           \/ LMTPDataFails \/ LMTPLost
    PROVE  Inv'
  <1> DEFINE Goes ==
        /\ errs' \in [Names -> Outcomes]
        /\ pc' = "sent"
        /\ UNCHANGED <<at, rcpts, rcptIndx, todo, tries, told>>
      LinkOK ==
        /\ link' \in [tls : BOOLEAN, utf8 : BOOLEAN, lost : BOOLEAN,
                      half : BOOLEAN]
        /\ link'.tls = link.tls
  <1>1. \A e \in Errors : BodyFails(e) \/ StatusesFail(e) => Goes
    BY FailsType
  <1>2. /\ "temp" \in Errors /\ \A e \in LostClasses : e \in Errors
        /\ \A e \in Replies : wrapClientErr(e) \in Errors
    BY WrapIsError DEF Errors, LostClasses
  <1>3. Accepted \subseteq Rcpts
    BY DEF Accepted, ToSet, Inv, TypeInv
  <1>4. pc = "body" => Passed = {}
    BY DEF Passed
  <1>5. ASSUME Goes, LinkOK, pc \in {"body", "statuses"}, NEW took \in SUBSET (Accepted \ Passed),
               copies' = copies \/ Take(took),
               clear' = clear \/ Sent("DATA"), repeats' \subseteq Rcpts,
               UNCHANGED <<conf, user, cut>>
        PROVE  Inv'
    BY <1>5, DataInv
  <1> HIDE DEF Goes
  <1>6. CASE BodyOpenFails
    <2>1. Goes
      BY <1>1, <1>2, <1>6 DEF BodyOpenFails
    <2>2. LinkOK
      BY <1>6 DEF BodyOpenFails, Inv, TypeInv
    <2>3. {} \in SUBSET (Accepted \ Passed)
      OBVIOUS
    <2> QED
      BY <1>5, <1>6, <2>1, <2>2, <2>3 DEF BodyOpenFails, histVars, Inv, TypeInv
  <1>7. CASE DataFails \/ LMTPDataFails
    <2>1. Goes
      BY <1>1, <1>2, <1>7 DEF DataFails, LMTPDataFails
    <2>2. LinkOK
      BY <1>7 DEF DataFails, LMTPDataFails, Inv, TypeInv
    <2>3. {} \in SUBSET (Accepted \ Passed)
      OBVIOUS
    <2>4. /\ pc \in {"body", "statuses"} /\ Sent("DATA")
          /\ UNCHANGED <<conf, user, cut, copies, repeats>>
      BY <1>7 DEF DataFails, LMTPDataFails
    <2>5. repeats' \subseteq Rcpts
      BY <2>4 DEF Inv, TypeInv
    <2> QED
      BY <1>5, <2>1, <2>2, <2>3, <2>4, <2>5
  <1>8. CASE Data
    <2>1. Goes
      <3>1. UNCHANGED callVars /\ pc' = "sent" /\ at' = at => Goes
        BY DEF Goes, callVars, Inv, TypeInv
      <3> QED
        BY <3>1, <1>1, <1>2, <1>8 DEF Data
    <2>2. LinkOK
      BY <1>8 DEF Data, Inv, TypeInv
    <2>3. pc = "body" /\ Sent("DATA") /\ UNCHANGED <<conf, user, cut>>
          /\ (copies' = copies \/ Take(Accepted))
          /\ repeats' \subseteq repeats \cup Accepted
      BY <1>8 DEF Data
    <2>4. repeats' \subseteq Rcpts
      BY <2>3, <1>3 DEF Inv, TypeInv
    <2>5. Accepted \in SUBSET (Accepted \ Passed)
      BY <1>4, <2>3
    <2> QED
      BY <1>5, <2>1, <2>2, <2>3, <2>4, <2>5
  <1>9. CASE smtpToLMTPData
    <2>1. pc = "body" /\ Sent("DATA") /\ UNCHANGED <<conf, user, cut>>
      BY <1>9 DEF smtpToLMTPData
    <2>2. PICK took \in SUBSET Accepted :
            /\ Take(took)
            /\ repeats' \subseteq repeats \cup took
            /\ \/ UNCHANGED <<at, callVars>> /\ pc' = "sent"
               \/ \E e \in Errors : BodyFails(e)
            /\ link' = link \/ link' = [link EXCEPT !.lost = TRUE]
      <3>1. CASE \E answers \in [Accepted -> {"ok"} \cup Replies] :
                    LET took == {r \in Accepted : answers[r] = "ok"}
                        e == singleError(lmtpError(answers))
                    IN
                    /\ Take(took)
                    /\ IF e = "none"
                       THEN /\ pc' = "sent"
                            /\ UNCHANGED <<at, callVars, repeats>>
                       ELSE BodyFails(e) /\ repeats' = repeats \cup took
                    /\ UNCHANGED link
        <4>1. PICK answers \in [Accepted -> {"ok"} \cup Replies] :
                    LET took == {r \in Accepted : answers[r] = "ok"}
                        e == singleError(lmtpError(answers))
                    IN
                    /\ Take(took)
                    /\ IF e = "none"
                       THEN /\ pc' = "sent"
                            /\ UNCHANGED <<at, callVars, repeats>>
                       ELSE BodyFails(e) /\ repeats' = repeats \cup took
                    /\ UNCHANGED link
          BY <3>1
        <4>2. singleError(lmtpError(answers)) # "none" =>
                    singleError(lmtpError(answers)) \in Errors
          BY LastAnswers, SingleErrorIs DEF Outcomes, Inv
        <4>3. {r \in Accepted : answers[r] = "ok"} \in SUBSET Accepted
          OBVIOUS
        <4> QED
          BY <4>1, <4>2, <4>3
      <3>2. CASE \E took \in SUBSET Accepted :
                    /\ Take(took)
                    /\ \E e \in LostClasses : BodyFails(e)
                    /\ repeats' = repeats \cup took
                    /\ link' = [link EXCEPT !.lost = TRUE]
        BY <3>2, <1>2
      <3> QED
        BY <3>1, <3>2, <1>9 DEF smtpToLMTPData
    <2>3. Goes
      <3>1. UNCHANGED callVars /\ pc' = "sent" /\ at' = at => Goes
        BY DEF Goes, callVars, Inv, TypeInv
      <3> QED
        BY <3>1, <1>1, <2>2
    <2>4. LinkOK
      BY <2>2 DEF Inv, TypeInv
    <2>5. repeats' \subseteq Rcpts
      BY <2>2, <1>3 DEF Inv, TypeInv
    <2>6. took \in SUBSET (Accepted \ Passed)
      BY <1>4, <2>1, <2>2
    <2> QED
      BY <1>5, <2>1, <2>2, <2>3, <2>4, <2>5, <2>6
  <1>10. CASE LMTPLost
    <2>1. /\ pc = "statuses" /\ Sent("DATA") /\ UNCHANGED <<conf, user, cut>>
          /\ \E e \in LostClasses : StatusesFail(e)
          /\ link' = [link EXCEPT !.lost = TRUE]
      BY <1>10 DEF LMTPLost
    <2>2. PICK took \in SUBSET Rest(rcptIndx) :
                Take(took) /\ repeats' = repeats \cup took
      BY <1>10 DEF LMTPLost, Rest
    <2>3. took \in SUBSET (Accepted \ Passed)
      BY <2>1, <2>2, RestIs
    <2>4. Goes
      BY <1>1, <1>2, <2>1
    <2>5. LinkOK
      BY <2>1 DEF Inv, TypeInv
    <2>6. repeats' \subseteq Rcpts
      BY <2>2, <2>3, <1>3 DEF Inv, TypeInv
    <2> QED
      BY <1>5, <2>1, <2>2, <2>3, <2>4, <2>5, <2>6
  <1> QED
    BY <1>6, <1>7, <1>8, <1>9, <1>10

\* The steps of connect and Start.
LEMMA StartInv ==
    ASSUME Inv, Dial \/ Hello \/ StartTLS \/ CheckTLS \/ Auth \/ Mail
    PROVE  Inv'
  <1>1. AnyClass = Errors
    BY DEF AnyClass
  <1>2. CASE Dial
    <2>1. pc \in Connecting
      BY <1>2 DEF Dial, Connecting
    <2>2. CASE \E e \in AnyClass : NextEndpoint(e)
      BY <1>1, <1>2, <2>1, <2>2, NextEndpointInv DEF Dial
    <2>3. CASE /\ pc' = "hello"
               /\ link' = [NoLink EXCEPT !.tls = (Schemes[at] = "tls")]
               /\ UNCHANGED <<at, callVars>>
      <3>1. link' \in [tls : BOOLEAN, utf8 : BOOLEAN, lost : BOOLEAN,
                       half : BOOLEAN]
        BY <2>3 DEF NoLink
      <3> QED
        BY <1>2, <2>1, <2>3, <3>1, ConnectInv DEF Dial, Connecting, Checked
    <2> QED
      BY <1>2, <2>2, <2>3 DEF Dial
  <1>3. CASE Hello
    <2>1. pc \in Connecting
      BY <1>3 DEF Hello, Connecting
    <2>2. CASE \E e \in AnyClass : NextEndpoint(e)
      BY <1>1, <1>3, <2>1, <2>2, NextEndpointInv DEF Hello
    <2>3. CASE \E starttls, utf8 \in BOOLEAN :
                /\ link' = [link EXCEPT !.utf8 = utf8]
                /\ pc' = IF ~link.tls /\ conf.attemptStartTLS /\ starttls
                         THEN "starttls" ELSE "connected"
                /\ UNCHANGED <<at, callVars>>
      <3>1. link' \in [tls : BOOLEAN, utf8 : BOOLEAN, lost : BOOLEAN,
                       half : BOOLEAN]
        BY <2>3 DEF Inv, TypeInv
      <3>2. pc' \in {"starttls", "connected"} /\ UNCHANGED <<at, callVars>>
        BY <2>3
      <3> QED
        BY <1>3, <2>1, <3>1, <3>2, ConnectInv DEF Hello, Connecting, Checked
    <2> QED
      BY <1>3, <2>2, <2>3 DEF Hello
  <1>4. CASE StartTLS
    <2>1. pc \in Connecting
      BY <1>4 DEF StartTLS, Connecting
    <2>2. CASE \E e \in AnyClass : NextEndpoint(e)
      BY <1>1, <1>4, <2>1, <2>2, NextEndpointInv DEF StartTLS
    <2>3. CASE \E utf8 \in BOOLEAN :
                /\ link' = [link EXCEPT !.tls = TRUE, !.utf8 = utf8]
                /\ pc' = "connected"
                /\ UNCHANGED <<at, callVars>>
      <3>1. link' \in [tls : BOOLEAN, utf8 : BOOLEAN, lost : BOOLEAN,
                       half : BOOLEAN]
        BY <2>3 DEF Inv, TypeInv
      <3> QED
        BY <1>4, <2>1, <2>3, <3>1, ConnectInv DEF StartTLS, Connecting, Checked
    <2> QED
      BY <1>4, <2>2, <2>3 DEF StartTLS
  <1>5. CASE CheckTLS
    <2>1. pc \in Connecting
      BY <1>5 DEF CheckTLS, Connecting
    <2>2. CASE ~link.tls /\ conf.requireTLS
      BY <1>1, <1>5, <2>1, <2>2, NextEndpointInv DEF CheckTLS, Errors
    <2>3. CASE ~(~link.tls /\ conf.requireTLS)
      <3>1. /\ pc' \in {"mail", "auth"}
            /\ UNCHANGED <<at, link, callVars>>
        BY <1>5, <2>3 DEF CheckTLS
      <3>2. link' \in [tls : BOOLEAN, utf8 : BOOLEAN, lost : BOOLEAN,
                       half : BOOLEAN]
        BY <3>1 DEF Inv, TypeInv
      <3> QED
        BY <1>5, <2>1, <2>3, <3>1, <3>2, ConnectInv DEF CheckTLS, Checked
    <2> QED
      BY <2>2, <2>3
  <1>6. CASE Auth \/ Mail
    <2>1. pc \in {"auth", "mail"} /\ UNCHANGED <<conf, user, cut, copies, repeats>>
      BY <1>6 DEF Auth, Mail
    <2>2. clear' = clear \/ Sent("AUTH") \/ Sent("MAIL")
      BY <1>6 DEF Auth, Mail
    <2>3. /\ clear' \subseteq {"AUTH", "MAIL", "RCPT", "DATA"}
          /\ conf.requireTLS => clear' = {}
      BY <2>1, <2>2, SentIs DEF Inv, TypeInv, LinkInv, Checked
    <2>4. \/ \E e \in Errors : StartFails(e)
          \/ pc' \in {"mail", "open"} /\ UNCHANGED <<at, link, callVars>>
      BY <1>6, WrapIsError DEF Auth, Mail, Errors
    <2>5. CASE \E e \in Errors : StartFails(e)
      BY <2>1, <2>3, <2>5, StartFailsInv
    <2>6. CASE pc' \in {"mail", "open"} /\ UNCHANGED <<at, link, callVars>>
      <3>1. TypeInv'
        BY <2>1, <2>3, <2>6 DEF Inv, TypeInv, callVars, States, Checked
      <3>2. LinkInv' /\ ListInv'
        BY <2>1, <2>3, <2>6 DEF Inv, LinkInv, ListInv, callVars, Checked
      <3>3. BoundInv'
        BY <2>1, <2>6 DEF Inv, BoundInv, Passed, callVars
      <3> QED
        BY <3>1, <3>2, <3>3 DEF Inv
    <2> QED
      BY <2>4, <2>5, <2>6
  <1> QED
    BY <1>2, <1>3, <1>4, <1>5, <1>6

\* Abort, and the Commit that deliver may end with.
LEMMA FinishInv ==
    ASSUME Inv, NoneAccepted \/ AbortAll \/ Commit
    PROVE  Inv'
  <1>1. Accepted \subseteq Rcpts /\ Accepted = ToSet(rcpts)
    BY DEF Accepted, ToSet, Inv, TypeInv
  <1>2. "temp" \in Outcomes
    BY DEF Outcomes, Errors
  <1>3. CASE NoneAccepted \/ AbortAll
    <2>1. /\ Abort /\ UNCHANGED <<conf, user, copies, histVars>>
      BY <1>3 DEF NoneAccepted, AbortAll
    <2>2. cut' \subseteq Rcpts
      BY <1>1, <2>1 DEF Abort, Inv, TypeInv
    <2>3. EndAttempt(errs) /\ errs \in [Names -> Outcomes]
      BY <2>1 DEF Abort, Inv, TypeInv
    <2>4. /\ clear' \subseteq {"AUTH", "MAIL", "RCPT", "DATA"}
          /\ conf.requireTLS => clear' = {}
          /\ repeats' \subseteq Rcpts
      BY <2>1 DEF histVars, Inv, TypeInv, LinkInv
    <2> QED
      BY <2>1, <2>2, <2>3, <2>4, EndAttemptInv
  <1>4. CASE Commit
    <2>1. UNCHANGED <<conf, user, cut, copies, clear>>
      BY <1>4 DEF Commit
    <2>2. PICK e \in CloseResults :
            /\ EndAttempt(IF e = "none" THEN errs ELSE Failed(Accepted, e))
            /\ repeats' = IF e = "none" THEN repeats
                          ELSE repeats \cup {r \in Accepted : errs[r] = "none"}
      BY <1>4 DEF Commit
    <2>3. e \in Outcomes
      BY <1>2 DEF CloseResults, LostClasses, Outcomes, Errors
    <2>4. (IF e = "none" THEN errs ELSE Failed(Accepted, e)) \in [Names -> Outcomes]
      BY <2>3, FailedIs DEF Inv, TypeInv
    <2>5. repeats' \subseteq Rcpts
      BY <2>2, <1>1 DEF Inv, TypeInv
    <2> QED
      BY <2>1, <2>2, <2>4, <2>5, EndAttemptInv DEF Inv, TypeInv, LinkInv
  <1> QED
    BY <1>3, <1>4

\* Every step keeps the invariant that names do not matter for.
LEMMA InvStep ==
    ASSUME Inv, [Next]_vars
    PROVE  Inv'
  <1>1. CASE Dial \/ Hello \/ StartTLS \/ CheckTLS \/ Auth \/ Mail
    BY <1>1, StartInv
  <1>2. CASE \E r \in Rcpts : AddRcpt(r)
    BY <1>2, AddRcptInv
  <1>3. CASE NoneAccepted \/ AbortAll \/ Commit
    BY <1>3, FinishInv
  <1>4. CASE StartBody
    <2>1. /\ pc = "open" /\ pc' = IF conf.lmtp /\ conf.partial THEN "statuses" ELSE "body"
          /\ UNCHANGED <<conf, user, cut, at, link, callVars, copies, histVars>>
      BY <1>4 DEF StartBody
    <2>2. TypeInv'
      BY <2>1 DEF Inv, TypeInv, callVars, histVars, States, Checked
    <2>3. LinkInv' /\ ListInv'
      BY <2>1 DEF Inv, LinkInv, ListInv, callVars, histVars, Checked
    <2>4. rcptIndx = 0
      BY <2>1 DEF Inv, ListInv
    <2>5. Passed' = {}
      BY <2>1, <2>4 DEF Passed, Answered, callVars
    <2>6. BoundInv'
      BY <2>1, <2>5 DEF Inv, BoundInv, Passed, callVars
    <2> QED
      BY <2>2, <2>3, <2>6 DEF Inv
  <1>6. CASE LMTPStatus
    BY <1>6, LMTPStatusInv
  <1>7. CASE \/ BodyOpenFails \/ DataFails \/ Data \/ smtpToLMTPData
             \/ LMTPDataFails \/ LMTPLost
    BY <1>7, BodyInv
  <1>8. CASE UNCHANGED vars
    <2>1. TypeInv'
      BY <1>8 DEF Inv, TypeInv, vars, callVars, histVars
    <2>2. LinkInv' /\ ListInv' /\ BoundInv'
      BY <1>8 DEF Inv, LinkInv, ListInv, BoundInv, Passed, Answered, vars,
                  callVars, histVars
    <2> QED
      BY <2>1, <2>2 DEF Inv
  <1> QED
    BY <1>1, <1>2, <1>3, <1>4, <1>6, <1>7, <1>8 DEF Next

\* The invariant holds at the start.
LEMMA InvInit ==
    ASSUME Init
    PROVE  Inv
  <1>1. 1 \in 1 .. Len(Schemes) /\ 1 \in 1 .. MaxTries
    BY DownstreamAssumption DEF IsEndpoints
  <1>2. todo \subseteq Rcpts
    BY ConfIsConf DEF Init
  <1>3. TypeInv
    BY <1>1, <1>2 DEF Init, TypeInv, NoLink, NoErrs, Outcomes, States, Connecting
  <1>4. LinkInv /\ ListInv
    BY DEF Init, LinkInv, ListInv, Checked
  <1>5. BoundInv
    BY DEF Init, BoundInv, Passed
  <1> QED
    BY <1>3, <1>4, <1>5 DEF Inv

\* The variables of the module have their types; in particular no server
\* ever holds more copies of the message for a recipient than the caller
\* has made attempts, however the attempts end.
THEOREM TypeCorrect == Spec => []TypeOK
  <1>1. Inv => TypeOK
    <2>1. ASSUME Inv PROVE TypeOK
      <3>1. link \in [DOMAIN NoLink -> BOOLEAN]
        BY <2>1 DEF NoLink, Inv, TypeInv
      <3>2. ToSet(rcpts) \subseteq Rcpts /\ IsInjective(rcpts)
        <4>1. DOMAIN rcpts = 1 .. Len(rcpts) /\ \A i \in DOMAIN rcpts : rcpts[i] \in Rcpts
          BY <2>1 DEF Inv, TypeInv
        <4>2. \A a, b \in DOMAIN rcpts : rcpts[a] = rcpts[b] => a = b
          BY <2>1, <4>1 DEF Inv, ListInv
        <4> QED
          BY <4>1, <4>2 DEF ToSet, IsInjective
      <3>3. copies \in [Rcpts -> 0 .. MaxTries]
        <4>1. MaxTries \in Nat
          BY DownstreamAssumption
        <4>2. \A r \in Rcpts : copies[r] \in 0 .. MaxTries
          BY <2>1, <4>1 DEF Inv, TypeInv, BoundInv
        <4> QED
          BY <2>1, <4>2 DEF Inv, TypeInv
      <3>4. tries \in 0 .. MaxTries
        BY <2>1, DownstreamAssumption DEF Inv, TypeInv
      <3> QED
        BY <2>1, <3>1, <3>2, <3>3, <3>4
           DEF Inv, TypeInv, TypeOK, States, Checked, Outcomes
    <2> QED
      BY <2>1
  <1> QED
    BY <1>1, InvInit, InvStep, PTL DEF Spec

\* With require_tls no command that carries a password, an address or a part
\* of the message is sent over a connection without TLS: connect lets no
\* such connection through, whatever endpoint it comes to in the end, and a
\* later attempt starts from no connection.
THEOREM TLSKept == Spec => []TLSRequired
  <1>1. Inv => TLSRequired
    BY DEF Inv, LinkInv, TLSRequired
  <1> QED
    BY <1>1, InvInit, InvStep, PTL DEF Spec

-----------------------------------------------------------------------------
(***************************************************************************)
(* What the caller is told                                                 *)
(***************************************************************************)

\* The sequence of recipients as a set.
LEMMA AcceptedIs ==
    ASSUME Inv, RcptInv
    PROVE  /\ Accepted = {rcpts[i] : i \in 1 .. Len(rcpts)}
           /\ Accepted \subseteq Undecided
           /\ Answered \subseteq Accepted
  <1>1. /\ DOMAIN rcpts = 1 .. Len(rcpts) /\ Len(rcpts) \in Nat
        /\ rcptIndx \in 0 .. Len(rcpts)
    BY DEF Inv, TypeInv
  <1>2. Accepted = {rcpts[i] : i \in 1 .. Len(rcpts)}
    BY <1>1 DEF Accepted, ToSet
  <1>3. Answered \subseteq Accepted
    BY <1>1, <1>2 DEF Answered
  <1> QED
    BY <1>2, <1>3 DEF RcptInv

\* An attempt may end with errors es if no error means a copy, and if a copy
\* with a temporary error has a reason to be made again.
LEMMA EndAttemptTold ==
    ASSUME Inv, ToldInv, NEW es \in [Names -> Outcomes], EndAttempt(es),
           conf' = conf, copies' = copies, repeats \subseteq repeats',
           \A r \in Undecided : es[r] = "none" => copies[r] > 0,
           \A r \in Undecided : es[r] = "temp" /\ copies[r] > 0 => r \in repeats'
    PROVE  ToldInv'
  <1> DEFINE gone == {r \in Undecided : es[r] = "perm"
                                \/ (es[r] = "temp" /\ tries = MaxTries)}
             again == {r \in Undecided : es[r] = "temp"} \ gone
  <1>1. Undecided \subseteq Rcpts /\ Rcpts \subseteq Names /\ conf.to \subseteq Rcpts
    BY ConfIsConf DEF Inv, TypeInv
  <1>2. /\ told' = [r \in Rcpts |->
                    IF r \notin Undecided \/ r \in again THEN told[r]
                    ELSE IF r \in gone THEN "perm" ELSE "ok"]
        /\ errs' = NoErrs /\ rcpts' = <<>> /\ rcptIndx' = 0
    BY DEF EndAttempt
  <1>3. IF again = {} THEN pc' = "ended" ELSE pc' = "dial" /\ todo' = again
    BY DEF EndAttempt
  <1>4. \A r \in Undecided : es[r] \in {"none", "temp", "perm"}
    BY <1>1 DEF Outcomes, Errors
  <1>5. \A r \in Undecided : r \in again \/ r \in gone \/ es[r] = "none"
    BY <1>4
  <1>6. \A r \in again : r \in Undecided /\ es[r] = "temp" /\ told[r] = "none"
    BY DEF Undecided
  <1> HIDE DEF again, gone
  <1>7. Undecided' = again
    <2>1. \A r \in conf.to : told'[r] = "none" <=> r \in again
      BY <1>1, <1>2, <1>6 DEF Undecided
    <2>2. again \subseteq conf.to
      BY <1>6 DEF Undecided
    <2> QED
      BY <2>1, <2>2 DEF Undecided
  <1>8. RcptInv'
    BY <1>2, <1>3, <1>7 DEF RcptInv, Connecting, Checked
  <1>9. HeldInv'
    <2>1. ASSUME NEW r \in Rcpts, told'[r] = "ok"
          PROVE  copies[r] > 0
      <3>1. told[r] = "ok" \/ (r \in Undecided /\ es[r] = "none")
        BY <2>1, <1>2, <1>5
      <3> QED
        BY <3>1 DEF ToldInv, HeldInv
    <2> QED
      BY <2>1, <1>3 DEF HeldInv
  <1>10. CopyInv'
    BY <1>6, <1>7 DEF ToldInv, CopyInv
  <1>11. CleanInv'
    BY <1>3 DEF CleanInv
  <1> QED
    BY <1>8, <1>9, <1>10, <1>11 DEF ToldInv

\* Start that fails tells nobody anything but an error.
LEMMA StartFailsTold ==
    ASSUME Inv, ToldInv, pc \in Connecting \cup {"auth", "mail"},
           NEW e \in Errors, StartFails(e),
           conf' = conf, copies' = copies, repeats' = repeats
    PROVE  ToldInv'
  <1>1. e \in Outcomes /\ e # "none"
    BY DEF Outcomes, Errors
  <1>2. /\ Failed(Undecided, e) \in [Names -> Outcomes]
        /\ \A n \in Undecided : Failed(Undecided, e)[n] = e
    <2>1. Undecided \subseteq Names
      BY ConfIsConf DEF Inv, TypeInv
    <2> QED
      BY <1>1, <2>1, FailedIs DEF Inv, TypeInv
  <1>3. \A r \in Undecided : copies[r] > 0 => r \in repeats'
    BY DEF ToldInv, CopyInv, Connecting
  <1> QED
    BY <1>1, <1>2, <1>3, EndAttemptTold DEF StartFails

\* A step of connect or Start that goes on.
LEMMA GoesOnTold ==
    ASSUME Inv, ToldInv, pc \in Connecting \cup {"auth", "mail"},
           pc' \in Connecting \cup {"auth", "mail", "open"},
           UNCHANGED <<conf, callVars, copies, repeats>>
    PROVE  ToldInv'
  <1>1. Undecided' = Undecided
    BY DEF Undecided, callVars
  <1>2. RcptInv'
    BY <1>1 DEF ToldInv, RcptInv, callVars, Checked, Connecting
  <1>3. HeldInv' /\ CopyInv'
    BY <1>1 DEF ToldInv, HeldInv, CopyInv, callVars, Connecting
  <1>4. CleanInv'
    <2>1. rcpts' = <<>> /\ errs' = NoErrs /\ todo' \subseteq Names
      BY ConfIsConf DEF ToldInv, RcptInv, callVars, Inv, TypeInv
    <2> QED
      BY <2>1 DEF CleanInv, NoErrs, Accepted, ToSet, Connecting
  <1> QED
    BY <1>2, <1>3, <1>4 DEF ToldInv

\* The steps of connect and Start.
LEMMA StartTold ==
    ASSUME Inv, ToldInv, Dial \/ Hello \/ StartTLS \/ CheckTLS \/ Auth \/ Mail
    PROVE  ToldInv'
  <1>1. /\ pc \in Connecting \cup {"auth", "mail"}
        /\ UNCHANGED <<conf, copies, repeats>>
    BY DEF Dial, Hello, StartTLS, CheckTLS, Auth, Mail, Connecting, histVars
  <1>2. ASSUME NEW e \in Errors, NextEndpoint(e)
        PROVE  \/ StartFails(e)
               \/ pc' = "dial" /\ UNCHANGED callVars
    BY <1>2 DEF NextEndpoint
  <1>3. \/ \E e \in Errors : StartFails(e)
        \/ /\ pc' \in Connecting \cup {"auth", "mail", "open"}
           /\ UNCHANGED callVars
    <2>1. CASE Dial
      BY <2>1, <1>2 DEF Dial, AnyClass, Connecting
    <2>2. CASE Hello
      BY <2>2, <1>2 DEF Hello, AnyClass, Connecting
    <2>3. CASE StartTLS
      BY <2>3, <1>2 DEF StartTLS, AnyClass, Connecting
    <2>4. CASE CheckTLS
      BY <2>4, <1>2 DEF CheckTLS, Errors, Connecting
    <2>5. CASE Auth \/ Mail
      BY <2>5, WrapIsError DEF Auth, Mail, Errors, Connecting
    <2> QED
      BY <2>1, <2>2, <2>3, <2>4, <2>5
  <1> QED
    BY <1>1, <1>3, StartFailsTold, GoesOnTold

\* AddRcpt.
LEMMA AddRcptTold ==
    ASSUME Inv, ToldInv, NEW r \in Rcpts, AddRcpt(r)
    PROVE  ToldInv'
  <1>1. /\ pc = "open" /\ r \in todo /\ todo' = todo \ {r}
        /\ UNCHANGED <<conf, pc, told, copies, repeats>>
    BY DEF AddRcpt
  <1>2. Undecided' = Undecided /\ r \in Undecided
    BY <1>1 DEF Undecided, ToldInv, RcptInv, Checked
  <1>3. \/ rcpts' = Append(rcpts, r) /\ errs' = errs
        \/ rcpts' = rcpts /\ \E e \in Errors : errs' = Failed({r}, e)
    BY WrapIsError DEF AddRcpt, Errors, LostClasses
  <1>4. Rcpts \subseteq Names /\ Undecided \subseteq Rcpts
    BY ConfIsConf DEF Inv, TypeInv
  <1>5. rcpts \in Seq(Rcpts) /\ errs \in [Names -> Outcomes]
    BY DEF Inv, TypeInv
  <1>6. /\ \A i \in 1 .. Len(rcpts') : rcpts'[i] \in Undecided
        /\ Accepted \subseteq Accepted'
        /\ \A s \in Undecided : errs[s] # "none" => errs'[s] # "none"
        /\ r \in Accepted' \/ errs'[r] # "none"
    <2>1. CASE rcpts' = Append(rcpts, r) /\ errs' = errs
      <3>1. /\ Len(rcpts) \in Nat
            /\ Len(rcpts') = Len(rcpts) + 1
            /\ \A i \in 1 .. Len(rcpts) : rcpts'[i] = rcpts[i]
            /\ rcpts'[Len(rcpts) + 1] = r
            /\ DOMAIN rcpts = 1 .. Len(rcpts)
            /\ DOMAIN rcpts' = 1 .. Len(rcpts) + 1
        BY <2>1, <1>5
      <3>2. /\ 1 .. Len(rcpts) \subseteq 1 .. Len(rcpts) + 1
            /\ Len(rcpts) + 1 \in 1 .. Len(rcpts) + 1
            /\ \A i \in 1 .. Len(rcpts) + 1 :
                    i \in 1 .. Len(rcpts) \/ i = Len(rcpts) + 1
        BY <3>1
      <3>3. Accepted \subseteq Accepted' /\ r \in Accepted'
        BY <3>1, <3>2 DEF Accepted, ToSet
      <3>4. \A i \in 1 .. Len(rcpts') : rcpts'[i] \in Undecided
        BY <3>1, <3>2, <1>2 DEF ToldInv, RcptInv
      <3> QED
        BY <3>3, <3>4, <2>1
    <2>2. CASE rcpts' = rcpts /\ \E e \in Errors : errs' = Failed({r}, e)
      <3>1. PICK e \in Errors : errs' = Failed({r}, e)
        BY <2>2
      <3>2. e \in Outcomes /\ e # "none"
        BY DEF Outcomes, Errors
      <3>3. \A n \in Names : errs'[n] = IF n \in {r} THEN e ELSE errs[n]
        BY <3>1, <3>2, <1>5, FailedIs
      <3> QED
        BY <3>2, <3>3, <2>2, <1>2, <1>4 DEF Accepted, ToldInv, RcptInv
    <2> QED
      BY <2>1, <2>2, <1>3
  <1>7. RcptInv'
    <2>1. todo' \subseteq Undecided
      BY <1>1 DEF ToldInv, RcptInv, Checked
    <2>2. ASSUME NEW s \in Undecided \ todo'
          PROVE  s \in Accepted' \/ errs'[s] # "none"
      <3>1. CASE s = r
        BY <3>1, <1>6
      <3>2. CASE s # r
        BY <3>2, <1>1, <1>6 DEF ToldInv, RcptInv, Checked
      <3> QED
        BY <3>1, <3>2
    <2> QED
      BY <2>1, <2>2, <1>1, <1>2, <1>6 DEF RcptInv, Connecting
  <1>8. HeldInv' /\ CopyInv'
    BY <1>1, <1>2 DEF ToldInv, HeldInv, CopyInv
  <1>9. CleanInv'
    <2>1. r \notin Accepted
      BY <1>1, AcceptedIs DEF ToldInv, Inv, ListInv
    <2>2. \A s \in todo \cup Accepted : s \in Rcpts /\ errs[s] = "none"
      BY <1>1 DEF ToldInv, CleanInv, Inv, TypeInv, Accepted, ToSet
    <2>3. \A s \in todo' \cup Accepted : errs'[s] = "none"
      <3>1. ASSUME NEW e \in Errors, errs' = Failed({r}, e)
            PROVE  \A s \in Rcpts : s # r => errs'[s] = errs[s]
        <4>1. e \in Outcomes
          BY DEF Outcomes
        <4> QED
          BY <3>1, <4>1, <1>4, <1>5, FailedIs
      <3> QED
        BY <3>1, <2>1, <2>2, <1>1, <1>3
    <2>4. Accepted' = Accepted \/ (Accepted' = Accepted \cup {r} /\ errs' = errs)
      <3>1. CASE rcpts' = rcpts
        BY <3>1 DEF Accepted
      <3>2. CASE rcpts' = Append(rcpts, r) /\ errs' = errs
        <4>1. /\ Len(rcpts) \in Nat
              /\ DOMAIN rcpts = 1 .. Len(rcpts)
              /\ DOMAIN rcpts' = 1 .. Len(rcpts) + 1
              /\ \A i \in 1 .. Len(rcpts) : rcpts'[i] = rcpts[i]
              /\ rcpts'[Len(rcpts) + 1] = r
          BY <3>2, <1>5
        <4>2. \A i : i \in 1 .. Len(rcpts) + 1
                        <=> i \in 1 .. Len(rcpts) \/ i = Len(rcpts) + 1
          BY <4>1
        <4> QED
          BY <3>2, <4>1, <4>2 DEF Accepted, ToSet
      <3> QED
        BY <3>1, <3>2, <1>3
    <2> QED
      BY <2>2, <2>3, <2>4, <1>1 DEF CleanInv
  <1> QED
    BY <1>7, <1>8, <1>9 DEF ToldInv

\* The message is sent: no error means a copy, a new copy has no error or a
\* reason to be made again, and errors are only for recipients that have had
\* no answer.
LEMMA SentTold ==
    ASSUME Inv, ToldInv, pc \in {"body", "statuses"}, pc' = "sent",
           UNCHANGED <<conf, rcpts, todo, told>>, repeats \subseteq repeats',
           errs' = errs \/ \E rs : \E e \in Errors : errs' = Failed(rs, e),
           \A r \in Accepted : errs'[r] = "none" => copies'[r] > 0,
           \A r \in Rcpts : \/ copies'[r] = copies[r]
                            \/ /\ copies'[r] = copies[r] + 1
                               /\ r \in Accepted \ Passed
                               /\ r \in repeats' \/ errs'[r] = "none",
           \A r \in Rcpts : errs[r] = "none" /\ errs'[r] # "none" => r \notin Passed
    PROVE  ToldInv'
  <1>1. Undecided' = Undecided /\ Accepted' = Accepted
    BY DEF Undecided, Accepted
  <1>2. Rcpts \subseteq Names /\ Undecided \subseteq Rcpts
    BY ConfIsConf DEF Inv, TypeInv
  <1>3. Accepted \subseteq Undecided /\ Answered \subseteq Accepted
    BY AcceptedIs DEF ToldInv
  <1>4. \A r \in Undecided : errs[r] # "none" => errs'[r] # "none"
    <2>1. CASE \E rs : \E e \in Errors : errs' = Failed(rs, e)
      <3>0. PICK rs : \E e \in Errors : errs' = Failed(rs, e)
        BY <2>1
      <3>1. PICK e \in Errors : errs' = Failed(rs, e)
        BY <3>0
      <3>2. e \in Outcomes /\ e # "none"
        BY DEF Outcomes, Errors
      <3>3. \A n \in Names : errs'[n] = IF n \in rs THEN e ELSE errs[n]
        BY <3>1, <3>2, FailedIs DEF Inv, TypeInv
      <3> QED
        BY <3>2, <3>3, <1>2
    <2>2. CASE errs' = errs
      BY <2>2
    <2> QED
      BY <2>1, <2>2
  <1>5. RcptInv'
    BY <1>1, <1>4 DEF ToldInv, RcptInv, Connecting, Checked
  <1>6. copies \in [Rcpts -> Nat]
    BY DEF Inv, TypeInv
  <1>7. HeldInv'
    <2>1. \A r \in Rcpts : copies[r] > 0 => copies'[r] > 0
      BY <1>6
    <2> QED
      BY <2>1, <1>1 DEF ToldInv, HeldInv
  <1>8. ASSUME NEW r \in Accepted \ Passed, copies[r] > 0
        PROVE  r \in repeats
    <2>1. r \in Rcpts /\ r \in Undecided
      BY <1>2, <1>3
    <2>2. ~(pc = "statuses" /\ r \in Answered)
      BY <2>1 DEF Passed
    <2> QED
      BY <1>8, <2>1, <2>2 DEF ToldInv, CopyInv
  <1>9. CopyInv'
    <2>1. ASSUME NEW r \in Rcpts, copies'[r] > 1
          PROVE  r \in repeats'
      <3>1. CASE copies'[r] = copies[r]
        BY <3>1, <2>1 DEF ToldInv, CopyInv
      <3>2. CASE copies'[r] = copies[r] + 1 /\ r \in Accepted \ Passed
        BY <3>2, <2>1, <1>6, <1>8
      <3> QED
        BY <3>1, <3>2
    <2>2. ASSUME NEW r \in Undecided, copies'[r] > 0
          PROVE  r \in repeats' \/ (r \in Accepted /\ errs'[r] = "none")
      <3>1. CASE copies'[r] = copies[r]
        <4>1. r \in repeats \/ (pc = "statuses" /\ r \in Answered /\ errs[r] = "none")
          BY <3>1, <2>2 DEF ToldInv, CopyInv
        <4>2. r \in Answered /\ pc = "statuses" => r \in Passed
          BY <1>2 DEF Passed
        <4> QED
          BY <4>1, <4>2, <1>2, <1>3
      <3>2. CASE copies'[r] # copies[r]
        BY <3>2, <1>2
      <3> QED
        BY <3>1, <3>2
    <2> QED
      BY <2>1, <2>2, <1>1 DEF CopyInv
  <1>10. CleanInv'
    BY DEF CleanInv
  <1> QED
    BY <1>5, <1>7, <1>9, <1>10 DEF ToldInv

\* Body fails for all, servers having taken the message for some, who then
\* have a reason to be tried again.
LEMMA BodyFailsTold ==
    ASSUME Inv, ToldInv, pc = "body", NEW e \in Errors, BodyFails(e), conf' = conf,
           NEW took \in SUBSET Accepted, copies' = copies \/ Take(took),
           repeats' = repeats \/ repeats' = repeats \cup took,
           Take(took) => took \subseteq repeats'
    PROVE  ToldInv'
  <1>1. /\ errs' = Failed(Accepted, e) /\ pc' = "sent"
        /\ UNCHANGED <<rcpts, todo, told>>
    BY DEF BodyFails
  <1>2. e \in Outcomes /\ e # "none"
    BY DEF Outcomes, Errors
  <1>3. \A n \in Names : errs'[n] = IF n \in Accepted THEN e ELSE errs[n]
    BY <1>1, <1>2, FailedIs DEF Inv, TypeInv
  <1>4. Rcpts \subseteq Names /\ Accepted \subseteq Rcpts /\ Passed = {}
    BY ConfIsConf DEF Inv, TypeInv, Accepted, ToSet, Passed
  <1>5. \A r \in Rcpts : \/ copies'[r] = copies[r]
                         \/ /\ copies'[r] = copies[r] + 1
                            /\ r \in Accepted \ Passed
                            /\ r \in repeats'
    <2>1. CASE copies' = copies
      BY <2>1
    <2>2. CASE Take(took)
      BY <2>2, <1>4, TakeIs DEF Inv
    <2> QED
      BY <2>1, <2>2
  <1> QED
    BY <1>1, <1>2, <1>3, <1>4, <1>5, SentTold

\* The steps that send the message.
LEMMA BodyTold ==
    ASSUME AnswersNamed, Inv, ToldInv,
           BodyOpenFails \/ DataFails \/ Data \/ smtpToLMTPData
    PROVE  ToldInv'
  <1>1. pc = "body" /\ conf' = conf
    BY DEF BodyOpenFails, DataFails, Data, smtpToLMTPData
  <1>2. /\ "temp" \in Errors /\ \A e \in LostClasses : e \in Errors
        /\ \A e \in Replies : wrapClientErr(e) \in Errors
    BY WrapIsError DEF Errors, LostClasses
  <1>3. Rcpts \subseteq Names /\ Accepted \subseteq Rcpts /\ Passed = {}
    BY <1>1, ConfIsConf DEF Inv, TypeInv, Accepted, ToSet, Passed
  <1>4. \* everybody has a copy
        ASSUME pc' = "sent", UNCHANGED callVars, repeats' = repeats, Take(Accepted)
        PROVE  ToldInv'
    <2>1. UNCHANGED <<rcpts, todo, told, errs>>
      BY <1>4 DEF callVars
    <2>2. \A r \in Rcpts : errs'[r] = errs[r]
      BY <2>1
    <2>3. \A r \in Accepted : errs[r] = "none" => copies'[r] > 0
      BY <1>3, <1>4, TakeIs DEF Inv, TypeInv
    <2>4. \A r \in Accepted : errs'[r] = "none"
      BY <1>1, <2>1 DEF ToldInv, CleanInv
    <2>5. \A r \in Rcpts : \/ copies'[r] = copies[r]
                           \/ /\ copies'[r] = copies[r] + 1
                              /\ r \in Accepted \ Passed
                              /\ errs'[r] = "none"
      BY <1>3, <1>4, <2>4, TakeIs DEF Inv
    <2> QED
      BY <2>1, <2>2, <2>3, <2>5, <1>1, <1>4, SentTold
  <1>5. CASE BodyOpenFails \/ DataFails
    <2>1. (\E e \in Errors : BodyFails(e)) /\ UNCHANGED <<copies, repeats>>
      BY <1>5, <1>2 DEF BodyOpenFails, DataFails, histVars
    <2>2. {} \in SUBSET Accepted
      OBVIOUS
    <2> QED
      BY <2>1, <2>2, <1>1, BodyFailsTold
  <1>6. CASE Data
    <2>1. CASE Take(Accepted) /\ pc' = "sent" /\ UNCHANGED <<callVars, repeats>>
      BY <2>1, <1>4
    <2>2. CASE (\E e \in Errors : BodyFails(e)) /\ UNCHANGED <<copies, repeats>>
      <3>1. {} \in SUBSET Accepted /\ {} \subseteq repeats'
        OBVIOUS
      <3> QED
        BY <2>2, <3>1, <1>1, BodyFailsTold
    <2>3. CASE /\ \E e \in Errors : BodyFails(e)
               /\ Take(Accepted)
               /\ repeats' = repeats \cup Accepted
      <3>1. Accepted \in SUBSET Accepted /\ Accepted \subseteq repeats'
        BY <2>3
      <3> QED
        BY <2>3, <3>1, <1>1, <1>2, BodyFailsTold
    <2> QED
      BY <2>1, <2>2, <2>3, <1>2, <1>6 DEF Data
  <1>7. CASE smtpToLMTPData
    <2>1. ASSUME NEW took \in SUBSET Accepted, NEW e \in Errors,
                 Take(took), BodyFails(e), repeats' = repeats \cup took
          PROVE  ToldInv'
      <3>1. took \subseteq repeats'
        BY <2>1
      <3> QED
        BY <2>1, <3>1, <1>1, BodyFailsTold
    <2>2. ASSUME NEW answers \in [Accepted -> {"ok"} \cup Replies],
                 LET took == {r \in Accepted : answers[r] = "ok"}
                     e == singleError(lmtpError(answers))
                 IN
                 /\ Take(took)
                 /\ IF e = "none"
                    THEN /\ pc' = "sent"
                         /\ UNCHANGED <<at, callVars, repeats>>
                    ELSE BodyFails(e) /\ repeats' = repeats \cup took
          PROVE  ToldInv'
      <3> DEFINE took == {r \in Accepted : answers[r] = "ok"}
                 e == singleError(lmtpError(answers))
      <3>1. e \in Outcomes /\ (e = "none" => took = Accepted)
        <4>1. /\ lmtpError(answers) \in [Wired -> {"ok"} \cup Replies]
              /\ \A r \in Accepted : lmtpError(answers)[WireName(r)] = answers[r]
          BY <1>7, LastAnswers, OwnAnswers DEF Inv, ToldInv, smtpToLMTPData
        <4>2. /\ e \in Outcomes
              /\ e = "none" => \A n \in Wired : lmtpError(answers)[n] = "ok"
          BY <4>1, SingleErrorIs
        <4>3. \A r \in Accepted : WireName(r) \in Wired
          BY DEF Wired
        <4> QED
          BY <4>1, <4>2, <4>3
      <3>2. CASE e = "none"
        BY <3>1, <3>2, <2>2, <1>4
      <3>3. CASE e # "none"
        <4>1. e \in Errors /\ took \in SUBSET Accepted
          BY <3>1, <3>3 DEF Outcomes
        <4>2. Take(took) /\ BodyFails(e) /\ repeats' = repeats \cup took
          BY <3>3, <2>2
        <4> HIDE DEF e, took
        <4> QED
          BY <4>1, <4>2, <2>1
      <3> QED
        BY <3>2, <3>3
    <2> QED
      BY <2>1, <2>2, <1>2, <1>7 DEF smtpToLMTPData
  <1> QED
    BY <1>5, <1>6, <1>7

\* LMTPData fails before an answer or between two.
LEMMA StatusesFailTold ==
    ASSUME Inv, ToldInv, LMTPDataFails \/ LMTPLost
    PROVE  ToldInv'
  <1>1. pc = "statuses" /\ conf' = conf
    BY DEF LMTPDataFails, LMTPLost
  <1>2. PICK e \in Errors : StatusesFail(e)
    BY WrapIsError DEF LMTPDataFails, LMTPLost, Errors, LostClasses
  <1>3. e \in Outcomes /\ e # "none"
    BY DEF Outcomes, Errors
  <1>4. /\ pc' = "sent" /\ UNCHANGED <<rcpts, todo, told>>
        /\ errs' = Failed(Rest(rcptIndx), e)
    BY <1>2 DEF StatusesFail
  <1>5. \A n \in Names : errs'[n] = IF n \in Rest(rcptIndx) THEN e ELSE errs[n]
    BY <1>3, <1>4, FailedIs DEF Inv, TypeInv
  <1>6. Rcpts \subseteq Names
    BY ConfIsConf DEF Inv, TypeInv
  <1>7. PICK took \in SUBSET Rest(rcptIndx) :
            /\ repeats' = repeats \cup took
            /\ copies' = copies \/ Take(took)
    <2>1. CASE LMTPDataFails
      <3>1. {} \in SUBSET Rest(rcptIndx) /\ repeats' = repeats \cup {} /\ copies' = copies
        BY <2>1 DEF LMTPDataFails
      <3> QED
        BY <3>1
    <2>2. CASE LMTPLost
      BY <2>2 DEF LMTPLost, Rest
    <2> QED
      BY <2>1, <2>2
  <1>8. \A r \in Rcpts : \/ copies'[r] = copies[r]
                         \/ copies'[r] = copies[r] + 1 /\ r \in took
    BY <1>7, TakeIs DEF Inv
  <1>9. \A r \in Rest(rcptIndx) : r \in Accepted \ Passed /\ r \in Rcpts
    BY <1>1, RestIs
  <1>10. \A r \in Accepted : errs'[r] = "none" => copies'[r] > 0
    <2>1. ASSUME NEW r \in Accepted, errs'[r] = "none"
          PROVE  copies'[r] > 0
      <3>1. r \in Answered /\ r \in Rcpts /\ errs[r] = "none"
        BY <2>1, <1>1, <1>3, <1>5, <1>6, RestIs
      <3>2. copies[r] > 0
        BY <3>1, <1>1 DEF ToldInv, HeldInv
      <3> QED
        BY <3>1, <3>2, <1>8 DEF Inv, TypeInv
    <2> QED
      BY <2>1
  <1>11. \A r \in Rcpts : errs[r] = "none" /\ errs'[r] # "none" => r \notin Passed
    BY <1>5, <1>6, <1>9
  <1>12. \A r \in Rcpts : \/ copies'[r] = copies[r]
                          \/ /\ copies'[r] = copies[r] + 1
                             /\ r \in Accepted \ Passed
                             /\ r \in repeats'
    BY <1>7, <1>8, <1>9
  <1>13. \E rs : \E err \in Errors : errs' = Failed(rs, err)
    BY <1>4
  <1>14. repeats \subseteq repeats'
    BY <1>7
  <1> QED
    BY <1>1, <1>4, <1>10, <1>11, <1>12, <1>13, <1>14, SentTold

\* The answer for one recipient.
LEMMA LMTPStatusTold ==
    ASSUME AnswersNamed, Inv, ToldInv, LMTPStatus
    PROVE  ToldInv'
  <1> DEFINE r == rcpts[rcptIndx + 1]
  <1>1. /\ pc = "statuses" /\ rcptIndx < Len(rcpts)
        /\ rcptIndx' = rcptIndx + 1
        /\ pc' = IF rcptIndx' = Len(rcpts) THEN "sent" ELSE pc
        /\ UNCHANGED <<conf, rcpts, todo, told, repeats>>
    BY DEF LMTPStatus
  <1>2. \/ Take({r}) /\ errs' = errs
        \/ /\ \E e \in {"temp", "perm"} : errs' = Failed({WireName(r)}, e)
           /\ copies' = copies
    BY DEF LMTPStatus
  <1>3. /\ Len(rcpts) \in Nat /\ rcptIndx \in Nat
        /\ rcptIndx + 1 \in 1 .. Len(rcpts)
    BY <1>1 DEF Inv, TypeInv
  <1>4. r \in Accepted /\ r \notin Answered
    <2>1. \A j \in 1 .. rcptIndx : j \in 1 .. Len(rcpts) /\ j # rcptIndx + 1
      BY <1>3
    <2> QED
      BY <2>1, <1>3 DEF Accepted, Answered, ToSet, Inv, TypeInv, ListInv
  <1>5. Answered' = Answered \cup {r}
    <2>1. \A j : j \in 1 .. rcptIndx + 1 <=> j \in 1 .. rcptIndx \/ j = rcptIndx + 1
      BY <1>3
    <2> QED
      BY <2>1, <1>1 DEF Answered
  <1>6. pc' = "sent" => Accepted = Answered'
    BY <1>1, <1>3, AcceptedIs DEF Answered, ToldInv
  <1> HIDE DEF r
  <1>7. /\ Accepted \subseteq Undecided /\ Answered \subseteq Accepted
        /\ Undecided \subseteq Rcpts /\ Rcpts \subseteq Names
    BY AcceptedIs, ConfIsConf DEF ToldInv, Inv, TypeInv
  <1>8. WireName(r) = r
    <2>1. conf \in Confs /\ conf.lmtp /\ conf.partial
      BY <1>1 DEF Inv, TypeInv, ListInv
    <2>2. r \in conf.to
      BY <1>4, <1>7 DEF Undecided
    <2> QED
      BY <2>1, <2>2 DEF AnswersNamed, WireName
  <1>9. Undecided' = Undecided /\ Accepted' = Accepted
    BY <1>1 DEF Undecided, Accepted
  <1>10. errs[r] = "none"
    BY <1>1, <1>4 DEF ToldInv, CleanInv
  <1>11. /\ \A s \in Rcpts : s # r => copies'[s] = copies[s] /\ errs'[s] = errs[s]
         /\ \/ copies'[r] = copies[r] + 1 /\ errs'[r] = "none"
            \/ copies'[r] = copies[r] /\ errs'[r] # "none"
    <2>1. CASE Take({r}) /\ errs' = errs
      BY <2>1, <1>4, <1>7, <1>10, TakeIs DEF Inv
    <2>2. CASE /\ \E e \in {"temp", "perm"} : errs' = Failed({WireName(r)}, e)
               /\ copies' = copies
      <3>1. PICK e \in {"temp", "perm"} : errs' = Failed({r}, e)
        BY <2>2, <1>8
      <3>2. e \in Outcomes /\ e # "none"
        BY DEF Outcomes, Errors
      <3>3. \A n \in Names : errs'[n] = IF n \in {r} THEN e ELSE errs[n]
        BY <3>1, <3>2, FailedIs DEF Inv, TypeInv
      <3> QED
        BY <2>2, <3>2, <3>3, <1>4, <1>7
    <2> QED
      BY <2>1, <2>2, <1>2
  <1>12. RcptInv'
    <2>1. \A s \in Undecided \ todo : s \in Accepted \/ errs'[s] # "none"
      BY <1>1, <1>4, <1>7, <1>11 DEF ToldInv, RcptInv, Checked
    <2> QED
      BY <2>1, <1>1, <1>9 DEF ToldInv, RcptInv, Connecting, Checked
  <1>13. copies \in [Rcpts -> Nat] /\ r \in Rcpts
    BY <1>4, <1>7 DEF Inv, TypeInv
  <1>14. HeldInv'
    <2>1. \A s \in Answered' : errs'[s] = "none" => copies'[s] > 0
      BY <1>1, <1>5, <1>7, <1>11, <1>13 DEF ToldInv, HeldInv
    <2>2. \A s \in Rcpts : copies[s] > 0 => copies'[s] > 0
      BY <1>11, <1>13
    <2> QED
      BY <2>1, <2>2, <1>1, <1>6, <1>9 DEF ToldInv, HeldInv
  <1>15. CopyInv'
    <2>1. copies[r] > 0 => r \in repeats
      BY <1>1, <1>4, <1>7 DEF ToldInv, CopyInv
    <2>2. ASSUME NEW s \in Rcpts, copies'[s] > 1
          PROVE  s \in repeats'
      BY <2>1, <2>2, <1>1, <1>11, <1>13 DEF ToldInv, CopyInv
    <2>3. ASSUME NEW s \in Undecided, copies'[s] > 0
          PROVE  s \in repeats' \/ (s \in Answered' /\ errs'[s] = "none")
      <3>1. CASE s = r
        BY <3>1, <2>1, <2>3, <1>1, <1>5, <1>11
      <3>2. CASE s # r
        BY <3>2, <2>3, <1>1, <1>5, <1>7, <1>11 DEF ToldInv, CopyInv
      <3> QED
        BY <3>1, <3>2
    <2> QED
      BY <2>2, <2>3, <1>1, <1>6, <1>9 DEF CopyInv
  <1>16. CleanInv'
    <2>1. \A s \in Accepted \ Answered' : errs'[s] = "none"
      BY <1>1, <1>5, <1>7, <1>11 DEF ToldInv, CleanInv
    <2> QED
      BY <2>1, <1>1, <1>9 DEF CleanInv
  <1> QED
    BY <1>12, <1>14, <1>15, <1>16 DEF ToldInv

\* Abort, and the Commit that deliver may end with.
LEMMA FinishTold ==
    ASSUME Inv, ToldInv, NoneAccepted \/ AbortAll \/ Commit
    PROVE  ToldInv'
  <1>1. errs \in [Names -> Outcomes] /\ Rcpts \subseteq Names
        /\ Undecided \subseteq Rcpts
    BY ConfIsConf DEF Inv, TypeInv
  <1>2. CASE NoneAccepted \/ AbortAll
    <2>1. /\ pc \in {"open", "sent"} /\ Abort
          /\ UNCHANGED <<conf, copies, histVars>>
      BY <1>2 DEF NoneAccepted, AbortAll
    <2>2. \A r \in Undecided : errs[r] # "none"
      <3>1. CASE NoneAccepted
        BY <3>1 DEF NoneAccepted, ToldInv, RcptInv, Checked, Accepted, ToSet
      <3>2. CASE AbortAll
        BY <3>2 DEF AbortAll, AllFailed, ToldInv, RcptInv, Checked
      <3> QED
        BY <1>2, <3>1, <3>2
    <2>3. \A r \in Undecided : copies[r] > 0 => r \in repeats'
      BY <2>1, <2>2 DEF ToldInv, CopyInv, histVars
    <2> QED
      BY <2>1, <2>2, <2>3, <1>1, EndAttemptTold DEF Abort, histVars
  <1>3. CASE Commit
    <2>1. pc = "sent" /\ UNCHANGED <<conf, copies>>
      BY <1>3 DEF Commit
    <2>2. PICK e \in CloseResults :
            /\ EndAttempt(IF e = "none" THEN errs ELSE Failed(Accepted, e))
            /\ repeats' = IF e = "none" THEN repeats
                          ELSE repeats \cup {r \in Accepted : errs[r] = "none"}
      BY <1>3 DEF Commit
    <2>3. \A r \in Undecided : errs[r] = "none" => r \in Accepted /\ copies[r] > 0
      BY <2>1 DEF ToldInv, RcptInv, HeldInv, Checked
    <2>4. \A r \in Undecided : copies[r] > 0 => r \in repeats \/ errs[r] = "none"
      BY <2>1 DEF ToldInv, CopyInv
    <2>5. CASE e = "none"
      <3>1. EndAttempt(errs) /\ repeats' = repeats
        BY <2>2, <2>5
      <3> QED
        BY <3>1, <2>1, <2>3, <2>4, <1>1, EndAttemptTold
    <2>6. CASE e # "none"
      <3>1. e \in Outcomes /\ e # "none"
        BY <2>6 DEF CloseResults, LostClasses, Outcomes, Errors
      <3>2. EndAttempt(Failed(Accepted, e))
        BY <2>2, <2>6
      <3>3. /\ Failed(Accepted, e) \in [Names -> Outcomes]
            /\ \A n \in Names : Failed(Accepted, e)[n] = IF n \in Accepted THEN e ELSE errs[n]
        BY <3>1, <1>1, FailedIs
      <3>4. \A r \in Undecided : Failed(Accepted, e)[r] # "none"
        BY <3>1, <3>3, <2>3, <1>1
      <3>5. \A r \in Undecided : copies[r] > 0 => r \in repeats'
        BY <2>2, <2>3, <2>4, <2>6
      <3>6. repeats \subseteq repeats'
        BY <2>2
      <3> QED
        BY <3>2, <3>3, <3>4, <3>5, <3>6, <2>1, EndAttemptTold
    <2> QED
      BY <2>5, <2>6
  <1> QED
    BY <1>2, <1>3

\* Every step keeps what the caller may be told.
LEMMA ToldStep ==
    ASSUME AnswersNamed, Inv, ToldInv, [Next]_vars
    PROVE  ToldInv'
  <1>1. CASE Dial \/ Hello \/ StartTLS \/ CheckTLS \/ Auth \/ Mail
    BY <1>1, StartTold
  <1>2. CASE \E r \in Rcpts : AddRcpt(r)
    BY <1>2, AddRcptTold
  <1>3. CASE NoneAccepted \/ AbortAll \/ Commit
    BY <1>3, FinishTold
  <1>4. CASE StartBody
    <2>1. /\ pc = "open" /\ pc' \in {"statuses", "body"} /\ todo = {}
          /\ UNCHANGED <<conf, rcpts, rcptIndx, todo, errs, told, copies, repeats>>
      BY <1>4 DEF StartBody, callVars, histVars
    <2>2. rcptIndx = 0
      BY <2>1 DEF Inv, ListInv
    <2>3. Answered' = {} /\ Undecided' = Undecided /\ Accepted' = Accepted
      BY <2>1, <2>2 DEF Answered, Undecided, Accepted
    <2>4. RcptInv'
      BY <2>1, <2>3 DEF ToldInv, RcptInv, Checked, Connecting
    <2>5. CleanInv' /\ HeldInv' /\ CopyInv'
      BY <2>1, <2>3 DEF ToldInv, CleanInv, HeldInv, CopyInv
    <2> QED
      BY <2>4, <2>5 DEF ToldInv
  <1>6. CASE LMTPStatus
    BY <1>6, LMTPStatusTold
  <1>7. CASE BodyOpenFails \/ DataFails \/ Data \/ smtpToLMTPData
    BY <1>7, BodyTold
  <1>8. CASE LMTPDataFails \/ LMTPLost
    BY <1>8, StatusesFailTold
  <1>9. CASE UNCHANGED vars
    <2>1. /\ UNCHANGED <<pc, conf, rcpts, rcptIndx, todo, errs, told, copies, repeats>>
          /\ Answered' = Answered /\ Undecided' = Undecided /\ Accepted' = Accepted
      BY <1>9 DEF vars, callVars, histVars, Answered, Undecided, Accepted
    <2> QED
      BY <2>1 DEF ToldInv, RcptInv, CleanInv, HeldInv, CopyInv
  <1> QED
    BY <1>1, <1>2, <1>3, <1>4, <1>6, <1>7, <1>8, <1>9 DEF Next

\* Nothing has been told at the start.
LEMMA ToldInit ==
    ASSUME Init
    PROVE  ToldInv
  <1>1. conf.to \subseteq Rcpts
    BY ConfIsConf DEF Init
  <1>2. Undecided = todo
    BY <1>1 DEF Init, Undecided
  <1>3. RcptInv
    BY <1>2 DEF Init, RcptInv, Checked
  <1>4. CleanInv /\ HeldInv /\ CopyInv
    BY <1>1 DEF Init, CleanInv, HeldInv, CopyInv, Undecided
  <1> QED
    BY <1>3, <1>4 DEF ToldInv

\* A recipient the caller counts as delivered is one that a server holds the
\* whole message for, whatever servers answer, wherever the connection is
\* lost, and however often the caller tries: deliver and BodyNonAtomic never
\* leave a recipient without an error that has no copy.  It is for targets
\* whose answers come under the names the caller asks for.
THEOREM ToldHolds ==
    ASSUME AnswersNamed
    PROVE  Spec => []ToldIsHeld
  <1>1. Inv /\ ToldInv => ToldIsHeld
    BY DEF ToldInv, HeldInv, ToldIsHeld
  <1>2. Init => Inv /\ ToldInv
    BY InvInit, ToldInit
  <1>3. Inv /\ ToldInv /\ [Next]_vars => (Inv /\ ToldInv)'
    BY InvStep, ToldStep
  <1> QED
    BY <1>1, <1>2, <1>3, PTL DEF Spec

\* A second copy of the message has one of the three reasons the code cannot
\* avoid: a lost answer, a failed close after success, or one result for all
\* recipients.  An error of somebody else never makes the caller repeat a
\* delivery that has succeeded.
THEOREM CopiesHaveReasons ==
    ASSUME AnswersNamed
    PROVE  Spec => []NoNeedlessCopy
  <1>1. Inv /\ ToldInv => NoNeedlessCopy
    BY DEF ToldInv, CopyInv, NoNeedlessCopy
  <1>2. Init => Inv /\ ToldInv
    BY InvInit, ToldInit
  <1>3. Inv /\ ToldInv /\ [Next]_vars => (Inv /\ ToldInv)'
    BY InvStep, ToldStep
  <1> QED
    BY <1>1, <1>2, <1>3, PTL DEF Spec
=============================================================================
