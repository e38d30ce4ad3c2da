------------------------- MODULE SmtpSessionProofs -------------------------
(***************************************************************************)
(* Proofs about SmtpSession, for any number of sessions, any lists of      *)
(* limiters and any mix of endpoint settings: where authentication is      *)
(* required, nothing is started before it; and each concurrency limiter    *)
(* counts exactly the sessions that hold it.                               *)
(***************************************************************************)
EXTENDS SmtpSession, FiniteSetTheorems, TLAPS

\* The session has begun something that must not begin before AUTH.
Engaged(s) ==
    \/ tx[s] # "none"
    \/ del[s] # NoDelivery
    \/ pc[s] \in {"taking", "rcpt", "body", "commit", "failed", "committed"}
    \/ req[s].verb \in {"RCPT", "DATA"}

\* What the variables are functions of; del takes its values from Limits and
\* nothing needs to be known of them.
Shape ==
    /\ pc \in [Sessions -> PcStates]
    /\ req \in [Sessions -> [verb : Verbs, from : Addresses]]
    /\ tx \in [Sessions -> {"none", "mail", "rcpt"}]
    /\ authed \in [Sessions -> BOOLEAN]
    /\ del = [s \in Sessions |-> del[s]]

\* AUTH is served only to a session that is not authenticated, so its
\* outcome cannot take away what Engaged rests on.
AuthInv ==
    /\ Shape
    /\ \A s \in Sessions :
          /\ AuthRequired[s] /\ Engaged(s) => authed[s]
          /\ req[s].verb = "AUTH" => ~authed[s]

\* The initial state: nobody is engaged.
LEMMA AuthInvInit == Init => AuthInv
  BY SendersAssumption
     DEF Init, AuthInv, Shape, Engaged, NoReq, Verbs, PcStates

\* A step that leaves authed and every other session alone, and after which
\* the session is engaged only if it was before or is authenticated.
LEMMA StepOf ==
  ASSUME AuthInv, NEW s \in Sessions,
         Shape',
         UNCHANGED authed,
         \A x \in Sessions \ {s} : /\ pc'[x] = pc[x]
                                   /\ req'[x] = req[x]
                                   /\ tx'[x] = tx[x]
                                   /\ del'[x] = del[x],
         AuthRequired[s] /\ Engaged(s)' => Engaged(s) \/ authed[s],
         req'[s].verb = "AUTH" => ~authed[s]
  PROVE  AuthInv'
  <1> SUFFICES ASSUME NEW x \in Sessions
               PROVE  /\ AuthRequired[x] /\ Engaged(x)' => authed'[x]
                      /\ req'[x].verb = "AUTH" => ~authed'[x]
    BY DEF AuthInv
  <1>1. CASE x = s
    BY <1>1 DEF AuthInv
  <1>2. CASE x # s
    BY <1>2 DEF AuthInv, Engaged
  <1> QED  BY <1>1, <1>2

\* A client's step: a new connection, a command, Logout.
LEMMA ClientStep ==
  ASSUME AuthInv, NEW s \in Sessions, Client(s)
  PROVE  AuthInv'
  <1> USE SendersAssumption
  <1>1. CASE NewSession(s)
    <2> USE <1>1 DEF AuthInv, Shape, NewSession, Goto, PcStates
    <2>1. Shape'  OBVIOUS
    <2>2. AuthRequired[s] /\ Engaged(s)' => Engaged(s) \/ authed[s]
      BY DEF Engaged
    <2>3. req'[s].verb = "AUTH" => ~authed[s]  OBVIOUS
    <2> QED  BY <2>1, <2>2, <2>3, StepOf
  <1>2. ASSUME NEW verb \in Verbs, NEW from \in Addresses,
               Command(s, verb, from)
        PROVE  AuthInv'
    <2> USE <1>2 DEF AuthInv, Shape, Command, Goto, PcStates
    <2>0. from \in Addresses /\ [verb |-> verb, from |-> from]
                                    \in [verb : Verbs, from : Addresses]
      OBVIOUS
    <2>1. Shape'  BY <2>0
    <2>2. AuthRequired[s] /\ Engaged(s)' => Engaged(s) \/ authed[s]
      BY DEF Engaged, Verbs
    <2>3. req'[s].verb = "AUTH" => ~authed[s]  BY DEF Verbs
    <2> QED  BY <2>1, <2>2, <2>3, StepOf
  <1>3. CASE Logout(s)
    <2> USE <1>3 DEF AuthInv, Shape, Logout, EndDelivery, CleanSession, Goto,
                     PcStates
    <2>1. Shape'  OBVIOUS
    <2>2. AuthRequired[s] /\ Engaged(s)' => Engaged(s) \/ authed[s]
      BY DEF Engaged
    <2>3. req'[s].verb = "AUTH" => ~authed[s]  OBVIOUS
    <2> QED  BY <2>1, <2>2, <2>3, StepOf
  <1> QED  BY <1>1, <1>2, <1>3 DEF Client

\* A step of the endpoint: only AUTH changes authed, and only a session that
\* was engaged or is authenticated is engaged after it.
LEMMA ServeStep ==
  ASSUME AuthInv, NEW s \in Sessions, Serve(s)
  PROVE  AuthInv'
  <1> USE SendersAssumption
  <1>1. CASE AuthPlain(s)
    <2> USE <1>1 DEF AuthInv, Shape, AuthPlain, Serving, Return, Goto, NoReq,
                     PcStates
    <2>1. Shape'  BY DEF Verbs
    <2>2. ~authed[s]  OBVIOUS
    <2>3. Engaged(s)' => Engaged(s)
      BY DEF Engaged
    <2>4. ASSUME NEW x \in Sessions
          PROVE  /\ AuthRequired[x] /\ Engaged(x)' => authed'[x]
                 /\ req'[x].verb = "AUTH" => ~authed'[x]
      <3>1. CASE x = s
        BY <2>2, <2>3, <3>1
      <3>2. CASE x # s
        <4>1. authed'[x] = authed[x] /\ req'[x] = req[x]
          BY <3>2
        <4>2. Engaged(x)' => Engaged(x)
          BY <3>2 DEF Engaged
        <4> QED  BY <4>1, <4>2
      <3> QED  BY <3>1, <3>2
    <2> QED  BY <2>1, <2>4
  <1>2. CASE Reset(s)
    <2> USE <1>2 DEF AuthInv, Shape, Serving, Reset, EndDelivery, CleanSession,
                     Return, Goto, NoReq, PcStates
    <2>1. Shape'  BY DEF Verbs
    <2>2. AuthRequired[s] /\ Engaged(s)' => Engaged(s) \/ authed[s]
      BY DEF Engaged, Verbs
    <2>3. req'[s].verb = "AUTH" => ~authed[s]  OBVIOUS
    <2> QED  BY <2>1, <2>2, <2>3, StepOf
  <1>3. CASE Mail(s)
    <2> USE <1>3 DEF AuthInv, Shape, Serving, Mail, StartDelivery, StartFails,
                     Return, Goto, NoReq, PcStates
    <2>a. NoReq \in [verb : Verbs, from : Addresses]  BY DEF Verbs
    <2>b. pc' \in [Sessions -> PcStates]
      <3>1. \/ pc' = [pc EXCEPT ![s] = "taking"]
            \/ pc' = [pc EXCEPT ![s] = "closed"]
            \/ pc' = [pc EXCEPT ![s] = "idle"]
        OBVIOUS
      <3>2. pc \in [Sessions -> PcStates]  OBVIOUS
      <3> QED  BY ONLY <3>1, <3>2 DEF PcStates
    <2>c. req' \in [Sessions -> [verb : Verbs, from : Addresses]]  BY <2>a
    <2>d. tx' \in [Sessions -> {"none", "mail", "rcpt"}]  OBVIOUS
    <2>e. del' = [x \in Sessions |-> del'[x]]  OBVIOUS
    <2>1. Shape'  BY <2>b, <2>c, <2>d, <2>e
    <2>2. AuthRequired[s] /\ Engaged(s)' => Engaged(s) \/ authed[s]
      BY DEF Engaged, Verbs
    <2>3. req'[s].verb = "AUTH" => ~authed[s]  OBVIOUS
    <2> QED  BY <2>1, <2>2, <2>3, StepOf
  <1>4. CASE Rcpt(s)
    <2> USE <1>4 DEF AuthInv, Shape, Serving, Rcpt, StartDelivery, StartFails,
                     Return, Goto, NoReq, PcStates
    <2>a. NoReq \in [verb : Verbs, from : Addresses]  BY DEF Verbs
    <2>b. pc' \in [Sessions -> PcStates]  OBVIOUS
    <2>c. req' \in [Sessions -> [verb : Verbs, from : Addresses]]  BY <2>a
    <2>d. tx' \in [Sessions -> {"none", "mail", "rcpt"}]  OBVIOUS
    <2>e. del' = [x \in Sessions |-> del'[x]]  OBVIOUS
    <2>1. Shape'  BY <2>b, <2>c, <2>d, <2>e
    <2>2. AuthRequired[s] /\ Engaged(s)' => Engaged(s) \/ authed[s]
      BY DEF Engaged, Verbs
    <2>3. req'[s].verb = "AUTH" => ~authed[s]  OBVIOUS
    <2> QED  BY <2>1, <2>2, <2>3, StepOf
  <1>5. CASE LimitTimeout(s)
    <2> USE <1>5 DEF AuthInv, Shape, LimitTimeout, StartFails, Panic,
                     Return, Goto, NoReq, PcStates
    <2>a. NoReq \in [verb : Verbs, from : Addresses]  BY DEF Verbs
    <2>b. pc' \in [Sessions -> PcStates]  OBVIOUS
    <2>c. req' \in [Sessions -> [verb : Verbs, from : Addresses]]  BY <2>a
    <2>d. tx' = tx /\ authed' = authed /\ del' = del  OBVIOUS
    <2>1. Shape'  BY <2>b, <2>c, <2>d
    <2>2. AuthRequired[s] /\ Engaged(s)' => Engaged(s) \/ authed[s]
      BY DEF Engaged, Verbs
    <2>3. req'[s].verb = "AUTH" => ~authed[s]  OBVIOUS
    <2> QED  BY <2>1, <2>2, <2>3, StepOf
  <1>6. CASE LimitPanic(s)
    <2> USE <1>6 DEF AuthInv, Shape, LimitPanic, Panic, Goto, NoReq, PcStates
    <2>a. NoReq \in [verb : Verbs, from : Addresses]  BY DEF Verbs
    <2>b. pc' \in [Sessions -> PcStates]  OBVIOUS
    <2>c. req' \in [Sessions -> [verb : Verbs, from : Addresses]]  BY <2>a
    <2>d. tx' = tx /\ authed' = authed /\ del' = del  OBVIOUS
    <2>1. Shape'  BY <2>b, <2>c, <2>d
    <2>2. AuthRequired[s] /\ Engaged(s)' => Engaged(s) \/ authed[s]
      BY DEF Engaged, Verbs
    <2>3. req'[s].verb = "AUTH" => ~authed[s]  OBVIOUS
    <2> QED  BY <2>1, <2>2, <2>3, StepOf
  <1>7. CASE PipelineStart(s)
    <2> USE <1>7 DEF AuthInv, Shape, PipelineStart, StartFails, Return,
                     Goto, NoReq, PcStates
    <2>a. NoReq \in [verb : Verbs, from : Addresses]  BY DEF Verbs
    <2>b. pc' \in [Sessions -> PcStates]  OBVIOUS
    <2>c. req' \in [Sessions -> [verb : Verbs, from : Addresses]]  BY <2>a
    <2>d. tx' \in [Sessions -> {"none", "mail", "rcpt"}]  OBVIOUS
    <2>e. del' = [x \in Sessions |-> del'[x]]  OBVIOUS
    <2>1. Shape'  BY <2>b, <2>c, <2>d, <2>e
    <2>2. AuthRequired[s] /\ Engaged(s)' => Engaged(s) \/ authed[s]
      BY DEF Engaged, Verbs
    <2>3. req'[s].verb = "AUTH" => ~authed[s]  OBVIOUS
    <2> QED  BY <2>1, <2>2, <2>3, StepOf
  <1>8. CASE AddRcpt(s)
    <2> USE <1>8 DEF AuthInv, Shape, AddRcpt, Return, Goto, NoReq, PcStates
    <2>1. Shape'  BY DEF Verbs
    <2>2. AuthRequired[s] /\ Engaged(s)' => Engaged(s) \/ authed[s]
      BY DEF Engaged, Verbs
    <2>3. req'[s].verb = "AUTH" => ~authed[s]  OBVIOUS
    <2>4. \A x \in Sessions \ {s} : /\ pc'[x] = pc[x]
                                    /\ req'[x] = req[x]
                                    /\ tx'[x] = tx[x]
                                    /\ del'[x] = del[x]
      OBVIOUS
    <2>5. UNCHANGED authed  OBVIOUS
    <2> HIDE <1>8 DEF AuthInv, Shape
    <2> QED  BY <2>1, <2>2, <2>3, <2>4, <2>5, StepOf
  <1>9. CASE Data(s)
    <2> USE <1>9 DEF AuthInv, Shape, Serving, Data, Panic, ThenReset,
                     Goto, NoReq, PcStates
    <2>a. /\ NoReq \in [verb : Verbs, from : Addresses]
          /\ [verb |-> "RSET", from |-> Null]
                \in [verb : Verbs, from : Addresses]
      BY DEF Verbs
    <2>b. pc' \in [Sessions -> PcStates]  OBVIOUS
    <2>c. req' \in [Sessions -> [verb : Verbs, from : Addresses]]  BY <2>a
    <2>d. tx' \in [Sessions -> {"none", "mail", "rcpt"}]  OBVIOUS
    <2>e. del' = [x \in Sessions |-> del'[x]]  OBVIOUS
    <2>1. Shape'  BY <2>b, <2>c, <2>d, <2>e
    <2>2. AuthRequired[s] /\ Engaged(s)' => Engaged(s) \/ authed[s]
      BY DEF Engaged, Verbs
    <2>3. req'[s].verb = "AUTH" => ~authed[s]  OBVIOUS
    <2> QED  BY <2>1, <2>2, <2>3, StepOf
  <1>10. CASE Body(s)
    <2> USE <1>10 DEF AuthInv, Shape, Body, Goto, PcStates
    <2>1. Shape'  BY DEF Verbs
    <2>2. AuthRequired[s] /\ Engaged(s)' => Engaged(s) \/ authed[s]
      BY DEF Engaged, Verbs
    <2>3. req'[s].verb = "AUTH" => ~authed[s]  OBVIOUS
    <2> QED  BY <2>1, <2>2, <2>3, StepOf
  <1>11. CASE Commit(s)
    <2> USE <1>11 DEF AuthInv, Shape, Commit, Goto, PcStates
    <2>1. Shape'  BY DEF Verbs
    <2>2. AuthRequired[s] /\ Engaged(s)' => Engaged(s) \/ authed[s]
      BY DEF Engaged, Verbs
    <2>3. req'[s].verb = "AUTH" => ~authed[s]  OBVIOUS
    <2> QED  BY <2>1, <2>2, <2>3, StepOf
  <1>12. CASE DataCleanup(s)
    <2> USE <1>12 DEF AuthInv, Shape, DataCleanup, CleanSession, ThenReset,
                      Goto, PcStates
    <2>1. Shape'  BY DEF Verbs
    <2>2. AuthRequired[s] /\ Engaged(s)' => Engaged(s) \/ authed[s]
      BY DEF Engaged, Verbs
    <2>3. req'[s].verb = "AUTH" => ~authed[s]  OBVIOUS
    <2> QED  BY <2>1, <2>2, <2>3, StepOf
  <1>13. CASE TakeLimits(s)
    BY <1>13 DEF AuthInv, Shape, Engaged, TakeLimits, sessVars
  <1> QED
    BY <1>1, <1>2, <1>3, <1>4, <1>5, <1>6, <1>7, <1>8, <1>9, <1>10,
       <1>11, <1>12, <1>13
    DEF Serve

\* Every step keeps AuthInv.
LEMMA AuthInvNext == AuthInv /\ [Next]_vars => AuthInv'
  <1> SUFFICES ASSUME AuthInv, [Next]_vars PROVE AuthInv'
    OBVIOUS
  <1>1. ASSUME NEW s \in Sessions, Client(s) \/ Serve(s) PROVE AuthInv'
    BY <1>1, ClientStep, ServeStep
  <1>2. CASE FillRate
    BY <1>2 DEF AuthInv, Shape, Engaged, FillRate, sessVars
  <1>3. CASE UNCHANGED vars
    BY <1>3 DEF AuthInv, Shape, Engaged, vars, sessVars
  <1> QED  BY <1>1, <1>2, <1>3 DEF Next

\* Where an endpoint requires authentication, s.delivery is set only for
\* sessions that have authenticated: Rcpt and Data do not ask again, and are
\* protected by Mail's check and the order of commands, even when a Logout
\* overtakes them.
THEOREM AuthBeforeDeliveryHolds == Spec => []AuthBeforeDelivery
  <1>1. AuthInv => AuthBeforeDelivery
    BY DEF AuthInv, Engaged, AuthBeforeDelivery
  <1> QED  BY <1>1, AuthInvInit, AuthInvNext, PTL DEF Spec

-----------------------------------------------------------------------------
(***************************************************************************)
(* The limits.  TakeMsg goes through MsgSteps, ReleaseMsg goes by the keys *)
(* it is given.  That the two agree rests on four things: what is left of  *)
(* a call is an end of MsgSteps, so that what it took is what a time-out   *)
(* gives back; the keys of a release are the ones of the take; the buckets *)
(* of what is held exist; and a session never starts while it holds.       *)
(***************************************************************************)

\* The limits are released by s.mailFrom, and MAIL stores it as the client
\* spelt it.  Where MAIL starts the delivery, the spelling has to be the
\* canonical one.
SpeltClean ==
    \A s \in Sessions : ~Deferred[s] =>
        \A a \in Senders[s] : CleanDomain[a] \in {a, Invalid}

\* A step that is still to come in the call of s.
Ahead(s, p) == \E i \in DOMAIN calls[s].todo : calls[s].todo[i] = p

\* The key of scope sc in the call of s.
CallKey(s, sc) == KeyIn(sc, calls[s].ip, calls[s].dom)

LimTypeInv ==
    /\ SessTypeOK
    /\ tokens \in [Limiters -> Int]
    /\ calls \in [Sessions -> Call]

\* What is left of a call is an end of MsgSteps.
WalkOf(s) ==
    LET gone == Len(MsgSteps) - Len(calls[s].todo)
    IN  /\ gone \in Nat
        /\ \A i \in DOMAIN calls[s].todo :
                calls[s].todo[i] = MsgSteps[gone + i]

\* Where a session is, and what its command and its call are about.
StageOf(s) ==
    /\ pc[s] = "taking" \/ ~TakeDone(s) =>
          /\ del[s] = NoDelivery
          /\ calls[s].ip = RemoteAddr[s]
          /\ calls[s].dom \in Domains
    /\ ~TakeDone(s) => pc[s] \in {"taking", "panicked", "closed"}
    /\ pc[s] = "taking" => req[s].verb \in {"MAIL", "RCPT"}
    /\ pc[s] = "taking" /\ req[s].verb = "MAIL" =>
          ~Deferred[s] /\ calls[s].dom = CleanDomain[req[s].from]
    /\ req[s].verb = "MAIL" => tx[s] = "none" /\ req[s].from \in Senders[s]
    /\ req[s].verb = "RCPT" => tx[s] # "none"
    /\ pc[s] = "rcpt" => req[s].verb = "RCPT"
    /\ pc[s] \in {"rcpt", "body", "commit", "failed", "committed"} =>
          del[s] # NoDelivery
    /\ del[s] # NoDelivery => tx[s] # "none" /\ mailFrom[s] = del[s]
    /\ del[s] = NoDelivery => mailFrom[s] \in Addresses

\* The bucket of what is held is in the set; it is never removed.
BucketOf(s) ==
    \A sc \in {"ip", "source"} : Wrapped[sc] # <<>> =>
        /\ (pc[s] = "taking" \/ ~TakeDone(s)) /\ ~Ahead(s, <<sc, 0>>) =>
              <<sc, CallKey(s, sc)>> \in buckets
        /\ del[s] # NoDelivery =>
              <<sc, KeyIn(sc, RemoteAddr[s], del[s])>> \in buckets

LimInv ==
    /\ LimTypeInv
    /\ \A s \in Sessions : WalkOf(s) /\ StageOf(s) /\ BucketOf(s)
    /\ LimitsBalanced

\* The order in which TakeMsg meets scopes and limiters.
Rank(sc) == IF sc = "all" THEN 1 ELSE IF sc = "ip" THEN 2 ELSE 3

Before(p, q) ==
    \/ Rank(p[1]) < Rank(q[1])
    \/ p[1] = q[1] /\ p[2] < q[2]

\* The lists of limiters, scope by scope.
LEMMA WrappedIs ==
  /\ Wrapped["all"] = AllL /\ Wrapped["ip"] = IpL /\ Wrapped["source"] = SourceL
  /\ \A sc \in Scopes : /\ Wrapped[sc] \in Seq(Descriptor)
                        /\ DOMAIN Wrapped[sc] = 1 .. Len(Wrapped[sc])
                        /\ Len(Wrapped[sc]) \in Nat
  BY LimitersAssumption DEF Wrapped, Scopes

\* The scope for all messages has no bucket set to look a key up in.
LEMMA WalkAll ==
  /\ Walk("all") \in Seq(Scopes \X Nat)
  /\ Len(Walk("all")) = Len(AllL)
  /\ \A i \in 1 .. Len(AllL) : Walk("all")[i] = <<"all", i>>
  <1>1. AllL \in Seq(Descriptor) /\ Len(AllL) \in Nat  BY LimitersAssumption
  <1>2. Walk("all") = [i \in 1 .. Len(AllL) |-> <<"all", i>>]
    BY WrappedIs DEF Walk
  <1>3. \A i \in 1 .. Len(AllL) : <<"all", i>> \in Scopes \X Nat
    BY <1>1 DEF Scopes
  <1> QED  BY <1>1, <1>2, <1>3

\* A keyed scope begins with the look-up, unless it has no limiters.
LEMMA WalkKeyed ==
  ASSUME NEW sc \in {"ip", "source"}
  PROVE  /\ Walk(sc) \in Seq(Scopes \X Nat)
         /\ Wrapped[sc] = <<>> => Len(Walk(sc)) = 0
         /\ Wrapped[sc] # <<>> => Len(Walk(sc)) = Len(Wrapped[sc]) + 1
         /\ \A i \in 1 .. Len(Walk(sc)) : Walk(sc)[i] = <<sc, i - 1>>
  <1> DEFINE n == Len(Wrapped[sc])
             take == [i \in 1 .. n |-> <<sc, i>>]
  <1>1. Wrapped[sc] \in Seq(Descriptor) /\ n \in Nat
    BY WrappedIs DEF Scopes
  <1>2. \A i \in 0 .. n : <<sc, i>> \in Scopes \X Nat
    BY <1>1 DEF Scopes
  <1>3. take \in Seq(Scopes \X Nat) /\ Len(take) = n
    BY <1>1, <1>2
  <1>4. CASE Wrapped[sc] = <<>>
    <2>1. n = 0  BY <1>4
    <2>2. Walk(sc) = take  BY <1>4 DEF Walk
    <2> QED  BY <1>3, <1>4, <2>1, <2>2
  <1>5. CASE Wrapped[sc] # <<>>
    <2>1. Walk(sc) = <<<<sc, 0>>>> \o take  BY <1>5 DEF Walk
    <2>2. <<<<sc, 0>>>> \in Seq(Scopes \X Nat) /\ Len(<<<<sc, 0>>>>) = 1
      BY <1>1, <1>2
    <2> HIDE DEF take
    <2>3. Walk(sc) \in Seq(Scopes \X Nat) /\ Len(Walk(sc)) = n + 1
      BY <1>1, <1>3, <2>1, <2>2
    <2>4. ASSUME NEW i \in 1 .. n + 1 PROVE Walk(sc)[i] = <<sc, i - 1>>
      <3>1. CASE i = 1
        BY <1>3, <2>1, <2>2, <3>1
      <3>2. CASE i > 1
        <4>1. Walk(sc)[i] = take[i - 1]
          BY <1>1, <1>3, <2>1, <2>2, <3>2
        <4> QED  BY <1>1, <3>2, <4>1 DEF take
      <3> QED  BY <1>1, <3>1, <3>2
    <2> QED  BY <1>5, <2>3, <2>4
  <1> QED  BY <1>4, <1>5

\* The elements of a concatenation.
LEMMA ConcatAt ==
  ASSUME NEW T, NEW x \in Seq(T), NEW y \in Seq(T)
  PROVE  /\ x \o y \in Seq(T)
         /\ Len(x \o y) = Len(x) + Len(y)
         /\ \A i \in 1 .. Len(x) : (x \o y)[i] = x[i]
         /\ \A i \in 1 .. Len(y) : (x \o y)[Len(x) + i] = y[i]
  <1>1. x \o y \in Seq(T)  OBVIOUS
  <1>2. Len(x \o y) = Len(x) + Len(y)  OBVIOUS
  <1>3. \A i \in 1 .. Len(x) : (x \o y)[i] = x[i]  OBVIOUS
  <1>4. \A i \in 1 .. Len(y) : (x \o y)[Len(x) + i] = y[i]  OBVIOUS
  <1> QED  BY <1>1, <1>2, <1>3, <1>4

\* MsgSteps by its three parts.
LEMMA StepAt ==
  LET a == Len(Walk("all"))
      b == Len(Walk("ip"))
      c == Len(Walk("source"))
  IN  /\ MsgSteps \in Seq(Scopes \X Nat)
      /\ a \in Nat /\ b \in Nat /\ c \in Nat
      /\ Len(MsgSteps) = a + b + c
      /\ \A i \in 1 .. a : MsgSteps[i] = <<"all", i>>
      /\ \A i \in 1 .. b : MsgSteps[a + i] = <<"ip", i - 1>>
      /\ \A i \in 1 .. c : MsgSteps[a + b + i] = <<"source", i - 1>>
  <1> DEFINE a == Len(Walk("all"))
             b == Len(Walk("ip"))
             c == Len(Walk("source"))
             A == Walk("all")
             B == Walk("ip")
             C == Walk("source")
             AB == A \o B
  <1>1. A \in Seq(Scopes \X Nat) /\ B \in Seq(Scopes \X Nat)
                                 /\ C \in Seq(Scopes \X Nat)
    BY WalkAll, WalkKeyed
  <1>2. a \in Nat /\ b \in Nat /\ c \in Nat
    BY <1>1
  <1>3. /\ \A i \in 1 .. a : A[i] = <<"all", i>>
        /\ \A i \in 1 .. b : B[i] = <<"ip", i - 1>>
        /\ \A i \in 1 .. c : C[i] = <<"source", i - 1>>
    BY WalkAll, WalkKeyed
  <1>4. MsgSteps = AB \o C
    BY DEF MsgSteps
  <1> HIDE DEF A, B, C
  <1>5. /\ AB \in Seq(Scopes \X Nat) /\ Len(AB) = a + b
        /\ \A i \in 1 .. a : AB[i] = A[i]
        /\ \A i \in 1 .. b : AB[a + i] = B[i]
    <2>1. Len(A) = a /\ Len(B) = b  BY DEF A, B
    <2>2. /\ A \o B \in Seq(Scopes \X Nat) /\ Len(A \o B) = Len(A) + Len(B)
          /\ \A i \in 1 .. Len(A) : (A \o B)[i] = A[i]
          /\ \A i \in 1 .. Len(B) : (A \o B)[Len(A) + i] = B[i]
      <3> HIDE DEF AB
      <3> QED  BY ONLY <1>1, ConcatAt
    <2> QED  BY <2>1, <2>2
  <1>6. Len(C) = c  BY DEF C
  <1> HIDE DEF AB, a, b, c
  <1>7. /\ MsgSteps \in Seq(Scopes \X Nat) /\ Len(MsgSteps) = a + b + c
        /\ \A i \in 1 .. a + b : MsgSteps[i] = AB[i]
        /\ \A i \in 1 .. c : MsgSteps[a + b + i] = C[i]
    <2>1. /\ AB \o C \in Seq(Scopes \X Nat) /\ Len(AB \o C) = Len(AB) + Len(C)
          /\ \A i \in 1 .. Len(AB) : (AB \o C)[i] = AB[i]
          /\ \A i \in 1 .. Len(C) : (AB \o C)[Len(AB) + i] = C[i]
      <3>1. AB \in Seq(Scopes \X Nat) /\ C \in Seq(Scopes \X Nat)
        BY <1>1, <1>5
      <3> QED  BY ONLY <3>1, ConcatAt
    <2> QED  BY <1>2, <1>4, <1>5, <1>6, <2>1
  <1>8. \A i \in 1 .. a : MsgSteps[i] = <<"all", i>>
    <2> TAKE i \in 1 .. a
    <2>1. i \in 1 .. a + b  BY <1>2
    <2>2. MsgSteps[i] = AB[i]  BY <1>7, <2>1
    <2>3. AB[i] = A[i]  BY <1>5
    <2> QED  BY <1>3, <2>2, <2>3
  <1>9. \A i \in 1 .. b : MsgSteps[a + i] = <<"ip", i - 1>>
    <2> TAKE i \in 1 .. b
    <2>1. a + i \in 1 .. a + b  BY <1>2
    <2> QED  BY <1>3, <1>5, <1>7, <2>1
  <1>10. \A i \in 1 .. c : MsgSteps[a + b + i] = <<"source", i - 1>>
    BY <1>3, <1>7
  <1> QED  BY <1>2, <1>7, <1>8, <1>9, <1>10 DEF a, b, c

\* No step comes twice: TakeMsg meets them in their order.
LEMMA InOrder ==
  ASSUME NEW i \in 1 .. Len(MsgSteps), NEW j \in 1 .. Len(MsgSteps), i < j
  PROVE  Before(MsgSteps[i], MsgSteps[j])
  <1> DEFINE a == Len(Walk("all"))
             b == Len(Walk("ip"))
             c == Len(Walk("source"))
  <1>1. /\ a \in Nat /\ b \in Nat /\ c \in Nat
        /\ Len(MsgSteps) = a + b + c
        /\ \A n \in 1 .. a : MsgSteps[n] = <<"all", n>>
        /\ \A n \in 1 .. b : MsgSteps[a + n] = <<"ip", n - 1>>
        /\ \A n \in 1 .. c : MsgSteps[a + b + n] = <<"source", n - 1>>
    BY StepAt
  <1> HIDE DEF a, b, c
  <1>2. ASSUME NEW n \in 1 .. Len(MsgSteps)
        PROVE  \/ n <= a /\ MsgSteps[n] = <<"all", n>>
               \/ n > a /\ n <= a + b /\ MsgSteps[n] = <<"ip", n - a - 1>>
               \/ n > a + b /\ MsgSteps[n] = <<"source", n - a - b - 1>>
    <2>1. CASE n <= a
      BY <1>1, <2>1
    <2>2. CASE n > a /\ n <= a + b
      <3>1. n - a \in 1 .. b /\ a + (n - a) = n  BY <1>1, <2>2
      <3> QED  BY <1>1, <2>2, <3>1
    <2>3. CASE n > a + b
      <3>1. n - a - b \in 1 .. c /\ a + b + (n - a - b) = n  BY <1>1, <2>3
      <3> QED  BY <1>1, <2>3, <3>1
    <2> QED  BY <1>1, <2>1, <2>2, <2>3
  <1>3. /\ i \in Nat /\ j \in Nat
        /\ Rank("all") = 1 /\ Rank("ip") = 2 /\ Rank("source") = 3
    BY DEF Rank
  <1>4. CASE i <= a
    <2>1. MsgSteps[i] = <<"all", i>>  BY <1>1, <1>2, <1>3, <1>4
    <2>2. MsgSteps[j][1] = "all" => MsgSteps[j][2] = j
      BY <1>2
    <2>3. MsgSteps[j][1] \in {"all", "ip", "source"}
      BY <1>2
    <2> QED  BY <1>3, <2>1, <2>2, <2>3 DEF Before
  <1>5. CASE i > a /\ i <= a + b
    <2>1. MsgSteps[i] = <<"ip", i - a - 1>>  BY <1>1, <1>2, <1>3, <1>5
    <2>2. \/ MsgSteps[j] = <<"ip", j - a - 1>>
          \/ MsgSteps[j] = <<"source", j - a - b - 1>>
      BY <1>1, <1>2, <1>3, <1>5
    <2> QED  BY <1>1, <1>3, <2>1, <2>2 DEF Before
  <1>6. CASE i > a + b
    <2>1. MsgSteps[i] = <<"source", i - a - b - 1>>
      BY <1>1, <1>2, <1>3, <1>6
    <2>2. MsgSteps[j] = <<"source", j - a - b - 1>>
      BY <1>1, <1>2, <1>3, <1>6
    <2> QED  BY <1>1, <1>3, <2>1, <2>2 DEF Before
  <1> QED  BY <1>1, <1>3, <1>4, <1>5, <1>6

\* Nothing is before itself, nor two steps before each other.
LEMMA BeforeStrict ==
  ASSUME NEW p \in Scopes \X Nat, NEW q \in Scopes \X Nat, Before(p, q)
  PROVE  p # q /\ ~Before(q, p)
  BY DEF Before, Rank, Scopes

\* The steps that take: one for each limiter of a list, and the look-up of
\* its key comes with it.
LEMMA StepsAre ==
  /\ Steps \subseteq Scopes \X Nat
  /\ \A p \in Steps : p[2] > 0 => p[2] \in DOMAIN Wrapped[p[1]]
  /\ \A p \in Steps : p[2] = 0 => p[1] \in {"ip", "source"}
  /\ \A sc \in Scopes : \A i \in DOMAIN Wrapped[sc] :
        <<sc, i>> \in Steps /\ i > 0
  /\ \A sc \in {"ip", "source"} : Wrapped[sc] # <<>> => <<sc, 0>> \in Steps
  <1> DEFINE a == Len(Walk("all"))
             b == Len(Walk("ip"))
             c == Len(Walk("source"))
  <1>1. /\ a \in Nat /\ b \in Nat /\ c \in Nat
        /\ Len(MsgSteps) = a + b + c
        /\ MsgSteps \in Seq(Scopes \X Nat)
        /\ \A n \in 1 .. a : MsgSteps[n] = <<"all", n>>
        /\ \A n \in 1 .. b : MsgSteps[a + n] = <<"ip", n - 1>>
        /\ \A n \in 1 .. c : MsgSteps[a + b + n] = <<"source", n - 1>>
    BY StepAt
  <1>2. /\ a = Len(Wrapped["all"])
        /\ Wrapped["ip"] = <<>> => b = 0
        /\ Wrapped["ip"] # <<>> => b = Len(Wrapped["ip"]) + 1
        /\ Wrapped["source"] = <<>> => c = 0
        /\ Wrapped["source"] # <<>> => c = Len(Wrapped["source"]) + 1
    BY WalkAll, WalkKeyed, WrappedIs
  <1>3. \A sc \in Scopes : /\ DOMAIN Wrapped[sc] = 1 .. Len(Wrapped[sc])
                           /\ Len(Wrapped[sc]) \in Nat
    BY WrappedIs
  <1> HIDE DEF a, b, c
  <1>4. DOMAIN MsgSteps = 1 .. Len(MsgSteps)  BY <1>1
  <1>5. /\ \A n \in 1 .. a : n \in DOMAIN MsgSteps
        /\ \A n \in 1 .. b : a + n \in DOMAIN MsgSteps
        /\ \A n \in 1 .. c : a + b + n \in DOMAIN MsgSteps
    BY <1>1, <1>4
  <1>6. ASSUME NEW p \in Steps
        PROVE  \/ p[1] = "all" /\ p[2] \in 1 .. a
               \/ p[1] = "ip" /\ p[2] + 1 \in 1 .. b /\ p[2] \in Nat
               \/ p[1] = "source" /\ p[2] + 1 \in 1 .. c /\ p[2] \in Nat
    <2>1. PICK n \in DOMAIN MsgSteps : p = MsgSteps[n]  BY DEF Steps
    <2>2. n \in Nat /\ n >= 1 /\ n <= a + b + c  BY <1>1, <1>4
    <2>3. CASE n <= a
      BY <1>1, <2>1, <2>2, <2>3
    <2>4. CASE n > a /\ n <= a + b
      <3>1. n - a \in 1 .. b /\ a + (n - a) = n  BY <1>1, <2>2, <2>4
      <3>2. p = <<"ip", n - a - 1>>  BY <1>1, <2>1, <3>1
      <3> QED  BY <3>1, <3>2, <1>1, <2>2, <2>4
    <2>5. CASE n > a + b
      <3>1. n - a - b \in 1 .. c /\ a + b + (n - a - b) = n
        BY <1>1, <2>2, <2>5
      <3>2. p = <<"source", n - a - b - 1>>  BY <1>1, <2>1, <3>1
      <3>3. PICK m \in 1 .. c : m = n - a - b  BY <3>1
      <3>4. p[1] = "source" /\ p[2] = m - 1
        BY <1>1, <2>2, <3>2, <3>3
      <3> QED  BY <1>1, <3>4
    <2> QED  BY <1>1, <2>2, <2>3, <2>4, <2>5
  <1>7. Steps \subseteq Scopes \X Nat
    BY <1>1, <1>4 DEF Steps
  <1>8. ASSUME NEW p \in Steps, p[2] > 0
        PROVE  p[2] \in DOMAIN Wrapped[p[1]]
    <2>1. CASE p[1] = "all"
      BY <1>2, <1>3, <1>6, <2>1 DEF Scopes
    <2>2. CASE p[1] = "ip"
      <3>1. p[2] + 1 \in 1 .. b /\ p[2] \in Nat  BY <1>6, <2>2
      <3>2. b = Len(Wrapped["ip"]) + 1  BY <1>1, <1>2, <3>1
      <3> QED  BY <1>3, <1>8, <2>2, <3>1, <3>2 DEF Scopes
    <2>3. CASE p[1] = "source"
      <3>1. p[2] + 1 \in 1 .. c /\ p[2] \in Nat  BY <1>6, <2>3
      <3>2. c = Len(Wrapped["source"]) + 1  BY <1>1, <1>2, <3>1
      <3> QED  BY <1>3, <1>8, <2>3, <3>1, <3>2 DEF Scopes
    <2> QED  BY <1>6, <2>1, <2>2, <2>3
  <1>9. \A p \in Steps : p[2] = 0 => p[1] \in {"ip", "source"}
    BY <1>1, <1>6
  <1>10. ASSUME NEW sc \in Scopes, NEW i \in DOMAIN Wrapped[sc]
         PROVE  <<sc, i>> \in Steps /\ i > 0
    <2>1. i \in 1 .. Len(Wrapped[sc]) /\ Len(Wrapped[sc]) \in Nat
      BY <1>3
    <2>2. CASE sc = "all"
      BY <1>1, <1>2, <1>5, <2>1, <2>2 DEF Steps
    <2>3. CASE sc = "ip"
      <3>1. Wrapped[sc] # <<>>  BY <2>1
      <3>2. i + 1 \in 1 .. b  BY <1>2, <2>1, <2>3, <3>1
      <3>3. PICK m \in 1 .. b : m = i + 1  BY <3>2
      <3>4. <<"ip", m - 1>> \in Steps  BY <1>1, <1>5 DEF Steps
      <3>5. m - 1 = i /\ i > 0  BY <2>1, <3>3
      <3> QED  BY <2>3, <3>4, <3>5
    <2>4. CASE sc = "source"
      <3>1. Wrapped[sc] # <<>>  BY <2>1
      <3>2. i + 1 \in 1 .. c  BY <1>2, <2>1, <2>4, <3>1
      <3>3. PICK m \in 1 .. c : m = i + 1  BY <3>2
      <3>4. <<"source", m - 1>> \in Steps  BY <1>1, <1>5 DEF Steps
      <3>5. m - 1 = i /\ i > 0  BY <2>1, <3>3
      <3> QED  BY <2>4, <3>4, <3>5
    <2> QED  BY <2>2, <2>3, <2>4 DEF Scopes
  <1>11. ASSUME NEW sc \in {"ip", "source"}, Wrapped[sc] # <<>>
         PROVE  <<sc, 0>> \in Steps
    <2>1. CASE sc = "ip"
      <3>1. 1 \in 1 .. b  BY <1>1, <1>2, <1>3, <1>11, <2>1 DEF Scopes
      <3>2. MsgSteps[a + 1] = <<"ip", 1 - 1>>  BY <1>1, <3>1
      <3> QED  BY <1>5, <2>1, <3>1, <3>2 DEF Steps
    <2>2. CASE sc = "source"
      <3>1. 1 \in 1 .. c  BY <1>1, <1>2, <1>3, <1>11, <2>2 DEF Scopes
      <3>2. MsgSteps[a + b + 1] = <<"source", 1 - 1>>  BY <1>1, <3>1
      <3> QED  BY <1>5, <2>2, <3>1, <3>2 DEF Steps
    <2> QED  BY <2>1, <2>2
  <1> QED  BY <1>7, <1>8, <1>9, <1>10, <1>11

\* A limiter is its scope, a key of it and a place in its list.
LEMMA LimitersAre ==
  /\ \A l \in Limiters : /\ l[1] \in Scopes
                         /\ l[2] \in Keys[l[1]]
                         /\ l[3] \in DOMAIN Wrapped[l[1]]
                         /\ l = <<l[1], l[2], l[3]>>
                         /\ <<l[1], l[3]>> \in Steps
                         /\ l[3] > 0
  /\ \A sc \in Scopes : \A k \in Keys[sc], i \in DOMAIN Wrapped[sc] :
        <<sc, k, i>> \in Limiters
  <1>1. \A sc \in Scopes : {sc} \X Keys[sc] \X DOMAIN Wrapped[sc] \subseteq Limiters
    BY DEF Limiters
  <1>2. ASSUME NEW l \in Limiters
        PROVE  /\ l[1] \in Scopes
               /\ l[2] \in Keys[l[1]]
               /\ l[3] \in DOMAIN Wrapped[l[1]]
               /\ l = <<l[1], l[2], l[3]>>
    <2>1. PICK sc \in Scopes : l \in {sc} \X Keys[sc] \X DOMAIN Wrapped[sc]
      BY DEF Limiters
    <2> QED  BY <2>1
  <1>3. \A l \in Limiters : <<l[1], l[3]>> \in Steps /\ l[3] > 0
    BY <1>2, StepsAre
  <1> QED  BY <1>1, <1>2, <1>3

\* The session holds the limiter: its call is past it, or a delivery is open.
Owns(s, l) ==
    \/ /\ pc[s] = "taking" \/ ~TakeDone(s)
       /\ l[2] = CallKey(s, l[1])
       /\ ~Ahead(s, <<l[1], l[3]>>)
    \/ del[s] # NoDelivery /\ l[2] = KeyIn(l[1], RemoteAddr[s], del[s])

\* What a call that has not returned has taken: the limiters with its keys
\* that it has not ahead of it.
LEMMA TakingMeans ==
  ASSUME NEW c, NEW l \in Limiters
  PROVE  l \in {<<p[1], KeyIn(p[1], c.ip, c.dom), p[2]>> :
                   p \in {q \in Steps : /\ c.todo # <<>>
                                        /\ q[2] > 0
                                        /\ \A i \in DOMAIN c.todo : c.todo[i] # q}}
         <=> /\ c.todo # <<>>
             /\ l[2] = KeyIn(l[1], c.ip, c.dom)
             /\ \A i \in DOMAIN c.todo : c.todo[i] # <<l[1], l[3]>>
  <1> DEFINE Past(q) == /\ c.todo # <<>>
                        /\ q[2] > 0
                        /\ \A i \in DOMAIN c.todo : c.todo[i] # q
             Lim(p) == <<p[1], KeyIn(p[1], c.ip, c.dom), p[2]>>
  <1>1. l = <<l[1], l[2], l[3]>> /\ <<l[1], l[3]>> \in Steps /\ l[3] > 0
    BY LimitersAre
  <1>2. ASSUME NEW p \in Steps, Past(p), l = Lim(p)
        PROVE  /\ c.todo # <<>>
               /\ l[2] = KeyIn(l[1], c.ip, c.dom)
               /\ \A i \in DOMAIN c.todo : c.todo[i] # <<l[1], l[3]>>
    <2>1. p = <<p[1], p[2]>>  BY StepsAre
    <2>2. l[1] = p[1] /\ l[3] = p[2] /\ l[2] = KeyIn(p[1], c.ip, c.dom)
      BY <1>2
    <2> QED  BY <1>2, <2>1, <2>2
  <1>3. ASSUME /\ c.todo # <<>>
               /\ l[2] = KeyIn(l[1], c.ip, c.dom)
               /\ \A i \in DOMAIN c.todo : c.todo[i] # <<l[1], l[3]>>
        PROVE  Past(<<l[1], l[3]>>) /\ l = Lim(<<l[1], l[3]>>)
    BY <1>1, <1>3
  <1> HIDE DEF Lim
  <1>4. l \in {Lim(p) : p \in {q \in Steps : Past(q)}}
        <=> \E p \in Steps : Past(p) /\ l = Lim(p)
    OBVIOUS
  <1>5. l \in {Lim(p) : p \in {q \in Steps : Past(q)}}
        <=> /\ c.todo # <<>>
            /\ l[2] = KeyIn(l[1], c.ip, c.dom)
            /\ \A i \in DOMAIN c.todo : c.todo[i] # <<l[1], l[3]>>
    <2> HIDE DEF Past
    <2> QED  BY <1>1, <1>2, <1>3, <1>4
  <1> QED  BY <1>5 DEF Lim

\* The same for the sessions a limiter counts, now and after a step.
LEMMA HoldMeans ==
  ASSUME NEW l \in Limiters, NEW s \in Sessions
  PROVE  /\ s \in HoldersOf(l) <=> Owns(s, l)
         /\ s \in HoldersOf(l)' <=> Owns(s, l)'
  <1>1. l \in Taking(s) <=> /\ ~TakeDone(s)
                            /\ l[2] = CallKey(s, l[1])
                            /\ ~Ahead(s, <<l[1], l[3]>>)
    BY TakingMeans DEF Taking, LimiterAt, TakeDone, CallKey, Ahead
  <1>2. l \in Taking(s)' <=> /\ ~TakeDone(s)'
                             /\ l[2] = CallKey(s, l[1])'
                             /\ ~Ahead(s, <<l[1], l[3]>>)'
    BY TakingMeans DEF Taking, LimiterAt, TakeDone, CallKey, Ahead
  <1>3. TakeDone(s) => ~Ahead(s, <<l[1], l[3]>>)
    BY DEF TakeDone, Ahead
  <1>4. TakeDone(s)' => ~Ahead(s, <<l[1], l[3]>>)'
    BY DEF TakeDone, Ahead
  <1>5. /\ l \in Holding(s) <=> l[2] = KeyIn(l[1], RemoteAddr[s], del[s])
        /\ l \in Holding(s)' <=> l[2] = KeyIn(l[1], RemoteAddr[s], del'[s])
    BY DEF Holding
  <1>6. s \in HoldersOf(l) <=> Owns(s, l)
    BY <1>1, <1>3, <1>5 DEF HoldersOf, Owns, Starting, CallKey
  <1>7. s \in HoldersOf(l)' <=> Owns(s, l)'
    BY <1>2, <1>4, <1>5 DEF HoldersOf, Owns, Starting, CallKey
  <1> QED  BY <1>6, <1>7

\* What changes in the books when s takes or returns, or does neither.
Booked(s) ==
    \A l \in Limiters : Kind(l) = "concurrency" /\ Size(l) > 0 =>
        \/ (Owns(s, l)' <=> Owns(s, l)) /\ tokens'[l] = tokens[l]
        \/ ~Owns(s, l) /\ Owns(s, l)' /\ tokens'[l] = tokens[l] + 1
        \/ Owns(s, l) /\ ~Owns(s, l)' /\ tokens'[l] = tokens[l] - 1

\* The other sessions stay as they are.
OthersSame(s) ==
    \A x \in Sessions \ {s} :
        /\ calls'[x] = calls[x]
        /\ pc'[x] = pc[x]
        /\ req'[x] = req[x]
        /\ tx'[x] = tx[x]
        /\ mailFrom'[x] = mailFrom[x]
        /\ del'[x] = del[x]

\* A step of one session keeps the invariant if it does for that session,
\* and books what it takes and returns.
LEMMA SessionStep ==
  ASSUME LimInv, NEW s \in Sessions, LimTypeInv', OthersSame(s),
         buckets \subseteq buckets',
         WalkOf(s)', StageOf(s)', BucketOf(s)', Booked(s)
  PROVE  LimInv'
  <1>1. ASSUME NEW x \in Sessions \ {s}, NEW l
        PROVE  Owns(x, l)' <=> Owns(x, l)
    BY DEF OthersSame, Owns, CallKey, Ahead, TakeDone
  <1>2. ASSUME NEW x \in Sessions \ {s}
        PROVE  WalkOf(x)' /\ StageOf(x)' /\ BucketOf(x)'
    <2>0. x \in Sessions  OBVIOUS
    <2>1. /\ calls'[x] = calls[x] /\ pc'[x] = pc[x] /\ req'[x] = req[x]
          /\ tx'[x] = tx[x] /\ mailFrom'[x] = mailFrom[x] /\ del'[x] = del[x]
      BY DEF OthersSame
    <2>2. WalkOf(x) /\ StageOf(x) /\ BucketOf(x)  BY <2>0 DEF LimInv
    <2>3. WalkOf(x)'  BY <2>1, <2>2 DEF WalkOf
    <2>4. StageOf(x)'  BY <2>1, <2>2 DEF StageOf, TakeDone
    <2>5. BucketOf(x)'
      BY <2>1, <2>2 DEF BucketOf, TakeDone, Ahead, CallKey
    <2> QED  BY <2>3, <2>4, <2>5
  <1>3. ASSUME NEW l \in Limiters, Kind(l) = "concurrency", Size(l) > 0
        PROVE  tokens'[l] = Cardinality(HoldersOf(l)')
    <2>1. /\ HoldersOf(l) \subseteq Sessions /\ HoldersOf(l)' \subseteq Sessions
          /\ IsFiniteSet(HoldersOf(l))
      <3>1. HoldersOf(l) \subseteq Sessions /\ HoldersOf(l)' \subseteq Sessions
        BY DEF HoldersOf
      <3> QED  BY <3>1, KeysAssumption, FS_Subset DEF Sessions
    <2>2. tokens[l] = Cardinality(HoldersOf(l))
      BY <1>3 DEF LimInv, LimitsBalanced
    <2>3. \A x \in Sessions \ {s} : x \in HoldersOf(l)' <=> x \in HoldersOf(l)
      BY <1>1, HoldMeans
    <2>4. /\ s \in HoldersOf(l) <=> Owns(s, l)
          /\ s \in HoldersOf(l)' <=> Owns(s, l)'
      BY HoldMeans
    <2>5. Cardinality(HoldersOf(l)) \in Nat
      BY <2>1, FS_CardinalityType
    <2>6. CASE (Owns(s, l)' <=> Owns(s, l)) /\ tokens'[l] = tokens[l]
      <3>1. HoldersOf(l)' = HoldersOf(l)
        BY <2>1, <2>3, <2>4, <2>6
      <3> QED  BY <2>2, <2>6, <3>1
    <2>7. CASE ~Owns(s, l) /\ Owns(s, l)' /\ tokens'[l] = tokens[l] + 1
      <3>1. HoldersOf(l)' = HoldersOf(l) \cup {s} /\ s \notin HoldersOf(l)
        BY <2>1, <2>3, <2>4, <2>7
      <3>2. Cardinality(HoldersOf(l) \cup {s}) = Cardinality(HoldersOf(l)) + 1
        BY <2>1, <3>1, FS_AddElement
      <3> QED  BY <2>2, <2>7, <3>1, <3>2
    <2>8. CASE Owns(s, l) /\ ~Owns(s, l)' /\ tokens'[l] = tokens[l] - 1
      <3>1. HoldersOf(l)' = HoldersOf(l) \ {s} /\ s \in HoldersOf(l)
        BY <2>1, <2>3, <2>4, <2>8
      <3>2. Cardinality(HoldersOf(l) \ {s}) = Cardinality(HoldersOf(l)) - 1
        BY <2>1, <3>1, FS_RemoveElement
      <3> QED  BY <2>2, <2>8, <3>1, <3>2
    <2> QED  BY <1>3, <2>6, <2>7, <2>8 DEF Booked
  <1>4. LimitsBalanced'
    BY <1>3 DEF LimitsBalanced, Kind, Size
  <1> QED  BY <1>2, <1>4 DEF LimInv

\* A step that leaves the limits, the delivery and whether the session is
\* taking as they were.
LEMMA LimitsStill ==
  ASSUME LimInv, NEW s \in Sessions, LimTypeInv', OthersSame(s), StageOf(s)',
         UNCHANGED limitVars, del'[s] = del[s],
         (pc'[s] = "taking" \/ ~TakeDone(s)) <=>
             (pc[s] = "taking" \/ ~TakeDone(s))
  PROVE  LimInv'
  <1>1. tokens' = tokens /\ buckets' = buckets /\ calls' = calls
    BY DEF limitVars
  <1>2. WalkOf(s)'  BY <1>1 DEF LimInv, WalkOf
  <1>3. BucketOf(s)'
    BY <1>1 DEF LimInv, BucketOf, TakeDone, Ahead, CallKey
  <1>4. \A l : Owns(s, l)' <=> Owns(s, l)
    BY <1>1 DEF Owns, TakeDone, Ahead, CallKey
  <1>5. Booked(s)  BY <1>1, <1>4 DEF Booked
  <1> QED  BY <1>1, <1>2, <1>3, <1>5, SessionStep

\* The initial state: nothing is held, and no concurrency limiter counts.
LEMMA LimInvInit == Init => LimInv
  <1> SUFFICES ASSUME Init PROVE LimInv
    OBVIOUS
  <1> USE DEF Init, LimitsInit
  <1>1. LimTypeInv
    <2>1. SessTypeOK
      BY SendersAssumption DEF SessTypeOK, PcStates, NoReq, Verbs
    <2>2. tokens \in [Limiters -> Int]
      <3>1. \A l \in Limiters : Size(l) \in Int
        <4> TAKE l \in Limiters
        <4>1. l[1] \in Scopes /\ l[3] \in DOMAIN Wrapped[l[1]]
          BY LimitersAre
        <4>2. Wrapped[l[1]] \in Seq(Descriptor)
          BY <4>1, WrappedIs
        <4>3. Wrapped[l[1]][l[3]] \in Descriptor
          BY <4>1, <4>2
        <4> QED  BY <4>3 DEF Size, Descriptor
      <3> QED  BY <3>1
    <2>3. calls \in [Sessions -> Call]
      BY DEF NoCall, Call, Sessions
    <2> QED  BY <2>1, <2>2, <2>3 DEF LimTypeInv
  <1>2. ASSUME NEW s \in Sessions
        PROVE  WalkOf(s) /\ StageOf(s) /\ BucketOf(s)
    <2>1. calls[s].todo = <<>>  BY DEF NoCall, Sessions
    <2>2. WalkOf(s)
      <3>1. Len(MsgSteps) \in Nat  BY StepAt
      <3> QED  BY <2>1, <3>1 DEF WalkOf
    <2>3. StageOf(s)
      BY <2>1, SendersAssumption DEF StageOf, TakeDone, NoReq
    <2>4. BucketOf(s)
      BY <2>1 DEF BucketOf, TakeDone
    <2> QED  BY <2>2, <2>3, <2>4
  <1>3. LimitsBalanced
    <2> SUFFICES ASSUME NEW l \in Limiters, Kind(l) = "concurrency"
                 PROVE  tokens[l] = Cardinality(HoldersOf(l))
      BY DEF LimitsBalanced
    <2>1. tokens[l] = 0  OBVIOUS
    <2>2. \A s \in Sessions : ~Owns(s, l)
      BY DEF Owns, TakeDone, NoCall, Sessions
    <2>3. HoldersOf(l) = {}
      BY <2>2, HoldMeans DEF HoldersOf
    <2> QED  BY <2>1, <2>3, FS_EmptySet
  <1> QED  BY <1>1, <1>2, <1>3 DEF LimInv

\* Steps of a client that take and return nothing.
LEMMA LimClientStill ==
  ASSUME LimInv, NEW s \in Sessions,
         \/ NewSession(s)
         \/ \E verb \in Verbs, from \in Addresses : Command(s, verb, from)
  PROVE  LimInv'
  <1>0. LimTypeInv /\ StageOf(s) /\ SessTypeOK
    BY DEF LimInv, LimTypeInv
  <1>1. CASE NewSession(s)
    <2>1. SessTypeOK'
      <3>1. pc' \in [Sessions -> PcStates]
        BY <1>0, <1>1 DEF SessTypeOK, NewSession, Goto, PcStates
      <3>2. sessionCnt' \in Int
        BY <1>0, <1>1 DEF SessTypeOK, NewSession
      <3> QED  BY <1>0, <1>1, <3>1, <3>2 DEF SessTypeOK, NewSession
    <2>2. LimTypeInv'
      BY <1>0, <1>1, <2>1 DEF LimTypeInv, NewSession, limitVars
    <2>3. OthersSame(s) /\ UNCHANGED limitVars /\ del'[s] = del[s]
      BY <1>0, <1>1 DEF OthersSame, NewSession, Goto, limitVars, SessTypeOK
    <2>4. pc[s] = "off" /\ pc'[s] \in {"idle", "closed"}
      BY <1>0, <1>1 DEF NewSession, Goto, SessTypeOK
    <2>5. StageOf(s)'
      BY <1>0, <1>1, <2>4 DEF StageOf, TakeDone, NewSession, limitVars
    <2> QED  BY <2>2, <2>3, <2>4, <2>5, LimitsStill
  <1>2. ASSUME NEW verb \in Verbs, NEW from \in Addresses,
               Command(s, verb, from)
        PROVE  LimInv'
    <2>0. [verb |-> verb, from |-> from] \in [verb : Verbs, from : Addresses]
      OBVIOUS
    <2>1. SessTypeOK'
      BY <1>0, <1>2, <2>0 DEF SessTypeOK, Command, Goto, PcStates
    <2>2. LimTypeInv'
      BY <1>0, <1>2, <2>1 DEF LimTypeInv, Command, limitVars
    <2>3. OthersSame(s) /\ UNCHANGED limitVars /\ del'[s] = del[s]
      BY <1>0, <1>2 DEF OthersSame, Command, Goto, limitVars, SessTypeOK
    <2>4. /\ pc[s] = "idle" /\ pc'[s] = "waiting"
          /\ req'[s].verb = verb /\ req'[s].from = from
      BY <1>0, <1>2 DEF Command, Goto, SessTypeOK
    <2>5. /\ verb = "MAIL" => tx[s] = "none" /\ from \in Senders[s]
          /\ verb = "RCPT" => tx[s] # "none"
      BY <1>2 DEF Command
    <2>6. StageOf(s)'
      BY <1>0, <1>2, <2>4, <2>5 DEF StageOf, TakeDone, Command, limitVars
    <2> QED  BY <2>2, <2>3, <2>4, <2>6, LimitsStill
  <1> QED  BY <1>1, <1>2

\* Steps of the endpoint that take and return nothing.
LEMMA LimServeStill ==
  ASSUME LimInv, NEW s \in Sessions,
         AuthPlain(s) \/ Data(s) \/ Body(s) \/ Commit(s) \/ AddRcpt(s)
  PROVE  LimInv'
  <1>0. LimTypeInv /\ StageOf(s) /\ SessTypeOK
    BY DEF LimInv, LimTypeInv
  <1>a. /\ NoReq \in [verb : Verbs, from : Addresses]
        /\ [verb |-> "RSET", from |-> Null] \in [verb : Verbs, from : Addresses]
        /\ NoReq.verb = "none"
    BY SendersAssumption DEF NoReq, Verbs
  <1>1. CASE AuthPlain(s)
    <2>1. SessTypeOK'
      BY <1>0, <1>1, <1>a DEF SessTypeOK, AuthPlain, Return, Goto, PcStates
    <2>2. LimTypeInv'
      BY <1>0, <1>1, <2>1 DEF LimTypeInv, AuthPlain, limitVars
    <2>3. OthersSame(s) /\ UNCHANGED limitVars /\ del'[s] = del[s]
      BY <1>0, <1>1
         DEF OthersSame, AuthPlain, Return, Goto, limitVars, SessTypeOK
    <2>4. /\ pc[s] = "waiting" /\ pc'[s] \in {"idle", "closed"}
          /\ req'[s] = NoReq
      BY <1>0, <1>1 DEF AuthPlain, Serving, Return, Goto, SessTypeOK
    <2>5. StageOf(s)'
      BY <1>0, <1>1, <1>a, <2>4 DEF StageOf, TakeDone, AuthPlain, limitVars
    <2> QED  BY <2>2, <2>3, <2>4, <2>5, LimitsStill
  <1>2. CASE Data(s)
    <2>1. SessTypeOK'
      <3>1. pc' \in [Sessions -> PcStates]
        BY <1>0, <1>2
           DEF SessTypeOK, Data, Panic, ThenReset, Goto, PcStates
      <3>2. req' \in [Sessions -> [verb : Verbs, from : Addresses]]
        BY <1>0, <1>2, <1>a DEF SessTypeOK, Data, Panic, ThenReset
      <3> QED  BY <1>0, <1>2, <3>1, <3>2 DEF SessTypeOK, Data
    <2>2. LimTypeInv'
      BY <1>0, <1>2, <2>1 DEF LimTypeInv, Data, limitVars
    <2>3. OthersSame(s) /\ UNCHANGED limitVars /\ del'[s] = del[s]
      BY <1>0, <1>2
         DEF OthersSame, Data, Panic, ThenReset, Goto, limitVars, SessTypeOK
    <2>4. /\ pc[s] = "waiting"
          /\ pc'[s] \in {"closed", "panicked", "waiting", "body"}
          /\ req'[s].verb \in {"none", "RSET", "DATA"}
          /\ pc'[s] = "body" => del[s] # NoDelivery
      BY <1>0, <1>2, <1>a
         DEF Data, Panic, ThenReset, Serving, Return, Goto, SessTypeOK
    <2>5. StageOf(s)'
      BY <1>0, <1>2, <2>4 DEF StageOf, TakeDone, Data, limitVars
    <2> QED  BY <2>2, <2>3, <2>4, <2>5, LimitsStill
  <1>3. CASE Body(s) \/ Commit(s)
    <2>1. SessTypeOK'
      BY <1>0, <1>3 DEF SessTypeOK, Body, Commit, Goto, PcStates
    <2>2. LimTypeInv'
      BY <1>0, <1>3, <2>1 DEF LimTypeInv, Body, Commit, limitVars
    <2>3. OthersSame(s) /\ UNCHANGED limitVars /\ del'[s] = del[s]
      BY <1>0, <1>3
         DEF OthersSame, Body, Commit, Goto, limitVars, SessTypeOK
    <2>4. /\ pc[s] \in {"body", "commit"}
          /\ pc'[s] \in {"commit", "failed", "committed"}
      BY <1>0, <1>3 DEF Body, Commit, Goto, SessTypeOK
    <2>5. StageOf(s)'
      BY <1>0, <1>3, <2>4 DEF StageOf, TakeDone, Body, Commit, limitVars
    <2> QED  BY <2>2, <2>3, <2>4, <2>5, LimitsStill
  <1>4. CASE AddRcpt(s)
    <2>1. SessTypeOK'
      <3>1. tx' \in [Sessions -> {"none", "mail", "rcpt"}]
        BY <1>0, <1>4 DEF SessTypeOK, AddRcpt
      <3>2. /\ pc' \in [Sessions -> PcStates]
            /\ req' \in [Sessions -> [verb : Verbs, from : Addresses]]
        BY <1>0, <1>4, <1>a DEF SessTypeOK, AddRcpt, Return, Goto, PcStates
      <3> QED  BY <1>0, <1>4, <3>1, <3>2 DEF SessTypeOK, AddRcpt
    <2>2. LimTypeInv'
      BY <1>0, <1>4, <2>1 DEF LimTypeInv, AddRcpt, limitVars
    <2>3. OthersSame(s) /\ UNCHANGED limitVars /\ del'[s] = del[s]
      BY <1>0, <1>4
         DEF OthersSame, AddRcpt, Return, Goto, limitVars, SessTypeOK
    <2>4. /\ pc[s] = "rcpt" /\ pc'[s] \in {"idle", "closed"}
          /\ req'[s] = NoReq
          /\ tx[s] # "none" => tx'[s] # "none"
      BY <1>0, <1>4 DEF AddRcpt, Return, Goto, SessTypeOK
    <2>5. StageOf(s)'
      BY <1>0, <1>4, <1>a, <2>4 DEF StageOf, TakeDone, AddRcpt, limitVars
    <2> QED  BY <2>2, <2>3, <2>4, <2>5, LimitsStill
  <1> QED  BY <1>1, <1>2, <1>3, <1>4

\* A call that panics keeps what it took, and the session takes no more.
LEMMA LimPanicStep ==
  ASSUME LimInv, NEW s \in Sessions, LimitPanic(s)
  PROVE  LimInv'
  <1>0. LimTypeInv /\ StageOf(s) /\ SessTypeOK
    BY DEF LimInv, LimTypeInv
  <1>a. NoReq \in [verb : Verbs, from : Addresses] /\ NoReq.verb = "none"
    BY SendersAssumption DEF NoReq, Verbs
  <1>1. SessTypeOK'
    BY <1>0, <1>a DEF SessTypeOK, LimitPanic, Panic, Goto, PcStates
  <1>2. LimTypeInv'
    BY <1>0, <1>1 DEF LimTypeInv, LimitPanic, limitVars
  <1>3. OthersSame(s) /\ UNCHANGED limitVars /\ del'[s] = del[s]
    BY <1>0 DEF OthersSame, LimitPanic, Panic, Goto, limitVars, SessTypeOK
  <1>4. /\ pc[s] = "taking" /\ pc'[s] \in {"panicked", "closed"}
        /\ req'[s] = NoReq /\ ~TakeDone(s)
    BY <1>0 DEF LimitPanic, Panic, Goto, SessTypeOK, BucketsFull
  <1>5. StageOf(s)'
    BY <1>0, <1>a, <1>4 DEF StageOf, TakeDone, LimitPanic, limitVars
  <1> QED  BY <1>2, <1>3, <1>4, <1>5, LimitsStill

\* MsgSteps as the todo of a call.
LEMMA MsgStepsTodo ==
  /\ MsgSteps \in Seq(Steps)
  /\ Len(MsgSteps) \in Nat /\ DOMAIN MsgSteps = 1 .. Len(MsgSteps)
  /\ \A p \in Steps : \E i \in DOMAIN MsgSteps : MsgSteps[i] = p
  <1>1. MsgSteps \in Seq(Scopes \X Nat)  BY StepAt
  <1>2. /\ Len(MsgSteps) \in Nat /\ DOMAIN MsgSteps = 1 .. Len(MsgSteps)
        /\ MsgSteps = [i \in 1 .. Len(MsgSteps) |-> MsgSteps[i]]
    BY <1>1
  <1>3. \A i \in DOMAIN MsgSteps : MsgSteps[i] \in Steps
    BY DEF Steps
  <1>4. \A p \in Steps : \E i \in DOMAIN MsgSteps : MsgSteps[i] = p
    BY DEF Steps
  <1> QED  BY <1>2, <1>3, <1>4

\* startDelivery up to TakeMsg: a session that holds nothing begins to take,
\* or is refused.
LEMMA LimStart ==
  ASSUME LimInv, NEW s \in Sessions, NEW from \in Addresses,
         StartDelivery(s, from), pc[s] = "waiting",
         req[s].verb \in {"MAIL", "RCPT"},
         req[s].verb = "MAIL" => ~Deferred[s] /\ from = req[s].from,
         del[s] = NoDelivery,
         UNCHANGED <<tx, authed, mailFrom, del, out, sessionCnt>>
  PROVE  LimInv'
  <1>0. LimTypeInv /\ StageOf(s) /\ SessTypeOK
    BY DEF LimInv, LimTypeInv
  <1>a. NoReq \in [verb : Verbs, from : Addresses] /\ NoReq.verb = "none"
    BY SendersAssumption DEF NoReq, Verbs
  <1>1. CASE CleanDomain[from] = Invalid
    <2>0. StartFails(s) /\ UNCHANGED limitVars
      BY <1>1 DEF StartDelivery
    <2>1. SessTypeOK'
      <3>1. /\ pc' \in [Sessions -> PcStates]
            /\ req' \in [Sessions -> [verb : Verbs, from : Addresses]]
        BY <1>0, <1>a, <2>0 DEF SessTypeOK, StartFails, Return, Goto, PcStates
      <3>2. err' \in [Sessions -> {"none", "kept"}]
        BY <1>0, <2>0 DEF SessTypeOK, StartFails
      <3> QED  BY <1>0, <3>1, <3>2 DEF SessTypeOK
    <2>2. LimTypeInv'
      BY <1>0, <2>0, <2>1 DEF LimTypeInv, limitVars
    <2>3. OthersSame(s) /\ UNCHANGED limitVars /\ del'[s] = del[s]
      BY <1>0, <2>0
         DEF OthersSame, StartFails, Return, Goto, limitVars, SessTypeOK
    <2>4. pc'[s] \in {"idle", "closed"} /\ req'[s] = NoReq
      BY <1>0, <2>0 DEF StartFails, Return, Goto, SessTypeOK
    <2>5. StageOf(s)'
      BY <1>0, <1>a, <2>0, <2>4 DEF StageOf, TakeDone, limitVars
    <2> QED  BY <2>2, <2>3, <2>4, <2>5, LimitsStill
  <1>2. CASE CleanDomain[from] # Invalid
    <2>0. /\ TakeMsg(s, RemoteAddr[s], CleanDomain[from])
          /\ Goto(s, "taking") /\ UNCHANGED <<req, err>>
      BY <1>2 DEF StartDelivery
    <2>1. CleanDomain[from] \in Domains /\ RemoteAddr[s] \in IPs
      BY <1>2, SendersAssumption, SessionAssumption
    <2>2. SessTypeOK'
      BY <1>0, <2>0 DEF SessTypeOK, Goto, PcStates
    <2> DEFINE c == [ip |-> RemoteAddr[s], dom |-> CleanDomain[from],
                     todo |-> MsgSteps]
    <2>3. c \in Call
      BY <2>1, MsgStepsTodo DEF Call
    <2>4. calls' = [calls EXCEPT ![s] = c] /\ UNCHANGED <<tokens, buckets>>
      BY <2>0 DEF TakeMsg
    <2>5. calls'[s] = c /\ calls' \in [Sessions -> Call]
      BY <1>0, <2>3, <2>4 DEF LimTypeInv
    <2>6. LimTypeInv'
      BY <1>0, <2>2, <2>4, <2>5 DEF LimTypeInv
    <2>7. OthersSame(s)
      BY <1>0, <2>0, <2>4 DEF OthersSame, Goto, SessTypeOK, LimTypeInv
    <2>8. /\ pc'[s] = "taking" /\ req'[s] = req[s]
          /\ calls'[s].ip = RemoteAddr[s]
          /\ calls'[s].dom = CleanDomain[from]
          /\ calls'[s].todo = MsgSteps
      BY <1>0, <2>0, <2>5 DEF Goto, SessTypeOK
    <2>9. WalkOf(s)'
      BY <2>8, MsgStepsTodo DEF WalkOf
    <2>10. StageOf(s)'
      BY <1>0, <2>1, <2>8 DEF StageOf
    <2>11. \A p \in Steps : Ahead(s, p)'
      BY <2>8, MsgStepsTodo DEF Ahead
    <2>12. BucketOf(s)'
      BY <2>11, StepsAre DEF BucketOf
    <2>13. \A l \in Limiters : ~Owns(s, l)
      BY <1>0 DEF Owns, StageOf
    <2>14. \A l \in Limiters : ~Owns(s, l)'
      BY <2>11, LimitersAre DEF Owns
    <2>15. Booked(s)
      BY <2>4, <2>13, <2>14 DEF Booked
    <2> QED
      BY <2>4, <2>6, <2>7, <2>9, <2>10, <2>12, <2>15, SessionStep
  <1> QED  BY <1>1, <1>2

\* MAIL: it is refused, or stored for later, or starts the delivery.
LEMMA LimMail ==
  ASSUME LimInv, NEW s \in Sessions, Mail(s)
  PROVE  LimInv'
  <1>0. LimTypeInv /\ StageOf(s) /\ SessTypeOK
    BY DEF LimInv, LimTypeInv
  <1>a. NoReq \in [verb : Verbs, from : Addresses] /\ NoReq.verb = "none"
    BY SendersAssumption DEF NoReq, Verbs
  <1>b. pc[s] = "waiting" /\ req[s].verb = "MAIL"
    BY DEF Mail, Serving
  <1>c. req[s].from \in Addresses
    BY <1>0 DEF SessTypeOK
  <1>d. tx[s] = "none" /\ del[s] = NoDelivery
    BY <1>0, <1>b DEF StageOf
  <1>1. CASE Return(s) /\ UNCHANGED <<limitVars, mailFrom, err, tx>>
    <2>1. SessTypeOK'
      BY <1>0, <1>1, <1>a DEF SessTypeOK, Mail, Return, Goto, PcStates
    <2>2. LimTypeInv'
      BY <1>0, <1>1, <2>1 DEF LimTypeInv, limitVars
    <2>3. OthersSame(s) /\ UNCHANGED limitVars /\ del'[s] = del[s]
      BY <1>0, <1>1
         DEF OthersSame, Mail, Return, Goto, limitVars, SessTypeOK
    <2>4. pc'[s] \in {"idle", "closed"} /\ req'[s] = NoReq
      BY <1>0, <1>1 DEF Return, Goto, SessTypeOK
    <2>5. StageOf(s)'
      BY <1>0, <1>1, <1>a, <1>b, <2>3, <2>4 DEF StageOf, TakeDone, limitVars
    <2> QED  BY <1>b, <2>2, <2>3, <2>4, <2>5, LimitsStill
  <1>2. CASE /\ mailFrom' = [mailFrom EXCEPT ![s] = req[s].from]
             /\ tx' = [tx EXCEPT ![s] = "mail"]
             /\ Return(s)
             /\ UNCHANGED <<limitVars, err>>
    <2>1. SessTypeOK'
      BY <1>0, <1>2, <1>a, <1>c DEF SessTypeOK, Mail, Return, Goto, PcStates
    <2>2. LimTypeInv'
      BY <1>0, <1>2, <2>1 DEF LimTypeInv, limitVars
    <2>3. OthersSame(s) /\ UNCHANGED limitVars /\ del'[s] = del[s]
      BY <1>0, <1>2
         DEF OthersSame, Mail, Return, Goto, limitVars, SessTypeOK
    <2>4. /\ pc'[s] \in {"idle", "closed"} /\ req'[s] = NoReq
          /\ mailFrom'[s] \in Addresses
      BY <1>0, <1>2, <1>c DEF Return, Goto, SessTypeOK
    <2>5. StageOf(s)'
      BY <1>0, <1>2, <1>a, <1>b, <1>d, <2>3, <2>4
         DEF StageOf, TakeDone, limitVars
    <2> QED  BY <1>b, <2>2, <2>3, <2>4, <2>5, LimitsStill
  <1>3. CASE /\ ~Deferred[s]
             /\ StartDelivery(s, req[s].from)
             /\ UNCHANGED <<mailFrom, tx>>
    <2>1. UNCHANGED <<tx, authed, mailFrom, del, out, sessionCnt>>
      BY <1>3 DEF Mail
    <2> QED  BY <1>3, <1>b, <1>c, <1>d, <2>1, LimStart
  <1> QED  BY <1>1, <1>2, <1>3 DEF Mail

\* RCPT up to AddRcpt: the delivery is there, or its error is, or it starts.
LEMMA LimRcpt ==
  ASSUME LimInv, NEW s \in Sessions, Rcpt(s)
  PROVE  LimInv'
  <1>0. LimTypeInv /\ StageOf(s) /\ SessTypeOK
    BY DEF LimInv, LimTypeInv
  <1>a. NoReq \in [verb : Verbs, from : Addresses] /\ NoReq.verb = "none"
    BY SendersAssumption DEF NoReq, Verbs
  <1>b. /\ pc[s] = "waiting" /\ req[s].verb = "RCPT"
        /\ UNCHANGED <<tx, authed, mailFrom, del, out, sessionCnt>>
    BY DEF Rcpt, Serving
  <1>1. CASE /\ del[s] # NoDelivery
             /\ Goto(s, "rcpt")
             /\ UNCHANGED <<limitVars, req, err>>
    <2>1. SessTypeOK'
      BY <1>0, <1>1, <1>b DEF SessTypeOK, Goto, PcStates
    <2>2. LimTypeInv'
      BY <1>0, <1>1, <2>1 DEF LimTypeInv, limitVars
    <2>3. OthersSame(s) /\ UNCHANGED limitVars /\ del'[s] = del[s]
      BY <1>0, <1>1, <1>b DEF OthersSame, Goto, limitVars, SessTypeOK
    <2>4. pc'[s] = "rcpt" /\ req'[s] = req[s]
      BY <1>0, <1>1 DEF Goto, SessTypeOK
    <2>5. StageOf(s)'
      BY <1>0, <1>1, <1>b, <2>4 DEF StageOf, TakeDone, limitVars
    <2> QED  BY <1>b, <2>2, <2>3, <2>4, <2>5, LimitsStill
  <1>2. CASE Return(s) /\ UNCHANGED <<limitVars, err>>
    <2>1. SessTypeOK'
      BY <1>0, <1>2, <1>a, <1>b DEF SessTypeOK, Return, Goto, PcStates
    <2>2. LimTypeInv'
      BY <1>0, <1>2, <2>1 DEF LimTypeInv, limitVars
    <2>3. OthersSame(s) /\ UNCHANGED limitVars /\ del'[s] = del[s]
      BY <1>0, <1>2, <1>b DEF OthersSame, Return, Goto, limitVars, SessTypeOK
    <2>4. pc'[s] \in {"idle", "closed"} /\ req'[s] = NoReq
      BY <1>0, <1>2 DEF Return, Goto, SessTypeOK
    <2>5. StageOf(s)'
      BY <1>0, <1>2, <1>a, <1>b, <2>4 DEF StageOf, TakeDone, limitVars
    <2> QED  BY <1>b, <2>2, <2>3, <2>4, <2>5, LimitsStill
  <1>3. CASE /\ del[s] = NoDelivery
             /\ StartDelivery(s, mailFrom[s])
    <2>1. mailFrom[s] \in Addresses
      BY <1>0, <1>3 DEF StageOf
    <2> QED  BY <1>3, <1>b, <2>1, LimStart
  <1> QED  BY <1>1, <1>2, <1>3 DEF Rcpt

\* A call that is not done: its next step, what remains after it, and that
\* the steps which are not ahead are the ones before the next.
LEMMA NextStepIs ==
  ASSUME LimInv, NEW s \in Sessions, ~TakeDone(s)
  PROVE  LET t == calls[s].todo
             p == NextStep(s)
         IN  /\ p \in Steps
             /\ Tail(t) \in Seq(Steps)
             /\ Len(Tail(t)) = Len(t) - 1
             /\ \A i \in DOMAIN Tail(t) : i + 1 \in DOMAIN t
                                          /\ Tail(t)[i] = t[i + 1]
             /\ \A q : Ahead(s, q) <=>
                         q = p \/ \E i \in DOMAIN Tail(t) : Tail(t)[i] = q
             /\ \A i \in DOMAIN Tail(t) : Tail(t)[i] # p
             /\ \A q \in Steps : ~Ahead(s, q) <=> Before(q, p)
  <1> DEFINE t == calls[s].todo
             p == NextStep(s)
             N == Len(MsgSteps)
             gone == N - Len(t)
  <1>1. t \in Seq(Steps) /\ t # <<>>
    BY DEF LimInv, LimTypeInv, Call, TakeDone
  <1>2. /\ Len(t) \in Nat /\ Len(t) > 0 /\ DOMAIN t = 1 .. Len(t)
        /\ p = t[1] /\ 1 \in DOMAIN t
    BY <1>1 DEF NextStep
  <1>3. /\ Tail(t) \in Seq(Steps) /\ Len(Tail(t)) = Len(t) - 1
        /\ DOMAIN Tail(t) = 1 .. (Len(t) - 1)
    BY <1>1
  <1>4. \A i \in DOMAIN Tail(t) : i + 1 \in DOMAIN t /\ Tail(t)[i] = t[i + 1]
    BY <1>1, <1>2, <1>3
  <1>5. p \in Steps  BY <1>1, <1>2
  <1>6. gone \in Nat /\ \A i \in DOMAIN t : t[i] = MsgSteps[gone + i]
    BY DEF LimInv, WalkOf
  <1>7. N \in Nat /\ DOMAIN MsgSteps = 1 .. N
    BY MsgStepsTodo
  <1>8. \A q : Ahead(s, q) <=> \E i \in DOMAIN t : t[i] = q
    BY DEF Ahead
  <1> HIDE DEF t, p
  <1>9. ASSUME NEW q
        PROVE  Ahead(s, q) <=>
                  q = p \/ \E i \in DOMAIN Tail(t) : Tail(t)[i] = q
    <2>1. ASSUME NEW i \in DOMAIN t, t[i] = q, q # p
          PROVE  \E k \in DOMAIN Tail(t) : Tail(t)[k] = q
      <3>1. i # 1  BY <1>2, <2>1
      <3>2. i - 1 \in DOMAIN Tail(t) /\ (i - 1) + 1 = i
        BY <1>2, <1>3, <3>1
      <3>3. Tail(t)[i - 1] = t[i]  BY <1>4, <3>2
      <3> QED  BY <2>1, <3>2, <3>3
    <2> QED  BY <1>2, <1>4, <1>8, <2>1
  <1> HIDE DEF N
  <1>10. gone + Len(t) = N  BY <1>2, <1>6, <1>7
  <1> HIDE DEF gone
  <1>11. gone + 1 \in 1 .. N /\ p = MsgSteps[gone + 1]
    BY <1>2, <1>6, <1>7, <1>10
  <1>12. \A i \in DOMAIN t : gone + i \in 1 .. N
    BY <1>2, <1>6, <1>7, <1>10
  <1>13. ASSUME NEW i \in 1 .. N, NEW j \in 1 .. N, i < j
         PROVE  /\ MsgSteps[i] # MsgSteps[j]
                /\ Before(MsgSteps[i], MsgSteps[j])
                /\ ~Before(MsgSteps[j], MsgSteps[i])
    <2>1. MsgSteps[i] \in Scopes \X Nat /\ MsgSteps[j] \in Scopes \X Nat
      BY <1>7, StepsAre DEF Steps
    <2>2. Before(MsgSteps[i], MsgSteps[j])
      BY <1>13, InOrder DEF N
    <2> QED  BY <2>1, <2>2, BeforeStrict
  <1>14. ASSUME NEW i \in DOMAIN Tail(t)
         PROVE  Tail(t)[i] # p
    <2>1. i + 1 \in DOMAIN t /\ Tail(t)[i] = MsgSteps[gone + (i + 1)]
      BY <1>4, <1>6
    <2>2. gone + (i + 1) \in 1 .. N /\ gone + 1 < gone + (i + 1)
      BY <1>3, <1>6, <1>12, <2>1
    <2> QED  BY <1>11, <1>13, <2>1, <2>2
  <1>15. ASSUME NEW q \in Steps
         PROVE  ~Ahead(s, q) <=> Before(q, p)
    <2>1. PICK m \in 1 .. N : q = MsgSteps[m]
      BY <1>7 DEF Steps
    <2>2. CASE m <= gone
      <3>1. m < gone + 1  BY <1>6, <2>2
      <3>2. Before(q, p)  BY <1>11, <1>13, <2>1, <3>1
      <3>3. ASSUME NEW i \in DOMAIN t PROVE t[i] # q
        <4>1. m < gone + i /\ gone + i \in 1 .. N
          BY <1>2, <1>6, <1>12, <2>2
        <4>2. t[i] = MsgSteps[gone + i]  BY <1>6
        <4> QED  BY <1>13, <2>1, <4>1, <4>2
      <3> QED  BY <1>8, <3>2, <3>3
    <2>3. CASE m > gone
      <3>1. PICK i \in DOMAIN t : m = gone + i
        <4>1. m - gone \in DOMAIN t /\ m = gone + (m - gone)
          BY <1>2, <1>6, <1>7, <1>10, <2>3
        <4> QED  BY <4>1
      <3>2. Ahead(s, q)  BY <1>6, <1>8, <2>1, <3>1
      <3>3. CASE m = gone + 1
        <4>1. q = p  BY <1>11, <2>1, <3>3
        <4>2. ~Before(q, p)
          BY <1>5, <4>1, StepsAre, BeforeStrict
        <4> QED  BY <3>2, <4>2
      <3>4. CASE m > gone + 1
        BY <1>11, <1>13, <2>1, <3>2, <3>4
      <3> QED  BY <1>6, <2>3, <3>3, <3>4
    <2> QED  BY <1>6, <1>7, <2>2, <2>3
  <1> QED  BY <1>3, <1>4, <1>5, <1>9, <1>14, <1>15 DEF t, p

\* One step of the walk is done: what this means for the call.
LEMMA CallAdvances ==
  ASSUME LimInv, NEW s \in Sessions, pc[s] = "taking", ~TakeDone(s),
         calls' = [calls EXCEPT ![s].todo = Tail(@)],
         UNCHANGED sessVars
  PROVE  /\ calls' \in [Sessions -> Call]
         /\ OthersSame(s)
         /\ WalkOf(s)'
         /\ StageOf(s)'
         /\ \A sc : CallKey(s, sc)' = CallKey(s, sc)
         /\ \A q : Ahead(s, q)' <=> Ahead(s, q) /\ q # NextStep(s)
         /\ \A l : Owns(s, l) <=> /\ l[2] = CallKey(s, l[1])
                                  /\ ~Ahead(s, <<l[1], l[3]>>)
         /\ \A l : Owns(s, l)' <=> /\ l[2] = CallKey(s, l[1])
                                   /\ ~Ahead(s, <<l[1], l[3]>>)'
  <1> DEFINE t == calls[s].todo
  <1>1. /\ Tail(t) \in Seq(Steps)
        /\ Len(Tail(t)) = Len(t) - 1
        /\ \A i \in DOMAIN Tail(t) : i + 1 \in DOMAIN t
                                     /\ Tail(t)[i] = t[i + 1]
        /\ \A q : Ahead(s, q) <=>
             q = NextStep(s) \/ \E i \in DOMAIN Tail(t) : Tail(t)[i] = q
        /\ \A i \in DOMAIN Tail(t) : Tail(t)[i] # NextStep(s)
    BY NextStepIs
  <1>2. calls \in [Sessions -> Call] /\ calls[s] \in Call
    BY DEF LimInv, LimTypeInv
  <1>3. /\ calls'[s] = [calls[s] EXCEPT !.todo = Tail(t)]
        /\ \A x \in Sessions \ {s} : calls'[x] = calls[x]
        /\ DOMAIN calls' = Sessions
    BY <1>2
  <1>4. /\ calls'[s].todo = Tail(t) /\ calls'[s].ip = calls[s].ip
        /\ calls'[s].dom = calls[s].dom /\ calls'[s] \in Call
    BY <1>1, <1>2, <1>3 DEF Call
  <1>5. calls' \in [Sessions -> Call]
    BY <1>1, <1>2 DEF Call
  <1>6. /\ pc' = pc /\ req' = req /\ tx' = tx /\ mailFrom' = mailFrom
        /\ del' = del
    BY DEF sessVars
  <1>7. OthersSame(s)
    BY <1>3, <1>6 DEF OthersSame
  <1>8. WalkOf(s)'
    <2> DEFINE gone == Len(MsgSteps) - Len(t)
    <2>1. gone \in Nat /\ \A i \in DOMAIN t : t[i] = MsgSteps[gone + i]
      BY DEF LimInv, WalkOf
    <2>2. Len(t) \in Nat /\ Len(MsgSteps) \in Nat /\ Len(t) > 0
      BY <1>2, MsgStepsTodo DEF Call, TakeDone
    <2>3. Len(MsgSteps) - Len(Tail(t)) = gone + 1
      <3> DEFINE n == Len(t)
                 m == Len(Tail(t))
                 N == Len(MsgSteps)
      <3>1. n \in Nat /\ N \in Nat /\ m = n - 1  BY <1>1, <2>2
      <3> HIDE DEF n, m, N
      <3>2. N - m = (N - n) + 1  BY <3>1
      <3> QED  BY <3>2 DEF n, m, N
    <2>4. ASSUME NEW i \in DOMAIN Tail(t)
          PROVE  Tail(t)[i] = MsgSteps[gone + 1 + i]
      <3>1. Tail(t)[i] = MsgSteps[gone + (i + 1)] /\ i \in Int
        BY <1>1, <2>1
      <3>2. gone + (i + 1) = gone + 1 + i
        <4> HIDE DEF gone
        <4> QED  BY ONLY <2>1, <3>1, gone \in Nat, i \in Int
      <3> QED  BY <3>1, <3>2
    <2>5. gone + 1 \in Nat  BY <2>1
    <2> QED  BY <1>4, <2>3, <2>4, <2>5 DEF WalkOf
  <1>9. StageOf(s) /\ StageOf(s)'
    BY <1>4, <1>6 DEF LimInv, StageOf
  <1>10. \A sc : CallKey(s, sc)' = CallKey(s, sc)
    BY <1>4 DEF CallKey
  <1>11. \A q : Ahead(s, q)' <=> Ahead(s, q) /\ q # NextStep(s)
    <2> TAKE q
    <2>1. Ahead(s, q)' <=> \E i \in DOMAIN Tail(t) : Tail(t)[i] = q
      BY <1>4 DEF Ahead
    <2> QED  BY <1>1, <2>1
  <1>12. del[s] = NoDelivery /\ del'[s] = NoDelivery /\ pc'[s] = "taking"
    BY <1>6, <1>9 DEF StageOf
  <1> QED
    BY <1>5, <1>7, <1>8, <1>9, <1>10, <1>11, <1>12 DEF Owns

\* TakeMsg goes on: the bucket is made, or one more limiter is held.
LEMMA LimTake ==
  ASSUME LimInv, NEW s \in Sessions, TakeLimits(s)
  PROVE  LimInv'
  <1> DEFINE p == NextStep(s)
             lim == LimiterAt(s, p)
  <1>0. LimTypeInv /\ StageOf(s) /\ SessTypeOK /\ BucketOf(s)
    BY DEF LimInv, LimTypeInv
  <1>1. /\ pc[s] = "taking" /\ ~TakeDone(s) /\ UNCHANGED sessVars
        /\ calls' = [calls EXCEPT ![s].todo = Tail(@)]
    BY DEF TakeLimits, TakeBucket, TakeOne
  <1>2. /\ calls' \in [Sessions -> Call] /\ OthersSame(s)
        /\ WalkOf(s)' /\ StageOf(s)'
        /\ \A sc : CallKey(s, sc)' = CallKey(s, sc)
        /\ \A q : Ahead(s, q)' <=> Ahead(s, q) /\ q # p
        /\ \A l : Owns(s, l) <=> /\ l[2] = CallKey(s, l[1])
                                 /\ ~Ahead(s, <<l[1], l[3]>>)
        /\ \A l : Owns(s, l)' <=> /\ l[2] = CallKey(s, l[1])
                                  /\ ~Ahead(s, <<l[1], l[3]>>)'
    BY <1>1, CallAdvances
  <1>3. SessTypeOK'
    BY <1>0, <1>1 DEF SessTypeOK, sessVars
  <1>4. p \in Steps /\ Ahead(s, p)
    BY <1>1, NextStepIs
  <1>5. p \in Scopes \X Nat /\ p = <<p[1], p[2]>>
    BY <1>4, StepsAre
  <1>6. lim = <<p[1], CallKey(s, p[1]), p[2]>>
    BY DEF LimiterAt, CallKey
  <1>7. /\ pc'[s] = "taking" /\ del'[s] = NoDelivery
    BY <1>0, <1>1 DEF StageOf, sessVars
  <1> HIDE DEF p, lim
  <1>8. CASE TakeBucket(s)
    <2>1. /\ p[2] = 0 /\ tokens' = tokens
          /\ buckets' = buckets \cup {<<p[1], CallKey(s, p[1])>>}
      BY <1>6, <1>8 DEF TakeBucket, p, lim
    <2>2. LimTypeInv'
      BY <1>0, <1>2, <1>3, <2>1 DEF LimTypeInv
    <2>3. BucketOf(s)'
      <3> SUFFICES ASSUME NEW sc \in {"ip", "source"}, Wrapped[sc] # <<>>,
                          ~Ahead(s, <<sc, 0>>)'
                   PROVE  <<sc, CallKey(s, sc)'>> \in buckets'
        BY <1>7 DEF BucketOf
      <3>1. CASE ~Ahead(s, <<sc, 0>>)
        BY <1>0, <1>1, <1>2, <2>1, <3>1 DEF BucketOf
      <3>2. CASE <<sc, 0>> = p
        <4>1. p[1] = sc  BY <3>2
        <4> QED  BY <1>2, <2>1, <4>1
      <3> QED  BY <1>2, <3>1, <3>2
    <2>4. ASSUME NEW l \in Limiters
          PROVE  Owns(s, l)' <=> Owns(s, l)
      <3>1. <<l[1], l[3]>> # p
        BY <2>1, LimitersAre
      <3> QED  BY <1>2, <3>1
    <2>5. Booked(s)  BY <2>1, <2>4 DEF Booked
    <2> QED  BY <1>2, <2>1, <2>2, <2>3, <2>5, SessionStep
  <1>9. CASE TakeOne(s)
    <2>1. /\ p[2] > 0 /\ buckets' = buckets
          /\ tokens' = IF Size(lim) = 0 THEN tokens
                       ELSE [tokens EXCEPT ![lim] =
                               IF Kind(lim) = "rate" THEN @ - 1 ELSE @ + 1]
      BY <1>6, <1>9 DEF TakeOne, p, lim
    <2>2. tokens \in [Limiters -> Int]
      BY <1>0 DEF LimTypeInv
    <2>3. tokens' \in [Limiters -> Int]
      <3>1. PICK e : /\ e = IF Kind(lim) = "rate" THEN tokens[lim] - 1
                                                 ELSE tokens[lim] + 1
                     /\ lim \in Limiters => e \in Int
        BY <2>2
      <3>2. tokens' = tokens \/ tokens' = [tokens EXCEPT ![lim] = e]
        BY <2>1, <3>1
      <3> QED  BY <2>2, <3>1, <3>2
    <2>4. LimTypeInv'
      BY <1>2, <1>3, <2>3 DEF LimTypeInv
    <2>5. BucketOf(s)'
      <3> SUFFICES ASSUME NEW sc \in {"ip", "source"}, Wrapped[sc] # <<>>,
                          ~Ahead(s, <<sc, 0>>)'
                   PROVE  <<sc, CallKey(s, sc)'>> \in buckets'
        BY <1>7 DEF BucketOf
      <3>1. <<sc, 0>> # p
        BY <1>5, <2>1
      <3>2. ~Ahead(s, <<sc, 0>>)
        BY <1>2, <3>1
      <3> QED  BY <1>0, <1>1, <1>2, <2>1, <3>2 DEF BucketOf
    <2>6. ASSUME NEW l \in Limiters, Kind(l) = "concurrency", Size(l) > 0
          PROVE  \/ (Owns(s, l)' <=> Owns(s, l)) /\ tokens'[l] = tokens[l]
                 \/ /\ ~Owns(s, l) /\ Owns(s, l)'
                    /\ tokens'[l] = tokens[l] + 1
      <3>1. l = <<l[1], l[2], l[3]>>  BY LimitersAre
      <3>2. CASE l = lim
        <4>1. l[1] = p[1] /\ l[2] = CallKey(s, p[1]) /\ l[3] = p[2]
          BY <1>6, <3>2
        <4>2. <<l[1], l[3]>> = p
          BY <1>5, <4>1
        <4>3. ~Owns(s, l) /\ Owns(s, l)'
          BY <1>2, <1>4, <4>1, <4>2
        <4>4. tokens'[l] = tokens[l] + 1
          BY <2>1, <2>2, <2>6, <3>2
        <4> QED  BY <4>3, <4>4
      <3>3. CASE l # lim
        <4>1. tokens'[l] = tokens[l]
          BY <2>1, <2>2, <3>3
        <4>2. l[2] = CallKey(s, l[1]) => <<l[1], l[3]>> # p
          <5>1. ASSUME l[2] = CallKey(s, l[1]), <<l[1], l[3]>> = p
                PROVE  FALSE
            <6>1. l[1] = p[1] /\ l[3] = p[2]  BY <5>1
            <6> QED  BY <1>6, <3>1, <3>3, <5>1, <6>1
          <5> QED  BY <5>1
        <4>3. Owns(s, l)' <=> Owns(s, l)
          BY <1>2, <4>2
        <4> QED  BY <4>1, <4>3
      <3> QED  BY <3>2, <3>3
    <2>7. Booked(s)  BY <2>6 DEF Booked
    <2> QED  BY <1>2, <2>1, <2>4, <2>5, <2>7, SessionStep
  <1> QED  BY <1>8, <1>9 DEF TakeLimits

\* Release of exactly what a session holds, which then holds nothing.
LEMMA AllReturned ==
  ASSUME LimInv, NEW s \in Sessions, NEW S,
         tokens' = Released(S),
         \A l \in Limiters : l \in S <=> Owns(s, l),
         \A l \in Limiters : ~Owns(s, l)'
  PROVE  Booked(s) /\ tokens' \in [Limiters -> Int]
  <1>1. tokens \in [Limiters -> Int]
    BY DEF LimInv, LimTypeInv
  <1>2. tokens' \in [Limiters -> Int]
    BY <1>1 DEF Released
  <1>3. ASSUME NEW l \in Limiters, Kind(l) = "concurrency", Size(l) > 0
        PROVE  \/ (Owns(s, l)' <=> Owns(s, l)) /\ tokens'[l] = tokens[l]
               \/ /\ Owns(s, l) /\ ~Owns(s, l)'
                  /\ tokens'[l] = tokens[l] - 1
    <2>1. CASE l \in S
      <3>1. tokens'[l] = tokens[l] - 1
        BY <1>3, <2>1 DEF Released
      <3> QED  BY <2>1, <3>1
    <2>2. CASE l \notin S
      <3>1. tokens'[l] = tokens[l]
        BY <2>2 DEF Released
      <3> QED  BY <2>2, <3>1
    <2> QED  BY <2>1, <2>2
  <1> QED  BY <1>2, <1>3 DEF Booked

\* A time-out: what MultiLimit and TakeMsg return is what the call has taken.
LEMMA LimTimeoutStep ==
  ASSUME LimInv, NEW s \in Sessions, LimitTimeout(s)
  PROVE  LimInv'
  <1> DEFINE p == NextStep(s)
             at == LimiterAt(s, p)
             own == {l \in Limiters :
                       l[1] = at[1] /\ l[2] = at[2] /\ l[3] < at[3]}
             before == {l \in Limiters :
                          /\ l[1] \in GivesBack[at[1]]
                          /\ l[2] = KeyIn(l[1], calls[s].ip, calls[s].dom)}
  <1>0. LimTypeInv /\ StageOf(s) /\ SessTypeOK
    BY DEF LimInv, LimTypeInv
  <1>a. NoReq \in [verb : Verbs, from : Addresses] /\ NoReq.verb = "none"
    BY SendersAssumption DEF NoReq, Verbs
  <1>1. /\ pc[s] = "taking" /\ ~TakeDone(s)
        /\ tokens' = Released(own \cup before)
        /\ calls' = [calls EXCEPT ![s] = NoCall]
        /\ buckets' = buckets
        /\ UNCHANGED <<tx, authed, mailFrom, del, out, sessionCnt>>
    BY DEF LimitTimeout, TakeTimeout
  <1>2. /\ p \in Steps
        /\ \A q \in Steps : ~Ahead(s, q) <=> Before(q, p)
    BY <1>1, NextStepIs
  <1>3. p \in Scopes \X Nat  BY <1>2, StepsAre
  <1>4. at[1] = p[1] /\ at[2] = CallKey(s, p[1]) /\ at[3] = p[2]
    BY DEF LimiterAt, CallKey
  <1>5. del[s] = NoDelivery  BY <1>0, <1>1 DEF StageOf
  <1>6. /\ pc' \in [Sessions -> PcStates]
        /\ req' \in [Sessions -> [verb : Verbs, from : Addresses]]
        /\ err' \in [Sessions -> {"none", "kept"}]
        /\ pc'[s] \in {"idle", "closed", "panicked"} /\ req'[s] = NoReq
        /\ \A x \in Sessions \ {s} : pc'[x] = pc[x] /\ req'[x] = req[x]
    <2>1. CASE Panic(s) /\ UNCHANGED err
      BY <1>0, <1>a, <2>1 DEF SessTypeOK, Panic, Goto, PcStates
    <2>2. CASE StartFails(s)
      <3>1. err' \in [Sessions -> {"none", "kept"}]
        BY <1>0, <2>2 DEF SessTypeOK, StartFails
      <3> QED
        BY <1>0, <1>a, <2>2, <3>1
           DEF SessTypeOK, StartFails, Return, Goto, PcStates
    <2> QED  BY <2>1, <2>2 DEF LimitTimeout
  <1>7. /\ calls' \in [Sessions -> Call] /\ calls'[s] = NoCall
        /\ \A x \in Sessions \ {s} : calls'[x] = calls[x]
    BY <1>0, <1>1 DEF LimTypeInv, NoCall, Call
  <1>8. NoCall.todo = <<>>  BY DEF NoCall
  <1>9. SessTypeOK'
    BY <1>0, <1>1, <1>6 DEF SessTypeOK
  <1>10. OthersSame(s)
    BY <1>1, <1>6, <1>7 DEF OthersSame
  <1>11. ASSUME NEW l \in Limiters
         PROVE  l \in own \cup before <=> Owns(s, l)
    <2>1. /\ l[1] \in Scopes /\ <<l[1], l[3]>> \in Steps
          /\ <<l[1], l[3]>> \in Scopes \X Nat
      BY LimitersAre, StepsAre
    <2>2. Owns(s, l) <=> /\ l[2] = CallKey(s, l[1])
                         /\ Before(<<l[1], l[3]>>, p)
      BY <1>1, <1>2, <1>5, <2>1 DEF Owns
    <2>3. l \in own <=> /\ l[1] = p[1] /\ l[2] = CallKey(s, l[1])
                        /\ l[3] < p[2]
      BY <1>4
    <2>4. l \in before <=> /\ l[1] \in GivesBack[p[1]]
                           /\ l[2] = CallKey(s, l[1])
      BY <1>4 DEF CallKey
    <2>5. l[1] \in GivesBack[p[1]] <=> Rank(l[1]) < Rank(p[1])
      <3>1. CASE p[1] = "all"
        BY <2>1, <3>1 DEF GivesBack, Rank, Scopes
      <3>2. CASE p[1] = "ip"
        BY <2>1, <3>2 DEF GivesBack, Rank, Scopes
      <3>3. CASE p[1] = "source"
        BY <2>1, <3>3 DEF GivesBack, Rank, Scopes
      <3> QED  BY <1>3, <3>1, <3>2, <3>3 DEF Scopes
    <2>6. Before(<<l[1], l[3]>>, p) <=> \/ Rank(l[1]) < Rank(p[1])
                                        \/ l[1] = p[1] /\ l[3] < p[2]
      BY DEF Before
    <2> HIDE DEF own, before
    <2> QED  BY <2>2, <2>3, <2>4, <2>5, <2>6
  <1>12. \A l \in Limiters : ~Owns(s, l)'
    BY <1>1, <1>5, <1>6, <1>7, <1>8 DEF Owns, TakeDone
  <1>13. Booked(s) /\ tokens' \in [Limiters -> Int]
    <2> HIDE DEF own, before
    <2> QED  BY <1>1, <1>11, <1>12, AllReturned
  <1>14. LimTypeInv'
    BY <1>7, <1>9, <1>13 DEF LimTypeInv
  <1>15. WalkOf(s)'
    BY <1>7, <1>8, MsgStepsTodo DEF WalkOf
  <1>16. StageOf(s)'
    BY <1>0, <1>1, <1>5, <1>6, <1>7, <1>8, <1>a DEF StageOf, TakeDone
  <1>17. BucketOf(s)'
    BY <1>1, <1>5, <1>6, <1>7, <1>8 DEF BucketOf, TakeDone
  <1> QED
    BY <1>1, <1>10, <1>13, <1>14, <1>15, <1>16, <1>17, SessionStep

\* ReleaseMsg with the keys a session holds by: the buckets are there, so
\* everything it holds is returned.
LEMMA KeysReturn ==
  ASSUME LimInv, NEW s \in Sessions, NEW ip, NEW dom,
         ReleaseMsg(ip, dom),
         \A l \in Limiters : Owns(s, l) <=> l[2] = KeyIn(l[1], ip, dom),
         \A sc \in {"ip", "source"} : Wrapped[sc] # <<>> =>
             <<sc, KeyIn(sc, ip, dom)>> \in buckets,
         \A l \in Limiters : ~Owns(s, l)'
  PROVE  Booked(s) /\ tokens' \in [Limiters -> Int]
  <1> DEFINE S == {l \in Limiters : /\ l[2] = KeyIn(l[1], ip, dom)
                                    /\ l[1] # "all" => <<l[1], l[2]>> \in buckets}
  <1>1. tokens' = Released(S)
    BY DEF ReleaseMsg
  <1>2. ASSUME NEW l \in Limiters
        PROVE  l \in S <=> Owns(s, l)
    <2>1. l[1] \in Scopes /\ l[3] \in DOMAIN Wrapped[l[1]]
      BY LimitersAre
    <2>2. l[1] # "all" => l[1] \in {"ip", "source"} /\ Wrapped[l[1]] # <<>>
      BY <2>1 DEF Scopes
    <2> QED  BY <2>2
  <1> HIDE DEF S
  <1> QED  BY <1>1, <1>2, AllReturned

\* cleanSession with an open delivery.  MAIL stored the sender as it was
\* spelt, which is the key of the delivery.
LEMMA Cleaned ==
  ASSUME LimInv, NEW s \in Sessions, CleanSession(s), del[s] # NoDelivery,
         pc' \in [Sessions -> PcStates], pc'[s] # "taking"
  PROVE  /\ Booked(s)
         /\ tokens' \in [Limiters -> Int] /\ buckets' = buckets
         /\ calls' \in [Sessions -> Call] /\ calls'[s].todo = <<>>
         /\ mailFrom' \in [Sessions -> Addresses \cup Domains]
         /\ del' \in [Sessions -> Domains \cup {NoDelivery}]
         /\ err' \in [Sessions -> {"none", "kept"}]
         /\ mailFrom'[s] = Null /\ del'[s] = NoDelivery
         /\ \A x \in Sessions \ {s} :
               /\ calls'[x] = calls[x] /\ del'[x] = del[x]
               /\ mailFrom'[x] = mailFrom[x]
         /\ WalkOf(s)' /\ BucketOf(s)'
  <1>0. LimTypeInv /\ StageOf(s) /\ SessTypeOK /\ BucketOf(s)
    BY DEF LimInv, LimTypeInv
  <1>1. /\ ReleaseMsg(RemoteAddr[s], mailFrom[s])
        /\ calls' = [calls EXCEPT ![s] = NoCall]
        /\ mailFrom' = [mailFrom EXCEPT ![s] = Null]
        /\ del' = [del EXCEPT ![s] = NoDelivery]
        /\ err' = [err EXCEPT ![s] = "none"]
    BY DEF CleanSession
  <1>2. NoCall \in Call /\ NoCall.todo = <<>>
    BY DEF NoCall, Call
  <1>3. /\ calls' \in [Sessions -> Call] /\ calls'[s].todo = <<>>
        /\ \A x \in Sessions \ {s} : calls'[x] = calls[x]
    BY <1>0, <1>1, <1>2 DEF LimTypeInv
  <1>4. /\ mailFrom' \in [Sessions -> Addresses \cup Domains]
        /\ del' \in [Sessions -> Domains \cup {NoDelivery}]
        /\ err' \in [Sessions -> {"none", "kept"}]
        /\ mailFrom'[s] = Null /\ del'[s] = NoDelivery
        /\ \A x \in Sessions \ {s} : /\ del'[x] = del[x]
                                     /\ mailFrom'[x] = mailFrom[x]
    BY <1>0, <1>1, SendersAssumption DEF SessTypeOK
  <1>5. pc[s] # "taking" /\ TakeDone(s) /\ mailFrom[s] = del[s]
    BY <1>0 DEF StageOf
  <1>6. \A l \in Limiters :
            Owns(s, l) <=> l[2] = KeyIn(l[1], RemoteAddr[s], mailFrom[s])
    BY <1>5 DEF Owns
  <1>7. \A sc \in {"ip", "source"} : Wrapped[sc] # <<>> =>
            <<sc, KeyIn(sc, RemoteAddr[s], mailFrom[s])>> \in buckets
    BY <1>0, <1>5 DEF BucketOf
  <1>8. \A l \in Limiters : ~Owns(s, l)'
    BY <1>3, <1>4 DEF Owns, TakeDone
  <1>9. Booked(s) /\ tokens' \in [Limiters -> Int]
    BY <1>1, <1>6, <1>7, <1>8, KeysReturn
  <1>10. buckets' = buckets
    BY <1>1 DEF ReleaseMsg
  <1>11. WalkOf(s)'
    BY <1>3, MsgStepsTodo DEF WalkOf
  <1>12. BucketOf(s)'
    BY <1>3, <1>4 DEF BucketOf, TakeDone
  <1> QED  BY <1>3, <1>4, <1>9, <1>10, <1>11, <1>12

\* RSET, and go-smtp's Reset after DATA.
LEMMA LimReset ==
  ASSUME LimInv, NEW s \in Sessions, Reset(s)
  PROVE  LimInv'
  <1>0. LimTypeInv /\ StageOf(s) /\ SessTypeOK
    BY DEF LimInv, LimTypeInv
  <1>a. NoReq \in [verb : Verbs, from : Addresses] /\ NoReq.verb = "none"
    BY SendersAssumption DEF NoReq, Verbs
  <1>1. /\ pc[s] = "waiting" /\ EndDelivery(s) /\ Return(s)
        /\ tx' = [tx EXCEPT ![s] = "none"] /\ UNCHANGED <<authed, out, sessionCnt>>
    BY DEF Reset, Serving
  <1>2. /\ pc' \in [Sessions -> PcStates]
        /\ req' \in [Sessions -> [verb : Verbs, from : Addresses]]
        /\ tx' \in [Sessions -> {"none", "mail", "rcpt"}]
        /\ pc'[s] \in {"idle", "closed"} /\ req'[s] = NoReq /\ tx'[s] = "none"
        /\ \A x \in Sessions \ {s} : /\ pc'[x] = pc[x] /\ req'[x] = req[x]
                                     /\ tx'[x] = tx[x]
    BY <1>0, <1>1, <1>a DEF SessTypeOK, Return, Goto, PcStates
  <1>3. CASE del[s] = NoDelivery
    <2>1. UNCHANGED <<limitVars, mailFrom, del, err>>
      BY <1>1, <1>3 DEF EndDelivery
    <2>2. SessTypeOK'
      BY <1>0, <1>1, <1>2, <2>1 DEF SessTypeOK
    <2>3. LimTypeInv'
      BY <1>0, <2>1, <2>2 DEF LimTypeInv, limitVars
    <2>4. OthersSame(s)
      BY <1>2, <2>1 DEF OthersSame, limitVars
    <2>5. StageOf(s)'
      BY <1>0, <1>1, <1>2, <1>3, <1>a, <2>1 DEF StageOf, TakeDone, limitVars
    <2> QED  BY <1>1, <1>2, <2>1, <2>3, <2>4, <2>5, LimitsStill
  <1>4. CASE del[s] # NoDelivery
    <2>1. CleanSession(s)  BY <1>1, <1>4 DEF EndDelivery
    <2>2. /\ Booked(s)
          /\ tokens' \in [Limiters -> Int] /\ buckets' = buckets
          /\ calls' \in [Sessions -> Call] /\ calls'[s].todo = <<>>
          /\ mailFrom' \in [Sessions -> Addresses \cup Domains]
          /\ del' \in [Sessions -> Domains \cup {NoDelivery}]
          /\ err' \in [Sessions -> {"none", "kept"}]
          /\ mailFrom'[s] = Null /\ del'[s] = NoDelivery
          /\ \A x \in Sessions \ {s} :
                /\ calls'[x] = calls[x] /\ del'[x] = del[x]
                /\ mailFrom'[x] = mailFrom[x]
          /\ WalkOf(s)' /\ BucketOf(s)'
      BY <1>2, <1>4, <2>1, Cleaned
    <2>3. SessTypeOK'
      BY <1>0, <1>1, <1>2, <2>2 DEF SessTypeOK
    <2>4. LimTypeInv'
      BY <2>2, <2>3 DEF LimTypeInv
    <2>5. OthersSame(s)
      BY <1>2, <2>2 DEF OthersSame
    <2>6. StageOf(s)'
      BY <1>2, <1>a, <2>2, SendersAssumption DEF StageOf, TakeDone
    <2> QED  BY <2>2, <2>4, <2>5, <2>6, SessionStep
  <1> QED  BY <1>3, <1>4

\* Logout, whoever calls it.
LEMMA LimLogout ==
  ASSUME LimInv, NEW s \in Sessions, Logout(s)
  PROVE  LimInv'
  <1>0. LimTypeInv /\ StageOf(s) /\ SessTypeOK
    BY DEF LimInv, LimTypeInv
  <1>1. /\ pc[s] \in {"idle", "waiting", "panicked"} /\ EndDelivery(s)
        /\ out' = [out EXCEPT ![s] = TRUE] /\ sessionCnt' = sessionCnt - 1
        /\ UNCHANGED <<req, tx, authed>>
    BY DEF Logout
  <1>2. /\ pc' \in [Sessions -> PcStates]
        /\ pc'[s] \in {"waiting", "closed"}
        /\ pc[s] = "waiting" => pc'[s] = "waiting"
        /\ pc[s] # "waiting" => pc'[s] = "closed"
        /\ \A x \in Sessions \ {s} : pc'[x] = pc[x]
    BY <1>0 DEF SessTypeOK, Logout, Goto, PcStates
  <1>3. out' \in [Sessions -> BOOLEAN] /\ sessionCnt' \in Int
    BY <1>0, <1>1 DEF SessTypeOK
  <1>4. CASE del[s] = NoDelivery
    <2>1. UNCHANGED <<limitVars, mailFrom, del, err>>
      BY <1>1, <1>4 DEF EndDelivery
    <2>2. SessTypeOK'
      BY <1>0, <1>1, <1>2, <1>3, <2>1 DEF SessTypeOK
    <2>3. LimTypeInv'
      BY <1>0, <2>1, <2>2 DEF LimTypeInv, limitVars
    <2>4. OthersSame(s)
      BY <1>1, <1>2, <2>1 DEF OthersSame, limitVars
    <2>5. StageOf(s)'
      BY <1>0, <1>1, <1>2, <1>4, <2>1 DEF StageOf, TakeDone, limitVars
    <2> QED  BY <1>1, <1>2, <2>1, <2>3, <2>4, <2>5, LimitsStill
  <1>5. CASE del[s] # NoDelivery
    <2>1. CleanSession(s)  BY <1>1, <1>5 DEF EndDelivery
    <2>2. /\ Booked(s)
          /\ tokens' \in [Limiters -> Int] /\ buckets' = buckets
          /\ calls' \in [Sessions -> Call] /\ calls'[s].todo = <<>>
          /\ mailFrom' \in [Sessions -> Addresses \cup Domains]
          /\ del' \in [Sessions -> Domains \cup {NoDelivery}]
          /\ err' \in [Sessions -> {"none", "kept"}]
          /\ mailFrom'[s] = Null /\ del'[s] = NoDelivery
          /\ \A x \in Sessions \ {s} :
                /\ calls'[x] = calls[x] /\ del'[x] = del[x]
                /\ mailFrom'[x] = mailFrom[x]
          /\ WalkOf(s)' /\ BucketOf(s)'
      BY <1>2, <1>5, <2>1, Cleaned
    <2>3. SessTypeOK'
      BY <1>0, <1>1, <1>2, <1>3, <2>2 DEF SessTypeOK
    <2>4. LimTypeInv'
      BY <2>2, <2>3 DEF LimTypeInv
    <2>5. OthersSame(s)
      BY <1>1, <1>2, <2>2 DEF OthersSame
    <2>6. StageOf(s)'
      BY <1>0, <1>1, <1>2, <2>2, SendersAssumption DEF StageOf, TakeDone
    <2> QED  BY <2>2, <2>4, <2>5, <2>6, SessionStep
  <1> QED  BY <1>4, <1>5

\* The deferred cleanup of DATA.
LEMMA LimDataCleanup ==
  ASSUME LimInv, NEW s \in Sessions, DataCleanup(s)
  PROVE  LimInv'
  <1>0. LimTypeInv /\ StageOf(s) /\ SessTypeOK
    BY DEF LimInv, LimTypeInv
  <1>a. [verb |-> "RSET", from |-> Null] \in [verb : Verbs, from : Addresses]
    BY SendersAssumption DEF Verbs
  <1>1. /\ pc[s] \in {"failed", "committed"} /\ CleanSession(s) /\ ThenReset(s)
        /\ UNCHANGED <<tx, authed, out, sessionCnt>>
    BY DEF DataCleanup
  <1>2. /\ pc' \in [Sessions -> PcStates]
        /\ req' \in [Sessions -> [verb : Verbs, from : Addresses]]
        /\ pc'[s] \in {"waiting", "closed"} /\ req'[s].verb = "RSET"
        /\ \A x \in Sessions \ {s} : pc'[x] = pc[x] /\ req'[x] = req[x]
    BY <1>0, <1>1, <1>a DEF SessTypeOK, ThenReset, Goto, PcStates
  <1>3. del[s] # NoDelivery  BY <1>0, <1>1 DEF StageOf
  <1>4. /\ Booked(s)
        /\ tokens' \in [Limiters -> Int] /\ buckets' = buckets
        /\ calls' \in [Sessions -> Call] /\ calls'[s].todo = <<>>
        /\ mailFrom' \in [Sessions -> Addresses \cup Domains]
        /\ del' \in [Sessions -> Domains \cup {NoDelivery}]
        /\ err' \in [Sessions -> {"none", "kept"}]
        /\ mailFrom'[s] = Null /\ del'[s] = NoDelivery
        /\ \A x \in Sessions \ {s} :
              /\ calls'[x] = calls[x] /\ del'[x] = del[x]
              /\ mailFrom'[x] = mailFrom[x]
        /\ WalkOf(s)' /\ BucketOf(s)'
    BY <1>1, <1>2, <1>3, Cleaned
  <1>5. SessTypeOK'
    BY <1>0, <1>1, <1>2, <1>4 DEF SessTypeOK
  <1>6. LimTypeInv'
    BY <1>4, <1>5 DEF LimTypeInv
  <1>7. OthersSame(s)
    BY <1>1, <1>2, <1>4 DEF OthersSame
  <1>8. StageOf(s)'
    BY <1>2, <1>4, SendersAssumption DEF StageOf, TakeDone
  <1> QED  BY <1>4, <1>6, <1>7, <1>8, SessionStep

\* pipeline.Start fails and everything is returned, or the delivery takes
\* over what the call holds.
LEMMA LimPipelineStart ==
  ASSUME SpeltClean, LimInv, NEW s \in Sessions, PipelineStart(s)
  PROVE  LimInv'
  <1> DEFINE clean == calls[s].dom
  <1>0. LimTypeInv /\ StageOf(s) /\ SessTypeOK /\ BucketOf(s) /\ WalkOf(s)
    BY DEF LimInv, LimTypeInv
  <1>a. NoReq \in [verb : Verbs, from : Addresses] /\ NoReq.verb = "none"
    BY SendersAssumption DEF NoReq, Verbs
  <1>1. /\ pc[s] = "taking" /\ TakeDone(s)
        /\ UNCHANGED <<authed, out, sessionCnt>>
    BY DEF PipelineStart
  <1>2. /\ del[s] = NoDelivery /\ calls[s].ip = RemoteAddr[s]
        /\ clean \in Domains
    BY <1>0, <1>1 DEF StageOf
  <1>3. \A q : ~Ahead(s, q)
    BY <1>1 DEF TakeDone, Ahead
  <1>4. \A l : Owns(s, l) <=> l[2] = KeyIn(l[1], RemoteAddr[s], clean)
    BY <1>1, <1>2, <1>3 DEF Owns, CallKey
  <1>5. \A sc \in {"ip", "source"} : Wrapped[sc] # <<>> =>
            <<sc, KeyIn(sc, RemoteAddr[s], clean)>> \in buckets
    BY <1>0, <1>1, <1>2, <1>3 DEF BucketOf, CallKey
  <1>b. clean # NoDelivery  BY <1>2, SendersAssumption
  <1>6. CASE /\ ReleaseMsg(calls[s].ip, clean)
             /\ calls' = [calls EXCEPT ![s] = NoCall]
             /\ StartFails(s)
             /\ UNCHANGED <<tx, mailFrom, del>>
    <2>1. NoCall \in Call /\ NoCall.todo = <<>>
      BY DEF NoCall, Call
    <2>2. /\ calls' \in [Sessions -> Call] /\ calls'[s].todo = <<>>
          /\ \A x \in Sessions \ {s} : calls'[x] = calls[x]
      BY <1>0, <1>6, <2>1 DEF LimTypeInv
    <2>3. /\ pc' \in [Sessions -> PcStates]
          /\ req' \in [Sessions -> [verb : Verbs, from : Addresses]]
          /\ pc'[s] \in {"idle", "closed"} /\ req'[s] = NoReq
          /\ \A x \in Sessions \ {s} : pc'[x] = pc[x] /\ req'[x] = req[x]
      BY <1>0, <1>6, <1>a DEF SessTypeOK, StartFails, Return, Goto, PcStates
    <2>4. err' \in [Sessions -> {"none", "kept"}]
      BY <1>0, <1>6 DEF SessTypeOK, StartFails
    <2>5. SessTypeOK'
      BY <1>0, <1>1, <1>6, <2>3, <2>4 DEF SessTypeOK
    <2>6. \A l \in Limiters : ~Owns(s, l)'
      BY <1>2, <1>6, <2>2, <2>3 DEF Owns, TakeDone
    <2>7. Booked(s) /\ tokens' \in [Limiters -> Int]
      <3>1. ReleaseMsg(RemoteAddr[s], clean)  BY <1>2, <1>6
      <3> QED  BY <1>4, <1>5, <2>6, <3>1, KeysReturn
    <2>8. LimTypeInv'
      BY <2>2, <2>5, <2>7 DEF LimTypeInv
    <2>9. OthersSame(s)
      BY <1>6, <2>2, <2>3 DEF OthersSame
    <2>10. WalkOf(s)'
      BY <2>2, MsgStepsTodo DEF WalkOf
    <2>11. StageOf(s)'
      BY <1>0, <1>2, <1>6, <1>a, <2>2, <2>3 DEF StageOf, TakeDone
    <2>12. BucketOf(s)'
      BY <1>2, <1>6, <2>2, <2>3 DEF BucketOf, TakeDone
    <2>13. buckets' = buckets  BY <1>6 DEF ReleaseMsg
    <2> QED
      BY <2>7, <2>8, <2>9, <2>10, <2>11, <2>12, <2>13, SessionStep
  <1>7. CASE /\ del' = [del EXCEPT ![s] = clean]
             /\ \/ /\ req[s].verb = "MAIL"
                   /\ mailFrom' = [mailFrom EXCEPT ![s] = req[s].from]
                   /\ tx' = [tx EXCEPT ![s] = "mail"]
                   /\ Return(s)
                \/ /\ req[s].verb = "RCPT"
                   /\ mailFrom' = [mailFrom EXCEPT ![s] = clean]
                   /\ Goto(s, "rcpt")
                   /\ UNCHANGED <<req, tx>>
             /\ UNCHANGED <<limitVars, err>>
    <2>1. /\ pc' \in [Sessions -> PcStates]
          /\ req' \in [Sessions -> [verb : Verbs, from : Addresses]]
          /\ tx' \in [Sessions -> {"none", "mail", "rcpt"}]
          /\ \A x \in Sessions \ {s} : /\ pc'[x] = pc[x] /\ req'[x] = req[x]
                                       /\ tx'[x] = tx[x]
      <3>1. CASE /\ tx' = [tx EXCEPT ![s] = "mail"]
                 /\ Return(s)
        BY <1>0, <1>a, <3>1 DEF SessTypeOK, Return, Goto, PcStates
      <3>2. CASE Goto(s, "rcpt") /\ UNCHANGED <<req, tx>>
        BY <1>0, <3>2 DEF SessTypeOK, Goto, PcStates
      <3> QED  BY <1>7, <3>1, <3>2
    <2>2. req[s].from \in Addresses  BY <1>0 DEF SessTypeOK
    <2>3. /\ mailFrom' \in [Sessions -> Addresses \cup Domains]
          /\ del' \in [Sessions -> Domains \cup {NoDelivery}]
          /\ del'[s] = clean
          /\ \A x \in Sessions \ {s} : /\ del'[x] = del[x]
                                       /\ mailFrom'[x] = mailFrom[x]
      BY <1>0, <1>2, <1>7, <2>2 DEF SessTypeOK
    <2>4. SessTypeOK'
      BY <1>0, <1>1, <1>7, <2>1, <2>3 DEF SessTypeOK
    <2>5. calls' = calls /\ tokens' = tokens /\ buckets' = buckets
      BY <1>7 DEF limitVars
    <2>6. LimTypeInv'
      BY <1>0, <2>4, <2>5 DEF LimTypeInv
    <2>7. OthersSame(s)
      BY <2>1, <2>3, <2>5 DEF OthersSame
    <2>8. WalkOf(s)'  BY <1>0, <2>5 DEF WalkOf
    <2>9. pc'[s] # "taking" /\ TakeDone(s)'
      BY <1>0, <1>1, <1>7, <2>5 DEF SessTypeOK, Return, Goto, TakeDone
    <2>10. BucketOf(s)'
      BY <1>5, <2>3, <2>5, <2>9 DEF BucketOf
    <2>11. \A l : Owns(s, l)' <=> Owns(s, l)
      BY <1>4, <1>b, <2>3, <2>9 DEF Owns
    <2>12. Booked(s)  BY <2>5, <2>11 DEF Booked
    <2>13. StageOf(s)'
      <3>1. CASE req[s].verb = "MAIL"
        <4>1. /\ pc'[s] \in {"idle", "closed"} /\ req'[s] = NoReq
              /\ tx'[s] = "mail" /\ mailFrom'[s] = req[s].from
          BY <1>0, <1>7, <3>1 DEF SessTypeOK, Return, Goto
        <4>2. /\ req[s].from \in Senders[s] /\ ~Deferred[s]
              /\ clean = CleanDomain[req[s].from]
          BY <1>0, <1>1, <3>1 DEF StageOf
        <4>3. clean # Invalid  BY <1>2, SendersAssumption
        <4>4. req[s].from = clean
          BY <4>2, <4>3 DEF SpeltClean
        <4> QED  BY <1>a, <1>b, <2>3, <2>9, <4>1, <4>4 DEF StageOf
      <3>2. CASE req[s].verb = "RCPT"
        <4>1. /\ pc'[s] = "rcpt" /\ req'[s] = req[s]
              /\ tx'[s] = tx[s] /\ mailFrom'[s] = clean
          BY <1>0, <1>7, <3>2 DEF SessTypeOK, Goto
        <4>2. tx[s] # "none"  BY <1>0, <3>2 DEF StageOf
        <4> QED  BY <1>b, <2>3, <2>9, <3>2, <4>1, <4>2 DEF StageOf
      <3> QED  BY <1>7, <3>1, <3>2
    <2> QED
      BY <2>5, <2>6, <2>7, <2>8, <2>10, <2>12, <2>13, SessionStep
  <1> QED  BY <1>6, <1>7 DEF PipelineStart

\* A rate limiter is refilled: no concurrency limiter changes.
LEMMA LimFill ==
  ASSUME LimInv, FillRate
  PROVE  LimInv'
  <1>1. PICK r \in Limiters : Fill(r) /\ UNCHANGED sessVars
    BY DEF FillRate
  <1>2. /\ Kind(r) = "rate" /\ tokens' = [tokens EXCEPT ![r] = @ + 1]
        /\ buckets' = buckets /\ calls' = calls
    BY <1>1 DEF Fill
  <1>3. /\ pc' = pc /\ req' = req /\ tx' = tx /\ mailFrom' = mailFrom
        /\ del' = del /\ authed' = authed /\ err' = err /\ out' = out
        /\ sessionCnt' = sessionCnt
    BY <1>1 DEF sessVars
  <1>4. tokens \in [Limiters -> Int]
    BY DEF LimInv, LimTypeInv
  <1>5. /\ tokens' \in [Limiters -> Int]
        /\ \A l \in Limiters : l # r => tokens'[l] = tokens[l]
    BY <1>2, <1>4
  <1>6. LimTypeInv'
    BY <1>2, <1>3, <1>5 DEF LimInv, LimTypeInv, SessTypeOK
  <1>7. \A s \in Sessions : WalkOf(s)' /\ StageOf(s)' /\ BucketOf(s)'
    <2> TAKE s \in Sessions
    <2>1. WalkOf(s) /\ StageOf(s) /\ BucketOf(s)  BY DEF LimInv
    <2>2. WalkOf(s)'  BY <1>2, <2>1 DEF WalkOf
    <2>3. StageOf(s)'  BY <1>2, <1>3, <2>1 DEF StageOf, TakeDone
    <2>4. BucketOf(s)'
      BY <1>2, <1>3, <2>1 DEF BucketOf, TakeDone, Ahead, CallKey
    <2> QED  BY <2>2, <2>3, <2>4
  <1>8. ASSUME NEW l \in Limiters, Kind(l) = "concurrency", Size(l) > 0
        PROVE  tokens'[l] = Cardinality(HoldersOf(l)')
    <2>1. \A s \in Sessions : Owns(s, l)' <=> Owns(s, l)
      BY <1>2, <1>3 DEF Owns, TakeDone, Ahead, CallKey
    <2>2. HoldersOf(l)' = HoldersOf(l)
      <3>1. HoldersOf(l) \subseteq Sessions /\ HoldersOf(l)' \subseteq Sessions
        BY DEF HoldersOf
      <3> QED  BY <2>1, <3>1, HoldMeans
    <2>3. l # r  BY <1>2, <1>8
    <2> QED  BY <1>5, <1>8, <2>2, <2>3 DEF LimInv, LimitsBalanced
  <1>9. LimitsBalanced'
    BY <1>8 DEF LimitsBalanced, Kind, Size
  <1> QED  BY <1>6, <1>7, <1>9 DEF LimInv

\* Every step keeps the invariant.
LEMMA LimInvNext ==
  ASSUME SpeltClean, LimInv, [Next]_vars
  PROVE  LimInv'
  <1>1. ASSUME NEW s \in Sessions, Client(s) PROVE LimInv'
    BY <1>1, LimClientStill, LimLogout DEF Client
  <1>2. ASSUME NEW s \in Sessions, Serve(s) PROVE LimInv'
    BY <1>2, LimServeStill, LimPanicStep, LimMail, LimRcpt, LimTake,
       LimTimeoutStep, LimReset, LimDataCleanup, LimPipelineStart
       DEF Serve
  <1>3. CASE FillRate
    BY <1>3, LimFill
  <1>4. CASE UNCHANGED vars
    <2>1. /\ tokens' = tokens /\ buckets' = buckets /\ calls' = calls
          /\ pc' = pc /\ req' = req /\ tx' = tx /\ mailFrom' = mailFrom
          /\ del' = del /\ authed' = authed /\ err' = err /\ out' = out
          /\ sessionCnt' = sessionCnt
      BY <1>4 DEF vars, limitVars, sessVars
    <2>2. LimTypeInv'
      BY <2>1 DEF LimInv, LimTypeInv, SessTypeOK
    <2>3. \A s \in Sessions : WalkOf(s)' /\ StageOf(s)' /\ BucketOf(s)'
      <3> TAKE s \in Sessions
      <3>1. WalkOf(s) /\ StageOf(s) /\ BucketOf(s)  BY DEF LimInv
      <3>2. WalkOf(s)'  BY <2>1, <3>1 DEF WalkOf
      <3>3. StageOf(s)'  BY <2>1, <3>1 DEF StageOf, TakeDone
      <3>4. BucketOf(s)'
        BY <2>1, <3>1 DEF BucketOf, TakeDone, Ahead, CallKey
      <3> QED  BY <3>2, <3>3, <3>4
    <2>4. \A l \in Limiters : HoldersOf(l)' = HoldersOf(l)
      <3> TAKE l \in Limiters
      <3>1. \A s \in Sessions : Owns(s, l)' <=> Owns(s, l)
        BY <2>1 DEF Owns, TakeDone, Ahead, CallKey
      <3>2. HoldersOf(l) \subseteq Sessions /\ HoldersOf(l)' \subseteq Sessions
        BY DEF HoldersOf
      <3> QED  BY <3>1, <3>2, HoldMeans
    <2>5. LimitsBalanced'
      BY <2>1, <2>4 DEF LimInv, LimitsBalanced, Kind, Size
    <2> QED  BY <2>2, <2>3, <2>5 DEF LimInv
  <1> QED  BY <1>1, <1>2, <1>3, <1>4 DEF Next

\* For any lists of limiters, any number of sessions and any interleaving of
\* their commands with time-outs, panics and Logout, each concurrency limiter
\* counts exactly the sessions that hold it: Release is called once for every
\* Take.  Where MAIL starts the delivery this needs senders that spell their
\* domain canonically, since cleanSession releases by s.mailFrom.
THEOREM LimitsBalancedHolds ==
  ASSUME SpeltClean
  PROVE  Spec => []LimitsBalanced
  <1>1. LimInv => LimitsBalanced
    BY DEF LimInv
  <1>2. LimInv /\ [Next]_vars => LimInv'
    BY LimInvNext
  <1> QED  BY <1>1, <1>2, LimInvInit, PTL DEF Spec
=============================================================================
