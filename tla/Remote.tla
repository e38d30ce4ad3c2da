------------------------------- MODULE Remote -------------------------------
(***************************************************************************)
(* internal/target/remote: messages on their way to the MXs of their       *)
(* recipients' domains.  Each delivery has its own goroutine (a session's  *)
(* or the queue's); they share the pool of idle connections and the limits *)
(* per destination.  BodyNonAtomic sends to all domains at the same time.  *)
(*                                                                         *)
(* A connection is what smtpconn.C and mxConn know of it: whether C has a  *)
(* client (Close keeps it when QUIT fails), how it passed the policies     *)
(* (MxAuth), how often it was used, and the recipients, which C never      *)
(* forgets.  Servers may refuse any command.                               *)
(***************************************************************************)
EXTENDS ConnPool, MxAuth

CONSTANTS
    Deliveries,     \* deliveries at a time, each of one message after another
    Rcpts,          \* addresses the source may pass to AddRcpt
    Domain,         \* the domain of each
    Sent,           \* the address that RCPT TO has: a non-ASCII one is
                    \* converted for a server without SMTPUTF8
    NoConn,         \* no connection
    NoRcpt,         \* no address
    DestLimit,      \* destination concurrency limit
    ReuseLimit,     \* conn_reuse_limit
    NumMX,          \* bound on MX records
    AllowSecOverride, \* requiretls_override
    RelaxedREQUIRETLS \* relaxed_requiretls

ASSUME RemoteAssumption ==
    /\ Domain \in [Rcpts -> Keys]
    /\ NoConn \notin Conns
    /\ NoRcpt \notin Rcpts
    /\ DOMAIN Sent = Rcpts
    /\ DestLimit \in Nat \ {0} /\ ReuseLimit \in Nat /\ NumMX \in Nat \ {0}
    /\ AllowSecOverride \in BOOLEAN /\ RelaxedREQUIRETLS \in BOOLEAN
    /\ IsFiniteSet(Deliveries)

VARIABLES
    pc,         \* where each delivery is
    cur,        \* the recipient AddRcpt was called for
    hand,       \* connectionForDomain: its conn
    ref,        \* Get: the channel it reads
    mx,         \* newConn: the MX record it tries
    conns,      \* rd.connections
    tagged,     \* REQUIRETLS was given with the message
    requireTLS, \* msgMeta.SMTPOpts.RequireTLS
    override,   \* msgMeta.TLSRequireOverride
    sending,    \* domains whose goroutine runs
    conn,       \* the connections
    dest,       \* limits taken for each domain
    \* history
    added,      \* recipients AddRcpt returned nil for
    told,       \* addresses SetStatus was called for
    destLost,   \* limits that MAIL errors left taken
    lifted      \* domains a message with REQUIRETLS had no connection to when
                \* a server without the extension had turned it off

Addrs == Rcpts \cup {Sent[r] : r \in Rcpts}

\* A connection before it is connected.
NewConn == [client |-> FALSE, secure |-> FALSE, meets |-> FALSE,
            strong |-> FALSE, waived |-> FALSE, uses |-> 0, errored |-> FALSE,
            rcpts |-> {}]

callVars == <<cur, hand, ref, mx>>
msgVars == <<tagged, override, lifted>>
histVars == <<added, told, destLost>>
vars == <<poolVars, live, pc, callVars, conns, msgVars, requireTLS, sending,
          conn, dest, histVars>>

Between == {"new", "open", "sent"}
InAddRcpt == {"get", "drain", "pop", "dial", "mx", "check", "limit", "mail",
              "rcpt"}

TypeOK ==
    /\ PoolTypeOK
    /\ pc \in [Deliveries -> Between \cup InAddRcpt \cup {"body", "close"}]
    /\ cur \in [Deliveries -> Rcpts \cup {NoRcpt}]
    /\ hand \in [Deliveries -> Conns \cup {NoConn}]
    /\ ref \in [Deliveries -> Chans \cup {NoChan}]
    /\ conns \in [Deliveries -> [Keys -> Conns \cup {NoConn}]]
    /\ sending \in [Deliveries -> SUBSET Keys]
    /\ dest \in [Keys -> 0 .. DestLimit]
    /\ added \in [Deliveries -> SUBSET Rcpts]
    /\ told \in [Deliveries -> SUBSET Addrs]
    /\ lifted \in [Deliveries -> SUBSET Keys]

Init ==
    /\ PoolInit
    /\ pc = [d \in Deliveries |-> "new"]
    /\ cur = [d \in Deliveries |-> NoRcpt]
    /\ hand = [d \in Deliveries |-> NoConn]
    /\ ref = [d \in Deliveries |-> NoChan]
    /\ mx = [d \in Deliveries |-> 0]
    /\ conns = [d \in Deliveries |-> [k \in Keys |-> NoConn]]
    /\ tagged = [d \in Deliveries |-> FALSE]
    /\ requireTLS = [d \in Deliveries |-> FALSE]
    /\ override = [d \in Deliveries |-> FALSE]
    /\ sending = [d \in Deliveries |-> {}]
    /\ conn = [c \in Conns |-> NewConn]
    /\ dest = [k \in Keys |-> 0]
    /\ added = [d \in Deliveries |-> {}]
    /\ told = [d \in Deliveries |-> {}]
    /\ destLost = [k \in Keys |-> 0]
    /\ lifted = [d \in Deliveries |-> {}]

-----------------------------------------------------------------------------
(***************************************************************************)
(* Helpers                                                                 *)
(***************************************************************************)

Goto(d, place) == pc' = [pc EXCEPT ![d] = place]

\* AddRcpt returns.
Back(d) ==
    /\ Goto(d, "open")
    /\ cur' = [cur EXCEPT ![d] = NoRcpt]

\* The domain of the recipient AddRcpt was called for.
Dom(d) == Domain[cur[d]]

\* The message is started without policies, which then do not apply to it.
Waives(d) == override[d] /\ AllowSecOverride
PoliciesOf(d) == IF Waives(d) THEN {} ELSE Configured

\* Connections that belong to a delivery, or are in its hands.
Held(d) == ({hand[d]} \cup {conns[d][k] : k \in Keys}) \ {NoConn}

\* A connection object that nobody refers to.
Free(c) ==
    /\ c \notin live \cup dropped \cup Pooled
    /\ \A d \in Deliveries : c \notin Held(d)

\* Usable: what can be told without asking the server with RSET.
MayBeUsable(c) ==
    /\ c \in live
    /\ conn[c].uses <= ReuseLimit
    /\ conn[c].client
    /\ ~conn[c].errored

\* Connections that are closed or dropped are forgotten.
ForgetClosed ==
    conn' = [c \in Conns |-> IF c \in live \ live' THEN NewConn ELSE conn[c]]

\* AddRcpt fails and conn is closed, if there is one.
CloseHand(d) ==
    /\ live' = live \ {hand[d]}
    /\ conn' = [conn EXCEPT ![hand[d]] = NewConn]
    /\ hand' = [hand EXCEPT ![d] = NoConn]

-----------------------------------------------------------------------------
(***************************************************************************)
(* Start, AddRcpt                                                          *)
(***************************************************************************)

\* Start; the limits of the message itself are Limits' matter.
Start(d) ==
    /\ pc[d] = "new"
    /\ \E tls \in BOOLEAN, no \in {FALSE, AllowSecOverride} :
          /\ tagged' = [tagged EXCEPT ![d] = tls]
          /\ requireTLS' = [requireTLS EXCEPT ![d] = tls]
          /\ override' = [override EXCEPT ![d] = no]
    /\ Goto(d, "open")
    /\ UNCHANGED <<poolVars, live, callVars, conns, lifted, sending, conn,
                   dest, histVars>>

\* AddRcpt: an address that is refused at once changes nothing.  The domain
\* has a connection, or one is looked for.
AddRcpt(d, r) ==
    /\ pc[d] = "open"
    /\ r \notin added[d]
    /\ cur' = [cur EXCEPT ![d] = r]
    /\ Goto(d, IF conns[d][Domain[r]] = NoConn THEN "get" ELSE "rcpt")
    /\ UNCHANGED <<poolVars, live, hand, ref, mx, conns, msgVars, requireTLS,
                   sending, conn, dest, histVars>>

\* Get under keysLock.
PoolGet(d) ==
    LET k == Dom(d)
    IN
    /\ pc[d] = "get"
    /\ ref' = [ref EXCEPT ![d] = LookUp(k)]
    /\ \/ LookUp(k) = NoChan /\ Goto(d, "dial") /\ UNCHANGED poolVars
       \/ Expired(k) /\ Goto(d, "drain") /\ Forget(k)
       \/ /\ LookUp(k) # NoChan /\ ~Expired(k)
          /\ Goto(d, "pop")
          /\ UNCHANGED poolVars
    /\ UNCHANGED <<live, cur, hand, mx, conns, msgVars, requireTLS, sending,
                   conn, dest, histVars>>

\* Get closes what is left in a channel that it has dropped.
PoolDrain(d) ==
    LET b == ref[d]
    IN
    /\ pc[d] = "drain"
    /\ \/ /\ chan[b] = <<>>
          /\ Goto(d, "dial")
          /\ ref' = [ref EXCEPT ![d] = NoChan]
          /\ UNCHANGED <<chan, live, conn>>
       \/ /\ chan[b] # <<>>
          /\ Receive(b)
          /\ live' = live \ {Head(chan[b])}
          /\ ForgetClosed
          /\ UNCHANGED <<pc, ref>>
    /\ UNCHANGED <<keys, aged, poolClosed, dropped, cur, hand, mx, conns,
                   msgVars, requireTLS, sending, dest, histVars>>

\* "Ignore pool for connections with REQUIRETLS".
TakesPooled(d) == ~requireTLS[d]

\* Get reads the channel until it finds a connection that is usable and has
\* not been idle for too long.  With REQUIRETLS the one it finds is dropped:
\* neither used nor closed.
PoolPop(d) ==
    LET b == ref[d]
        c == Head(chan[b])
    IN
    /\ pc[d] = "pop"
    /\ \/ /\ chan[b] = <<>>
          /\ Goto(d, "dial")
          /\ ref' = [ref EXCEPT ![d] = NoChan]
          /\ UNCHANGED <<chan, live, dropped, conn, hand>>
       \/ /\ chan[b] # <<>>
          /\ Receive(b)
          /\ live' = live \ {c}
          /\ ForgetClosed
          /\ UNCHANGED <<dropped, pc, ref, hand>>
       \/ /\ chan[b] # <<>> /\ MayBeUsable(c)
          /\ Receive(b)
          /\ ref' = [ref EXCEPT ![d] = NoChan]
          /\ \/ /\ TakesPooled(d)
                /\ hand' = [hand EXCEPT ![d] = c]
                /\ Goto(d, "check")
                /\ UNCHANGED <<live, dropped, conn>>
             \/ /\ ~TakesPooled(d)
                /\ Drop(c)
                /\ ForgetClosed
                /\ Goto(d, "dial")
                /\ UNCHANGED hand
    /\ UNCHANGED <<keys, aged, poolClosed, cur, mx, conns, msgVars, requireTLS,
                   sending, dest, added, told, destLost>>

\* newConn: the MX records, or an error.
LookupMX(d) ==
    /\ pc[d] = "dial"
    /\ \/ /\ \E c \in Conns :
                /\ Free(c)
                /\ hand' = [hand EXCEPT ![d] = c]
          /\ mx' = [mx EXCEPT ![d] = 1]
          /\ Goto(d, "mx")
          /\ UNCHANGED cur
       \/ Back(d) /\ UNCHANGED <<hand, mx>>
    /\ UNCHANGED <<poolVars, live, ref, conns, msgVars, requireTLS, sending,
                   conn, dest, histVars>>

\* The outcomes of attemptMX with and without the policies.
WithPolicies == Outcomes(Configured)
WithoutPolicies == Outcomes({})
OutcomesFor(d) ==
    IF PoliciesOf(d) = {} THEN WithoutPolicies ELSE WithPolicies

\* What a failed attempt leaves in C: a connect that fails may have closed an
\* earlier client or not; Close after a refusal keeps the client when QUIT
\* fails.
ClientAfter(end, before) ==
    IF end = "mxRejected" THEN {before}
    ELSE IF end = "connectFailed" THEN {before, FALSE} ELSE BOOLEAN

\* newConn tries a record.  After the last one it gives up, unless C has a
\* client, closed or not; at a null MX it gives up at once.
AttemptMX(d) ==
    LET c == hand[d]
    IN
    /\ pc[d] = "mx"
    /\ \E o \in OutcomesFor(d) :
         \/ /\ o.end = "connected"
            /\ conn' = [conn EXCEPT ![c] =
                          [NewConn EXCEPT !.client = TRUE, !.secure = o.secure,
                                          !.meets = o.meets,
                                          !.strong = o.strong,
                                          !.waived = Waives(d)]]
            /\ live' = live \cup {c}
            /\ mx' = [mx EXCEPT ![d] = 0]
            /\ Goto(d, "check")
            /\ UNCHANGED <<cur, hand>>
         \/ /\ o.end # "connected"
            /\ \E client \in ClientAfter(o.end, conn[c].client) :
                 \/ /\ mx[d] < NumMX
                    /\ mx' = [mx EXCEPT ![d] = @ + 1]
                    /\ conn' = [conn EXCEPT ![c].client = client]
                    /\ UNCHANGED <<pc, cur, hand>>
                 \/ /\ client
                    /\ mx' = [mx EXCEPT ![d] = 0]
                    /\ conn' = [conn EXCEPT ![c].client = client]
                    /\ Goto(d, "check")
                    /\ UNCHANGED <<cur, hand>>
                 \/ /\ ~client \/ mx[d] < NumMX
                    /\ mx' = [mx EXCEPT ![d] = 0]
                    /\ conn' = [conn EXCEPT ![c] = NewConn]
                    /\ hand' = [hand EXCEPT ![d] = NoConn]
                    /\ Back(d)
            /\ UNCHANGED live
    /\ UNCHANGED <<poolVars, ref, conns, msgVars, requireTLS, sending, dest,
                   histVars>>

\* connectionForDomain: the levels that REQUIRETLS asks for.
CheckLevels(d) ==
    /\ pc[d] = "check"
    /\ \/ /\ requireTLS[d] /\ ~conn[hand[d]].secure
          /\ CloseHand(d)
          /\ Back(d)
       \/ /\ requireTLS[d] => conn[hand[d]].secure
          /\ Goto(d, "limit")
          /\ UNCHANGED <<live, conn, cur, hand>>
    /\ UNCHANGED <<poolVars, ref, mx, conns, msgVars, requireTLS, sending,
                   dest, histVars>>

\* TakeDest, then relaxed_requiretls: a server without the extension turns
\* REQUIRETLS off, for the rest of the message.
TakeDest(d) ==
    LET k == Dom(d)
    IN
    /\ pc[d] = "limit"
    /\ dest[k] < DestLimit
    /\ dest' = [dest EXCEPT ![k] = @ + 1]
    /\ \E extension \in BOOLEAN :
          requireTLS' = [requireTLS EXCEPT ![d] =
                            @ /\ ~(RelaxedREQUIRETLS /\ ~extension)]
    /\ Goto(d, "mail")
    /\ UNCHANGED <<poolVars, live, callVars, conns, msgVars, sending, conn,
                   histVars>>

\* Mutant: TakeDest waits for as long as it takes.
TakeDestTimeoutNever(d) == FALSE /\ UNCHANGED vars

\* TakeDest gives up after 5 seconds.
TakeDestTimeout(d) ==
    /\ pc[d] = "limit"
    /\ dest[Dom(d)] = DestLimit
    /\ CloseHand(d)
    /\ Back(d)
    /\ UNCHANGED <<poolVars, ref, mx, conns, msgVars, requireTLS, sending,
                   dest, histVars>>

\* MAIL.  An error leaves the limits of the destination taken.
Mail(d) ==
    LET k == Dom(d)
    IN
    /\ pc[d] = "mail"
    /\ \/ /\ hand[d] \in live
          /\ conns' = [conns EXCEPT ![d][k] = hand[d]]
          /\ hand' = [hand EXCEPT ![d] = NoConn]
          /\ Goto(d, "rcpt")
          /\ UNCHANGED <<live, conn, cur, destLost>>
       \/ /\ CloseHand(d)
          /\ destLost' = [destLost EXCEPT ![k] = @ + 1]
          /\ Back(d)
          /\ UNCHANGED conns
    /\ lifted' = [lifted EXCEPT ![d] =
                    IF tagged[d] /\ ~requireTLS[d]
                    THEN @ \cup {j \in Keys : conns'[d][j] = NoConn} ELSE @]
    /\ UNCHANGED <<poolVars, ref, mx, tagged, override, requireTLS, sending,
                   dest, added, told>>

\* RCPT.
Rcpt(d) ==
    /\ pc[d] = "rcpt"
    /\ \/ /\ conn' = [conn EXCEPT ![conns[d][Dom(d)]].rcpts =
                                     @ \cup {Sent[cur[d]]}]
          /\ added' = [added EXCEPT ![d] = @ \cup {cur[d]}]
       \/ UNCHANGED <<conn, added>>
    /\ Back(d)
    /\ UNCHANGED <<poolVars, live, hand, ref, mx, conns, msgVars, requireTLS,
                   sending, dest, told, destLost>>

-----------------------------------------------------------------------------
(***************************************************************************)
(* Body, BodyNonAtomic                                                     *)
(***************************************************************************)

\* SetStatus for some addresses; which status, the queue's model chooses.
SetStatus(d, S) == told' = [told EXCEPT ![d] = @ \cup S]

\* A quarantined message is refused for all; otherwise a goroutine is started
\* for each connection.
Body(d) ==
    /\ pc[d] = "open"
    /\ added[d] # {}
    /\ \/ /\ SetStatus(d, added[d])
          /\ Goto(d, "sent")
          /\ UNCHANGED sending
       \/ /\ sending' = [sending EXCEPT ![d] =
                           {k \in Keys : conns[d][k] # NoConn}]
          /\ Goto(d, "body")
          /\ UNCHANGED told
    /\ UNCHANGED <<poolVars, live, callVars, conns, msgVars, requireTLS, conn,
                   dest, added, destLost>>

\* Mutant: a body that cannot be opened ends the goroutine.
OpenFailsSilently(d, k) ==
    /\ UNCHANGED <<told, conn>>

\* The body cannot be opened.
OpenFails(d, k) ==
    /\ SetStatus(d, conn[conns[d][k]].rcpts)
    /\ UNCHANGED conn

\* The goroutine of a domain: the status of DATA is the status of all
\* recipients C knows.
SendData(d, k) ==
    LET c == conns[d][k]
    IN
    /\ SetStatus(d, conn[c].rcpts)
    /\ \E failed \in BOOLEAN : conn' = [conn EXCEPT ![c].errored = failed]

Send(d, k) ==
    /\ pc[d] = "body"
    /\ k \in sending[d]
    /\ sending' = [sending EXCEPT ![d] = @ \ {k}]
    /\ OpenFails(d, k) \/ SendData(d, k)
    /\ UNCHANGED <<poolVars, live, pc, callVars, conns, msgVars, requireTLS,
                   dest, added, destLost>>

\* wg.Wait.
BodyDone(d) ==
    /\ pc[d] = "body"
    /\ sending[d] = {}
    /\ Goto(d, "sent")
    /\ UNCHANGED <<poolVars, live, callVars, conns, msgVars, requireTLS,
                   sending, conn, dest, histVars>>

-----------------------------------------------------------------------------
(***************************************************************************)
(* Commit, Abort: Close                                                    *)
(***************************************************************************)

\* Nothing is sent any more: the recipients are forgotten.
Close(d) ==
    /\ pc[d] \in {"open", "sent"}
    /\ Goto(d, "close")
    /\ added' = [added EXCEPT ![d] = {}]
    /\ told' = [told EXCEPT ![d] = {}]
    /\ UNCHANGED <<poolVars, live, callVars, conns, msgVars, requireTLS,
                   sending, conn, dest, destLost>>

\* Mutant: the limits are released for connections that are kept only.
ReleaseDestKept(k, kept) == dest' = IF kept THEN [dest EXCEPT ![k] = @ - 1]
                                            ELSE dest

\* ReleaseDest comes before the connection is looked at.
ReleaseDest(k, kept) == dest' = [dest EXCEPT ![k] = @ - 1]

\* A connection is closed or returned to the pool.
CloseConn(d, k) ==
    LET c == conns[d][k]
    IN
    /\ pc[d] = "close"
    /\ c # NoConn
    /\ conns' = [conns EXCEPT ![d][k] = NoConn]
    /\ \/ /\ ReleaseDest(k, FALSE)
          /\ live' = live \ {c}
          /\ conn' = [conn EXCEPT ![c] = NewConn]
          /\ UNCHANGED poolVars
       \/ /\ MayBeUsable(c) /\ conn[c].uses + 1 <= ReuseLimit
          /\ ReleaseDest(k, TRUE)
          /\ Return(k, c, {ref[e] : e \in Deliveries})
          /\ conn' = [e \in Conns |->
                        IF e \in live \ live' THEN NewConn
                        ELSE IF e = c THEN [conn[c] EXCEPT !.uses = @ + 1]
                        ELSE conn[e]]
    /\ UNCHANGED <<pc, callVars, msgVars, requireTLS, sending, added, told,
                   destLost>>

\* All connections are closed; the next message may come.
Closed(d) ==
    /\ pc[d] = "close"
    /\ \A k \in Keys : conns[d][k] = NoConn
    /\ Goto(d, "new")
    /\ tagged' = [tagged EXCEPT ![d] = FALSE]
    /\ requireTLS' = [requireTLS EXCEPT ![d] = FALSE]
    /\ override' = [override EXCEPT ![d] = FALSE]
    /\ lifted' = [lifted EXCEPT ![d] = {}]
    /\ UNCHANGED <<poolVars, live, callVars, conns, sending, conn, dest,
                   histVars>>

-----------------------------------------------------------------------------
OfPool ==
    /\ \/ \E b \in Chans : Age(b)
       \/ CleanUp
       \/ ClosePool
       \/ \E c \in Conns : Collect(c)
    /\ ForgetClosed
    /\ UNCHANGED <<pc, callVars, conns, msgVars, requireTLS, sending, dest,
                   histVars>>

\* What the source calls.
Call(d) ==
    \/ Start(d)
    \/ \E r \in Rcpts : AddRcpt(d, r)
    \/ Body(d)
    \/ Close(d)

\* What the delivery does to return from a call.
Work(d) ==
    \/ PoolGet(d) \/ PoolDrain(d) \/ PoolPop(d)
    \/ LookupMX(d) \/ AttemptMX(d) \/ CheckLevels(d)
    \/ TakeDest(d) \/ TakeDestTimeout(d) \/ Mail(d) \/ Rcpt(d)
    \/ \E k \in Keys : Send(d, k) \/ CloseConn(d, k)
    \/ BodyDone(d) \/ Closed(d)

Next == OfPool \/ \E d \in Deliveries : Call(d) \/ Work(d)

Spec == Init /\ [][Next]_vars

-----------------------------------------------------------------------------
(***************************************************************************)
(* Properties                                                              *)
(***************************************************************************)

(* "Set the minimal TLS security level required for all outbound messages":*)
(* a message that does not waive the policies goes only over connections   *)
(* they accept, but for pooled ones that a message which did had opened:   *)
(* connectionForDomain does not ask under which policies one was accepted. *)
PoliciesHold ==
    \A d \in Deliveries, k \in Keys :
        conns[d][k] # NoConn /\ ~Waives(d)
            => conn[conns[d][k]].meets \/ conn[conns[d][k]].waived

(* A message with REQUIRETLS goes only to servers whose identity and whose *)
(* MX record were authenticated (RFC 8689; connectionForDomain): to all    *)
(* of them without relaxed_requiretls, and with it to all up to and with   *)
(* the first one that lacks the extension and thereby lifts REQUIRETLS.    *)
REQUIRETLSHonoured ==
    \A d \in Deliveries, k \in Keys :
        conns[d][k] # NoConn /\ tagged[d] =>
            \/ conn[conns[d][k]].strong
            \/ RelaxedREQUIRETLS /\ k \in lifted[d]

(* Two messages never share a connection: it is in one channel of the pool *)
(* once, or in the hands of one delivery for one domain.  One that is open *)
(* has an owner that will close it, unless Return to a closed pool or      *)
(* connectionForDomain for REQUIRETLS has dropped it, and a dropped one is *)
(* in nobody's hands again.                                                *)
OneOwner ==
    /\ \A b1, b2 \in Chans : \A i \in DOMAIN chan[b1], j \in DOMAIN chan[b2] :
          chan[b1][i] = chan[b2][j] => b1 = b2 /\ i = j
    /\ \A d \in Deliveries :
          /\ Held(d) \cap Pooled = {}
          /\ \A e \in Deliveries \ {d} : Held(d) \cap Held(e) = {}
          /\ \A k, l \in Keys :
                conns[d][k] # NoConn /\ conns[d][k] = conns[d][l] => k = l
    /\ live \subseteq Pooled \cup UNION {Held(d) : d \in Deliveries}
    /\ dropped \cap (Pooled \cup UNION {Held(d) : d \in Deliveries}) = {}

(* The limit of a destination is held once for each connection in use, and *)
(* for each MAIL that failed (destLost: connectionForDomain does not       *)
(* release it).                                                            *)
DestBalanced ==
    \A k \in Keys :
        dest[k] = destLost[k]
                  + Cardinality({d \in Deliveries : conns[d][k] # NoConn})
                  + Cardinality({d \in Deliveries : pc[d] = "mail"
                                                    /\ Dom(d) = k})

(* BodyNonAtomic reports a status for every recipient that AddRcpt         *)
(* accepted: the queue takes one without a status for delivered            *)
(* (StatusCollector; Rcpts of smtpconn).                                   *)
EachIsTold ==
    \A d \in Deliveries : pc[d] = "sent" => added[d] \subseteq told[d]

(* A call can always go on: a delivery that holds the limit of one         *)
(* destination and waits for that of another is not stuck, nor is one whose*)
(* channel of the pool was dropped or closed under it (TakeDest, Get).     *)
CallGoesOn ==
    \A d \in Deliveries : pc[d] \notin Between => ENABLED Work(d)
=============================================================================
