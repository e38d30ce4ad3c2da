---------------------------- MODULE RemoteProofs ----------------------------
(***************************************************************************)
(* Proofs about Remote, for any number of deliveries, domains, connections *)
(* and channels, any limits and any configuration of the policies.         *)
(***************************************************************************)
EXTENDS Remote, Integers, FiniteSetTheorems, TLAPS

-----------------------------------------------------------------------------
(***************************************************************************)
(* The inductive invariant                                                 *)
(***************************************************************************)

\* What a connection may be.
ConnRecords ==
    [client : BOOLEAN, secure : BOOLEAN, meets : BOOLEAN, strong : BOOLEAN,
     waived : BOOLEAN, uses : Nat, errored : BOOLEAN, rcpts : SUBSET Addrs]

\* Places where connectionForDomain has a connection that is not the
\* delivery's yet.
WithHand == {"mx", "check", "limit", "mail"}

\* The types of all variables.  That dest does not fall below zero is
\* DestBalanced's matter.
CallTypes ==
    /\ pc \in [Deliveries -> Between \cup InAddRcpt \cup {"body", "close"}]
    /\ cur \in [Deliveries -> Rcpts \cup {NoRcpt}]
    /\ hand \in [Deliveries -> Conns \cup {NoConn}]
    /\ ref \in [Deliveries -> Chans \cup {NoChan}]
    /\ mx \in [Deliveries -> Nat]
MsgTypes ==
    /\ conns \in [Deliveries -> [Keys -> Conns \cup {NoConn}]]
    /\ tagged \in [Deliveries -> BOOLEAN]
    /\ requireTLS \in [Deliveries -> BOOLEAN]
    /\ override \in [Deliveries -> BOOLEAN]
    /\ sending \in [Deliveries -> SUBSET Keys]
    /\ lifted \in [Deliveries -> SUBSET Keys]
DestTypes ==
    /\ dest \in [Keys -> Int]
    /\ \A k \in Keys : dest[k] <= DestLimit
    /\ destLost \in [Keys -> Nat]
HistTypes ==
    /\ added \in [Deliveries -> SUBSET Rcpts]
    /\ told \in [Deliveries -> SUBSET Addrs]
ConnTypes == conn \in [Conns -> ConnRecords]
TypeInv ==
    PoolTypeOK /\ CallTypes /\ MsgTypes /\ DestTypes /\ HistTypes /\ ConnTypes

\* What a delivery has where it is.
PlaceOf(d) ==
    /\ pc[d] \in InAddRcpt => cur[d] \in Rcpts
    /\ pc[d] \in {"drain", "pop"} => ref[d] \in Chans
    /\ pc[d] \in WithHand <=> hand[d] # NoConn
    /\ pc[d] \in InAddRcpt \ {"rcpt"} => conns[d][Dom(d)] = NoConn
    /\ pc[d] = "rcpt" => conns[d][Dom(d)] # NoConn
    /\ pc[d] = "new" => \A k \in Keys : conns[d][k] = NoConn
    /\ pc[d] = "mx" => hand[d] \notin live
    /\ pc[d] = "body" => \A k \in sending[d] : conns[d][k] # NoConn

PlaceInv == \A d \in Deliveries : PlaceOf(d)

\* A connection is in the pool once.
PoolApart ==
    \A b1, b2 \in Chans : \A i \in DOMAIN chan[b1], j \in DOMAIN chan[b2] :
        chan[b1][i] = chan[b2][j] => b1 = b2 /\ i = j

\* What deliveries hold is not in the pool, and nobody else holds it.
HeldApart ==
    /\ \A d \in Deliveries : hand[d] \notin Pooled
    /\ \A d \in Deliveries, k \in Keys : conns[d][k] \notin Pooled
    /\ \A d, e \in Deliveries :
          hand[d] = hand[e] /\ hand[d] # NoConn => d = e
    /\ \A d, e \in Deliveries, k \in Keys :
          hand[d] # NoConn => hand[d] # conns[e][k]
    /\ \A d, e \in Deliveries, k, l \in Keys :
          conns[d][k] = conns[e][l] /\ conns[d][k] # NoConn => d = e /\ k = l

\* A connection that is open has an owner, and those of a delivery are open.
LiveInv ==
    /\ \A c \in live :
          \/ c \in Pooled
          \/ \E d \in Deliveries : hand[d] = c
          \/ \E d \in Deliveries, k \in Keys : conns[d][k] = c
    /\ \A d \in Deliveries, k \in Keys :
          conns[d][k] # NoConn => conns[d][k] \in live

OwnInv == TypeInv /\ PlaceInv /\ PoolApart /\ HeldApart /\ LiveInv

\* The policies accepted every open connection, but for those of messages
\* they did not apply to.
PolicyInv == \A c \in live : conn[c].meets \/ conn[c].waived

\* A connection that was dropped is in nobody's hands.
Owned(c) ==
    \/ c \in Pooled
    \/ \E d \in Deliveries : hand[d] = c
    \/ \E d \in Deliveries, k \in Keys : conns[d][k] = c

DropInv == \A c \in dropped : ~Owned(c)

\* REQUIRETLS is taken from a message by relaxed_requiretls only, and when
\* it is gone every domain without a connection is one it was lifted for.
TagOf(d) ==
    /\ requireTLS[d] => tagged[d]
    /\ pc[d] = "new" => ~tagged[d]
    /\ tagged[d] /\ ~requireTLS[d] => RelaxedREQUIRETLS
    /\ lifted[d] # {} => RelaxedREQUIRETLS
    /\ tagged[d] /\ ~requireTLS[d] /\ pc[d] \notin {"mail", "close"} =>
          \A k \in Keys : conns[d][k] = NoConn => k \in lifted[d]

\* A connection that was checked for REQUIRETLS is as strong as it asks for;
\* all are that were not opened after it was lifted.
RequireInv ==
    /\ \A c \in live : conn[c].secure => conn[c].strong
    /\ \A d \in Deliveries : TagOf(d)
    /\ \A d \in Deliveries :
          /\ tagged[d] /\ Dom(d) \notin lifted[d] =>
                (pc[d] \in {"limit", "mail"} /\ hand[d] \in live
                 => conn[hand[d]].secure)
          /\ \A k \in Keys :
                tagged[d] /\ k \notin lifted[d] /\ conns[d][k] # NoConn
                => conn[conns[d][k]].secure

\* The recipients of a message are those its connections know, and while the
\* body is sent those whose goroutine has run are told.
ToldInv ==
    \A d \in Deliveries :
        /\ pc[d] \notin {"new", "close"} => \A r \in added[d] :
              /\ conns[d][Domain[r]] # NoConn
              /\ Sent[r] \in conn[conns[d][Domain[r]]].rcpts
        /\ pc[d] = "body" => \A r \in added[d] :
              Domain[r] \in sending[d] \/ Sent[r] \in told[d]
        /\ pc[d] = "sent" => added[d] \subseteq told[d]
        /\ pc[d] \in {"new", "close"} => added[d] = {}

-----------------------------------------------------------------------------
(***************************************************************************)
(* What the outcomes of attemptMX mean                                     *)
(***************************************************************************)

\* The levels, and the policies that take part.
LEMMA LevelsAre ==
    /\ TLSNone = 0 /\ TLSEncrypted = 1 /\ TLSAuthenticated = 2
    /\ MXNone = 0 /\ MX_MTASTS = 1 /\ MX_DNSSEC = 2
    /\ Configured \subseteq PolicyNames
    /\ MinTLS \in 0 .. 2 /\ MinMX \in 0 .. 2
  BY MxAuthAssumption DEF TLSNone, TLSEncrypted, TLSAuthenticated, MXNone,
     MX_MTASTS, MX_DNSSEC

\* connect ends in one of the four ways, whatever the server answers.
LEMMA WiresAre == Connections \subseteq Wires
  BY DEF Connections, Connect, WireOf, Wires

\* v is a verdict.
Says(v) == v.ok \in BOOLEAN /\ v.level \in Nat

\* A policy that takes part adds what its method says.
LEMMA ConsiderIs ==
    ASSUME NEW P, NEW f, NEW v, Says(v), NEW p, NEW check, NEW r, Says(r),
           r = IF check = "CheckMX" THEN CheckMX(p, f, v.level)
               ELSE CheckConn(p, f, v.level),
           NEW w, w = Consider(P, check, f, v, p)
    PROVE  /\ Says(w)
           /\ w.ok <=> v.ok /\ (p \in P => r.ok)
           /\ w.level = IF v.ok /\ p \in P /\ v.level < r.level
                        THEN r.level ELSE v.level
  <1>1. CASE p \notin P \/ ~v.ok
    <2>1. w = v
      BY <1>1 DEF Consider
    <2> QED
      BY <1>1, <2>1 DEF Says
  <1>2. CASE p \in P /\ v.ok
    <2>1. w = [ok |-> r.ok, level |-> Higher(v.level, r.level)]
      BY <1>2 DEF Consider
    <2>2. w.level = Higher(v.level, r.level)
      BY <2>1
    <2>3. w.level = IF v.level < r.level THEN r.level ELSE v.level
      BY <2>2 DEF Higher
    <2>4. w.level \in Nat
      BY <2>3 DEF Says
    <2>5. w.ok = r.ok
      BY <2>1
    <2> QED
      BY <1>2, <2>3, <2>4, <2>5 DEF Says
  <1> QED
    BY <1>1, <1>2

\* The verdict that a record says.
LEMMA RecordSays ==
    ASSUME NEW A \in BOOLEAN, NEW l \in Nat, NEW r,
           r = [ok |-> A, level |-> l]
    PROVE  Says(r) /\ (r.ok <=> A) /\ r.level = l
  <1>1. r.ok = A /\ r.level = l
    OBVIOUS
  <1> QED
    BY <1>1 DEF Says

\* What CheckMX of the policies says.
LEMMA CheckMXIs ==
    ASSUME NEW f, NEW level
    PROVE  /\ CheckMX("mtasts", f, level) =
                  [ok    |-> ~(f.sts = "enforce" /\ ~f.match),
                   level |-> IF f.sts # "none" /\ f.match THEN 1 ELSE 0]
           /\ CheckMX("dane", f, level) = [ok |-> TRUE, level |-> 0]
           /\ CheckMX("dnssec", f, level) =
                  [ok |-> TRUE, level |-> IF f.ad THEN 2 ELSE 0]
           /\ CheckMX("local_policy", f, level) =
                  [ok |-> level >= MinMX, level |-> 0]
  <1>1. CheckMX("mtasts", f, level) = MtastsCheckMX(f)
    BY DEF CheckMX
  <1>2. CheckMX("dnssec", f, level) = DnssecCheckMX(f)
    BY DEF CheckMX
  <1>3. CheckMX("local_policy", f, level) = LocalCheckMX(level)
    BY DEF CheckMX
  <1>4. CheckMX("dane", f, level) = NoObjection
    BY DEF CheckMX
  <1> QED
    BY <1>1, <1>2, <1>3, <1>4, LevelsAre
    DEF MtastsCheckMX, DnssecCheckMX, LocalCheckMX, NoObjection

\* What CheckConn of the policies says.
LEMMA CheckConnIs ==
    ASSUME NEW f, NEW level
    PROVE  /\ CheckConn("mtasts", f, level) =
                  [ok    |-> f.sts = "enforce" => f.wire = "verified",
                   level |-> 0]
           /\ CheckConn("dane", f, level) =
                  [ok    |-> /\ f.tlsa # "error"
                             /\ \/ f.tlsa = "none"
                                \/ /\ f.wire # "plain"
                                   /\ f.tlsa \in {"unusable", "match"},
                   level |-> IF f.wire # "plain" /\ f.tlsa = "match"
                             THEN 2 ELSE 0]
           /\ CheckConn("dnssec", f, level) = [ok |-> TRUE, level |-> 0]
           /\ CheckConn("local_policy", f, level) =
                  [ok |-> level >= MinTLS, level |-> 0]
  <1>1. CheckConn("mtasts", f, level) = MtastsCheckConn(f)
    BY DEF CheckConn
  <1>2. CheckConn("dane", f, level) = DaneCheckConn(f)
    BY DEF CheckConn
  <1>3. CheckConn("local_policy", f, level) = LocalCheckConn(level)
    BY DEF CheckConn
  <1>4. CheckConn("dnssec", f, level) = NoObjection
    BY DEF CheckConn
  <1>5. DaneCheckConn(f) =
           [ok    |-> f.tlsa # "error" /\ VerifyDANE(f.tlsa, f.wire).ok,
            level |-> IF VerifyDANE(f.tlsa, f.wire).overridePKIX
                      THEN 2 ELSE 0]
    BY LevelsAre DEF DaneCheckConn
  <1> QED
    BY <1>1, <1>2, <1>3, <1>4, <1>5, LevelsAre
    DEF MtastsCheckConn, VerifyDANE, LocalCheckConn, NoObjection

\* The verdict is what the four policies add, one after the other.
LEMMA VerdictIs ==
    ASSUME NEW P, NEW f, NEW check, NEW start
    PROVE  LET v0 == [ok |-> TRUE, level |-> start]
               v1 == Consider(P, check, f, v0, "mtasts")
               v2 == Consider(P, check, f, v1, "dane")
               v3 == Consider(P, check, f, v2, "dnssec")
           IN  Verdict(P, check, f, start)
                  = Consider(P, check, f, v3, "local_policy")
  BY DEF Verdict, PolicyOrder

\* The verdict on an MX: its level is that of the record, an enforced MTA-STS
\* policy lists it, and local_policy finds the level high enough.
LEMMA MXVerdict ==
    ASSUME NEW P, NEW f, f.match \in BOOLEAN, f.ad \in BOOLEAN,
           NEW v, v = Verdict(P, "CheckMX", f, MXNone)
    PROVE  /\ Says(v)
           /\ v.level >= MX_MTASTS => MXAuthenticated(f)
           /\ v.ok /\ "mtasts" \in P /\ f.sts = "enforce" => f.match
           /\ v.ok /\ "local_policy" \in P =>
                MinMX <= IF "dnssec" \in P /\ f.ad THEN MX_DNSSEC
                         ELSE IF "mtasts" \in P /\ f.sts # "none" /\ f.match
                         THEN MX_MTASTS ELSE MXNone
  <1> DEFINE say(w, p) == Consider(P, "CheckMX", f, w, p)
  <1>0. PICK v0 : v0 = [ok |-> TRUE, level |-> 0]
    OBVIOUS
  <1>1. PICK v1 : v1 = say(v0, "mtasts")
    OBVIOUS
  <1>2. PICK v2 : v2 = say(v1, "dane")
    OBVIOUS
  <1>3. PICK v3 : v3 = say(v2, "dnssec")
    OBVIOUS
  <1>4. v = say(v3, "local_policy")
    BY <1>0, <1>1, <1>2, <1>3, VerdictIs, LevelsAre
  <1>5. Says(v0) /\ v0.ok /\ v0.level = 0
    BY <1>0, RecordSays
  <1>6. /\ Says(v1)
        /\ v1.ok <=> ("mtasts" \in P => ~(f.sts = "enforce" /\ ~f.match))
        /\ v1.level = IF "mtasts" \in P /\ f.sts # "none" /\ f.match
                      THEN 1 ELSE 0
    <2>1. PICK r : r = CheckMX("mtasts", f, v0.level)
      OBVIOUS
    <2>2. /\ Says(r) /\ (r.ok <=> ~(f.sts = "enforce" /\ ~f.match))
          /\ r.level = IF f.sts # "none" /\ f.match THEN 1 ELSE 0
      <3>1. (IF f.sts # "none" /\ f.match THEN 1 ELSE 0) \in Nat
        OBVIOUS
      <3>2. r = [ok    |-> ~(f.sts = "enforce" /\ ~f.match),
                 level |-> IF f.sts # "none" /\ f.match THEN 1 ELSE 0]
        BY <2>1, CheckMXIs
      <3> QED
        BY <3>1, <3>2, RecordSays, Zenon
    <2>3. /\ Says(v1) /\ (v1.ok <=> v0.ok /\ ("mtasts" \in P => r.ok))
          /\ v1.level = IF v0.ok /\ "mtasts" \in P /\ v0.level < r.level
                        THEN r.level ELSE v0.level
      BY <1>1, <1>5, <2>1, <2>2, ConsiderIs
    <2> QED
      BY <1>5, <2>2, <2>3
  <1>7. Says(v2) /\ (v2.ok <=> v1.ok) /\ v2.level = v1.level
    <2>1. PICK r : r = CheckMX("dane", f, v1.level)
      OBVIOUS
    <2>2. Says(r) /\ r.ok /\ r.level = 0
      <3>1. r = [ok |-> TRUE, level |-> 0]
        BY <2>1, CheckMXIs
      <3> QED
        BY <3>1, RecordSays
    <2>3. /\ Says(v2) /\ (v2.ok <=> v1.ok /\ ("dane" \in P => r.ok))
          /\ v2.level = IF v1.ok /\ "dane" \in P /\ v1.level < r.level
                        THEN r.level ELSE v1.level
      BY <1>2, <1>6, <2>1, <2>2, ConsiderIs
    <2> QED
      BY <1>6, <2>2, <2>3 DEF Says
  <1>8. /\ Says(v3) /\ (v3.ok <=> v2.ok)
        /\ v3.level = IF v2.ok /\ "dnssec" \in P /\ f.ad THEN 2 ELSE v2.level
    <2>1. PICK r : r = CheckMX("dnssec", f, v2.level)
      OBVIOUS
    <2>2. Says(r) /\ r.ok /\ r.level = IF f.ad THEN 2 ELSE 0
      <3>1. (IF f.ad THEN 2 ELSE 0) \in Nat
        OBVIOUS
      <3>2. r = [ok |-> TRUE, level |-> IF f.ad THEN 2 ELSE 0]
        BY <2>1, CheckMXIs
      <3> QED
        BY <3>1, <3>2, RecordSays, Zenon
    <2>3. /\ Says(v3) /\ (v3.ok <=> v2.ok /\ ("dnssec" \in P => r.ok))
          /\ v3.level = IF v2.ok /\ "dnssec" \in P /\ v2.level < r.level
                        THEN r.level ELSE v2.level
      BY <1>3, <1>7, <2>1, <2>2, ConsiderIs
    <2>4. v2.level \in {0, 1}
      BY <1>6, <1>7
    <2> QED
      BY <2>2, <2>3, <2>4
  <1>9. /\ Says(v) /\ v.level = v3.level
        /\ v.ok <=> v3.ok /\ ("local_policy" \in P => v3.level >= MinMX)
    <2>1. PICK r : r = CheckMX("local_policy", f, v3.level)
      OBVIOUS
    <2>2. Says(r) /\ (r.ok <=> v3.level >= MinMX) /\ r.level = 0
      <3>1. (v3.level >= MinMX) \in BOOLEAN
        BY <1>8, LevelsAre DEF Says
      <3>2. r = [ok |-> v3.level >= MinMX, level |-> 0]
        BY <2>1, CheckMXIs
      <3>3. 0 \in Nat
        OBVIOUS
      <3> QED
        BY <3>1, <3>2, <3>3, RecordSays, Zenon
    <2>3. /\ Says(v) /\ (v.ok <=> v3.ok /\ ("local_policy" \in P => r.ok))
          /\ v.level = IF v3.ok /\ "local_policy" \in P /\ v3.level < r.level
                       THEN r.level ELSE v3.level
      BY <1>4, <1>8, <2>1, <2>2, ConsiderIs
    <2> QED
      BY <1>8, <2>2, <2>3 DEF Says
  <1>10. v.level >= MX_MTASTS => MXAuthenticated(f)
    BY <1>6, <1>7, <1>8, <1>9, LevelsAre DEF MXAuthenticated
  <1>11. v.ok /\ "local_policy" \in P => v3.level >= MinMX
    BY <1>9
  <1>12. v.ok => v1.ok /\ v2.ok /\ v3.ok
    BY <1>7, <1>8, <1>9
  <1>13. v.ok => v3.level = IF "dnssec" \in P /\ f.ad THEN 2
                            ELSE IF "mtasts" \in P /\ f.sts # "none" /\ f.match
                            THEN 1 ELSE 0
    BY <1>6, <1>7, <1>8, <1>12
  <1>14. v.ok /\ "mtasts" \in P /\ f.sts = "enforce" => f.match
    BY <1>6, <1>12
  <1> QED
    BY <1>9, <1>10, <1>11, <1>13, <1>14, LevelsAre

\* The verdict on a connection: it is as an enforced MTA-STS policy, the TLSA
\* records and local_policy ask for, and its level is the one it deserves.
LEMMA ConnVerdict ==
    ASSUME NEW P, NEW f, f.wire \in Wires,
           NEW v, v = Verdict(P, "CheckConn", f, WireLevel(f.wire))
    PROVE  /\ Says(v)
           /\ v.level >= TLSAuthenticated /\ f.wire # "failed"
                => ServerAuthenticated(f)
           /\ v.ok /\ "mtasts" \in P /\ f.sts = "enforce"
                => f.wire = "verified"
           /\ v.ok /\ "dane" \in P =>
                /\ f.tlsa \notin {"error", "mismatch"}
                /\ f.tlsa # "none" => f.wire # "plain"
           /\ v.ok /\ "local_policy" \in P /\ f.wire # "failed" => MinTLS <=
                IF f.wire = "plain" THEN TLSNone
                ELSE IF f.wire = "verified" \/ ("dane" \in P /\ f.tlsa = "match")
                THEN TLSAuthenticated ELSE TLSEncrypted
  <1> DEFINE say(w, p) == Consider(P, "CheckConn", f, w, p)
  <1>0. PICK l0 : l0 = WireLevel(f.wire)
    OBVIOUS
  <1>00. /\ l0 = IF f.wire = "verified" THEN 2
                 ELSE IF f.wire = "unverified" THEN 1 ELSE 0
         /\ l0 \in Nat
    BY <1>0, LevelsAre DEF WireLevel
  <1>1. PICK v0 : v0 = [ok |-> TRUE, level |-> l0]
    OBVIOUS
  <1>2. PICK v1 : v1 = say(v0, "mtasts")
    OBVIOUS
  <1>3. PICK v2 : v2 = say(v1, "dane")
    OBVIOUS
  <1>4. PICK v3 : v3 = say(v2, "dnssec")
    OBVIOUS
  <1>5. v = say(v3, "local_policy")
    BY <1>0, <1>1, <1>2, <1>3, <1>4, VerdictIs
  <1>6. Says(v0) /\ v0.ok /\ v0.level = l0
    BY <1>00, <1>1, RecordSays
  <1>7. /\ Says(v1) /\ v1.level = l0
        /\ v1.ok <=> ("mtasts" \in P /\ f.sts = "enforce"
                            => f.wire = "verified")
    <2>1. PICK r : r = CheckConn("mtasts", f, v0.level)
      OBVIOUS
    <2>2. /\ Says(r) /\ r.level = 0
          /\ r.ok <=> (f.sts = "enforce" => f.wire = "verified")
      <3>1. r = [ok    |-> f.sts = "enforce" => f.wire = "verified",
                 level |-> 0]
        BY <2>1, CheckConnIs
      <3>2. 0 \in Nat
        OBVIOUS
      <3> QED
        BY <3>1, <3>2, RecordSays, Zenon
    <2>3. /\ Says(v1) /\ (v1.ok <=> v0.ok /\ ("mtasts" \in P => r.ok))
          /\ v1.level = IF v0.ok /\ "mtasts" \in P /\ v0.level < r.level
                        THEN r.level ELSE v0.level
      <3>1. r = IF "CheckConn" = "CheckMX" THEN CheckMX("mtasts", f, v0.level)
                ELSE CheckConn("mtasts", f, v0.level)
        BY <2>1
      <3> QED
        BY <1>2, <1>6, <2>2, <3>1, ConsiderIs
    <2>4. v1.level = l0
      BY <1>00, <1>6, <2>2, <2>3
    <2> QED
      BY <1>6, <2>2, <2>3, <2>4
  <1>8. /\ Says(v2)
        /\ v2.ok <=> v1.ok /\ ("dane" \in P =>
              /\ f.tlsa # "error"
              /\ \/ f.tlsa = "none"
                 \/ f.wire # "plain" /\ f.tlsa \in {"unusable", "match"})
        /\ v2.level = IF /\ v1.ok /\ "dane" \in P
                         /\ f.wire # "plain" /\ f.tlsa = "match"
                      THEN 2 ELSE l0
    <2>1. PICK r : r = CheckConn("dane", f, v1.level)
      OBVIOUS
    <2>2. /\ Says(r)
          /\ r.ok <=> /\ f.tlsa # "error"
                      /\ \/ f.tlsa = "none"
                         \/ f.wire # "plain" /\ f.tlsa \in {"unusable", "match"}
          /\ r.level = IF f.wire # "plain" /\ f.tlsa = "match" THEN 2 ELSE 0
      <3> DEFINE ok == /\ f.tlsa # "error"
                       /\ \/ f.tlsa = "none"
                          \/ /\ f.wire # "plain"
                             /\ f.tlsa \in {"unusable", "match"}
                 l == IF f.wire # "plain" /\ f.tlsa = "match" THEN 2 ELSE 0
      <3>1. r = [ok |-> ok, level |-> l]
        BY <2>1, CheckConnIs
      <3>2. l \in Nat
        OBVIOUS
      <3>3. ok \in BOOLEAN
        OBVIOUS
      <3> QED
        BY <3>1, <3>2, <3>3, RecordSays, Zenon
    <2>3. /\ Says(v2) /\ (v2.ok <=> v1.ok /\ ("dane" \in P => r.ok))
          /\ v2.level = IF v1.ok /\ "dane" \in P /\ v1.level < r.level
                        THEN r.level ELSE v1.level
      <3>1. r = IF "CheckConn" = "CheckMX" THEN CheckMX("dane", f, v1.level)
                ELSE CheckConn("dane", f, v1.level)
        BY <2>1
      <3> QED
        BY <1>3, <1>7, <2>2, <3>1, ConsiderIs
    <2>4. v2.level = IF /\ v1.ok /\ "dane" \in P
                        /\ f.wire # "plain" /\ f.tlsa = "match"
                     THEN 2 ELSE l0
      BY <1>00, <1>7, <2>2, <2>3
    <2> QED
      BY <2>2, <2>3, <2>4
  <1>9. Says(v3) /\ (v3.ok <=> v2.ok) /\ v3.level = v2.level
    <2>1. PICK r : r = CheckConn("dnssec", f, v2.level)
      OBVIOUS
    <2>2. Says(r) /\ r.ok /\ r.level = 0
      <3>1. r = [ok |-> TRUE, level |-> 0]
        BY <2>1, CheckConnIs
      <3> QED
        BY <3>1, RecordSays
    <2>3. /\ Says(v3) /\ (v3.ok <=> v2.ok /\ ("dnssec" \in P => r.ok))
          /\ v3.level = IF v2.ok /\ "dnssec" \in P /\ v2.level < r.level
                        THEN r.level ELSE v2.level
      <3>1. r = IF "CheckConn" = "CheckMX" THEN CheckMX("dnssec", f, v2.level)
                ELSE CheckConn("dnssec", f, v2.level)
        BY <2>1
      <3> QED
        BY <1>4, <1>8, <2>2, <3>1, ConsiderIs
    <2>4. v2.level \in Nat
      BY <1>8 DEF Says
    <2>5. v3.level = v2.level
      BY <2>2, <2>3, <2>4
    <2> QED
      BY <2>2, <2>3, <2>5
  <1>10. /\ Says(v) /\ v.level = v3.level
         /\ v.ok <=> v3.ok /\ ("local_policy" \in P => v3.level >= MinTLS)
    <2>1. PICK r : r = CheckConn("local_policy", f, v3.level)
      OBVIOUS
    <2>2. Says(r) /\ (r.ok <=> v3.level >= MinTLS) /\ r.level = 0
      <3>1. (v3.level >= MinTLS) \in BOOLEAN
        BY <1>9, LevelsAre DEF Says
      <3>2. r = [ok |-> v3.level >= MinTLS, level |-> 0]
        BY <2>1, CheckConnIs
      <3>3. 0 \in Nat
        OBVIOUS
      <3> QED
        BY <3>1, <3>2, <3>3, RecordSays, Zenon
    <2>3. /\ Says(v) /\ (v.ok <=> v3.ok /\ ("local_policy" \in P => r.ok))
          /\ v.level = IF v3.ok /\ "local_policy" \in P /\ v3.level < r.level
                       THEN r.level ELSE v3.level
      <3>1. r = IF "CheckConn" = "CheckMX"
                THEN CheckMX("local_policy", f, v3.level)
                ELSE CheckConn("local_policy", f, v3.level)
        BY <2>1
      <3> QED
        BY <1>5, <1>9, <2>2, <3>1, ConsiderIs
    <2> QED
      BY <1>9, <2>2, <2>3 DEF Says
  <1>11. v.level >= TLSAuthenticated /\ f.wire # "failed"
            => ServerAuthenticated(f)
    BY <1>00, <1>8, <1>9, <1>10, LevelsAre DEF ServerAuthenticated, Wires
  <1>12. v.ok => v1.ok /\ v2.ok /\ v3.ok
    BY <1>8, <1>9, <1>10
  <1>13. v.ok /\ "local_policy" \in P => v2.level >= MinTLS
    BY <1>9, <1>10
  <1>14. v.ok /\ f.wire # "failed" => v2.level =
            IF f.wire = "plain" THEN 0
            ELSE IF f.wire = "verified" \/ ("dane" \in P /\ f.tlsa = "match")
            THEN 2 ELSE 1
    BY <1>00, <1>8, <1>12 DEF Wires
  <1>15. v.ok /\ "mtasts" \in P /\ f.sts = "enforce" => f.wire = "verified"
    BY <1>7, <1>12
  <1>16. v.ok /\ "dane" \in P => /\ f.tlsa \notin {"error", "mismatch"}
                                 /\ f.tlsa # "none" => f.wire # "plain"
    BY <1>8, <1>12
  <1> QED
    BY <1>10, <1>11, <1>13, <1>14, <1>15, <1>16, LevelsAre

\* What the outcomes of attemptMX say of the connection is true of it:
\* whatever policies apply, one that passes for REQUIRETLS is strong, and
\* under the configured policies one that is kept is as they ask.
LEMMA OutcomesMean ==
    ASSUME NEW P, NEW o \in Outcomes(P)
    PROVE  /\ o.secure \in BOOLEAN /\ o.meets \in BOOLEAN /\ o.strong \in BOOLEAN
           /\ o.end = "connected" /\ o.secure => o.strong
           /\ o.end = "connected" /\ P = Configured => o.meets
  <1>1. PICK f \in Facts :
            o = LET a == Attempt(P, f)
                    open == a.end = "connected"
                IN  [end |-> a.end, secure |-> open /\ SecureEnough(a),
                     meets |-> open /\ Meets(f), strong |-> open /\ Strong(f)]
    BY DEF Outcomes
  <1>2. f.match \in BOOLEAN /\ f.ad \in BOOLEAN /\ f.wire \in Wires
    BY WiresAre DEF Facts
  <1>3. PICK m : m = Verdict(P, "CheckMX", f, MXNone)
    OBVIOUS
  <1>4. PICK v : v = Verdict(P, "CheckConn", f, WireLevel(f.wire))
    OBVIOUS
  <1>5. PICK a : a = Attempt(P, f)
    OBVIOUS
  <1>6. /\ a.end = IF ~m.ok THEN "mxRejected"
                   ELSE IF f.wire = "failed" THEN "connectFailed"
                   ELSE IF ~v.ok THEN "connRejected" ELSE "connected"
        /\ a.tlsLevel = v.level /\ a.mxLevel = m.level
    BY <1>3, <1>4, <1>5 DEF Attempt
  <1>7. a.end = "connected" => m.ok /\ v.ok /\ f.wire # "failed"
    BY <1>6
  <1>8. o = [end |-> a.end, secure |-> a.end = "connected" /\ SecureEnough(a),
             meets |-> a.end = "connected" /\ Meets(f),
             strong |-> a.end = "connected" /\ Strong(f)]
    BY <1>1, <1>5
  <1>9. /\ o.end = a.end
        /\ o.secure = (a.end = "connected" /\ SecureEnough(a))
        /\ o.meets = (a.end = "connected" /\ Meets(f))
        /\ o.strong = (a.end = "connected" /\ Strong(f))
    BY <1>8
  <1>10. a.end = "connected" /\ SecureEnough(a) => Strong(f)
    BY <1>2, <1>3, <1>4, <1>6, <1>7, MXVerdict, ConnVerdict
    DEF SecureEnough, Strong
  <1>11. a.end = "connected" /\ P = Configured => Meets(f)
    <2> SUFFICES ASSUME a.end = "connected", P = Configured
                 PROVE  Meets(f)
      OBVIOUS
    <2>1. "mtasts" \in Configured /\ f.sts = "enforce"
            => f.match /\ f.wire = "verified"
      BY <1>2, <1>3, <1>4, <1>7, MXVerdict, ConnVerdict
    <2>2. "dane" \in Configured => /\ f.tlsa \notin {"error", "mismatch"}
                                   /\ f.tlsa # "none" => f.wire # "plain"
      BY <1>2, <1>4, <1>7, ConnVerdict
    <2>3. "local_policy" \in Configured => TrueTLS(f) >= MinTLS
      BY <1>2, <1>4, <1>7, ConnVerdict, LevelsAre DEF TrueTLS
    <2>4. "local_policy" \in Configured => TrueMX(f) >= MinMX
      BY <1>2, <1>3, <1>7, MXVerdict, LevelsAre DEF TrueMX
    <2> QED
      BY <2>1, <2>2, <2>3, <2>4 DEF Meets
  <1>12. /\ SecureEnough(a) \in BOOLEAN /\ Meets(f) \in BOOLEAN
         /\ Strong(f) \in BOOLEAN
    BY DEF SecureEnough, Meets, Strong
  <1> QED
    BY <1>9, <1>10, <1>11, <1>12, Zenon

-----------------------------------------------------------------------------
(***************************************************************************)
(* Types                                                                   *)
(***************************************************************************)

\* A connection that is new is one.
LEMMA NewConnIs ==
    /\ NewConn \in ConnRecords
    /\ NewConn.rcpts = {} /\ NewConn.client = FALSE
  BY DEF NewConn, ConnRecords

\* Channels that are dropped are empty.
LEMMA DropTypes ==
    ASSUME PoolTypeOK, NEW K, DropKeys(K)
    PROVE  /\ keys' \in [Keys -> Chans \cup {NoChan}]
           /\ chan' \in [Chans -> Seq(Conns)]
           /\ aged' \subseteq Chans
           /\ live' \subseteq live
  BY DEF PoolTypeOK, DropKeys

\* Return keeps the types of the pool.
LEMMA ReturnTypes ==
    ASSUME PoolTypeOK, NEW k \in Keys, NEW c \in Conns, NEW refs,
           Return(k, c, refs)
    PROVE  /\ keys' \in [Keys -> Chans \cup {NoChan}]
           /\ chan' \in [Chans -> Seq(Conns)]
           /\ aged' \subseteq Chans
           /\ poolClosed' \in BOOLEAN
           /\ live' \subseteq live
           /\ dropped' \subseteq Conns
  <1>1. CASE poolClosed /\ Drop(c) /\ UNCHANGED <<keys, chan, aged, poolClosed>>
    BY <1>1 DEF PoolTypeOK, Drop
  <1>2. CASE /\ keys[k] # NoChan
             /\ ReturnTo(keys[k], c)
             /\ UNCHANGED <<keys, aged, poolClosed, dropped>>
    <2>1. keys[k] \in Chans
      BY <1>2 DEF PoolTypeOK
    <2>2. Append(chan[keys[k]], c) \in Seq(Conns)
      BY <2>1 DEF PoolTypeOK
    <2> QED
      BY <1>2, <2>1, <2>2 DEF PoolTypeOK, ReturnTo
  <1>3. ASSUME NEW b \in Chans, NEW K,
               keys' = [j \in Keys |-> IF j = k THEN b
                                       ELSE IF j \in K THEN NoChan
                                       ELSE keys[j]],
               chan' = [x \in Chans |->
                            IF x = b THEN <<c>>
                            ELSE IF \E j \in K : keys[j] = x THEN <<>>
                            ELSE chan[x]],
               live' = live \ UNION {InChan(keys[j]) : j \in K},
               aged' = aged \ {keys[j] : j \in K},
               UNCHANGED <<poolClosed, dropped>>
        PROVE  /\ keys' \in [Keys -> Chans \cup {NoChan}]
               /\ chan' \in [Chans -> Seq(Conns)]
               /\ aged' \subseteq Chans
               /\ poolClosed' \in BOOLEAN
               /\ live' \subseteq live
               /\ dropped' \subseteq Conns
    <2>1. <<c>> \in Seq(Conns)
      OBVIOUS
    <2> QED
      BY <1>3, <2>1 DEF PoolTypeOK
  <1> QED
    BY <1>1, <1>2, <1>3 DEF Return

\* AddRcpt has a domain, and connectionForDomain a connection.
LEMMA DomIs ==
    ASSUME TypeInv, PlaceInv, NEW d \in Deliveries, pc[d] \in InAddRcpt
    PROVE  Dom(d) \in Keys
  BY RemoteAssumption DEF PlaceInv, PlaceOf, Dom

LEMMA HandIs ==
    ASSUME TypeInv, PlaceInv, NEW d \in Deliveries, pc[d] \in WithHand
    PROVE  hand[d] \in Conns
  BY DEF TypeInv, CallTypes, PlaceInv, PlaceOf

\* A goroutine of BodyNonAtomic has a connection.
LEMMA SendHasConn ==
    ASSUME TypeInv, PlaceInv, NEW d \in Deliveries, NEW k \in Keys, Send(d, k)
    PROVE  conns[d][k] \in Conns
  BY DEF Send, PlaceInv, PlaceOf, TypeInv, MsgTypes

\* The types of what deliveries and connections have hold from one step to
\* the next.
LEMMA TypesKept ==
    ASSUME TypeInv, PlaceInv, [Next]_vars
    PROVE  TypeInv'
  <1> USE RemoteAssumption
  <1>1. CASE UNCHANGED vars
    BY <1>1 DEF TypeInv, PoolTypeOK, CallTypes, MsgTypes, DestTypes, HistTypes,
       ConnTypes, vars, poolVars, callVars, msgVars, histVars
  <1>2. CASE OfPool
    <2>1. PoolTypeOK'
      <3>1. ASSUME NEW b \in Chans, Age(b) PROVE PoolTypeOK'
        BY <3>1 DEF TypeInv, PoolTypeOK, Age
      <3>2. CASE CleanUp
        BY <3>2, DropTypes DEF TypeInv, PoolTypeOK, CleanUp
      <3>3. CASE ClosePool
        BY <3>3, DropTypes DEF TypeInv, PoolTypeOK, ClosePool
      <3>4. ASSUME NEW c \in Conns, Collect(c) PROVE PoolTypeOK'
        BY <3>4 DEF TypeInv, PoolTypeOK, Collect
      <3> QED
        BY <1>2, <3>1, <3>2, <3>3, <3>4 DEF OfPool
    <2>2. ConnTypes'
      BY <1>2, NewConnIs DEF OfPool, ForgetClosed, TypeInv, ConnTypes
    <2> QED
      BY <1>2, <2>1, <2>2 DEF OfPool, TypeInv, CallTypes, MsgTypes, DestTypes,
         HistTypes, callVars, msgVars, histVars
  <1>3. ASSUME NEW d \in Deliveries, Call(d)
        PROVE  TypeInv'
    <2>1. CASE Start(d)
      <3>1. CallTypes'
        BY <2>1
        DEF Start, Goto, callVars, Between, InAddRcpt, TypeInv, CallTypes
      <3>2. MsgTypes'
        <4>1. PICK tls \in BOOLEAN, no \in {FALSE, AllowSecOverride} :
                /\ tagged' = [tagged EXCEPT ![d] = tls]
                /\ requireTLS' = [requireTLS EXCEPT ![d] = tls]
                /\ override' = [override EXCEPT ![d] = no]
          BY <2>1 DEF Start
        <4>2. no \in BOOLEAN
          OBVIOUS
        <4> QED
          BY <2>1, <4>1, <4>2 DEF Start, TypeInv, MsgTypes
      <3> QED
        BY <2>1, <3>1, <3>2
        DEF Start, TypeInv, PoolTypeOK, DestTypes, HistTypes, ConnTypes,
            poolVars, callVars, msgVars, histVars
    <2>2. ASSUME NEW r \in Rcpts, AddRcpt(d, r) PROVE TypeInv'
      <3>1. CallTypes'
        BY <2>2 DEF AddRcpt, Goto, Between, InAddRcpt, TypeInv, CallTypes
      <3> QED
        BY <2>2, <3>1
        DEF AddRcpt, TypeInv, PoolTypeOK, MsgTypes, DestTypes, HistTypes,
            ConnTypes, poolVars, callVars, msgVars, histVars
    <2>3. CASE Body(d)
      <3>1. CallTypes'
        BY <2>3
        DEF Body, Goto, callVars, Between, InAddRcpt, TypeInv, CallTypes
      <3>2. MsgTypes'
        BY <2>3 DEF Body, msgVars, TypeInv, MsgTypes
      <3>3. HistTypes'
        <4>1. added[d] \subseteq Addrs
          BY DEF TypeInv, HistTypes, Addrs
        <4> QED
          BY <2>3, <4>1 DEF Body, SetStatus, TypeInv, HistTypes
      <3> QED
        BY <2>3, <3>1, <3>2, <3>3
        DEF Body, TypeInv, PoolTypeOK, DestTypes, ConnTypes, poolVars,
            callVars, msgVars, histVars
    <2>4. CASE Close(d)
      <3>1. CallTypes'
        BY <2>4
        DEF Close, Goto, callVars, Between, InAddRcpt, TypeInv, CallTypes
      <3>2. HistTypes'
        BY <2>4 DEF Close, TypeInv, HistTypes
      <3> QED
        BY <2>4, <3>1, <3>2
        DEF Close, TypeInv, PoolTypeOK, MsgTypes, DestTypes, ConnTypes,
            poolVars, callVars, msgVars, histVars
    <2> QED
      BY <1>3, <2>1, <2>2, <2>3, <2>4 DEF Call
  <1>4. ASSUME NEW d \in Deliveries, Work(d)
        PROVE  TypeInv'
    <2>1. CASE PoolGet(d)
      <3>1. PoolTypeOK'
        <4>1. UNCHANGED poolVars \/ Forget(Dom(d))
          BY <2>1 DEF PoolGet
        <4> QED
          BY <2>1, <4>1 DEF PoolGet, Forget, poolVars, TypeInv, PoolTypeOK
      <3>2. CallTypes'
        <4>1. Dom(d) \in Keys
          BY <2>1, DomIs DEF PoolGet, InAddRcpt
        <4>2. keys[Dom(d)] \in Chans \cup {NoChan}
          BY <4>1 DEF TypeInv, PoolTypeOK
        <4> QED
          BY <2>1, <4>2
          DEF PoolGet, LookUp, Goto, TypeInv, CallTypes, Between, InAddRcpt
      <3> QED
        BY <2>1, <3>1, <3>2
        DEF PoolGet, TypeInv, MsgTypes, DestTypes, HistTypes, ConnTypes,
            poolVars, callVars, msgVars, histVars
    <2>2. CASE PoolDrain(d)
      <3>1. PoolTypeOK'
        <4>1. ref[d] \in Chans
          BY <2>2 DEF PoolDrain, PlaceInv, PlaceOf
        <4>2. chan[ref[d]] # <<>> => Tail(chan[ref[d]]) \in Seq(Conns)
          BY <4>1 DEF TypeInv, PoolTypeOK
        <4>3. chan' \in [Chans -> Seq(Conns)]
          BY <2>2, <4>1, <4>2 DEF PoolDrain, Receive, TypeInv, PoolTypeOK
        <4> QED
          BY <2>2, <4>3 DEF PoolDrain, TypeInv, PoolTypeOK
      <3>2. CallTypes'
        BY <2>2 DEF PoolDrain, Goto, Between, InAddRcpt, TypeInv, CallTypes
      <3>3. ConnTypes'
        BY <2>2, NewConnIs DEF PoolDrain, ForgetClosed, TypeInv, ConnTypes
      <3> QED
        BY <2>2, <3>1, <3>2, <3>3
        DEF PoolDrain, TypeInv, MsgTypes, DestTypes, HistTypes, poolVars,
            callVars, msgVars, histVars
    <2>3. CASE PoolPop(d)
      <3>1. PoolTypeOK'
        <4>1. ref[d] \in Chans
          BY <2>3 DEF PoolPop, PlaceInv, PlaceOf
        <4>2. chan[ref[d]] # <<>> => Tail(chan[ref[d]]) \in Seq(Conns)
          BY <4>1 DEF TypeInv, PoolTypeOK
        <4>3. chan' \in [Chans -> Seq(Conns)]
          BY <2>3, <4>1, <4>2 DEF PoolPop, Receive, TypeInv, PoolTypeOK
        <4>4. chan[ref[d]] # <<>> => Head(chan[ref[d]]) \in Conns
          BY <4>1 DEF TypeInv, PoolTypeOK
        <4> QED
          BY <2>3, <4>3, <4>4 DEF PoolPop, Drop, TypeInv, PoolTypeOK
      <3>2. CallTypes'
        <4>1. ref[d] \in Chans
          BY <2>3 DEF PoolPop, PlaceInv, PlaceOf
        <4>2. chan[ref[d]] # <<>> => Head(chan[ref[d]]) \in Conns
          BY <4>1 DEF TypeInv, PoolTypeOK
        <4> QED
          BY <2>3, <4>2
          DEF PoolPop, Goto, TypeInv, CallTypes, Between, InAddRcpt
      <3>3. ConnTypes'
        BY <2>3, NewConnIs DEF PoolPop, ForgetClosed, TypeInv, ConnTypes
      <3> QED
        BY <2>3, <3>1, <3>2, <3>3
        DEF PoolPop, TypeInv, MsgTypes, DestTypes, HistTypes, poolVars,
            callVars, msgVars, histVars
    <2>4. CASE LookupMX(d)
      <3>1. CallTypes'
        BY <2>4
        DEF LookupMX, Back, Goto, Between, InAddRcpt, TypeInv, CallTypes
      <3> QED
        BY <2>4, <3>1
        DEF LookupMX, TypeInv, PoolTypeOK, MsgTypes, DestTypes, HistTypes,
            ConnTypes, poolVars, callVars, msgVars, histVars
    <2>5. CASE AttemptMX(d)
      <3>1. PoolTypeOK'
        <4>1. hand[d] \in Conns
          BY <2>5, HandIs DEF AttemptMX, WithHand
        <4> QED
          BY <2>5, <4>1 DEF AttemptMX, poolVars, TypeInv, PoolTypeOK
      <3>2. CallTypes'
        BY <2>5
        DEF AttemptMX, Back, Goto, Between, InAddRcpt, TypeInv, CallTypes
      <3>3. ConnTypes'
        <4>1. PICK o \in OutcomesFor(d) :
                \/ /\ o.end = "connected"
                   /\ conn' = [conn EXCEPT ![hand[d]] =
                          [NewConn EXCEPT !.client = TRUE, !.secure = o.secure,
                                          !.meets = o.meets,
                                          !.strong = o.strong,
                                          !.waived = Waives(d)]]
                \/ \E client \in ClientAfter(o.end, conn[hand[d]].client) :
                      \/ conn' = [conn EXCEPT ![hand[d]].client = client]
                      \/ conn' = [conn EXCEPT ![hand[d]] = NewConn]
          BY <2>5, Zenon DEF AttemptMX
        <4>2. /\ o.secure \in BOOLEAN /\ o.meets \in BOOLEAN
              /\ o.strong \in BOOLEAN
          BY OutcomesMean DEF OutcomesFor, WithPolicies, WithoutPolicies
        <4>3. hand[d] \in Conns
          BY <2>5, HandIs DEF AttemptMX, WithHand
        <4>4. conn[hand[d]] \in ConnRecords
          BY <4>3 DEF TypeInv, ConnTypes
        <4>5. CASE conn' = [conn EXCEPT ![hand[d]] =
                          [NewConn EXCEPT !.client = TRUE, !.secure = o.secure,
                                          !.meets = o.meets,
                                          !.strong = o.strong,
                                          !.waived = Waives(d)]]
          <5>0. Waives(d) \in BOOLEAN
            BY DEF Waives
          <5>1. [NewConn EXCEPT !.client = TRUE, !.secure = o.secure,
                                !.meets = o.meets, !.strong = o.strong,
                                !.waived = Waives(d)]
                  \in ConnRecords
            BY <4>2, <5>0 DEF NewConn, ConnRecords
          <5> QED
            BY <4>5, <5>1 DEF TypeInv, ConnTypes
        <4>6. ASSUME NEW client \in ClientAfter(o.end, conn[hand[d]].client),
                     conn' = [conn EXCEPT ![hand[d]].client = client]
              PROVE  ConnTypes'
          <5>1. conn[hand[d]].client \in BOOLEAN
            BY <4>4 DEF ConnRecords
          <5>2. client \in BOOLEAN
            BY <5>1 DEF ClientAfter
          <5>3. [conn[hand[d]] EXCEPT !.client = client] \in ConnRecords
            BY <4>4, <5>2 DEF ConnRecords
          <5> QED
            BY <4>3, <4>6, <5>3 DEF TypeInv, ConnTypes
        <4>7. CASE conn' = [conn EXCEPT ![hand[d]] = NewConn]
          BY <4>7, NewConnIs DEF TypeInv, ConnTypes
        <4> QED
          BY <4>1, <4>5, <4>6, <4>7
      <3> QED
        BY <2>5, <3>1, <3>2, <3>3
        DEF AttemptMX, TypeInv, MsgTypes, DestTypes, HistTypes, poolVars,
            callVars, msgVars, histVars
    <2>6. CASE CheckLevels(d)
      <3>1. PoolTypeOK'
        BY <2>6 DEF CheckLevels, CloseHand, poolVars, TypeInv, PoolTypeOK
      <3>2. CallTypes'
        BY <2>6
        DEF CheckLevels, CloseHand, Back, Goto, Between, InAddRcpt, TypeInv,
            CallTypes
      <3>3. ConnTypes'
        BY <2>6, NewConnIs DEF CheckLevels, CloseHand, TypeInv, ConnTypes
      <3> QED
        BY <2>6, <3>1, <3>2, <3>3
        DEF CheckLevels, TypeInv, MsgTypes, DestTypes, HistTypes, poolVars,
            callVars, msgVars, histVars
    <2>7. CASE TakeDest(d)
      <3>1. CallTypes'
        BY <2>7
        DEF TakeDest, Goto, callVars, Between, InAddRcpt, TypeInv, CallTypes
      <3>2. MsgTypes'
        BY <2>7 DEF TakeDest, msgVars, TypeInv, MsgTypes
      <3>3. DestTypes'
        <4>1. Dom(d) \in Keys
          BY <2>7, DomIs DEF TakeDest, InAddRcpt
        <4> QED
          BY <2>7, <4>1 DEF TakeDest, histVars, TypeInv, DestTypes
      <3> QED
        BY <2>7, <3>1, <3>2, <3>3
        DEF TakeDest, TypeInv, PoolTypeOK, HistTypes, ConnTypes, poolVars,
            callVars, msgVars, histVars
    <2>8. CASE TakeDestTimeout(d)
      <3>1. PoolTypeOK'
        BY <2>8 DEF TakeDestTimeout, CloseHand, poolVars, TypeInv, PoolTypeOK
      <3>2. CallTypes'
        BY <2>8
        DEF TakeDestTimeout, CloseHand, Back, Goto, Between, InAddRcpt,
            TypeInv, CallTypes
      <3>3. ConnTypes'
        BY <2>8, NewConnIs DEF TakeDestTimeout, CloseHand, TypeInv, ConnTypes
      <3> QED
        BY <2>8, <3>1, <3>2, <3>3
        DEF TakeDestTimeout, TypeInv, MsgTypes, DestTypes, HistTypes, poolVars,
            callVars, msgVars, histVars
    <2>9. CASE Mail(d)
      <3>1. PoolTypeOK'
        BY <2>9 DEF Mail, CloseHand, poolVars, TypeInv, PoolTypeOK
      <3>2. CallTypes'
        BY <2>9
        DEF Mail, CloseHand, Back, Goto, Between, InAddRcpt, TypeInv, CallTypes
      <3>3. MsgTypes'
        <4>1. hand[d] \in Conns
          BY <2>9, HandIs DEF Mail, WithHand
        <4>2. lifted' \in [Deliveries -> SUBSET Keys]
          <5>1. PICK L : L = {j \in Keys : conns'[d][j] = NoConn}
            OBVIOUS
          <5>2. lifted[d] \cup L \in SUBSET Keys
            BY <5>1 DEF TypeInv, MsgTypes
          <5>3. \/ lifted' = [lifted EXCEPT ![d] = lifted[d] \cup L]
                \/ lifted' = [lifted EXCEPT ![d] = lifted[d]]
            BY <2>9, <5>1, Zenon DEF Mail
          <5> QED
            BY <5>2, <5>3 DEF TypeInv, MsgTypes
        <4>3. conns' \in [Deliveries -> [Keys -> Conns \cup {NoConn}]]
          <5>1. \/ conns' = [conns EXCEPT ![d][Dom(d)] = hand[d]]
                \/ UNCHANGED conns
            BY <2>9, Zenon DEF Mail
          <5>2. conns \in [Deliveries -> [Keys -> Conns \cup {NoConn}]]
            BY DEF TypeInv, MsgTypes
          <5>3. CASE conns' = [conns EXCEPT ![d][Dom(d)] = hand[d]]
            <6>1. [conns[d] EXCEPT ![Dom(d)] = hand[d]]
                    \in [Keys -> Conns \cup {NoConn}]
              BY <4>1, <5>2
            <6> QED
              BY <5>2, <5>3, <6>1
          <5> QED
            BY <5>1, <5>2, <5>3
        <4> QED
          BY <2>9, <4>2, <4>3 DEF Mail, TypeInv, MsgTypes
      <3>4. DestTypes'
        <4>1. Dom(d) \in Keys
          BY <2>9, DomIs DEF Mail, InAddRcpt
        <4> QED
          BY <2>9, <4>1 DEF Mail, TypeInv, DestTypes
      <3>5. ConnTypes'
        BY <2>9, NewConnIs DEF Mail, CloseHand, TypeInv, ConnTypes
      <3> QED
        BY <2>9, <3>1, <3>2, <3>3, <3>4, <3>5
        DEF Mail, TypeInv, HistTypes, poolVars, callVars, msgVars, histVars
    <2>10. CASE Rcpt(d)
      <3>1. CallTypes'
        BY <2>10 DEF Rcpt, Back, Goto, Between, InAddRcpt, TypeInv, CallTypes
      <3>2. HistTypes'
        <4>1. cur[d] \in Rcpts
          BY <2>10 DEF Rcpt, PlaceInv, PlaceOf, InAddRcpt
        <4> QED
          BY <2>10, <4>1 DEF Rcpt, TypeInv, HistTypes
      <3>3. ConnTypes'
        <4>1. cur[d] \in Rcpts /\ Dom(d) \in Keys
          BY <2>10, DomIs DEF Rcpt, PlaceInv, PlaceOf, InAddRcpt
        <4>2. PICK c \in Conns : c = conns[d][Dom(d)]
          BY <2>10, <4>1 DEF Rcpt, PlaceInv, PlaceOf, TypeInv, MsgTypes
        <4>3. conn[c] \in ConnRecords /\ Sent[cur[d]] \in Addrs
          BY <4>1 DEF TypeInv, ConnTypes, Addrs
        <4>4. [conn[c] EXCEPT !.rcpts = @ \cup {Sent[cur[d]]}] \in ConnRecords
          BY <4>3 DEF ConnRecords
        <4> QED
          BY <2>10, <4>2, <4>4 DEF Rcpt, TypeInv, ConnTypes
      <3> QED
        BY <2>10, <3>1, <3>2, <3>3
        DEF Rcpt, TypeInv, PoolTypeOK, MsgTypes, DestTypes, poolVars, callVars,
            msgVars, histVars
    <2>11. ASSUME NEW k \in Keys, Send(d, k) PROVE TypeInv'
      <3>1. MsgTypes'
        BY <2>11 DEF Send, msgVars, TypeInv, MsgTypes
      <3>2. HistTypes'
        <4>1. PICK c \in Conns : c = conns[d][k]
          BY <2>11, SendHasConn
        <4>2. conn[c].rcpts \subseteq Addrs
          BY <4>1 DEF TypeInv, ConnTypes, ConnRecords
        <4>3. SetStatus(d, conn[c].rcpts)
          BY <2>11, <4>1 DEF Send, OpenFails, SendData
        <4> QED
          BY <2>11, <4>2, <4>3 DEF Send, SetStatus, TypeInv, HistTypes
      <3>3. ConnTypes'
        <4>1. PICK c \in Conns : c = conns[d][k]
          BY <2>11, SendHasConn
        <4>2. \/ UNCHANGED conn
              \/ \E failed \in BOOLEAN :
                    conn' = [conn EXCEPT ![c].errored = failed]
          BY <2>11, <4>1 DEF Send, OpenFails, SendData
        <4>3. ASSUME NEW failed \in BOOLEAN,
                     conn' = [conn EXCEPT ![c].errored = failed]
              PROVE  ConnTypes'
          <5>1. [conn[c] EXCEPT !.errored = failed] \in ConnRecords
            BY DEF TypeInv, ConnTypes, ConnRecords
          <5> QED
            BY <4>3, <5>1 DEF TypeInv, ConnTypes
        <4> QED
          BY <4>2, <4>3 DEF TypeInv, ConnTypes
      <3> QED
        BY <2>11, <3>1, <3>2, <3>3
        DEF Send, TypeInv, PoolTypeOK, CallTypes, DestTypes, poolVars,
            callVars, msgVars, histVars
    <2>12. ASSUME NEW k \in Keys, CloseConn(d, k) PROVE TypeInv'
      <3>1. PoolTypeOK'
        <4>1. conns[d][k] \in Conns
          BY <2>12 DEF CloseConn, TypeInv, MsgTypes
        <4>2. CASE live' = live \ {conns[d][k]} /\ UNCHANGED poolVars
          BY <4>2 DEF poolVars, TypeInv, PoolTypeOK
        <4>3. CASE Return(k, conns[d][k], {ref[e] : e \in Deliveries})
          BY <4>1, <4>3, ReturnTypes DEF TypeInv, PoolTypeOK
        <4> QED
          BY <2>12, <4>2, <4>3 DEF CloseConn
      <3>2. MsgTypes'
        BY <2>12 DEF CloseConn, msgVars, TypeInv, MsgTypes
      <3>3. DestTypes'
        BY <2>12 DEF CloseConn, ReleaseDest, TypeInv, DestTypes
      <3>4. ConnTypes'
        <4>1. conns[d][k] \in Conns
          BY <2>12 DEF CloseConn, TypeInv, MsgTypes
        <4>2. [conn[conns[d][k]] EXCEPT !.uses = @ + 1] \in ConnRecords
          BY <4>1 DEF TypeInv, ConnTypes, ConnRecords
        <4> QED
          BY <2>12, <4>2, NewConnIs DEF CloseConn, TypeInv, ConnTypes
      <3> QED
        BY <2>12, <3>1, <3>2, <3>3, <3>4
        DEF CloseConn, callVars, TypeInv, CallTypes, HistTypes, poolVars,
            callVars, msgVars, histVars
    <2>13. CASE BodyDone(d)
      <3>1. CallTypes'
        BY <2>13
        DEF BodyDone, Goto, callVars, Between, InAddRcpt, TypeInv, CallTypes
      <3> QED
        BY <2>13, <3>1
        DEF BodyDone, TypeInv, PoolTypeOK, MsgTypes, DestTypes, HistTypes,
            ConnTypes, poolVars, callVars, msgVars, histVars
    <2>14. CASE Closed(d)
      <3>1. CallTypes'
        BY <2>14
        DEF Closed, Goto, callVars, Between, InAddRcpt, TypeInv, CallTypes
      <3>2. MsgTypes'
        BY <2>14 DEF Closed, TypeInv, MsgTypes
      <3> QED
        BY <2>14, <3>1, <3>2
        DEF Closed, TypeInv, PoolTypeOK, DestTypes, HistTypes, ConnTypes,
            poolVars, callVars, msgVars, histVars
    <2> QED
      BY <1>4, <2>1, <2>2, <2>3, <2>4, <2>5, <2>6, <2>7, <2>8, <2>9, <2>10,
         <2>11, <2>12, <2>13, <2>14 DEF Work
  <1> QED
    BY <1>1, <1>2, <1>3, <1>4 DEF Next

-----------------------------------------------------------------------------
(***************************************************************************)
(* Places                                                                  *)
(***************************************************************************)

\* Nothing is done to what a delivery has.
Kept(e) ==
    /\ pc'[e] = pc[e] /\ cur'[e] = cur[e] /\ hand'[e] = hand[e]
    /\ ref'[e] = ref[e] /\ conns'[e] = conns[e]
    /\ sending'[e] = sending[e]
    /\ tagged'[e] = tagged[e] /\ requireTLS'[e] = requireTLS[e]
    /\ added'[e] = added[e] /\ told'[e] = told[e]
    /\ lifted'[e] = lifted[e]

\* A delivery does nothing to what others have.
LEMMA OthersKept ==
    ASSUME TypeInv, NEW d \in Deliveries, Call(d) \/ Work(d),
           NEW e \in Deliveries, e # d
    PROVE  Kept(e)
  <1>1. CASE Start(d)
    BY <1>1 DEF Kept, Start, Goto, TypeInv, CallTypes, MsgTypes, callVars, histVars
  <1>2. ASSUME NEW r \in Rcpts, AddRcpt(d, r) PROVE Kept(e)
    BY <1>2 DEF Kept, AddRcpt, Goto, TypeInv, CallTypes, msgVars, histVars
  <1>3. CASE Body(d)
    BY <1>3 DEF Kept, Body, SetStatus, Goto, TypeInv, CallTypes, MsgTypes, HistTypes,
       callVars, msgVars
  <1>4. CASE Close(d)
    BY <1>4 DEF Kept, Close, Goto, TypeInv, CallTypes, HistTypes, callVars, msgVars
  <1>5. CASE PoolGet(d)
    BY <1>5 DEF Kept, PoolGet, Goto, TypeInv, CallTypes, msgVars, histVars
  <1>6. CASE PoolDrain(d)
    BY <1>6 DEF Kept, PoolDrain, Goto, TypeInv, CallTypes, msgVars, histVars
  <1>7. CASE PoolPop(d)
    BY <1>7 DEF Kept, PoolPop, Goto, TypeInv, CallTypes, msgVars
  <1>8. CASE LookupMX(d)
    BY <1>8 DEF Kept, LookupMX, Back, Goto, TypeInv, CallTypes, msgVars, histVars
  <1>9. CASE AttemptMX(d)
    BY <1>9 DEF Kept, AttemptMX, Back, Goto, TypeInv, CallTypes, msgVars, histVars
  <1>10. CASE CheckLevels(d)
    BY <1>10 DEF Kept, CheckLevels, CloseHand, Back, Goto, TypeInv, CallTypes,
       msgVars, histVars
  <1>11. CASE TakeDest(d)
    BY <1>11 DEF Kept, TakeDest, Goto, TypeInv, CallTypes, MsgTypes, callVars,
       msgVars, histVars
  <1>12. CASE TakeDestTimeout(d)
    BY <1>12 DEF Kept, TakeDestTimeout, CloseHand, Back, Goto, TypeInv, CallTypes,
       msgVars, histVars
  <1>13. CASE Mail(d)
    BY <1>13 DEF Kept, Mail, CloseHand, Back, Goto, TypeInv, CallTypes, MsgTypes,
       msgVars
  <1>14. CASE Rcpt(d)
    BY <1>14 DEF Kept, Rcpt, Back, Goto, TypeInv, CallTypes, HistTypes, msgVars
  <1>15. ASSUME NEW k \in Keys, Send(d, k) PROVE Kept(e)
    BY <1>15 DEF Kept, Send, OpenFails, SendData, SetStatus, TypeInv, MsgTypes,
       HistTypes, callVars, msgVars
  <1>16. ASSUME NEW k \in Keys, CloseConn(d, k) PROVE Kept(e)
    BY <1>16 DEF Kept, CloseConn, TypeInv, MsgTypes, callVars, msgVars
  <1>17. CASE BodyDone(d)
    BY <1>17 DEF Kept, BodyDone, Goto, TypeInv, CallTypes, callVars, msgVars, histVars
  <1>18. CASE Closed(d)
    BY <1>18 DEF Kept, Closed, Goto, TypeInv, CallTypes, MsgTypes, callVars, histVars
  <1> QED
    BY <1>1, <1>2, <1>3, <1>4, <1>5, <1>6, <1>7, <1>8, <1>9, <1>10, <1>11,
       <1>12, <1>13, <1>14, <1>15, <1>16, <1>17, <1>18 DEF Call, Work

\* Connections are opened by newConn only: others close them or do nothing.
LEMMA OpenedByAttempt ==
    ASSUME TypeInv, PlaceInv, NEW d \in Deliveries, Call(d) \/ Work(d)
    PROVE  \/ live' \subseteq live
           \/ /\ pc[d] = "mx" /\ live' = live \cup {hand[d]}
              /\ pc'[d] = "check"
  <1>1. CASE Call(d)
    BY <1>1 DEF Call, Start, AddRcpt, Body, Close
  <1>2. CASE PoolGet(d) \/ PoolDrain(d) \/ PoolPop(d) \/ LookupMX(d)
    BY <1>2 DEF PoolGet, PoolDrain, PoolPop, LookupMX, Drop
  <1>3. CASE AttemptMX(d)
    BY <1>3 DEF AttemptMX, Goto, TypeInv, CallTypes
  <1>4. CASE \/ CheckLevels(d) \/ TakeDest(d) \/ TakeDestTimeout(d) \/ Mail(d)
             \/ Rcpt(d) \/ BodyDone(d) \/ Closed(d)
    BY <1>4 DEF CheckLevels, TakeDest, TakeDestTimeout, Mail, Rcpt, BodyDone,
       Closed, CloseHand
  <1>5. ASSUME NEW k \in Keys, Send(d, k) PROVE live' \subseteq live
    BY <1>5 DEF Send
  <1>6. ASSUME NEW k \in Keys, CloseConn(d, k) PROVE live' \subseteq live
    <2>1. conns[d][k] \in Conns
      BY <1>6 DEF CloseConn, TypeInv, MsgTypes
    <2> QED
      BY <1>6, <2>1, ReturnTypes DEF CloseConn, TypeInv
  <1> QED
    BY <1>1, <1>2, <1>3, <1>4, <1>5, <1>6 DEF Work

\* A delivery has what it must have where it goes.
LEMMA PlacesKept ==
    ASSUME TypeInv, PlaceInv, HeldApart, [Next]_vars
    PROVE  PlaceInv'
  <1> USE RemoteAssumption
  <1>1. CASE UNCHANGED vars
    BY <1>1 DEF PlaceInv, PlaceOf, Dom, vars, poolVars, callVars, msgVars, histVars
  <1>2. CASE OfPool
    <2>1. live' \subseteq live
      BY <1>2, DropTypes DEF OfPool, Age, CleanUp, ClosePool, Collect, TypeInv
    <2> QED
      BY <1>2, <2>1 DEF OfPool, PlaceInv, PlaceOf, Dom, callVars, msgVars
  <1>3. ASSUME NEW d \in Deliveries, Call(d) \/ Work(d)
        PROVE  PlaceInv'
    <2> SUFFICES ASSUME NEW e \in Deliveries PROVE PlaceOf(e)'
      BY DEF PlaceInv
    <2>1. CASE e # d
      <3>1. Kept(e)
        BY <1>3, <2>1, OthersKept
      <3>2. pc[e] = "mx" => hand[e] \notin live'
        <4>1. pc[d] = "mx" /\ pc[e] = "mx" => hand[d] # hand[e]
          BY <2>1 DEF HeldApart, PlaceInv, PlaceOf, WithHand
        <4> QED
          BY <1>3, <4>1, OpenedByAttempt DEF PlaceInv, PlaceOf
      <3> QED
        BY <3>1, <3>2 DEF Kept, PlaceInv, PlaceOf, Dom
    <2>2. CASE e = d
      <3> SUFFICES PlaceOf(d)'
        BY <2>2
      <3>0. PlaceOf(d)
        BY DEF PlaceInv
      <3>1. CASE Start(d)
        BY <3>0, <3>1 DEF PlaceOf, Start, Goto, Dom, TypeInv, CallTypes, callVars,
           InAddRcpt, WithHand
      <3>2. ASSUME NEW r \in Rcpts, AddRcpt(d, r) PROVE PlaceOf(d)'
        BY <3>0, <3>2 DEF PlaceOf, AddRcpt, Goto, Dom, TypeInv, CallTypes,
           InAddRcpt, WithHand
      <3>3. CASE Body(d)
        BY <3>0, <3>3 DEF PlaceOf, Body, Goto, Dom, TypeInv, CallTypes, MsgTypes,
           callVars, InAddRcpt, WithHand
      <3>4. CASE Close(d)
        BY <3>0, <3>4 DEF PlaceOf, Close, Goto, Dom, TypeInv, CallTypes,
           callVars, InAddRcpt, WithHand
      <3>5. CASE PoolGet(d)
        <4>1. Dom(d) \in Keys
          BY <3>5, DomIs DEF PoolGet, InAddRcpt
        <4>2. keys[Dom(d)] \in Chans \cup {NoChan}
          BY <4>1 DEF TypeInv, PoolTypeOK
        <4> QED
          BY <3>0, <3>5, <4>2 DEF PlaceOf, PoolGet, LookUp, Expired, Goto, Dom,
             TypeInv, CallTypes, InAddRcpt, WithHand
      <3>6. CASE PoolDrain(d)
        BY <3>0, <3>6 DEF PlaceOf, PoolDrain, Goto, Dom, TypeInv, CallTypes,
           InAddRcpt, WithHand
      <3>7. CASE PoolPop(d)
        <4>1. chan[ref[d]] # <<>> => Head(chan[ref[d]]) # NoConn
          BY <3>0, <3>7 DEF PlaceOf, PoolPop, TypeInv, PoolTypeOK
        <4> QED
          BY <3>0, <3>7, <4>1 DEF PlaceOf, PoolPop, Goto, Dom, TypeInv,
             CallTypes, InAddRcpt, WithHand
      <3>8. CASE LookupMX(d)
        BY <3>0, <3>8 DEF PlaceOf, LookupMX, Free, Back, Goto, Dom, TypeInv,
           CallTypes, InAddRcpt, WithHand
      <3>9. CASE AttemptMX(d)
        BY <3>0, <3>9 DEF PlaceOf, AttemptMX, Back, Goto, Dom, TypeInv, CallTypes,
           InAddRcpt, WithHand
      <3>10. CASE CheckLevels(d)
        BY <3>0, <3>10 DEF PlaceOf, CheckLevels, CloseHand, Back, Goto, Dom,
           TypeInv, CallTypes, InAddRcpt, WithHand
      <3>11. CASE TakeDest(d)
        BY <3>0, <3>11 DEF PlaceOf, TakeDest, Goto, Dom, TypeInv, CallTypes,
           callVars, InAddRcpt, WithHand
      <3>12. CASE TakeDestTimeout(d)
        BY <3>0, <3>12 DEF PlaceOf, TakeDestTimeout, CloseHand, Back, Goto, Dom,
           TypeInv, CallTypes, InAddRcpt, WithHand
      <3>13. CASE Mail(d)
        <4>1. Dom(d) \in Keys
          BY <3>13, DomIs DEF Mail, InAddRcpt
        <4> QED
          BY <3>0, <3>13, <4>1 DEF PlaceOf, Mail, CloseHand, Back, Goto, Dom,
             TypeInv, CallTypes, MsgTypes, InAddRcpt, WithHand
      <3>14. CASE Rcpt(d)
        BY <3>0, <3>14 DEF PlaceOf, Rcpt, Back, Goto, Dom, TypeInv, CallTypes,
           InAddRcpt, WithHand
      <3>15. ASSUME NEW k \in Keys, Send(d, k) PROVE PlaceOf(d)'
        BY <3>0, <3>15 DEF PlaceOf, Send, Dom, TypeInv, MsgTypes, callVars
      <3>16. ASSUME NEW k \in Keys, CloseConn(d, k) PROVE PlaceOf(d)'
        BY <3>0, <3>16 DEF PlaceOf, CloseConn, Dom, TypeInv, callVars,
           InAddRcpt, WithHand
      <3>17. CASE BodyDone(d)
        BY <3>0, <3>17 DEF PlaceOf, BodyDone, Goto, Dom, TypeInv, CallTypes,
           callVars, InAddRcpt, WithHand
      <3>18. CASE Closed(d)
        BY <3>0, <3>18 DEF PlaceOf, Closed, Goto, Dom, TypeInv, CallTypes,
           callVars, InAddRcpt, WithHand
      <3> QED
        BY <1>3, <3>1, <3>2, <3>3, <3>4, <3>5, <3>6, <3>7, <3>8, <3>9, <3>10,
           <3>11, <3>12, <3>13, <3>14, <3>15, <3>16, <3>17, <3>18
        DEF Call, Work
    <2> QED
      BY <2>1, <2>2
  <1> QED
    BY <1>1, <1>2, <1>3 DEF Next

-----------------------------------------------------------------------------
(***************************************************************************)
(* The pool                                                                *)
(***************************************************************************)

\* What is pooled is in a channel.
LEMMA PooledIs ==
    ASSUME PoolTypeOK
    PROVE  /\ Pooled \subseteq Conns
           /\ \A c : c \in Pooled <=>
                \E b \in Chans : \E i \in 1 .. Len(chan[b]) : chan[b][i] = c
           /\ \A b \in Chans : DOMAIN chan[b] = 1 .. Len(chan[b])
  BY DEF PoolTypeOK, Pooled, InChan

\* Channels are emptied.
LEMMA EmptiedApart ==
    ASSUME PoolTypeOK, PoolTypeOK', PoolApart, NEW S \in SUBSET Chans,
           chan' = [b \in Chans |-> IF b \in S THEN <<>> ELSE chan[b]]
    PROVE  /\ PoolApart'
           /\ Pooled' = Pooled \ UNION {InChan(b) : b \in S}
           /\ UNION {InChan(b) : b \in S} \subseteq Pooled
  <1>1. \A b \in Chans : DOMAIN chan[b] = 1 .. Len(chan[b])
    BY PooledIs
  <1>2. \A b \in Chans : IF b \in S THEN chan'[b] = <<>> ELSE chan'[b] = chan[b]
    OBVIOUS
  <1>3. \A b \in Chans : IF b \in S THEN DOMAIN chan'[b] = {}
                         ELSE DOMAIN chan'[b] = DOMAIN chan[b]
    BY <1>2
  <1>4. PoolApart'
    BY <1>2, <1>3 DEF PoolApart
  <1>5. ASSUME NEW c PROVE c \in Pooled' <=>
            \E b \in Chans \ S : \E i \in DOMAIN chan[b] : chan[b][i] = c
    BY <1>2, <1>3 DEF Pooled, InChan
  <1>6. ASSUME NEW c PROVE c \in UNION {InChan(b) : b \in S} <=>
            \E b \in S : \E i \in DOMAIN chan[b] : chan[b][i] = c
    BY DEF InChan
  <1>7. ASSUME NEW c PROVE c \in Pooled <=>
            \E b \in Chans : \E i \in DOMAIN chan[b] : chan[b][i] = c
    BY DEF Pooled, InChan
  <1>8. ASSUME NEW c
        PROVE  c \in Pooled' <=> c \in Pooled /\ c \notin UNION {InChan(b) : b \in S}
    <2>1. c \in Pooled' => c \notin UNION {InChan(b) : b \in S}
      BY <1>5, <1>6 DEF PoolApart
    <2> QED
      BY <2>1, <1>5, <1>6, <1>7
  <1> QED
    BY <1>4, <1>6, <1>7, <1>8

\* A connection is received.
LEMMA ReceivedApart ==
    ASSUME PoolTypeOK, PoolTypeOK', PoolApart, NEW b \in Chans,
           chan[b] # <<>>, Receive(b)
    PROVE  /\ PoolApart'
           /\ Head(chan[b]) \in Pooled
           /\ Pooled' = Pooled \ {Head(chan[b])}
  <1>1. chan[b] \in Seq(Conns) /\ Len(chan[b]) \in Nat /\ Len(chan[b]) > 0
    BY DEF PoolTypeOK
  <1>2. /\ Head(chan[b]) = chan[b][1]
        /\ Len(Tail(chan[b])) = Len(chan[b]) - 1
        /\ \A i \in 1 .. Len(chan[b]) - 1 : Tail(chan[b])[i] = chan[b][i + 1]
    BY <1>1
  <1>3. /\ chan'[b] = Tail(chan[b])
        /\ \A x \in Chans \ {b} : chan'[x] = chan[x]
    BY DEF Receive, PoolTypeOK
  <1>4. \A x \in Chans : /\ DOMAIN chan[x] = 1 .. Len(chan[x])
                         /\ DOMAIN chan'[x] = 1 .. Len(chan'[x])
    BY DEF PoolTypeOK
  <1>5. \A x \in Chans : \A i \in DOMAIN chan'[x] :
            \E j \in DOMAIN chan[x] : /\ chan'[x][i] = chan[x][j]
                                      /\ j = IF x = b THEN i + 1 ELSE i
    <2> SUFFICES ASSUME NEW x \in Chans, NEW i \in DOMAIN chan'[x]
                 PROVE  \E j \in DOMAIN chan[x] :
                            /\ chan'[x][i] = chan[x][j]
                            /\ j = IF x = b THEN i + 1 ELSE i
      OBVIOUS
    <2>1. CASE x # b
      BY <2>1, <1>3
    <2>2. CASE x = b
      <3>1. i \in 1 .. Len(chan[b]) - 1
        BY <2>2, <1>2, <1>3, <1>4
      <3>2. i + 1 \in DOMAIN chan[b]
        BY <1>1, <1>4, <3>1
      <3>3. chan'[b][i] = chan[b][i + 1]
        BY <1>2, <1>3, <3>1
      <3> QED
        BY <2>2, <3>2, <3>3
    <2> QED
      BY <2>1, <2>2
  <1>6. \A x \in Chans : \A j \in DOMAIN chan[x] : x # b \/ j # 1 =>
            \E i \in DOMAIN chan'[x] : chan'[x][i] = chan[x][j]
    <2> SUFFICES ASSUME NEW x \in Chans, NEW j \in DOMAIN chan[x],
                        x # b \/ j # 1
                 PROVE  \E i \in DOMAIN chan'[x] : chan'[x][i] = chan[x][j]
      OBVIOUS
    <2>1. CASE x # b
      BY <2>1, <1>3
    <2>2. CASE x = b
      <3>1. /\ j - 1 \in 1 .. Len(chan[b]) - 1
            /\ (j - 1) + 1 = j
        BY <2>2, <1>1, <1>4
      <3>2. Tail(chan[b])[j - 1] = chan[b][j]
        BY <1>2, <3>1
      <3>3. j - 1 \in DOMAIN chan'[b]
        BY <1>2, <1>3, <1>4, <3>1
      <3> QED
        BY <2>2, <1>3, <3>2, <3>3
    <2> QED
      BY <2>1, <2>2
  <1>7. PoolApart'
    <2> SUFFICES ASSUME NEW x \in Chans, NEW y \in Chans,
                        NEW i \in DOMAIN chan'[x], NEW j \in DOMAIN chan'[y],
                        chan'[x][i] = chan'[y][j]
                 PROVE  x = y /\ i = j
      BY DEF PoolApart
    <2>1. PICK i1 \in DOMAIN chan[x] : /\ chan'[x][i] = chan[x][i1]
                                       /\ i1 = IF x = b THEN i + 1 ELSE i
      BY <1>5
    <2>2. PICK j1 \in DOMAIN chan[y] : /\ chan'[y][j] = chan[y][j1]
                                       /\ j1 = IF y = b THEN j + 1 ELSE j
      BY <1>5
    <2>3. x = y /\ i1 = j1
      <3>1. chan[x][i1] = chan[y][j1]
        BY <2>1, <2>2
      <3> QED
        BY <3>1 DEF PoolApart
    <2>4. i \in Nat /\ j \in Nat
      BY <1>4
    <2> QED
      BY <2>1, <2>2, <2>3, <2>4
  <1>8. ASSUME NEW c PROVE c \in Pooled <=>
            \E x \in Chans : \E i \in DOMAIN chan[x] : chan[x][i] = c
    BY DEF Pooled, InChan
  <1>9. ASSUME NEW c PROVE c \in Pooled' <=>
            \E x \in Chans : \E i \in DOMAIN chan'[x] : chan'[x][i] = c
    BY DEF Pooled, InChan
  <1>10. Head(chan[b]) \in Pooled
    BY <1>1, <1>2, <1>4, <1>8
  <1>11. Head(chan[b]) \notin Pooled'
    <2> SUFFICES ASSUME NEW x \in Chans, NEW i \in DOMAIN chan'[x],
                        chan'[x][i] = chan[b][1]
                 PROVE  FALSE
      BY <1>2, <1>9
    <2>1. PICK j \in DOMAIN chan[x] : /\ chan'[x][i] = chan[x][j]
                                      /\ j = IF x = b THEN i + 1 ELSE i
      BY <1>5
    <2>2. 1 \in DOMAIN chan[b]
      BY <1>1, <1>4
    <2>3. x = b /\ j = 1
      <3>1. chan[x][j] = chan[b][1]
        BY <2>1
      <3> QED
        BY <2>2, <3>1 DEF PoolApart
    <2> QED
      BY <1>4, <2>1, <2>3
  <1>12. ASSUME NEW c, c # Head(chan[b]) PROVE c \in Pooled' <=> c \in Pooled
    BY <1>2, <1>5, <1>6, <1>8, <1>9, <1>12
  <1> QED
    BY <1>7, <1>10, <1>11, <1>12

\* A connection that is not in the pool is put at the end of a channel.
LEMMA AppendedApart ==
    ASSUME PoolTypeOK, PoolTypeOK', PoolApart, NEW b \in Chans, NEW c \in Conns,
           c \notin Pooled, chan' = [chan EXCEPT ![b] = Append(@, c)]
    PROVE  PoolApart' /\ Pooled' = Pooled \cup {c}
  <1>1. chan[b] \in Seq(Conns) /\ Len(chan[b]) \in Nat
    BY DEF PoolTypeOK
  <1>2. /\ Len(Append(chan[b], c)) = Len(chan[b]) + 1
        /\ \A i \in 1 .. Len(chan[b]) : Append(chan[b], c)[i] = chan[b][i]
        /\ Append(chan[b], c)[Len(chan[b]) + 1] = c
    BY <1>1
  <1>3. /\ chan'[b] = Append(chan[b], c)
        /\ \A x \in Chans \ {b} : chan'[x] = chan[x]
    BY DEF PoolTypeOK
  <1>4. \A x \in Chans : /\ DOMAIN chan[x] = 1 .. Len(chan[x])
                         /\ DOMAIN chan'[x] = 1 .. Len(chan'[x])
    BY DEF PoolTypeOK
  <1>5. \A x \in Chans : \A i \in DOMAIN chan'[x] :
            \/ i \in DOMAIN chan[x] /\ chan'[x][i] = chan[x][i]
            \/ x = b /\ i = Len(chan[b]) + 1 /\ chan'[x][i] = c
    BY <1>1, <1>2, <1>3, <1>4
  <1>6. \A x \in Chans : \A i \in DOMAIN chan[x] :
            i \in DOMAIN chan'[x] /\ chan'[x][i] = chan[x][i]
    BY <1>1, <1>2, <1>3, <1>4
  <1>7. \A x \in Chans : \A i \in DOMAIN chan[x] : chan[x][i] # c
    BY DEF Pooled, InChan
  <1>8. PoolApart'
    <2> SUFFICES ASSUME NEW x \in Chans, NEW y \in Chans,
                        NEW i \in DOMAIN chan'[x], NEW j \in DOMAIN chan'[y],
                        chan'[x][i] = chan'[y][j]
                 PROVE  x = y /\ i = j
      BY DEF PoolApart
    <2> QED
      BY <1>5, <1>7 DEF PoolApart
  <1>9. Len(chan[b]) + 1 \in DOMAIN chan'[b]
    BY <1>1, <1>2, <1>3, <1>4
  <1>10. ASSUME NEW e PROVE e \in Pooled <=>
            \E x \in Chans : \E i \in DOMAIN chan[x] : chan[x][i] = e
    BY DEF Pooled, InChan
  <1>11. ASSUME NEW e PROVE e \in Pooled' <=>
            \E x \in Chans : \E i \in DOMAIN chan'[x] : chan'[x][i] = e
    BY DEF Pooled, InChan
  <1>12. c \in Pooled'
    BY <1>2, <1>3, <1>9, <1>11
  <1>13. ASSUME NEW e, e # c PROVE e \in Pooled' <=> e \in Pooled
    BY <1>5, <1>6, <1>10, <1>11, <1>13
  <1> QED
    BY <1>8, <1>12, <1>13

\* CleanUp and Close close what is in the channels they drop.
LEMMA DropApart ==
    ASSUME PoolTypeOK, PoolTypeOK', PoolApart, NEW K \in SUBSET Used,
           DropKeys(K)
    PROVE  /\ PoolApart'
           /\ \E D \in SUBSET Pooled : /\ Pooled' = Pooled \ D
                                       /\ live' = live \ D
  <1> DEFINE S == {keys[k] : k \in K}
  <1>1. S \in SUBSET Chans
    BY DEF Used, PoolTypeOK
  <1>2. chan' = [b \in Chans |-> IF b \in S THEN <<>> ELSE chan[b]]
    BY DEF DropKeys
  <1>3. live' = live \ UNION {InChan(b) : b \in S}
    BY DEF DropKeys
  <1> HIDE DEF S
  <1> QED
    BY <1>1, <1>2, <1>3, EmptiedApart

\* Return pools the connection or closes it, and may close others that are in
\* the pool.
LEMMA ReturnApart ==
    ASSUME PoolTypeOK, PoolTypeOK', PoolApart, NEW k \in Keys,
           NEW c \in Conns, c \notin Pooled, NEW refs, Return(k, c, refs)
    PROVE  /\ PoolApart'
           /\ \E D \in SUBSET Pooled :
                 \/ Pooled' = Pooled \ D /\ live' = live \ (D \cup {c})
                 \/ Pooled' = (Pooled \ D) \cup {c} /\ live' = live \ D
  <1>0. {} \in SUBSET Pooled /\ Pooled \ {} = Pooled /\ {} \cup {c} = {c}
        /\ live \ {} = live
    OBVIOUS
  <1>1. CASE poolClosed /\ Drop(c) /\ UNCHANGED chan
    <2>1. PoolApart' /\ Pooled' = Pooled
      BY <1>1 DEF PoolApart, Pooled, InChan
    <2>2. Pooled' = Pooled \ {} /\ live' = live \ ({} \cup {c})
      BY <1>0, <1>1, <2>1 DEF Drop
    <2> QED
      BY <1>0, <2>1, <2>2
  <1>2. CASE keys[k] # NoChan /\ ReturnTo(keys[k], c)
    <2>1. keys[k] \in Chans
      BY <1>2 DEF PoolTypeOK
    <2>2. CASE live' = live \ {c} /\ UNCHANGED chan
      <3>1. PoolApart' /\ Pooled' = Pooled
        BY <2>2 DEF PoolApart, Pooled, InChan
      <3>2. Pooled' = Pooled \ {} /\ live' = live \ ({} \cup {c})
        BY <1>0, <2>2, <3>1
      <3> QED
        BY <1>0, <3>1, <3>2
    <2>3. CASE /\ chan' = [chan EXCEPT ![keys[k]] = Append(@, c)]
               /\ UNCHANGED live
      <3>1. PoolApart' /\ Pooled' = Pooled \cup {c}
        BY <2>1, <2>3, AppendedApart
      <3>2. Pooled' = (Pooled \ {}) \cup {c} /\ live' = live \ {}
        BY <1>0, <2>3, <3>1
      <3> QED
        BY <1>0, <3>1, <3>2
    <2> QED
      BY <1>2, <2>2, <2>3 DEF ReturnTo
  <1>3. ASSUME NEW b \in Chans \ {keys[j] : j \in Used},
               NEW K \in SUBSET Used, chan[b] = <<>>,
               chan' = [x \in Chans |->
                            IF x = b THEN <<c>>
                            ELSE IF \E j \in K : keys[j] = x THEN <<>>
                            ELSE chan[x]],
               live' = live \ UNION {InChan(keys[j]) : j \in K}
        PROVE  /\ PoolApart'
               /\ \E D \in SUBSET Pooled :
                     Pooled' = (Pooled \ D) \cup {c} /\ live' = live \ D
    <2> DEFINE S == {keys[j] : j \in K}
               D == UNION {InChan(x) : x \in S}
    <2>1. S \in SUBSET Chans /\ b \notin S
      BY DEF Used, PoolTypeOK
    <2>2. live' = live \ D
      BY <1>3
    <2>3. \A x \in Chans : chan'[x] = IF x = b THEN <<c>>
                                      ELSE IF x \in S THEN <<>> ELSE chan[x]
      BY <1>3
    <2> HIDE DEF S
    <2>4. \A x \in Chans :
            DOMAIN chan'[x] = IF x = b THEN {1}
                              ELSE IF x \in S THEN {} ELSE DOMAIN chan[x]
      BY <2>3
    <2>5. chan'[b][1] = c /\ DOMAIN chan[b] = {}
      BY <1>3, <2>3
    <2>6. \A x \in Chans : \A i \in DOMAIN chan[x] : chan[x][i] # c
      BY DEF Pooled, InChan
    <2>7. PoolApart'
      <3> SUFFICES ASSUME NEW x \in Chans, NEW y \in Chans,
                          NEW i \in DOMAIN chan'[x], NEW j \in DOMAIN chan'[y],
                          chan'[x][i] = chan'[y][j]
                   PROVE  x = y /\ i = j
        BY DEF PoolApart
      <3>1. \/ x = b /\ i = 1 /\ chan'[x][i] = c
            \/ x # b /\ i \in DOMAIN chan[x] /\ chan'[x][i] = chan[x][i]
        BY <2>3, <2>4, <2>5
      <3>2. \/ y = b /\ j = 1 /\ chan'[y][j] = c
            \/ y # b /\ j \in DOMAIN chan[y] /\ chan'[y][j] = chan[y][j]
        BY <2>3, <2>4, <2>5
      <3> QED
        BY <2>6, <3>1, <3>2 DEF PoolApart
    <2>8. ASSUME NEW e PROVE e \in Pooled <=>
            \E x \in Chans : \E i \in DOMAIN chan[x] : chan[x][i] = e
      BY DEF Pooled, InChan
    <2>9. ASSUME NEW e PROVE e \in Pooled' <=>
            \E x \in Chans : \E i \in DOMAIN chan'[x] : chan'[x][i] = e
      BY DEF Pooled, InChan
    <2>10. ASSUME NEW e PROVE e \in D <=>
            \E x \in S : \E i \in DOMAIN chan[x] : chan[x][i] = e
      BY DEF InChan
    <2>11. c \in Pooled' /\ c \notin D
      BY <2>1, <2>4, <2>5, <2>6, <2>9, <2>10
    <2>12. ASSUME NEW e, e # c PROVE e \in Pooled' <=> e \in Pooled /\ e \notin D
      <3>1. ASSUME e \in Pooled' PROVE e \in Pooled /\ e \notin D
        <4>1. PICK x \in Chans : \E i \in DOMAIN chan'[x] : chan'[x][i] = e
          BY <2>9, <3>1
        <4>2. PICK i \in DOMAIN chan'[x] : chan'[x][i] = e
          BY <4>1
        <4>3. x # b /\ x \notin S /\ i \in DOMAIN chan[x] /\ chan[x][i] = e
          BY <2>3, <2>4, <2>5, <2>12, <4>2
        <4> QED
          BY <2>1, <2>8, <2>10, <4>3 DEF PoolApart
      <3>2. ASSUME e \in Pooled, e \notin D PROVE e \in Pooled'
        <4>1. PICK x \in Chans : \E i \in DOMAIN chan[x] : chan[x][i] = e
          BY <2>8, <3>2
        <4>2. PICK i \in DOMAIN chan[x] : chan[x][i] = e
          BY <4>1
        <4>3. x # b /\ x \notin S
          BY <2>5, <2>10, <3>2, <4>2
        <4> QED
          BY <2>3, <2>4, <2>9, <4>2, <4>3
      <3> QED
        BY <3>1, <3>2
    <2>13. D \in SUBSET Pooled
      BY <2>1, <2>8, <2>10
    <2> HIDE DEF D
    <2>14. Pooled' = (Pooled \ D) \cup {c}
      BY <2>11, <2>12
    <2> QED
      BY <2>2, <2>7, <2>13, <2>14
  <1>4. Stale \subseteq Used
    BY DEF Stale
  <1>5. \A K : K \in (IF Cardinality(Used) = MaxKeys THEN SUBSET Stale
                      ELSE {{}}) => K \in SUBSET Used
    BY <1>4
  <1>6. CASE /\ ~poolClosed
             /\ keys[k] = NoChan
             /\ \E b \in Chans \ (refs \cup {keys[j] : j \in Used}) :
                \E K \in IF Cardinality(Used) = MaxKeys
                         THEN SUBSET Stale ELSE {{}} :
                   /\ chan[b] = <<>>
                   /\ chan' = [x \in Chans |->
                                 IF x = b THEN <<c>>
                                 ELSE IF \E j \in K : keys[j] = x THEN <<>>
                                 ELSE chan[x]]
                   /\ live' = live \ UNION {InChan(keys[j]) : j \in K}
    <2>1. PICK b \in Chans \ (refs \cup {keys[j] : j \in Used}) :
            \E K \in IF Cardinality(Used) = MaxKeys
                     THEN SUBSET Stale ELSE {{}} :
               /\ chan[b] = <<>>
               /\ chan' = [x \in Chans |->
                             IF x = b THEN <<c>>
                             ELSE IF \E j \in K : keys[j] = x THEN <<>>
                             ELSE chan[x]]
               /\ live' = live \ UNION {InChan(keys[j]) : j \in K}
      BY <1>6, Zenon
    <2>2. PICK K \in IF Cardinality(Used) = MaxKeys
                     THEN SUBSET Stale ELSE {{}} :
               /\ chan[b] = <<>>
               /\ chan' = [x \in Chans |->
                             IF x = b THEN <<c>>
                             ELSE IF \E j \in K : keys[j] = x THEN <<>>
                             ELSE chan[x]]
               /\ live' = live \ UNION {InChan(keys[j]) : j \in K}
      BY <2>1, Zenon
    <2>3. K \in SUBSET Used
      BY <1>5
    <2>4. b \in Chans \ {keys[j] : j \in Used}
      OBVIOUS
    <2>5. PICK D \in SUBSET Pooled :
            PoolApart' /\ Pooled' = (Pooled \ D) \cup {c} /\ live' = live \ D
      BY <1>3, <2>2, <2>3, <2>4, Zenon
    <2> QED
      BY <2>5
  <1> QED
    BY <1>1, <1>2, <1>6, Zenon DEF Return

-----------------------------------------------------------------------------
(***************************************************************************)
(* Owners: the ways a connection goes                                      *)
(***************************************************************************)

\* Connections in the pool are closed.
LEMMA ClosedInPool ==
    ASSUME TypeInv, HeldApart, LiveInv, NEW D \in SUBSET Pooled,
           Pooled' = Pooled \ D, live' = live \ D, UNCHANGED <<hand, conns>>
    PROVE  HeldApart' /\ LiveInv'
  <1>1. HeldApart'
    BY DEF HeldApart
  <1>2. LiveInv'
    BY DEF HeldApart, LiveInv
  <1> QED
    BY <1>1, <1>2

\* A connection of the pool is handed to a delivery.
LEMMA TakenFromPool ==
    ASSUME TypeInv, HeldApart, LiveInv, NEW d \in Deliveries, NEW c \in Pooled,
           c \in Conns, hand[d] = NoConn,
           Pooled' = Pooled \ {c}, hand' = [hand EXCEPT ![d] = c],
           UNCHANGED <<live, conns>>
    PROVE  HeldApart' /\ LiveInv'
  <1>0. hand \in [Deliveries -> Conns \cup {NoConn}]
    BY DEF TypeInv, CallTypes
  <1>1. HeldApart'
    BY <1>0, RemoteAssumption DEF HeldApart
  <1>2. LiveInv'
    <2>1. /\ hand'[d] = c
          /\ \A e \in Deliveries : hand[e] # NoConn => hand'[e] = hand[e]
      BY <1>0
    <2>2. \A x \in live : x # NoConn
      BY RemoteAssumption DEF TypeInv, PoolTypeOK
    <2>3. ASSUME NEW x \in live
          PROVE  \/ x \in Pooled'
                 \/ \E e \in Deliveries : hand'[e] = x
                 \/ \E e \in Deliveries, k \in Keys : conns[e][k] = x
      BY <2>1, <2>2 DEF LiveInv
    <2> QED
      BY <2>3 DEF LiveInv
  <1> QED
    BY <1>1, <1>2

\* A delivery has a new one.
LEMMA NewInHand ==
    ASSUME TypeInv, HeldApart, LiveInv, NEW d \in Deliveries, NEW c \in Conns,
           Free(c), hand[d] = NoConn, Pooled' = Pooled,
           hand' = [hand EXCEPT ![d] = c], UNCHANGED <<live, conns>>
    PROVE  HeldApart' /\ LiveInv'
  <1>0. hand \in [Deliveries -> Conns \cup {NoConn}]
    BY DEF TypeInv, CallTypes
  <1>1. /\ c \notin Pooled
        /\ \A e \in Deliveries : hand[e] # c /\ \A k \in Keys : conns[e][k] # c
    BY RemoteAssumption DEF Free, Held
  <1>2. HeldApart'
    BY <1>0, <1>1, RemoteAssumption DEF HeldApart
  <1>3. LiveInv'
    <2>1. /\ hand'[d] = c
          /\ \A e \in Deliveries : hand[e] # NoConn => hand'[e] = hand[e]
      BY <1>0
    <2>2. \A x \in live : x # NoConn
      BY RemoteAssumption DEF TypeInv, PoolTypeOK
    <2>3. ASSUME NEW x \in live
          PROVE  \/ x \in Pooled'
                 \/ \E e \in Deliveries : hand'[e] = x
                 \/ \E e \in Deliveries, k \in Keys : conns[e][k] = x
      BY <2>1, <2>2 DEF LiveInv
    <2> QED
      BY <2>3 DEF LiveInv
  <1> QED
    BY <1>2, <1>3

\* It is opened.
LEMMA OpenedInHand ==
    ASSUME TypeInv, HeldApart, LiveInv, NEW d \in Deliveries,
           Pooled' = Pooled, live' = live \cup {hand[d]},
           UNCHANGED <<hand, conns>>
    PROVE  HeldApart' /\ LiveInv'
  BY DEF HeldApart, LiveInv

\* It is closed.
LEMMA ClosedInHand ==
    ASSUME TypeInv, HeldApart, LiveInv, NEW d \in Deliveries,
           hand[d] # NoConn, Pooled' = Pooled, live' = live \ {hand[d]},
           hand' = [hand EXCEPT ![d] = NoConn], UNCHANGED conns
    PROVE  HeldApart' /\ LiveInv'
  <1>0. hand \in [Deliveries -> Conns \cup {NoConn}] /\ NoConn \notin Pooled
    BY RemoteAssumption, PooledIs DEF TypeInv, CallTypes
  <1>1. HeldApart'
    BY <1>0 DEF HeldApart
  <1>2. LiveInv'
    BY <1>0 DEF HeldApart, LiveInv
  <1> QED
    BY <1>1, <1>2

\* It becomes the connection of a domain.
LEMMA HandGivenAway ==
    ASSUME TypeInv, HeldApart, LiveInv, NEW d \in Deliveries, NEW k \in Keys,
           hand[d] # NoConn, hand[d] \in live, conns[d][k] = NoConn,
           Pooled' = Pooled, conns' = [conns EXCEPT ![d][k] = hand[d]],
           hand' = [hand EXCEPT ![d] = NoConn], UNCHANGED live
    PROVE  HeldApart' /\ LiveInv'
  <1>0. /\ hand \in [Deliveries -> Conns \cup {NoConn}] /\ NoConn \notin Pooled
        /\ conns \in [Deliveries -> [Keys -> Conns \cup {NoConn}]]
    BY RemoteAssumption, PooledIs DEF TypeInv, CallTypes, MsgTypes
  <1>1. /\ hand'[d] = NoConn
        /\ \A e \in Deliveries \ {d} : hand'[e] = hand[e]
    BY <1>0
  <1>2. \A e \in Deliveries, l \in Keys :
            conns'[e][l] = IF e = d /\ l = k THEN hand[d] ELSE conns[e][l]
    BY <1>0
  <1>3. HeldApart'
    BY <1>0, <1>1, <1>2 DEF HeldApart
  <1>4. LiveInv'
    <2>1. ASSUME NEW c \in live
          PROVE  \/ c \in Pooled
                 \/ \E e \in Deliveries : hand'[e] = c
                 \/ \E e \in Deliveries, l \in Keys : conns'[e][l] = c
      BY <1>0, <1>1, <1>2, RemoteAssumption DEF LiveInv, TypeInv, PoolTypeOK
    <2> QED
      BY <2>1, <1>2 DEF LiveInv
  <1> QED
    BY <1>3, <1>4

\* The connection of a domain is closed, or is put into the pool.
LEMMA ConnGivenAway ==
    ASSUME TypeInv, HeldApart, LiveInv, NEW d \in Deliveries, NEW k \in Keys,
           NEW c, c = conns[d][k], c # NoConn, NEW D \in SUBSET Pooled,
           \/ Pooled' = Pooled \ D /\ live' = live \ (D \cup {c})
           \/ Pooled' = (Pooled \ D) \cup {c} /\ live' = live \ D,
           conns' = [conns EXCEPT ![d][k] = NoConn], UNCHANGED hand
    PROVE  HeldApart' /\ LiveInv'
  <1>0. /\ NoConn \notin Pooled
        /\ conns \in [Deliveries -> [Keys -> Conns \cup {NoConn}]]
    BY RemoteAssumption, PooledIs DEF TypeInv, MsgTypes
  <1>1. \A e \in Deliveries, l \in Keys :
            conns'[e][l] = IF e = d /\ l = k THEN NoConn ELSE conns[e][l]
    BY <1>0
  <1>2. /\ \A e \in Deliveries : hand[e] # c
        /\ \A e \in Deliveries, l \in Keys : conns'[e][l] # c
    BY <1>1 DEF HeldApart
  <1>3. HeldApart'
    BY <1>0, <1>1, <1>2 DEF HeldApart
  <1>4. LiveInv'
    <2>1. ASSUME NEW x \in live'
          PROVE  \/ x \in Pooled'
                 \/ \E e \in Deliveries : hand'[e] = x
                 \/ \E e \in Deliveries, l \in Keys : conns'[e][l] = x
      <3>1. x \in live /\ x \notin D
        OBVIOUS
      <3>2. CASE x = c
        BY <3>2
      <3>3. CASE x # c /\ x \in Pooled
        BY <3>1, <3>3
      <3>4. CASE x # c /\ \E e \in Deliveries : hand[e] = x
        BY <3>4
      <3>5. CASE x # c /\ \E e \in Deliveries, l \in Keys : conns[e][l] = x
        BY <1>1, <3>5
      <3> QED
        BY <3>1, <3>2, <3>3, <3>4, <3>5 DEF LiveInv
    <2>2. ASSUME NEW e \in Deliveries, NEW l \in Keys, conns'[e][l] # NoConn
          PROVE  conns'[e][l] \in live'
      <3>1. conns'[e][l] = conns[e][l] /\ conns[e][l] \in live
        BY <1>1, <2>2 DEF LiveInv
      <3>2. conns[e][l] \notin D /\ conns[e][l] # c
        BY <1>2, <3>1 DEF HeldApart
      <3> QED
        BY <3>1, <3>2
    <2> QED
      BY <2>1, <2>2 DEF LiveInv
  <1> QED
    BY <1>3, <1>4

\* A connection keeps having one owner.
LEMMA OwnersKept ==
    ASSUME OwnInv, TypeInv', [Next]_vars
    PROVE  PoolApart' /\ HeldApart' /\ LiveInv'
  <1> USE RemoteAssumption
  <1>0. TypeInv /\ PlaceInv /\ PoolApart /\ HeldApart /\ LiveInv
        /\ PoolTypeOK /\ PoolTypeOK'
    BY DEF OwnInv, TypeInv
  <1>1. ASSUME UNCHANGED chan PROVE PoolApart' /\ Pooled' = Pooled
    BY <1>0, <1>1 DEF PoolApart, Pooled, InChan
  <1>2. ASSUME UNCHANGED <<chan, live, hand, conns>>
        PROVE  PoolApart' /\ HeldApart' /\ LiveInv'
    BY <1>0, <1>1, <1>2 DEF HeldApart, LiveInv
  <1>3. CASE UNCHANGED vars
    BY <1>2, <1>3 DEF vars, poolVars, callVars
  <1>4. CASE OfPool
    <2>0. UNCHANGED <<hand, conns>>
      BY <1>4 DEF OfPool, callVars
    <2>1. ASSUME NEW b \in Chans, Age(b)
          PROVE  PoolApart' /\ HeldApart' /\ LiveInv'
      BY <1>2, <2>0, <2>1 DEF Age
    <2>2. ASSUME NEW K \in SUBSET Used, DropKeys(K)
          PROVE  PoolApart' /\ HeldApart' /\ LiveInv'
      BY <1>0, <2>0, <2>2, DropApart, ClosedInPool
    <2>3. CASE CleanUp
      <3>1. PICK K \in SUBSET Stale : DropKeys(K)
        BY <2>3 DEF CleanUp
      <3>2. K \in SUBSET Used
        BY DEF Stale
      <3> QED
        BY <2>2, <3>1, <3>2
    <2>4. CASE ClosePool
      BY <2>2, <2>4 DEF ClosePool
    <2>5. ASSUME NEW c \in Conns, Collect(c)
          PROVE  PoolApart' /\ HeldApart' /\ LiveInv'
      BY <1>2, <2>0, <2>5 DEF Collect
    <2> QED
      BY <1>4, <2>1, <2>3, <2>4, <2>5 DEF OfPool
  <1>5. ASSUME NEW d \in Deliveries, Call(d)
        PROVE  PoolApart' /\ HeldApart' /\ LiveInv'
    BY <1>2, <1>5 DEF Call, Start, AddRcpt, Body, Close, poolVars, callVars
  <1>6. ASSUME NEW d \in Deliveries, Work(d)
        PROVE  PoolApart' /\ HeldApart' /\ LiveInv'
    <2>0. PlaceOf(d)
      BY <1>0 DEF PlaceInv
    <2>1. CASE \/ PoolGet(d) \/ TakeDest(d) \/ BodyDone(d) \/ Closed(d) \/ Rcpt(d)
               \/ \E k \in Keys : Send(d, k)
      BY <1>2, <2>1 DEF PoolGet, Forget, TakeDest, BodyDone, Closed, Rcpt, Send,
         poolVars, callVars
    <2>2. CASE PoolDrain(d) \/ PoolPop(d)
      <3>0. ref[d] \in Chans /\ hand[d] = NoConn /\ UNCHANGED conns
        BY <2>0, <2>2 DEF PoolDrain, PoolPop, PlaceOf, WithHand
      <3>1. \/ UNCHANGED <<chan, live, hand>>
            \/ /\ chan[ref[d]] # <<>> /\ Receive(ref[d]) /\ UNCHANGED hand
               /\ live' = live \ {Head(chan[ref[d]])}
            \/ /\ chan[ref[d]] # <<>> /\ Receive(ref[d]) /\ UNCHANGED live
               /\ hand' = [hand EXCEPT ![d] = Head(chan[ref[d]])]
        BY <2>2 DEF PoolDrain, PoolPop, Drop
      <3>2. CASE chan[ref[d]] # <<>> /\ Receive(ref[d])
        <4>1. PICK c : c = Head(chan[ref[d]])
          OBVIOUS
        <4>2. PoolApart' /\ c \in Pooled /\ Pooled' = Pooled \ {c}
          BY <1>0, <3>0, <3>2, <4>1, ReceivedApart
        <4>3. c \in Conns
          BY <1>0, <4>2, PooledIs
        <4>4. CASE live' = live \ {c} /\ UNCHANGED hand
          <5>1. {c} \in SUBSET Pooled
            BY <4>2
          <5> QED
            BY <1>0, <3>0, <4>2, <4>4, <5>1, ClosedInPool
        <4>5. CASE UNCHANGED live /\ hand' = [hand EXCEPT ![d] = c]
          BY <1>0, <3>0, <4>2, <4>3, <4>5, TakenFromPool
        <4>6. CASE UNCHANGED <<chan, live, hand>>
          BY <1>2, <3>0, <4>6
        <4> QED
          BY <3>1, <4>1, <4>4, <4>5, <4>6
      <3> QED
        BY <1>2, <3>0, <3>1, <3>2
    <2>3. CASE LookupMX(d)
      <3>1. UNCHANGED <<chan, live, conns>> /\ hand[d] = NoConn
        BY <2>0, <2>3 DEF LookupMX, poolVars, PlaceOf, WithHand
      <3>2. \/ UNCHANGED hand
            \/ \E c \in Conns : Free(c) /\ hand' = [hand EXCEPT ![d] = c]
        BY <2>3 DEF LookupMX
      <3> QED
        BY <1>0, <1>1, <1>2, <3>1, <3>2, NewInHand
    <2>4. CASE AttemptMX(d)
      <3>1. /\ UNCHANGED <<chan, conns>>
            /\ hand[d] # NoConn /\ hand[d] \notin live
        BY <2>0, <2>4 DEF AttemptMX, poolVars, PlaceOf, WithHand
      <3>2. \/ UNCHANGED <<hand, live>>
            \/ live' = live \cup {hand[d]} /\ UNCHANGED hand
            \/ hand' = [hand EXCEPT ![d] = NoConn] /\ UNCHANGED live
        BY <2>4 DEF AttemptMX
      <3>3. live = live \ {hand[d]}
        BY <3>1
      <3> QED
        BY <1>0, <1>1, <1>2, <3>1, <3>2, <3>3, OpenedInHand, ClosedInHand
    <2>5. CASE CheckLevels(d) \/ TakeDestTimeout(d)
      <3>1. UNCHANGED <<chan, conns>> /\ hand[d] # NoConn
        BY <2>0, <2>5 DEF CheckLevels, TakeDestTimeout, poolVars, PlaceOf, WithHand
      <3>2. \/ UNCHANGED <<hand, live>>
            \/ /\ live' = live \ {hand[d]}
               /\ hand' = [hand EXCEPT ![d] = NoConn]
        BY <2>5 DEF CheckLevels, TakeDestTimeout, CloseHand
      <3> QED
        BY <1>0, <1>1, <1>2, <3>1, <3>2, ClosedInHand
    <2>6. CASE Mail(d)
      <3>1. /\ UNCHANGED chan /\ hand[d] # NoConn
            /\ conns[d][Dom(d)] = NoConn /\ Dom(d) \in Keys
        BY <1>0, <2>0, <2>6, DomIs DEF Mail, poolVars, PlaceOf, WithHand, InAddRcpt
      <3>2. \/ /\ hand[d] \in live /\ UNCHANGED live
               /\ conns' = [conns EXCEPT ![d][Dom(d)] = hand[d]]
               /\ hand' = [hand EXCEPT ![d] = NoConn]
            \/ /\ live' = live \ {hand[d]} /\ UNCHANGED conns
               /\ hand' = [hand EXCEPT ![d] = NoConn]
        BY <2>6 DEF Mail, CloseHand
      <3> QED
        BY <1>0, <1>1, <3>1, <3>2, HandGivenAway, ClosedInHand
    <2>7. ASSUME NEW k \in Keys, CloseConn(d, k)
          PROVE  PoolApart' /\ HeldApart' /\ LiveInv'
      <3>1. PICK c : c = conns[d][k]
        OBVIOUS
      <3>2. /\ c \in Conns /\ c # NoConn /\ c \notin Pooled
            /\ conns' = [conns EXCEPT ![d][k] = NoConn] /\ UNCHANGED hand
        BY <1>0, <2>7, <3>1
        DEF CloseConn, TypeInv, MsgTypes, HeldApart, callVars
      <3>3. /\ PoolApart'
            /\ \E D \in SUBSET Pooled :
                  \/ Pooled' = Pooled \ D /\ live' = live \ (D \cup {c})
                  \/ Pooled' = (Pooled \ D) \cup {c} /\ live' = live \ D
        <4>1. CASE live' = live \ {c} /\ UNCHANGED poolVars
          <5>1. PoolApart' /\ Pooled' = Pooled
            BY <1>1, <4>1 DEF poolVars
          <5>2. /\ {} \in SUBSET Pooled
                /\ Pooled' = Pooled \ {} /\ live' = live \ ({} \cup {c})
            BY <4>1, <5>1
          <5> QED
            BY <5>1, <5>2
        <4>2. CASE Return(k, c, {ref[e] : e \in Deliveries})
          BY <1>0, <3>2, <4>2, ReturnApart
        <4> QED
          BY <2>7, <3>1, <4>1, <4>2 DEF CloseConn
      <3> QED
        BY <1>0, <3>1, <3>2, <3>3, ConnGivenAway
    <2> QED
      BY <1>6, <2>1, <2>2, <2>3, <2>4, <2>5, <2>6, <2>7 DEF Work
  <1> QED
    BY <1>3, <1>4, <1>5, <1>6 DEF Next

\* Nothing is owned in the beginning.
LEMMA OwnInit ==
    ASSUME Init
    PROVE  OwnInv
  <1> USE RemoteAssumption
  <1>1. TypeInv
    <2>1. PoolTypeOK
      <3>1. <<>> \in Seq(Conns)
        OBVIOUS
      <3>2. chan \in [Chans -> Seq(Conns)]
        BY <3>1 DEF Init, PoolInit
      <3> QED
        BY <3>2 DEF Init, PoolInit, PoolTypeOK
    <2>2. CallTypes
      BY DEF Init, CallTypes, Between
    <2>3. MsgTypes /\ DestTypes /\ HistTypes
      BY DEF Init, MsgTypes, DestTypes, HistTypes
    <2>4. ConnTypes
      BY NewConnIs DEF Init, ConnTypes
    <2> QED
      BY <2>1, <2>2, <2>3, <2>4 DEF TypeInv
  <1>2. PlaceInv
    BY DEF Init, PlaceInv, PlaceOf, InAddRcpt, WithHand
  <1>3. \A b \in Chans : DOMAIN chan[b] = {}
    BY DEF Init, PoolInit
  <1>4. PoolApart /\ Pooled = {}
    BY <1>3 DEF PoolApart, Pooled, InChan
  <1>5. HeldApart /\ LiveInv
    BY <1>4 DEF Init, PoolInit, HeldApart, LiveInv
  <1> QED
    BY <1>1, <1>2, <1>4, <1>5 DEF OwnInv

LEMMA OwnKept ==
    ASSUME OwnInv, [Next]_vars
    PROVE  OwnInv'
  BY TypesKept, PlacesKept, OwnersKept DEF OwnInv

LEMMA OwnAlways == Spec => []OwnInv
  BY OwnInit, OwnKept, PTL DEF Spec

\* Return may drop the connection it is given when the pool is closed, and
\* then changes nothing in the pool.
LEMMA ReturnDrops ==
    ASSUME NEW k, NEW c, NEW refs, Return(k, c, refs)
    PROVE  \/ UNCHANGED dropped
           \/ dropped' = dropped \cup {c} /\ UNCHANGED chan
  BY DEF Return, Drop

\* What is owned was owned before, or is a new connection.
LEMMA OwnedBefore ==
    ASSUME OwnInv, OwnInv', [Next]_vars, NEW c \in Conns, Owned(c)', ~Owned(c)
    PROVE  c \notin dropped
  <1> USE RemoteAssumption
  <1>0. /\ TypeInv /\ PlaceInv /\ PoolApart /\ HeldApart
        /\ PoolTypeOK /\ PoolTypeOK' /\ c # NoConn
        /\ hand \in [Deliveries -> Conns \cup {NoConn}]
        /\ conns \in [Deliveries -> [Keys -> Conns \cup {NoConn}]]
    BY DEF OwnInv, TypeInv, CallTypes, MsgTypes
  <1>1. ASSUME UNCHANGED chan PROVE Pooled' = Pooled
    BY <1>1 DEF Pooled, InChan
  <1>2. ASSUME Pooled' \subseteq Pooled, UNCHANGED <<hand, conns>> PROVE FALSE
    BY <1>2 DEF Owned
  <1>3. CASE UNCHANGED vars
    BY <1>1, <1>2, <1>3 DEF vars, poolVars, callVars
  <1>4. CASE OfPool
    <2>0. UNCHANGED <<hand, conns>>
      BY <1>4 DEF OfPool, callVars
    <2>1. ASSUME NEW K \in SUBSET Used, DropKeys(K) PROVE FALSE
      <3>1. Pooled' \subseteq Pooled
        BY <1>0, <2>1, DropApart
      <3> QED
        BY <1>2, <2>0, <3>1
    <2>2. ~CleanUp /\ ~ClosePool
      BY <2>1 DEF CleanUp, ClosePool, Stale
    <2>3. UNCHANGED chan
      BY <1>4, <2>2 DEF OfPool, Age, Collect
    <2> QED
      BY <1>1, <1>2, <2>0, <2>3
  <1>5. ASSUME NEW d \in Deliveries, Call(d) PROVE FALSE
    BY <1>1, <1>2, <1>5 DEF Call, Start, AddRcpt, Body, Close, poolVars, callVars
  <1>6. ASSUME NEW d \in Deliveries, Work(d) PROVE c \notin dropped
    <2>0. PlaceOf(d)
      BY <1>0 DEF PlaceInv
    <2>1. CASE \/ PoolGet(d) \/ TakeDest(d) \/ BodyDone(d) \/ Closed(d) \/ Rcpt(d)
               \/ \E k \in Keys : Send(d, k)
      BY <1>1, <1>2, <2>1 DEF PoolGet, Forget, TakeDest, BodyDone, Closed, Rcpt,
         Send, poolVars, callVars
    <2>2. CASE PoolDrain(d) \/ PoolPop(d)
      <3>0. ref[d] \in Chans /\ UNCHANGED conns
        BY <2>0, <2>2 DEF PoolDrain, PoolPop, PlaceOf
      <3>1. CASE UNCHANGED <<chan, hand>>
        BY <1>1, <1>2, <3>0, <3>1
      <3>2. CASE chan[ref[d]] # <<>> /\ Receive(ref[d])
        <4>1. PICK h : h = Head(chan[ref[d]])
          OBVIOUS
        <4>2. h \in Pooled /\ Pooled' = Pooled \ {h}
          BY <1>0, <3>0, <3>2, <4>1, ReceivedApart
        <4>3. UNCHANGED hand \/ hand' = [hand EXCEPT ![d] = h]
          BY <2>2, <4>1 DEF PoolDrain, PoolPop
        <4>4. \A e \in Deliveries : hand'[e] \in {hand[e], h}
          BY <1>0, <4>3
        <4> QED
          BY <3>0, <4>2, <4>4 DEF Owned
      <3> QED
        BY <2>2, <3>1, <3>2 DEF PoolDrain, PoolPop
    <2>3. CASE LookupMX(d)
      <3>1. UNCHANGED <<chan, conns>>
        BY <2>3 DEF LookupMX, poolVars
      <3>2. \/ UNCHANGED hand
            \/ \E x \in Conns : Free(x) /\ hand' = [hand EXCEPT ![d] = x]
        BY <2>3 DEF LookupMX
      <3>3. ASSUME NEW x \in Conns, Free(x), hand' = [hand EXCEPT ![d] = x]
            PROVE  c \notin dropped
        <4>1. \A e \in Deliveries : hand'[e] \in {hand[e], x}
          BY <1>0, <3>3
        <4>2. c = x
          BY <1>1, <3>1, <4>1 DEF Owned
        <4> QED
          BY <3>3, <4>2 DEF Free
      <3> QED
        BY <1>1, <1>2, <3>1, <3>2, <3>3
    <2>4. CASE AttemptMX(d) \/ CheckLevels(d) \/ TakeDestTimeout(d) \/ Mail(d)
      <3>1. UNCHANGED chan
        BY <2>4 DEF AttemptMX, CheckLevels, TakeDestTimeout, Mail, poolVars
      <3>2. UNCHANGED hand \/ hand' = [hand EXCEPT ![d] = NoConn]
        BY <2>4 DEF AttemptMX, CheckLevels, TakeDestTimeout, Mail, CloseHand
      <3>3. UNCHANGED conns \/ conns' = [conns EXCEPT ![d][Dom(d)] = hand[d]]
        BY <2>4 DEF AttemptMX, CheckLevels, TakeDestTimeout, Mail
      <3>4. \A e \in Deliveries : hand'[e] \in {hand[e], NoConn}
        BY <1>0, <3>2
      <3>5. \A e \in Deliveries, k \in Keys :
                conns'[e][k] \in {conns[e][k], hand[d]}
        BY <1>0, <3>3
      <3> QED
        BY <1>0, <1>1, <3>1, <3>4, <3>5 DEF Owned
    <2>5. ASSUME NEW k \in Keys, CloseConn(d, k) PROVE FALSE
      <3>1. PICK x : x = conns[d][k]
        OBVIOUS
      <3>2. /\ x \in Conns /\ x # NoConn /\ x \notin Pooled
            /\ conns' = [conns EXCEPT ![d][k] = NoConn] /\ UNCHANGED hand
        BY <1>0, <2>5, <3>1 DEF CloseConn, HeldApart, callVars
      <3>3. Pooled' \subseteq Pooled \cup {x}
        <4>1. CASE UNCHANGED poolVars
          BY <1>1, <4>1 DEF poolVars
        <4>2. CASE Return(k, x, {ref[e] : e \in Deliveries})
          BY <1>0, <3>2, <4>2, ReturnApart
        <4> QED
          BY <2>5, <3>1, <4>1, <4>2 DEF CloseConn
      <3>4. \A e \in Deliveries, l \in Keys :
                conns'[e][l] \in {conns[e][l], NoConn}
        BY <1>0, <3>2
      <3> QED
        BY <1>0, <3>1, <3>2, <3>3, <3>4 DEF Owned
    <2> QED
      BY <1>6, <2>1, <2>2, <2>3, <2>4, <2>5 DEF Work
  <1> QED
    BY <1>3, <1>4, <1>5, <1>6 DEF Next

\* A connection that is dropped has no owner any more.
LEMMA DroppedUnowned ==
    ASSUME OwnInv, OwnInv', [Next]_vars, NEW c \in dropped', c \notin dropped
    PROVE  ~Owned(c)'
  <1> USE RemoteAssumption
  <1>0. /\ TypeInv /\ PlaceInv /\ PoolApart /\ HeldApart
        /\ PoolTypeOK /\ PoolTypeOK'
        /\ conns \in [Deliveries -> [Keys -> Conns \cup {NoConn}]]
    BY DEF OwnInv, TypeInv, MsgTypes
  <1>1. ~(UNCHANGED vars \/ OfPool)
    BY DEF vars, poolVars, OfPool, Age, CleanUp, ClosePool, Collect
  <1>2. PICK d \in Deliveries : Call(d) \/ Work(d)
    BY <1>1 DEF Next
  <1>3. ~Call(d)
    BY DEF Call, Start, AddRcpt, Body, Close, poolVars
  <1>4. PoolPop(d) \/ \E k \in Keys : CloseConn(d, k)
    BY <1>2, <1>3 DEF Work, PoolGet, Forget, PoolDrain, LookupMX, AttemptMX,
       CheckLevels, TakeDest, TakeDestTimeout, Mail, Rcpt, Send, BodyDone,
       Closed, poolVars
  <1>5. CASE PoolPop(d)
    <2>1. /\ chan[ref[d]] # <<>> /\ Receive(ref[d]) /\ c = Head(chan[ref[d]])
          /\ UNCHANGED <<hand, conns>>
      BY <1>5 DEF PoolPop, Drop
    <2>2. ref[d] \in Chans
      BY <1>0, <1>5 DEF PoolPop, PlaceInv, PlaceOf
    <2>3. c \in Pooled /\ Pooled' = Pooled \ {c}
      BY <1>0, <2>1, <2>2, ReceivedApart
    <2> QED
      BY <1>0, <2>1, <2>3 DEF Owned, HeldApart
  <1>6. ASSUME NEW k \in Keys, CloseConn(d, k) PROVE ~Owned(c)'
    <2>1. Return(k, conns[d][k], {ref[e] : e \in Deliveries})
      BY <1>6 DEF CloseConn, poolVars
    <2>2. c = conns[d][k] /\ UNCHANGED chan
      BY <2>1, ReturnDrops
    <2>3. /\ c # NoConn /\ conns' = [conns EXCEPT ![d][k] = NoConn]
          /\ UNCHANGED hand
      BY <1>6, <2>2 DEF CloseConn, callVars
    <2>4. Pooled' = Pooled
      BY <2>2 DEF Pooled, InChan
    <2>5. \A e \in Deliveries, l \in Keys :
              conns'[e][l] = IF e = d /\ l = k THEN NoConn ELSE conns[e][l]
      BY <1>0, <2>3
    <2>6. c \notin Pooled /\ \A e \in Deliveries : hand[e] # c
      BY <1>0, <2>2, <2>3 DEF HeldApart
    <2>7. \A e \in Deliveries, l \in Keys : conns'[e][l] # c
      BY <1>0, <2>2, <2>3, <2>5 DEF HeldApart
    <2> QED
      BY <2>3, <2>4, <2>6, <2>7 DEF Owned
  <1> QED
    BY <1>4, <1>5, <1>6

LEMMA DropsAlways == Spec => []DropInv
  <1>1. Init => DropInv
    BY DEF Init, PoolInit, DropInv
  <1>2. OwnInv /\ OwnInv' /\ DropInv /\ [Next]_vars => DropInv'
    <2> SUFFICES ASSUME OwnInv, OwnInv', DropInv, [Next]_vars,
                        NEW c \in dropped'
                 PROVE  ~Owned(c)'
      BY DEF DropInv
    <2>1. c \in Conns
      BY DEF OwnInv, TypeInv, PoolTypeOK
    <2>2. c \in dropped => ~Owned(c)
      BY DEF DropInv
    <2> QED
      BY <2>1, <2>2, OwnedBefore, DroppedUnowned
  <1> QED
    BY <1>1, <1>2, OwnAlways, PTL DEF Spec

\* No two messages share a connection; one that is open has an owner that will
\* close it or was dropped by Return to a closed pool or by
\* connectionForDomain for REQUIRETLS, and a dropped one is never found again
\* (Pool.Get, Pool.Return, remoteDelivery.Close).
THEOREM OneOwnerHolds == Spec => []OneOwner
  <1>1. OwnInv /\ DropInv => OneOwner
    <2> SUFFICES ASSUME OwnInv, DropInv PROVE OneOwner
      OBVIOUS
    <2>0. TypeInv /\ PoolApart /\ HeldApart /\ LiveInv
      BY DEF OwnInv
    <2>1. ASSUME NEW d \in Deliveries
          PROVE  \A c : c \in Held(d) <=>
                    c # NoConn /\ (hand[d] = c \/ \E k \in Keys : conns[d][k] = c)
      BY DEF Held
    <2>2. ASSUME NEW d \in Deliveries PROVE Held(d) \cap Pooled = {}
      BY <2>0, <2>1 DEF HeldApart
    <2>3. ASSUME NEW d \in Deliveries, NEW e \in Deliveries \ {d}
          PROVE  Held(d) \cap Held(e) = {}
      BY <2>0, <2>1, <2>3 DEF HeldApart
    <2>4. ASSUME NEW d \in Deliveries, NEW k \in Keys, NEW l \in Keys,
                 conns[d][k] # NoConn, conns[d][k] = conns[d][l]
          PROVE  k = l
      BY <2>0, <2>4 DEF HeldApart
    <2>5. live \subseteq Pooled \cup UNION {Held(d) : d \in Deliveries}
      <3>1. \A c \in live : c # NoConn
        BY <2>0, RemoteAssumption DEF TypeInv, PoolTypeOK
      <3> QED
        BY <2>0, <2>1, <3>1 DEF LiveInv
    <2>6. PoolApart
      BY <2>0
    <2>7. dropped \cap (Pooled \cup UNION {Held(d) : d \in Deliveries}) = {}
      <3> SUFFICES ASSUME NEW c \in dropped
                   PROVE  /\ c \notin Pooled
                          /\ \A d \in Deliveries : c \notin Held(d)
        OBVIOUS
      <3> QED
        BY <2>1 DEF DropInv, Owned
    <2> QED
      BY <2>2, <2>3, <2>4, <2>5, <2>6, <2>7 DEF OneOwner, PoolApart
  <1> QED
    BY <1>1, OwnAlways, DropsAlways, PTL

-----------------------------------------------------------------------------
(***************************************************************************)
(* Policies and REQUIRETLS                                                 *)
(***************************************************************************)

\* A connection is what it was, and knows the recipients it knew.
Same(c) ==
    /\ conn'[c].meets = conn[c].meets
    /\ conn'[c].secure = conn[c].secure
    /\ conn'[c].strong = conn[c].strong
    /\ conn'[c].waived = conn[c].waived
    /\ conn[c].rcpts \subseteq conn'[c].rcpts

\* A connection that stays open is the same.
LEMMA ConnsKept ==
    ASSUME OwnInv, [Next]_vars, NEW c \in live \cap live'
    PROVE  Same(c)
  <1>0. /\ TypeInv /\ PlaceInv /\ HeldApart /\ LiveInv /\ c \in Conns
        /\ conn \in [Conns -> ConnRecords]
    BY DEF OwnInv, TypeInv, PoolTypeOK, ConnTypes
  <1>1. ASSUME conn'[c] = conn[c] PROVE Same(c)
    BY <1>1 DEF Same
  <1>2. ASSUME ForgetClosed PROVE Same(c)
    BY <1>0, <1>1, <1>2 DEF ForgetClosed
  <1>3. CASE UNCHANGED vars \/ OfPool
    BY <1>1, <1>2, <1>3 DEF vars, OfPool
  <1>4. ASSUME NEW d \in Deliveries, Call(d) PROVE Same(c)
    BY <1>1, <1>4 DEF Call, Start, AddRcpt, Body, Close
  <1>5. ASSUME NEW d \in Deliveries, Work(d) PROVE Same(c)
    <2>0. PlaceOf(d)
      BY <1>0 DEF PlaceInv
    <2>1. CASE PoolGet(d) \/ LookupMX(d) \/ TakeDest(d) \/ BodyDone(d) \/ Closed(d)
      BY <1>1, <2>1 DEF PoolGet, LookupMX, TakeDest, BodyDone, Closed
    <2>2. CASE PoolDrain(d) \/ PoolPop(d)
      BY <1>1, <1>2, <2>2 DEF PoolDrain, PoolPop
    <2>3. CASE AttemptMX(d)
      <3>1. c # hand[d]
        BY <2>0, <2>3 DEF AttemptMX, PlaceOf
      <3>2. conn'[c] = conn[c]
        BY <1>0, <2>3, <3>1 DEF AttemptMX
      <3> QED
        BY <1>1, <3>2
    <2>4. CASE CheckLevels(d) \/ TakeDestTimeout(d) \/ Mail(d)
      <3>1. UNCHANGED conn \/ CloseHand(d)
        BY <2>4 DEF CheckLevels, TakeDestTimeout, Mail
      <3>2. ASSUME CloseHand(d) PROVE conn'[c] = conn[c]
        BY <1>0, <3>2 DEF CloseHand
      <3> QED
        BY <1>1, <3>1, <3>2
    <2>5. CASE Rcpt(d)
      <3>1. \/ UNCHANGED conn
            \/ conn' = [conn EXCEPT ![conns[d][Dom(d)]].rcpts =
                                        @ \cup {Sent[cur[d]]}]
        BY <2>5 DEF Rcpt
      <3> QED
        BY <1>0, <1>1, <3>1 DEF Same, ConnRecords
    <2>6. ASSUME NEW k \in Keys, Send(d, k) PROVE Same(c)
      <3>1. \/ UNCHANGED conn
            \/ \E failed \in BOOLEAN :
                  conn' = [conn EXCEPT ![conns[d][k]].errored = failed]
        BY <2>6 DEF Send, OpenFails, SendData
      <3>2. ASSUME NEW failed,
                   conn' = [conn EXCEPT ![conns[d][k]].errored = failed]
            PROVE  Same(c)
        <4>1. \/ conn'[c] = conn[c]
              \/ conn'[c] = [conn[c] EXCEPT !.errored = failed]
          BY <1>0, <3>2
        <4> QED
          BY <1>0, <1>1, <4>1 DEF Same, ConnRecords
      <3> QED
        BY <1>1, <3>1, <3>2
    <2>7. ASSUME NEW k \in Keys, CloseConn(d, k) PROVE Same(c)
      <3>1. \/ /\ live' = live \ {conns[d][k]}
               /\ conn' = [conn EXCEPT ![conns[d][k]] = NewConn]
            \/ conn' = [e \in Conns |->
                        IF e \in live \ live' THEN NewConn
                        ELSE IF e = conns[d][k]
                        THEN [conn[conns[d][k]] EXCEPT !.uses = @ + 1]
                        ELSE conn[e]]
        BY <2>7 DEF CloseConn
      <3>2. \/ conn'[c] = conn[c]
            \/ conn'[c] = [conn[c] EXCEPT !.uses = @ + 1]
        BY <1>0, <3>1
      <3> QED
        BY <1>0, <1>1, <3>2 DEF Same, ConnRecords
    <2> QED
      BY <1>5, <2>1, <2>2, <2>3, <2>4, <2>5, <2>6, <2>7 DEF Work
  <1> QED
    BY <1>3, <1>4, <1>5 DEF Next

\* A connection that is opened is one newConn is satisfied with.
LEMMA ConnsOpened ==
    ASSUME OwnInv, [Next]_vars, NEW c \in live' \ live
    PROVE  \E d \in Deliveries : \E o \in OutcomesFor(d) :
              /\ hand[d] = c /\ pc[d] = "mx" /\ pc'[d] = "check"
              /\ o.end = "connected"
              /\ conn'[c].meets = o.meets
              /\ conn'[c].secure = o.secure
              /\ conn'[c].strong = o.strong
              /\ conn'[c].waived = Waives(d)
  <1>0. TypeInv /\ PlaceInv
    BY DEF OwnInv
  <1>1. ~(UNCHANGED vars \/ OfPool)
    <2>1. OfPool => live' \subseteq live
      BY <1>0, DropTypes DEF OfPool, Age, CleanUp, ClosePool, Collect, TypeInv
    <2> QED
      BY <2>1 DEF vars
  <1>2. PICK d \in Deliveries : Call(d) \/ Work(d)
    BY <1>1 DEF Next
  <1>3. /\ pc[d] = "mx" /\ pc'[d] = "check" /\ c = hand[d]
        /\ live' = live \cup {hand[d]}
    BY <1>0, <1>2, OpenedByAttempt
  <1>4. AttemptMX(d)
    BY <1>2, <1>3 DEF Call, Work, Start, AddRcpt, Body, Close, PoolGet,
       PoolDrain, PoolPop, LookupMX, CheckLevels, TakeDest, TakeDestTimeout,
       Mail, Rcpt, Send, CloseConn, BodyDone, Closed
  <1>5. PICK o \in OutcomesFor(d) :
            /\ o.end = "connected"
            /\ conn' = [conn EXCEPT ![hand[d]] =
                          [NewConn EXCEPT !.client = TRUE, !.secure = o.secure,
                                          !.meets = o.meets,
                                          !.strong = o.strong,
                                          !.waived = Waives(d)]]
    BY <1>3, <1>4 DEF AttemptMX
  <1>6. conn'[c] = [NewConn EXCEPT !.client = TRUE, !.secure = o.secure,
                                   !.meets = o.meets, !.strong = o.strong,
                                   !.waived = Waives(d)]
    <2>1. hand[d] \in Conns
      BY <1>0, <1>3, HandIs DEF WithHand
    <2> QED
      BY <1>0, <1>3, <1>5, <2>1 DEF TypeInv, ConnTypes
  <1>7. /\ conn'[c].meets = o.meets /\ conn'[c].secure = o.secure
        /\ conn'[c].strong = o.strong /\ conn'[c].waived = Waives(d)
    BY <1>6 DEF NewConn
  <1> QED
    BY <1>3, <1>5, <1>7

\* A message the policies apply to goes only over connections they accept, the
\* pooled ones included, but for pooled ones that were opened for a message
\* they did not apply to (connectionForDomain, newConn, attemptMX).
THEOREM PoliciesHeld == Spec => []PoliciesHold
  <1>1. Init => PolicyInv
    BY DEF Init, PoolInit, PolicyInv
  <1>2. OwnInv /\ PolicyInv /\ [Next]_vars => PolicyInv'
    <2> SUFFICES ASSUME OwnInv, PolicyInv, [Next]_vars, NEW c \in live'
                 PROVE  conn'[c].meets \/ conn'[c].waived
      BY DEF PolicyInv
    <2>1. CASE c \in live
      BY <2>1, ConnsKept DEF Same, PolicyInv
    <2>2. CASE c \notin live
      <3>1. PICK d \in Deliveries : \E o \in OutcomesFor(d) :
                /\ o.end = "connected" /\ conn'[c].meets = o.meets
                /\ conn'[c].waived = Waives(d)
        BY <2>2, ConnsOpened
      <3>2. PICK o \in OutcomesFor(d) :
                /\ o.end = "connected" /\ conn'[c].meets = o.meets
                /\ conn'[c].waived = Waives(d)
        BY <3>1
      <3>3. ~Waives(d) => o \in Outcomes(Configured)
        BY DEF OutcomesFor, PoliciesOf, WithPolicies, WithoutPolicies
      <3> QED
        BY <3>2, <3>3, OutcomesMean
    <2> QED
      BY <2>1, <2>2
  <1>3. OwnInv /\ PolicyInv => PoliciesHold
    BY DEF OwnInv, LiveInv, PolicyInv, PoliciesHold
  <1> QED
    BY <1>1, <1>2, <1>3, OwnAlways, PTL DEF Spec

\* What REQUIRETLS means for a message changes in four steps only.
LEMMA TagSteps ==
    ASSUME TypeInv, [Next]_vars, NEW d \in Deliveries
    PROVE  \/ /\ tagged'[d] = tagged[d] /\ requireTLS'[d] = requireTLS[d]
              /\ lifted'[d] = lifted[d]
              /\ pc[d] \in {"mail", "close"} => pc'[d] = pc[d]
              /\ pc'[d] = "new" => pc[d] = "new"
           \/ Start(d) \/ TakeDest(d) \/ Mail(d) \/ Closed(d)
  <1> DEFINE Still ==
        /\ tagged'[d] = tagged[d] /\ requireTLS'[d] = requireTLS[d]
        /\ lifted'[d] = lifted[d]
        /\ pc[d] \in {"mail", "close"} => pc'[d] = pc[d]
        /\ pc'[d] = "new" => pc[d] = "new"
  <1>1. CASE UNCHANGED vars \/ OfPool
    BY <1>1 DEF vars, OfPool, msgVars
  <1>2. ASSUME NEW e \in Deliveries, e # d, Call(e) \/ Work(e)
        PROVE  Still
    BY <1>2, OthersKept DEF Kept
  <1>3. CASE Call(d) /\ ~Start(d)
    BY <1>3 DEF Call, AddRcpt, Body, Close, Goto, msgVars, TypeInv, CallTypes
  <1>4. CASE \/ PoolGet(d) \/ PoolDrain(d) \/ PoolPop(d) \/ LookupMX(d)
             \/ AttemptMX(d) \/ CheckLevels(d)
    BY <1>4 DEF PoolGet, PoolDrain, PoolPop, LookupMX, AttemptMX, CheckLevels,
       Back, Goto, msgVars, TypeInv, CallTypes
  <1>5. CASE \/ TakeDestTimeout(d) \/ Rcpt(d) \/ BodyDone(d)
             \/ \E k \in Keys : Send(d, k) \/ CloseConn(d, k)
    BY <1>5 DEF TakeDestTimeout, Rcpt, BodyDone, Send, CloseConn, Back, Goto,
       msgVars, TypeInv, CallTypes
  <1> QED
    BY <1>1, <1>2, <1>3, <1>4, <1>5 DEF Next, Call, Work

\* A delivery gets a connection for a domain from MAIL only.
LEMMA ConnsFromMail ==
    ASSUME TypeInv, PlaceInv, [Next]_vars, NEW d \in Deliveries, NEW k \in Keys,
           conns'[d][k] # conns[d][k], conns'[d][k] # NoConn
    PROVE  /\ pc[d] = "mail" /\ hand[d] \in live /\ k = Dom(d)
           /\ conns'[d][k] = hand[d]
           /\ UNCHANGED <<live, conn>>
  <1>1. ~(UNCHANGED vars \/ OfPool)
    BY DEF vars, OfPool
  <1>2. ASSUME NEW e \in Deliveries, e # d, Call(e) \/ Work(e)
        PROVE  FALSE
    BY <1>2, OthersKept DEF Kept
  <1>3. ~Call(d)
    BY DEF Call, Start, AddRcpt, Body, Close
  <1>4. ASSUME NEW l \in Keys, CloseConn(d, l) PROVE FALSE
    BY <1>4 DEF CloseConn, TypeInv, MsgTypes
  <1>5. Mail(d)
    BY <1>1, <1>2, <1>3, <1>4 DEF Next, Work, PoolGet, PoolDrain, PoolPop,
       LookupMX, AttemptMX, CheckLevels, TakeDest, TakeDestTimeout, Rcpt, Send,
       BodyDone, Closed
  <1>6. Dom(d) \in Keys
    BY <1>5, DomIs DEF Mail, InAddRcpt
  <1> QED
    BY <1>5, <1>6 DEF Mail, TypeInv, MsgTypes

\* A delivery gives its connections back in Close only.
LEMMA ConnsGoneInClose ==
    ASSUME TypeInv, PlaceInv, [Next]_vars, NEW d \in Deliveries, NEW k \in Keys,
           conns'[d][k] = NoConn, conns[d][k] # NoConn
    PROVE  pc[d] = "close"
  <1>1. ~(UNCHANGED vars \/ OfPool)
    BY DEF vars, OfPool
  <1>2. ASSUME NEW e \in Deliveries, e # d, Call(e) \/ Work(e)
        PROVE  FALSE
    BY <1>2, OthersKept DEF Kept
  <1>3. ~Call(d)
    BY DEF Call, Start, AddRcpt, Body, Close
  <1>4. ~Mail(d)
    <2> SUFFICES ASSUME Mail(d) PROVE FALSE
      OBVIOUS
    <2>1. hand[d] # NoConn
      BY DEF Mail, PlaceInv, PlaceOf, WithHand
    <2> QED
      BY <2>1 DEF Mail, TypeInv, MsgTypes
  <1>5. \E l \in Keys : CloseConn(d, l)
    BY <1>1, <1>2, <1>3, <1>4 DEF Next, Work, PoolGet, PoolDrain, PoolPop,
       LookupMX, AttemptMX, CheckLevels, TakeDest, TakeDestTimeout, Rcpt, Send,
       BodyDone, Closed
  <1> QED
    BY <1>5 DEF CloseConn

\* REQUIRETLS and what it was lifted for stay related.
LEMMA TagsKept ==
    ASSUME OwnInv, RequireInv, [Next]_vars, NEW d \in Deliveries
    PROVE  TagOf(d)'
  <1>0. /\ TypeInv /\ PlaceInv /\ TagOf(d)
        /\ tagged \in [Deliveries -> BOOLEAN]
        /\ requireTLS \in [Deliveries -> BOOLEAN]
        /\ lifted \in [Deliveries -> SUBSET Keys]
        /\ pc \in [Deliveries -> Between \cup InAddRcpt \cup {"body", "close"}]
        /\ RelaxedREQUIRETLS \in BOOLEAN
    BY RemoteAssumption DEF OwnInv, RequireInv, TypeInv, MsgTypes, CallTypes
  <1>1. CASE /\ tagged'[d] = tagged[d] /\ requireTLS'[d] = requireTLS[d]
             /\ lifted'[d] = lifted[d]
             /\ pc[d] \in {"mail", "close"} => pc'[d] = pc[d]
             /\ pc'[d] = "new" => pc[d] = "new"
    <2>1. ASSUME NEW k \in Keys, pc[d] # "close", conns'[d][k] = NoConn
          PROVE  conns[d][k] = NoConn
      BY <1>0, <2>1, ConnsGoneInClose
    <2> QED
      BY <1>0, <1>1, <2>1 DEF TagOf
  <1>2. CASE Start(d)
    <2>1. /\ tagged'[d] = requireTLS'[d] /\ lifted'[d] = lifted[d]
          /\ pc'[d] = "open"
      BY <1>0, <1>2 DEF Start, Goto
    <2> QED
      BY <1>0, <2>1 DEF TagOf
  <1>3. CASE TakeDest(d)
    <2>1. /\ pc'[d] = "mail" /\ UNCHANGED <<tagged, lifted>>
          /\ requireTLS'[d] => requireTLS[d]
          /\ requireTLS[d] /\ ~requireTLS'[d] => RelaxedREQUIRETLS
      BY <1>0, <1>3 DEF TakeDest, Goto, msgVars
    <2> QED
      BY <1>0, <2>1 DEF TagOf
  <1>4. CASE Mail(d)
    <2>1. /\ UNCHANGED <<tagged, requireTLS>> /\ pc'[d] # "new"
          /\ lifted'[d] = IF tagged[d] /\ ~requireTLS[d]
                          THEN lifted[d] \cup {j \in Keys : conns'[d][j] = NoConn}
                          ELSE lifted[d]
      BY <1>0, <1>4 DEF Mail, Back, Goto
    <2> QED
      BY <1>0, <2>1 DEF TagOf
  <1>5. CASE Closed(d)
    <2>1. ~tagged'[d] /\ ~requireTLS'[d] /\ lifted'[d] = {}
      BY <1>0, <1>5 DEF Closed
    <2> QED
      BY <2>1 DEF TagOf
  <1> QED
    BY <1>0, <1>1, <1>2, <1>3, <1>4, <1>5, TagSteps

\* A message with REQUIRETLS goes only to servers whose identity and whose MX
\* record are authenticated, whatever policies are configured or overridden;
\* with relaxed_requiretls up to and with the first server that lacks the
\* extension, which lifts it for the domains without a connection
\* (connectionForDomain).
THEOREM REQUIRETLSHolds == Spec => []REQUIRETLSHonoured
  <1>1. Init => RequireInv
    <2> SUFFICES ASSUME Init PROVE RequireInv
      OBVIOUS
    <2>1. live = {}
      BY DEF Init, PoolInit
    <2>2. ASSUME NEW d \in Deliveries
          PROVE  /\ pc[d] = "new" /\ ~tagged[d] /\ ~requireTLS[d]
                 /\ lifted[d] = {}
      BY DEF Init
    <2> QED
      BY <2>1, <2>2 DEF RequireInv, TagOf
  <1>2. OwnInv /\ RequireInv /\ [Next]_vars => RequireInv'
    <2> SUFFICES ASSUME OwnInv, RequireInv, [Next]_vars
                 PROVE  RequireInv'
      OBVIOUS
    <2>0. /\ TypeInv /\ PlaceInv /\ HeldApart /\ LiveInv
          /\ TypeInv' /\ PlaceInv' /\ HeldApart' /\ LiveInv'
      BY OwnKept DEF OwnInv
    <2>1. ASSUME NEW c \in live', conn'[c].secure PROVE conn'[c].strong
      <3>1. CASE c \in live
        BY <2>1, <3>1, ConnsKept DEF Same, RequireInv
      <3>2. CASE c \notin live
        <4>1. PICK d \in Deliveries : \E o \in OutcomesFor(d) :
                  /\ o.end = "connected"
                  /\ conn'[c].secure = o.secure /\ conn'[c].strong = o.strong
          BY <3>2, ConnsOpened
        <4>2. PICK o \in OutcomesFor(d) :
                  /\ o.end = "connected"
                  /\ conn'[c].secure = o.secure /\ conn'[c].strong = o.strong
          BY <4>1
        <4>3. PICK P : o \in Outcomes(P)
          BY DEF OutcomesFor, WithPolicies, WithoutPolicies
        <4> QED
          BY <2>1, <4>2, <4>3, OutcomesMean
      <3> QED
        BY <3>1, <3>2
    <2>2. \A d \in Deliveries : TagOf(d)'
      BY TagsKept
    <2>3. ASSUME NEW d \in Deliveries, tagged'[d], Dom(d)' \notin lifted'[d],
                 pc'[d] \in {"limit", "mail"}, hand'[d] \in live'
          PROVE  conn'[hand'[d]].secure
      <3>1. ASSUME pc'[d] = pc[d], hand'[d] = hand[d], cur'[d] = cur[d],
                   tagged[d], lifted'[d] = lifted[d], hand[d] \in live
            PROVE  conn'[hand'[d]].secure
        <4>1. conn[hand[d]].secure
          BY <2>3, <3>1 DEF RequireInv, Dom
        <4> QED
          BY <2>3, <3>1, <4>1, ConnsKept DEF Same
      <3>2. CASE UNCHANGED vars \/ OfPool
        <4>1. live' \subseteq live
          BY <2>0, <3>2, DropTypes
          DEF vars, OfPool, Age, CleanUp, ClosePool, Collect, TypeInv
        <4>2. UNCHANGED <<pc, hand, cur, tagged, lifted>>
          BY <3>2 DEF vars, callVars, msgVars, OfPool
        <4> QED
          BY <2>3, <3>1, <4>1, <4>2
      <3>3. ASSUME NEW e \in Deliveries, e # d, Call(e) \/ Work(e)
            PROVE  conn'[hand'[d]].secure
        <4>1. Kept(d)
          BY <2>0, <3>3, OthersKept
        <4>2. pc[d] \in WithHand /\ hand[d] # NoConn
          BY <2>0, <2>3, <4>1 DEF Kept, PlaceInv, PlaceOf, WithHand
        <4>3. hand[d] # hand[e]
          BY <2>0, <3>3, <4>2 DEF HeldApart
        <4>4. hand[d] \in live
          BY <2>0, <2>3, <3>3, <4>1, <4>3, OpenedByAttempt DEF Kept
        <4> QED
          BY <2>3, <3>1, <4>1, <4>4 DEF Kept
      <3>4. CASE CheckLevels(d)
        <4>1. /\ pc[d] = "check" /\ UNCHANGED <<conn, cur, hand, tagged, lifted>>
              /\ requireTLS[d] => conn[hand[d]].secure
          BY <2>0, <2>3, <3>4
          DEF CheckLevels, Back, Goto, msgVars, TypeInv, CallTypes
        <4>2. conns[d][Dom(d)] = NoConn /\ Dom(d) \in Keys
          BY <2>0, <4>1, DomIs DEF PlaceInv, PlaceOf, InAddRcpt
        <4>3. Dom(d) \notin lifted[d]
          BY <2>3, <4>1 DEF Dom
        <4>4. requireTLS[d]
          BY <2>3, <4>1, <4>2, <4>3 DEF RequireInv, TagOf
        <4> QED
          BY <4>1, <4>4
      <3>5. CASE TakeDest(d)
        <4>1. /\ pc[d] = "limit"
              /\ UNCHANGED <<conn, hand, live, cur, tagged, lifted>>
          BY <3>5 DEF TakeDest, callVars, msgVars
        <4> QED
          BY <2>3, <4>1 DEF RequireInv, Dom
      <3>6. CASE (Call(d) \/ Work(d)) /\ ~CheckLevels(d) /\ ~TakeDest(d)
        <4>1. pc'[d] \notin {"limit", "mail"}
          BY <2>0, <3>6 DEF Call, Work, Start, AddRcpt, Body, Close, PoolGet,
             PoolDrain, PoolPop, LookupMX, AttemptMX, TakeDestTimeout, Mail,
             Rcpt, Send, CloseConn, BodyDone, Closed, Back, Goto, TypeInv,
             CallTypes
        <4> QED
          BY <2>3, <4>1
      <3> QED
        BY <3>2, <3>3, <3>4, <3>5, <3>6 DEF Next
    <2>4. ASSUME NEW d \in Deliveries, NEW k \in Keys, tagged'[d],
                 k \notin lifted'[d], conns'[d][k] # NoConn
          PROVE  conn'[conns'[d][k]].secure
      <3>0. pc[d] # "new" => tagged[d] /\ k \notin lifted[d]
        <4>1. ~Closed(d)
          BY <2>0, <2>4 DEF Closed, TypeInv, MsgTypes
        <4>2. Start(d) => pc[d] = "new"
          BY DEF Start
        <4>3. TakeDest(d) => UNCHANGED <<tagged, lifted>>
          BY DEF TakeDest, msgVars
        <4>4. Mail(d) => UNCHANGED tagged /\ lifted[d] \subseteq lifted'[d]
          BY <2>0 DEF Mail, TypeInv, MsgTypes
        <4> QED
          BY <2>0, <2>4, <4>1, <4>2, <4>3, <4>4, TagSteps
      <3>1. CASE conns'[d][k] = conns[d][k]
        <4>1. conns[d][k] \in live \cap live'
          BY <2>0, <2>4, <3>1 DEF LiveInv
        <4>2. pc[d] # "new"
          BY <2>0, <2>4, <3>1 DEF PlaceInv, PlaceOf
        <4>3. conn[conns[d][k]].secure
          BY <2>4, <3>0, <3>1, <4>2 DEF RequireInv
        <4> QED
          BY <3>1, <4>1, <4>3, ConnsKept DEF Same
      <3>2. CASE conns'[d][k] # conns[d][k]
        <4>1. /\ pc[d] = "mail" /\ hand[d] \in live /\ k = Dom(d)
              /\ conns'[d][k] = hand[d] /\ UNCHANGED conn
          BY <2>0, <2>4, <3>2, ConnsFromMail
        <4> QED
          BY <3>0, <4>1 DEF RequireInv
      <3> QED
        BY <3>1, <3>2
    <2> QED
      BY <2>1, <2>2, <2>3, <2>4 DEF RequireInv, Dom
  <1>3. OwnInv /\ RequireInv => REQUIRETLSHonoured
    <2> SUFFICES ASSUME OwnInv, RequireInv, NEW d \in Deliveries, NEW k \in Keys,
                        conns[d][k] # NoConn, tagged[d]
                 PROVE  \/ conn[conns[d][k]].strong
                        \/ RelaxedREQUIRETLS /\ k \in lifted[d]
      BY DEF REQUIRETLSHonoured
    <2> QED
      BY DEF OwnInv, LiveInv, RequireInv, TagOf
  <1> QED
    BY <1>1, <1>2, <1>3, OwnAlways, PTL DEF Spec

-----------------------------------------------------------------------------
(***************************************************************************)
(* Statuses                                                                *)
(***************************************************************************)

\* A recipient is added when its RCPT succeeds.
LEMMA AddedByRcpt ==
    ASSUME TypeInv, [Next]_vars, NEW d \in Deliveries,
           NEW r \in added'[d], r \notin added[d]
    PROVE  /\ pc[d] = "rcpt" /\ r = cur[d] /\ UNCHANGED conns
           /\ pc'[d] = "open"
           /\ conn' = [conn EXCEPT ![conns[d][Dom(d)]].rcpts =
                                     @ \cup {Sent[cur[d]]}]
  <1>1. ~(UNCHANGED vars \/ OfPool)
    BY DEF vars, OfPool, histVars
  <1>2. ASSUME NEW e \in Deliveries, e # d, Call(e) \/ Work(e)
        PROVE  FALSE
    BY <1>2, OthersKept DEF Kept
  <1>3. ~Call(d)
    BY DEF Call, Start, AddRcpt, Body, Close, histVars, TypeInv, HistTypes
  <1>4. Rcpt(d)
    <2>1. Work(d)
      BY <1>1, <1>2, <1>3 DEF Next
    <2>2. ~(PoolGet(d) \/ PoolDrain(d) \/ PoolPop(d) \/ LookupMX(d)
            \/ AttemptMX(d) \/ CheckLevels(d))
      BY DEF PoolGet, PoolDrain, PoolPop, LookupMX, AttemptMX, CheckLevels,
         histVars
    <2>3. ~(TakeDest(d) \/ TakeDestTimeout(d) \/ Mail(d) \/ BodyDone(d)
            \/ Closed(d) \/ \E k \in Keys : Send(d, k) \/ CloseConn(d, k))
      BY DEF TakeDest, TakeDestTimeout, Mail, BodyDone, Closed, Send, CloseConn,
         histVars
    <2> QED
      BY <2>1, <2>2, <2>3 DEF Work
  <1> QED
    BY <1>4 DEF Rcpt, Back, Goto, TypeInv, HistTypes, CallTypes

\* The recipients of a message stay known to its connections.
LEMMA RecipientsKnown ==
    ASSUME OwnInv, OwnInv', ToldInv, [Next]_vars, NEW d \in Deliveries,
           pc'[d] \notin {"new", "close"}, NEW r \in added'[d]
    PROVE  /\ conns'[d][Domain[r]] # NoConn
           /\ Sent[r] \in conn'[conns'[d][Domain[r]]].rcpts
  <1>0. /\ TypeInv /\ PlaceInv /\ LiveInv /\ TypeInv' /\ LiveInv'
        /\ r \in Rcpts /\ Domain[r] \in Keys
    BY RemoteAssumption DEF OwnInv, TypeInv, HistTypes
  <1>1. CASE r \in added[d]
    <2>1. PICK c : c = conns[d][Domain[r]]
      OBVIOUS
    <2>2. pc[d] \notin {"new", "close"} /\ c # NoConn /\ Sent[r] \in conn[c].rcpts
      BY <1>1, <2>1 DEF ToldInv
    <2>3. conns'[d][Domain[r]] # NoConn
      BY <1>0, <2>1, <2>2, ConnsGoneInClose
    <2>4. conns'[d][Domain[r]] = c
      <3> SUFFICES ASSUME conns'[d][Domain[r]] # c PROVE FALSE
        OBVIOUS
      <3>1. pc[d] = "mail" /\ Domain[r] = Dom(d)
        BY <1>0, <2>1, <2>3, ConnsFromMail
      <3>2. conns[d][Dom(d)] = NoConn
        BY <1>0, <3>1 DEF PlaceInv, PlaceOf, InAddRcpt
      <3> QED
        BY <2>1, <2>2, <3>1, <3>2
    <2>5. c \in live \cap live'
      BY <1>0, <2>1, <2>2, <2>3, <2>4 DEF LiveInv
    <2>6. conn[c].rcpts \subseteq conn'[c].rcpts
      BY <2>5, ConnsKept DEF Same
    <2> QED
      BY <2>2, <2>3, <2>4, <2>6
  <1>2. CASE r \notin added[d]
    <2>1. /\ pc[d] = "rcpt" /\ r = cur[d] /\ UNCHANGED conns
          /\ conn' = [conn EXCEPT ![conns[d][Dom(d)]].rcpts =
                                     @ \cup {Sent[cur[d]]}]
      BY <1>0, <1>2, AddedByRcpt
    <2>2. PICK c \in Conns : c = conns[d][Domain[r]] /\ c # NoConn
      BY <1>0, <2>1 DEF PlaceInv, PlaceOf, Dom, TypeInv, MsgTypes
    <2>3. conn'[c] = [conn[c] EXCEPT !.rcpts = @ \cup {Sent[r]}]
      BY <1>0, <2>1, <2>2 DEF Dom, TypeInv, ConnTypes
    <2>4. conn[c] \in ConnRecords
      BY <1>0 DEF TypeInv, ConnTypes
    <2> QED
      BY <2>1, <2>2, <2>3, <2>4 DEF ConnRecords
  <1> QED
    BY <1>1, <1>2

\* While the goroutines of BodyNonAtomic run, each recipient has been told or
\* is one of a goroutine that has not.
LEMMA BodyTells ==
    ASSUME OwnInv, ToldInv, [Next]_vars, NEW d \in Deliveries,
           pc'[d] = "body", NEW r \in added'[d]
    PROVE  Domain[r] \in sending'[d] \/ Sent[r] \in told'[d]
  <1>0. /\ TypeInv /\ PlaceInv /\ r \in added[d]
        /\ r \in Rcpts /\ Domain[r] \in Keys
    BY RemoteAssumption, AddedByRcpt DEF OwnInv, TypeInv, HistTypes
  <1>1. ASSUME pc[d] = "body", sending'[d] = sending[d], told'[d] = told[d]
        PROVE  Domain[r] \in sending'[d] \/ Sent[r] \in told'[d]
    BY <1>0, <1>1 DEF ToldInv
  <1>2. CASE UNCHANGED vars \/ OfPool
    BY <1>1, <1>2 DEF vars, OfPool, histVars
  <1>3. ASSUME NEW e \in Deliveries, e # d, Call(e) \/ Work(e)
        PROVE  Domain[r] \in sending'[d] \/ Sent[r] \in told'[d]
    BY <1>0, <1>1, <1>3, OthersKept DEF Kept
  <1>4. CASE Body(d)
    <2>1. sending' = [sending EXCEPT ![d] = {k \in Keys : conns[d][k] # NoConn}]
      BY <1>0, <1>4 DEF Body, Goto, TypeInv, CallTypes
    <2>2. conns[d][Domain[r]] # NoConn
      BY <1>0, <1>4 DEF Body, ToldInv
    <2> QED
      BY <1>0, <2>1, <2>2 DEF TypeInv, MsgTypes
  <1>5. ASSUME NEW k \in Keys, Send(d, k)
        PROVE  Domain[r] \in sending'[d] \/ Sent[r] \in told'[d]
    <2>1. /\ pc[d] = "body"
          /\ sending' = [sending EXCEPT ![d] = @ \ {k}]
          /\ told' = [told EXCEPT ![d] = @ \cup conn[conns[d][k]].rcpts]
      BY <1>5 DEF Send, OpenFails, SendData, SetStatus
    <2>2. /\ sending'[d] = sending[d] \ {k}
          /\ told'[d] = told[d] \cup conn[conns[d][k]].rcpts
      BY <1>0, <2>1 DEF TypeInv, MsgTypes, HistTypes
    <2>3. Sent[r] \in conn[conns[d][Domain[r]]].rcpts
      BY <1>0, <2>1 DEF ToldInv
    <2>4. Domain[r] \in sending[d] \/ Sent[r] \in told[d]
      BY <1>0, <2>1 DEF ToldInv
    <2> QED
      BY <2>2, <2>3, <2>4
  <1>6. CASE (Call(d) \/ Work(d)) /\ ~Body(d) /\ ~(\E k \in Keys : Send(d, k))
    BY <1>0, <1>6 DEF Call, Work, Start, AddRcpt, Close, PoolGet,
       PoolDrain, PoolPop, LookupMX, AttemptMX, CheckLevels, TakeDest,
       TakeDestTimeout, Mail, Rcpt, CloseConn, BodyDone, Closed, Back, Goto,
       TypeInv, CallTypes
  <1> QED
    BY <1>2, <1>3, <1>4, <1>5, <1>6 DEF Next

\* Every recipient that AddRcpt accepted has a status when BodyNonAtomic
\* returns, if the servers know them by the names the caller used: the
\* address of RCPT is another one for a recipient that is not ASCII and a
\* server without SMTPUTF8 (StatusCollector, Rcpts of smtpconn).
THEOREM EachIsToldHolds ==
    ASSUME \A r \in Rcpts : Sent[r] = r
    PROVE  Spec => []EachIsTold
  <1>1. Init => ToldInv
    BY DEF Init, ToldInv
  <1>2. OwnInv /\ ToldInv /\ [Next]_vars => ToldInv'
    <2> SUFFICES ASSUME OwnInv, ToldInv, [Next]_vars, NEW d \in Deliveries
                 PROVE  (/\ pc[d] \notin {"new", "close"} => \A r \in added[d] :
                              /\ conns[d][Domain[r]] # NoConn
                              /\ Sent[r] \in conn[conns[d][Domain[r]]].rcpts
                         /\ pc[d] = "body" => \A r \in added[d] :
                              Domain[r] \in sending[d] \/ Sent[r] \in told[d]
                         /\ pc[d] = "sent" => added[d] \subseteq told[d]
                         /\ pc[d] \in {"new", "close"} => added[d] = {})'
      BY DEF ToldInv
    <2>0. OwnInv' /\ TypeInv
      BY OwnKept DEF OwnInv
    <2>1. ASSUME pc'[d] = "sent" PROVE added'[d] \subseteq told'[d]
      <3>1. ASSUME pc[d] = "sent", added'[d] = added[d], told'[d] = told[d]
            PROVE  added'[d] \subseteq told'[d]
        BY <3>1 DEF ToldInv
      <3>2. CASE UNCHANGED vars \/ OfPool
        BY <2>1, <3>1, <3>2 DEF vars, OfPool, histVars
      <3>3. ASSUME NEW e \in Deliveries, e # d, Call(e) \/ Work(e)
            PROVE  added'[d] \subseteq told'[d]
        BY <2>0, <2>1, <3>1, <3>3, OthersKept DEF Kept
      <3>4. CASE Body(d)
        <4>1. UNCHANGED added /\ told' = [told EXCEPT ![d] = @ \cup added[d]]
          BY <2>0, <2>1, <3>4 DEF Body, SetStatus, Goto, TypeInv, CallTypes
        <4> QED
          BY <2>0, <4>1 DEF TypeInv, HistTypes
      <3>5. CASE BodyDone(d)
        <4>1. /\ pc[d] = "body" /\ sending[d] = {} /\ UNCHANGED <<added, told>>
          BY <3>5 DEF BodyDone, histVars
        <4>2. \A r \in added[d] : r \in Rcpts /\ Sent[r] \in told[d]
          BY <2>0, <4>1 DEF ToldInv, TypeInv, HistTypes
        <4> QED
          BY <4>1, <4>2
      <3>6. CASE (Call(d) \/ Work(d)) /\ ~Body(d) /\ ~BodyDone(d)
        BY <2>0, <2>1, <3>6 DEF Call, Work, Start, AddRcpt, Close, PoolGet,
           PoolDrain, PoolPop, LookupMX, AttemptMX, CheckLevels, TakeDest,
           TakeDestTimeout, Mail, Rcpt, Send, CloseConn, Closed, Back, Goto,
           TypeInv, CallTypes
      <3> QED
        BY <3>2, <3>3, <3>4, <3>5, <3>6 DEF Next
    <2>2. ASSUME pc'[d] \in {"new", "close"} PROVE added'[d] = {}
      <3>1. ASSUME pc[d] \in {"new", "close"} PROVE added'[d] = {}
        <4>1. ASSUME NEW r \in added'[d] PROVE FALSE
          BY <2>0, <3>1, AddedByRcpt DEF ToldInv
        <4> QED
          BY <4>1
      <3>2. CASE UNCHANGED vars \/ OfPool
        BY <2>2, <3>1, <3>2 DEF vars, OfPool
      <3>3. ASSUME NEW e \in Deliveries, e # d, Call(e) \/ Work(e)
            PROVE  added'[d] = {}
        BY <2>0, <2>2, <3>1, <3>3, OthersKept DEF Kept
      <3>4. CASE Close(d)
        BY <2>0, <3>4 DEF Close, TypeInv, HistTypes
      <3>5. CASE (Call(d) \/ Work(d)) /\ ~Close(d)
        <4>1. pc[d] \in {"new", "close"}
          BY <2>0, <2>2, <3>5 DEF Call, Work, Start, AddRcpt, Body, PoolGet,
             PoolDrain, PoolPop, LookupMX, AttemptMX, CheckLevels, TakeDest,
             TakeDestTimeout, Mail, Rcpt, Send, CloseConn, BodyDone, Closed,
             Back, Goto, TypeInv, CallTypes
        <4> QED
          BY <3>1, <4>1
      <3> QED
        BY <3>2, <3>3, <3>4, <3>5 DEF Next
    <2> QED
      BY <2>0, <2>1, <2>2, RecipientsKnown, BodyTells
  <1>3. ToldInv => EachIsTold
    BY DEF ToldInv, EachIsTold
  <1> QED
    BY <1>1, <1>2, <1>3, OwnAlways, PTL DEF Spec

-----------------------------------------------------------------------------
(***************************************************************************)
(* The limits of destinations                                              *)
(***************************************************************************)

\* Deliveries that hold the limit of a domain: for a connection, or on their
\* way to MAIL.
Using(k) == {d \in Deliveries : conns[d][k] # NoConn}
Mailing(k) == {d \in Deliveries : pc[d] = "mail" /\ Dom(d) = k}

LEMMA HoldersFinite ==
    ASSUME NEW k
    PROVE  /\ IsFiniteSet(Using(k)) /\ IsFiniteSet(Mailing(k))
           /\ Cardinality(Using(k)) \in Nat /\ Cardinality(Mailing(k)) \in Nat
  <1>1. Using(k) \subseteq Deliveries /\ Mailing(k) \subseteq Deliveries
    BY DEF Using, Mailing
  <1>2. IsFiniteSet(Deliveries)
    BY RemoteAssumption
  <1>3. IsFiniteSet(Using(k)) /\ IsFiniteSet(Mailing(k))
    BY <1>1, <1>2, FS_Subset
  <1> QED
    BY <1>3, FS_CardinalityType

\* The balance of a domain.
Balance(k) ==
    dest[k] = destLost[k] + Cardinality(Using(k)) + Cardinality(Mailing(k))

LEMMA BalanceIs == DestBalanced <=> \A k \in Keys : Balance(k)
  BY DEF DestBalanced, Balance, Using, Mailing

\* A step that takes no limit, gives none back and sends no MAIL changes
\* nothing in the balance.
LEMMA BalanceKept ==
    ASSUME TypeInv, NEW k \in Keys, Balance(k), UNCHANGED <<dest, destLost>>,
           Using(k)' = Using(k), Mailing(k)' = Mailing(k)
    PROVE  Balance(k)'
  BY DEF Balance

\* Deliveries other than d are where they were.
LEMMA MailingKept ==
    ASSUME TypeInv, TypeInv', NEW d \in Deliveries, NEW k \in Keys,
           \A e \in Deliveries \ {d} : Kept(e)
    PROVE  /\ Mailing(k)' = (Mailing(k) \ {d}) \cup
                            (IF pc'[d] = "mail" /\ Domain[cur'[d]] = k
                             THEN {d} ELSE {})
           /\ Using(k)' = (Using(k) \ {d}) \cup
                          (IF conns'[d][k] # NoConn THEN {d} ELSE {})
  <1>1. \A e \in Deliveries \ {d} : /\ pc'[e] = pc[e] /\ cur'[e] = cur[e]
                                    /\ conns'[e] = conns[e]
    BY DEF Kept
  <1>2. Mailing(k)' = {e \in Deliveries : pc'[e] = "mail" /\ Domain[cur'[e]] = k}
    BY DEF Mailing, Dom
  <1>3. Mailing(k) = {e \in Deliveries : pc[e] = "mail" /\ Domain[cur[e]] = k}
    BY DEF Mailing, Dom
  <1>4. Using(k)' = {e \in Deliveries : conns'[e][k] # NoConn}
    BY DEF Using
  <1>5. Using(k) = {e \in Deliveries : conns[e][k] # NoConn}
    BY DEF Using
  <1> QED
    BY <1>1, <1>2, <1>3, <1>4, <1>5

\* The limits of destinations are balanced from one step to the next.
LEMMA BalancesKept ==
    ASSUME OwnInv, DestBalanced, [Next]_vars
    PROVE  DestBalanced'
  <1>0. TypeInv /\ PlaceInv /\ TypeInv'
    BY OwnKept DEF OwnInv
  <1>00. /\ dest \in [Keys -> Int] /\ destLost \in [Keys -> Nat]
         /\ conns \in [Deliveries -> [Keys -> Conns \cup {NoConn}]]
         /\ pc \in [Deliveries -> Between \cup InAddRcpt \cup {"body", "close"}]
         /\ hand \in [Deliveries -> Conns \cup {NoConn}]
    BY <1>0 DEF TypeInv, DestTypes, MsgTypes, CallTypes
  <1> SUFFICES ASSUME NEW k \in Keys PROVE Balance(k)'
    BY DEF DestBalanced, Balance, Using, Mailing
  <1>1. Balance(k)
    BY BalanceIs
  <1>2. /\ IsFiniteSet(Using(k)) /\ IsFiniteSet(Mailing(k))
        /\ Cardinality(Using(k)) \in Nat /\ Cardinality(Mailing(k)) \in Nat
    BY HoldersFinite
  <1>3. CASE UNCHANGED vars \/ OfPool
    <2>1. UNCHANGED <<dest, destLost, conns, pc, cur>>
      BY <1>3 DEF vars, OfPool, callVars, histVars
    <2>2. Using(k)' = Using(k) /\ Mailing(k)' = Mailing(k)
      BY <2>1 DEF Using, Mailing, Dom
    <2> QED
      BY <1>0, <1>1, <2>1, <2>2, BalanceKept
  <1>4. ASSUME NEW d \in Deliveries, Call(d) \/ Work(d)
        PROVE  Balance(k)'
    <2>0. \A e \in Deliveries \ {d} : Kept(e)
      BY <1>0, <1>4, OthersKept
    <2>1. /\ Mailing(k)' = (Mailing(k) \ {d}) \cup
                           (IF pc'[d] = "mail" /\ Domain[cur'[d]] = k
                            THEN {d} ELSE {})
          /\ Using(k)' = (Using(k) \ {d}) \cup
                         (IF conns'[d][k] # NoConn THEN {d} ELSE {})
      BY <1>0, <2>0, MailingKept
    <2>2. /\ d \in Mailing(k) <=> pc[d] = "mail" /\ Dom(d) = k
          /\ d \in Using(k) <=> conns[d][k] # NoConn
      BY DEF Mailing, Using
    <2>3. ASSUME UNCHANGED <<dest, destLost, conns>>, pc[d] # "mail",
                 pc'[d] # "mail"
          PROVE  Balance(k)'
      <3>1. Using(k)' = Using(k) /\ Mailing(k)' = Mailing(k)
        BY <2>1, <2>2, <2>3
      <3> QED
        BY <1>0, <1>1, <2>3, <3>1, BalanceKept
    <2>4. CASE Call(d)
      BY <1>00, <2>3, <2>4 DEF Call, Start, AddRcpt, Body, Close, Goto, histVars
    <2>5. CASE PoolGet(d) \/ PoolDrain(d) \/ PoolPop(d) \/ LookupMX(d)
      BY <1>00, <2>3, <2>5 DEF PoolGet, PoolDrain, PoolPop, LookupMX, Back, Goto,
         histVars
    <2>6. CASE \/ AttemptMX(d) \/ CheckLevels(d) \/ TakeDestTimeout(d) \/ Rcpt(d)
               \/ BodyDone(d) \/ Closed(d)
      BY <1>00, <2>3, <2>6 DEF AttemptMX, CheckLevels, TakeDestTimeout, Rcpt,
         BodyDone, Closed, Back, Goto, histVars
    <2>7. ASSUME NEW l \in Keys, Send(d, l) PROVE Balance(k)'
      BY <2>3, <2>7 DEF Send
    <2>8. CASE TakeDest(d)
      <3>1. /\ pc[d] = "limit" /\ pc'[d] = "mail" /\ cur'[d] = cur[d]
            /\ UNCHANGED <<conns, destLost>> /\ Dom(d) \in Keys
            /\ dest' = [dest EXCEPT ![Dom(d)] = @ + 1]
        BY <1>0, <1>00, <2>8, DomIs
        DEF TakeDest, Goto, callVars, histVars, InAddRcpt
      <3>2. Using(k)' = Using(k)
        BY <2>1, <2>2, <3>1
      <3>3. CASE k = Dom(d)
        <4>1. Mailing(k)' = Mailing(k) \cup {d} /\ d \notin Mailing(k)
          BY <2>1, <2>2, <3>1, <3>3 DEF Dom
        <4>2. Cardinality(Mailing(k)') = Cardinality(Mailing(k)) + 1
          BY <1>2, <4>1, FS_AddElement
        <4>3. dest'[k] = dest[k] + 1 /\ destLost'[k] = destLost[k]
          BY <1>00, <3>1, <3>3
        <4>4. Cardinality(Using(k)') = Cardinality(Using(k))
          BY <3>2
        <4> QED
          BY <1>00, <1>1, <1>2, <4>2, <4>3, <4>4 DEF Balance
      <3>4. CASE k # Dom(d)
        <4>1. Mailing(k)' = Mailing(k)
          BY <2>1, <2>2, <3>1, <3>4 DEF Dom
        <4>2. dest'[k] = dest[k] /\ destLost'[k] = destLost[k]
          BY <1>00, <3>1, <3>4
        <4> QED
          BY <1>1, <3>2, <4>1, <4>2 DEF Balance
      <3> QED
        BY <3>3, <3>4
    <2>9. CASE Mail(d)
      <3>1. /\ pc[d] = "mail" /\ pc'[d] # "mail" /\ UNCHANGED dest
            /\ Dom(d) \in Keys
            /\ conns[d][Dom(d)] = NoConn /\ hand[d] # NoConn
        BY <1>0, <1>00, <2>9, DomIs
        DEF Mail, Back, Goto, InAddRcpt, WithHand, PlaceInv, PlaceOf
      <3>2. Mailing(k)' = Mailing(k) \ {d}
        BY <2>1, <3>1
      <3>3. CASE k # Dom(d)
        <4>1. Mailing(k)' = Mailing(k)
          BY <2>2, <3>1, <3>2, <3>3
        <4>2. conns'[d][k] = conns[d][k] /\ destLost'[k] = destLost[k]
          BY <1>00, <2>9, <3>3 DEF Mail
        <4>3. Using(k)' = Using(k)
          BY <2>1, <2>2, <4>2
        <4> QED
          BY <1>1, <3>1, <4>1, <4>2, <4>3 DEF Balance
      <3>4. CASE k = Dom(d)
        <4>1. Cardinality(Mailing(k)') = Cardinality(Mailing(k)) - 1
          <5>1. d \in Mailing(k)
            BY <2>2, <3>1, <3>4
          <5> QED
            BY <1>2, <3>2, <5>1, FS_RemoveElement
        <4>2. \/ conns'[d][k] # NoConn /\ destLost'[k] = destLost[k]
              \/ conns'[d][k] = NoConn /\ destLost'[k] = destLost[k] + 1
          BY <1>00, <2>9, <3>1, <3>4 DEF Mail
        <4>3. CASE conns'[d][k] # NoConn /\ destLost'[k] = destLost[k]
          <5>1. Using(k)' = Using(k) \cup {d} /\ d \notin Using(k)
            BY <2>1, <2>2, <3>1, <3>4, <4>3
          <5>2. Cardinality(Using(k)') = Cardinality(Using(k)) + 1
            BY <1>2, <5>1, FS_AddElement
          <5>3. dest'[k] = dest[k]
            BY <3>1
          <5> QED
            BY <1>00, <1>1, <1>2, <4>1, <4>3, <5>2, <5>3 DEF Balance
        <4>4. CASE conns'[d][k] = NoConn /\ destLost'[k] = destLost[k] + 1
          <5>1. Using(k)' = Using(k)
            BY <2>1, <2>2, <3>1, <3>4, <4>4
          <5>2. Cardinality(Using(k)') = Cardinality(Using(k)) /\ dest'[k] = dest[k]
            BY <3>1, <5>1
          <5> QED
            BY <1>00, <1>1, <1>2, <4>1, <4>4, <5>2 DEF Balance
        <4> QED
          BY <4>2, <4>3, <4>4
      <3> QED
        BY <3>3, <3>4
    <2>10. ASSUME NEW l \in Keys, CloseConn(d, l) PROVE Balance(k)'
      <3>1. /\ pc[d] = "close" /\ UNCHANGED <<pc, cur, destLost>>
            /\ conns[d][l] # NoConn
            /\ conns' = [conns EXCEPT ![d][l] = NoConn]
            /\ dest' = [dest EXCEPT ![l] = @ - 1]
        BY <2>10 DEF CloseConn, ReleaseDest, callVars
      <3>2. Mailing(k)' = Mailing(k)
        BY <2>1, <2>2, <3>1
      <3>3. CASE k # l
        <4>1. /\ conns'[d][k] = conns[d][k]
              /\ dest'[k] = dest[k] /\ destLost'[k] = destLost[k]
          BY <1>00, <3>1, <3>3
        <4>2. Using(k)' = Using(k)
          BY <2>1, <2>2, <4>1
        <4> QED
          BY <1>1, <3>2, <4>1, <4>2 DEF Balance
      <3>4. CASE k = l
        <4>1. Using(k)' = Using(k) \ {d} /\ d \in Using(k)
          BY <1>00, <2>1, <2>2, <3>1, <3>4
        <4>2. Cardinality(Using(k)') = Cardinality(Using(k)) - 1
          BY <1>2, <4>1, FS_RemoveElement
        <4>3. dest'[k] = dest[k] - 1 /\ destLost'[k] = destLost[k]
          BY <1>00, <3>1, <3>4
        <4>4. Cardinality(Mailing(k)') = Cardinality(Mailing(k))
          BY <3>2
        <4> QED
          BY <1>00, <1>1, <1>2, <4>2, <4>3, <4>4 DEF Balance
      <3> QED
        BY <3>3, <3>4
    <2> QED
      BY <1>4, <2>4, <2>5, <2>6, <2>7, <2>8, <2>9, <2>10 DEF Work
  <1> QED
    BY <1>3, <1>4 DEF Next

\* The limit of a destination is held once for each connection in use and for
\* each MAIL that failed, which connectionForDomain does not release
\* (TakeDest, ReleaseDest).
THEOREM DestBalancedHolds == Spec => []DestBalanced
  <1>1. Init => DestBalanced
    <2> SUFFICES ASSUME Init, NEW k \in Keys PROVE Balance(k)
      BY BalanceIs
    <2>1. Using(k) = {} /\ Mailing(k) = {}
      BY DEF Init, Using, Mailing
    <2>2. Cardinality({}) = 0
      BY FS_EmptySet
    <2> QED
      BY <2>1, <2>2 DEF Init, Balance
  <1> QED
    BY <1>1, BalancesKept, OwnAlways, PTL DEF Spec

\* The state of the target and of the pool has its type; in particular the
\* count of a limit stays between zero and the limit.
THEOREM TypeCorrect == Spec => []TypeOK
  <1>1. OwnInv /\ DestBalanced => TypeOK
    <2> SUFFICES ASSUME OwnInv, DestBalanced PROVE TypeOK
      OBVIOUS
    <2>1. \A k \in Keys : dest[k] >= 0
      BY BalanceIs, HoldersFinite DEF Balance, OwnInv, TypeInv, DestTypes
    <2>2. dest \in [Keys -> 0 .. DestLimit]
      BY <2>1, RemoteAssumption DEF OwnInv, TypeInv, DestTypes
    <2> QED
      BY <2>2 DEF TypeOK, OwnInv, TypeInv, CallTypes, MsgTypes, HistTypes
  <1> QED
    BY <1>1, OwnAlways, DestBalancedHolds, PTL
=============================================================================
