--------------------------- MODULE StorageProofs ----------------------------
(***************************************************************************)
(* Proofs about Storage and the UpdatePipe it reports its changes through, *)
(* for any accounts, mailboxes, deliveries, commands and channels:         *)
(*                                                                         *)
(*   UpdatesConserved   an update of the maddy command is applied once, is *)
(*                      on its way, or was lost to a fault;                *)
(*   OneCopyEach        a delivery gives each account that it accepted one *)
(*                      copy, all of them in one step, and none before;    *)
(*   QuotaOnlyRaced     a delivery exceeds a quota only if the account or  *)
(*                      the quota has changed since Body looked.           *)
(***************************************************************************)
EXTENDS Storage, FiniteSetTheorems, TLAPS

(***************************************************************************)
(* The invariants                                                          *)
(***************************************************************************)

\* The channels and the hands are those of the two processes.
PipeShape ==
    /\ outbound = [p \in Procs |-> outbound[p]]
    /\ pushing = [p \in Procs |-> pushing[p]]
    /\ wire = [p \in Procs |-> wire[p]]

\* What the command sends are keys, on the whole way.
CliPipe ==
    /\ outbound["cli"] \in Seq(Keys)
    /\ pushing["cli"] \in Keys \union {NoUpdate}
    /\ wire["cli"] \in Seq(Keys)
    /\ inbound \in Seq(Keys)

Ledger == owed \in [Keys -> Nat] /\ lost \in [Keys -> Nat]

\* A command that runs is about mailboxes of an account.
CliInv ==
    /\ cli \in [pc : {"idle", "open", "ready", "closing"}, cmd : CliCmds,
                a : Accounts \union {NoAccount}, b : Boxes, to : Boxes]
    /\ cli.pc # "idle" => cli.a \in Accounts

WayInv == PipeShape /\ CliPipe /\ Ledger /\ UpdatesConserved
PipeInv == WayInv /\ CliInv

\* A delivery has an account once or not at all.
DlvOk(r) ==
    r \in [pc : {r.pc}, users : [Accounts -> {0, 1}], todo : {r.todo},
           seen : {r.seen}]

\* Before its delivery has committed, nobody has a copy of a message.
NoCopy ==
    \A d \in Deliveries : dlv[d].pc # "committed" =>
        \A a \in Accounts, b \in Boxes : copies[a][b][d] = 0

CopyTypes ==
    /\ copies \in [Accounts -> [Boxes -> [Msgs -> Nat]]]
    /\ dlv = [d \in Deliveries |-> dlv[d]]
    /\ \A d \in Deliveries : DlvOk(dlv[d])

CopyInv == CopyTypes /\ CliInv /\ NoCopy

-----------------------------------------------------------------------------
(***************************************************************************)
(* Counting in sequences                                                   *)
(***************************************************************************)

\* Where a key stands in a sequence.
Places(s, k) == {i \in DOMAIN s : s[i] = k}

\* Count is a natural number, for any sequence: the set of places is finite.
LEMMA CountNat ==
    ASSUME NEW S, NEW s \in Seq(S), NEW k
    PROVE  IsFiniteSet(Places(s, k)) /\ Count(s, k) \in Nat
<1>1. DOMAIN s = 1 .. Len(s) /\ Len(s) \in Nat
  OBVIOUS
<1>2. IsFiniteSet(1 .. Len(s))
  BY <1>1, FS_Interval
<1>3. Places(s, k) \subseteq 1 .. Len(s)
  BY <1>1 DEF Places
<1>4. IsFiniteSet(Places(s, k))
  BY <1>2, <1>3, FS_Subset
<1> QED
  BY <1>4, FS_CardinalityType DEF Places, Count

\* The empty sequence has no key.
LEMMA CountEmpty == ASSUME NEW k PROVE Count(<<>>, k) = 0
<1>1. {i \in DOMAIN <<>> : <<>>[i] = k} = {}
  OBVIOUS
<1> QED
  BY <1>1, FS_EmptySet DEF Count

\* One update counts for its own key.
LEMMA CountOne ==
    ASSUME NEW e, NEW k
    PROVE  Count(<<e>>, k) = IF e = k THEN 1 ELSE 0
<1>1. DOMAIN <<e>> = {1} /\ <<e>>[1] = e
  OBVIOUS
<1>2. CASE e = k
  <2>1. {i \in DOMAIN <<e>> : <<e>>[i] = k} = {1}
    BY <1>1, <1>2
  <2> QED
    BY <2>1, <1>2, FS_Singleton DEF Count
<1>3. CASE e # k
  <2>1. {i \in DOMAIN <<e>> : <<e>>[i] = k} = {}
    BY <1>1, <1>3
  <2> QED
    BY <2>1, <1>3, FS_EmptySet DEF Count
<1> QED
  BY <1>2, <1>3

\* Two sequences together have what each of them has: the places of the
\* second are moved by the length of the first.
LEMMA CountConcat ==
    ASSUME NEW S, NEW s \in Seq(S), NEW t \in Seq(S), NEW k
    PROVE  Count(s \o t, k) = Count(s, k) + Count(t, k)
<1> DEFINE n == Len(s)
           Moved == {i + n : i \in Places(t, k)}
           f == [i \in Places(t, k) |-> i + n]
<1>1. /\ DOMAIN s = 1 .. n /\ n \in Nat
      /\ DOMAIN t = 1 .. Len(t) /\ Len(t) \in Nat
      /\ DOMAIN (s \o t) = 1 .. (n + Len(t))
      /\ \A i \in 1 .. (n + Len(t)) :
            (s \o t)[i] = IF i <= n THEN s[i] ELSE t[i - n]
  OBVIOUS
<1>2. /\ IsFiniteSet(Places(s, k)) /\ IsFiniteSet(Places(t, k))
      /\ Count(s, k) \in Nat /\ Count(t, k) \in Nat
  BY CountNat
<1>3. Places(t, k) \subseteq Nat /\ \A i \in Places(t, k) : i >= 1 /\ i <= Len(t)
  BY <1>1 DEF Places
<1>4. f \in Bijection(Places(t, k), Moved)
  <2>1. f \in [Places(t, k) -> Moved]
    OBVIOUS
  <2>2. \A i, j \in Places(t, k) : f[i] = f[j] => i = j
    BY <1>1, <1>3
  <2>3. \A x \in Moved : \E i \in Places(t, k) : f[i] = x
    OBVIOUS
  <2> QED
    BY <2>1, <2>2, <2>3
       DEF Bijection, Injection, Surjection, IsInjective
<1>5. IsFiniteSet(Moved) /\ Cardinality(Moved) = Cardinality(Places(t, k))
  BY <1>2, <1>4, FS_Bijection DEF ExistsBijection
<1>6. Places(s, k) \intersect Moved = {}
  BY <1>1, <1>3 DEF Places
<1>7. Places(s \o t, k) = Places(s, k) \union Moved
  <2>1. ASSUME NEW i \in Places(s \o t, k) PROVE i \in Places(s, k) \union Moved
    <3>1. i \in 1 .. (n + Len(t)) /\ (s \o t)[i] = k
      BY <1>1 DEF Places
    <3>2. CASE i <= n
      BY <1>1, <3>1, <3>2 DEF Places
    <3>3. CASE ~(i <= n)
      <4>1. i - n \in 1 .. Len(t) /\ t[i - n] = k /\ i = (i - n) + n
        BY <1>1, <3>1, <3>3
      <4>2. i - n \in Places(t, k)
        BY <1>1, <4>1 DEF Places
      <4> QED
        BY <4>1, <4>2
    <3> QED
      BY <3>2, <3>3
  <2>2. ASSUME NEW i \in Places(s, k) PROVE i \in Places(s \o t, k)
    BY <1>1 DEF Places
  <2>3. ASSUME NEW x \in Moved PROVE x \in Places(s \o t, k)
    <3>1. PICK i \in Places(t, k) : x = i + n
      OBVIOUS
    <3>2. i \in 1 .. Len(t) /\ t[i] = k
      BY <1>1 DEF Places
    <3>3. x \in 1 .. (n + Len(t)) /\ ~(x <= n) /\ x - n = i
      BY <1>1, <3>1, <3>2
    <3> QED
      BY <1>1, <3>2, <3>3 DEF Places
  <2> QED
    BY <2>1, <2>2, <2>3
<1>8. Cardinality(Places(s, k) \union Moved)
        = Cardinality(Places(s, k)) + Cardinality(Moved)
  <2>1. Cardinality(Places(s, k) \union Moved)
          = Cardinality(Places(s, k)) + Cardinality(Moved)
              - Cardinality(Places(s, k) \intersect Moved)
    BY <1>2, <1>5, FS_Union
  <2>2. Cardinality(Places(s, k) \intersect Moved) = 0
    BY <1>6, FS_EmptySet
  <2>3. Cardinality(Places(s, k)) \in Nat /\ Cardinality(Moved) \in Nat
    BY <1>2, <1>5, FS_CardinalityType
  <2> HIDE DEF Moved
  <2> QED
    BY <2>1, <2>2, <2>3
<1> QED
  BY <1>5, <1>7, <1>8 DEF Places, Count

\* An element at the end counts for its own key.
LEMMA CountAppend ==
    ASSUME NEW S, NEW s \in Seq(S), NEW e \in S, NEW k
    PROVE  Count(Append(s, e), k) = Count(s, k) + IF e = k THEN 1 ELSE 0
<1>1. Append(s, e) = s \o <<e>> /\ <<e>> \in Seq(S)
  OBVIOUS
<1> QED
  <2>1. Count(s \o <<e>>, k) = Count(s, k) + Count(<<e>>, k)
    BY <1>1, CountConcat
  <2> QED
    BY <1>1, <2>1, CountOne

\* Without its first element a sequence has one of that key less.
LEMMA CountTail ==
    ASSUME NEW S, NEW s \in Seq(S), s # <<>>, NEW k
    PROVE  /\ Head(s) \in S /\ Tail(s) \in Seq(S)
           /\ Count(s, k) = Count(Tail(s), k) + IF Head(s) = k THEN 1 ELSE 0
<1>1. /\ Head(s) \in S /\ Tail(s) \in Seq(S) /\ <<Head(s)>> \in Seq(S)
      /\ s = <<Head(s)>> \o Tail(s)
  OBVIOUS
<1>2. Count(s, k) = Count(<<Head(s)>>, k) + Count(Tail(s), k)
  BY <1>1, CountConcat
<1>3. Count(Tail(s), k) \in Nat
  BY <1>1, CountNat
<1> QED
  BY <1>1, <1>2, <1>3, CountOne

\* The command's update is a mailbox, and none is none.
LEMMA NoKey == NoUpdate \notin Keys
  BY StorageAssumption DEF NoUpdate

-----------------------------------------------------------------------------
(***************************************************************************)
(* UpdatesConserved: the operations of the pipe                            *)
(***************************************************************************)

\* The way of the command's updates, and the books about them.
way == <<outbound["cli"], pushing["cli"], wire["cli"], inbound, owed, lost>>

\* The counts that UpdatesConserved adds up are numbers.
LEMMA WayCounts ==
    ASSUME CliPipe, Ledger, NEW k \in Keys
    PROVE  /\ Count(outbound["cli"], k) \in Nat /\ Count(wire["cli"], k) \in Nat
           /\ Count(inbound, k) \in Nat /\ owed[k] \in Nat /\ lost[k] \in Nat
  BY CountNat DEF CliPipe, Ledger

\* A step that leaves the way alone keeps what is said of it.
LEMMA WayKept ==
    ASSUME WayInv, UNCHANGED way, PipeShape'
    PROVE  WayInv'
  BY DEF WayInv, way, CliPipe, Ledger, UpdatesConserved, InFlight

\* The UpdateManager's report adds as much to what is owed as to the channel.
LEMMA NotifyKeeps ==
    ASSUME WayInv, NEW p \in Procs, NEW ks, p = "cli" => ks \in Seq(Keys),
           Notify(p, ks)
    PROVE  WayInv'
<1>1. CASE mode[p] = "off"
  BY <1>1, WayKept DEF Notify, pipeVars, way, WayInv, PipeShape
<1>2. CASE mode[p] # "off"
  <2>1. PipeShape'
    BY <1>2 DEF Notify, WayInv, PipeShape
  <2>2. CASE p # "cli"
    <3>1. UNCHANGED way
      BY <1>2, <2>2 DEF Notify, way, WayInv, PipeShape, Procs
    <3> QED
      BY <2>1, <3>1, WayKept
  <2>3. CASE p = "cli"
    <3>1. /\ outbound'["cli"] = outbound["cli"] \o ks
          /\ owed' = [k \in Keys |-> owed[k] + Count(ks, k)]
          /\ UNCHANGED <<pushing, wire, inbound, lost>>
      BY <1>2, <2>3 DEF Notify, WayInv, PipeShape, Procs
    <3>2. ks \in Seq(Keys)
      BY <2>3
    <3>3. \A k \in Keys : Count(ks, k) \in Nat
      BY <3>2, CountNat
    <3>4. CliPipe'
      BY <3>1, <3>2 DEF WayInv, CliPipe
    <3>5. Ledger'
      BY <3>1, <3>3 DEF WayInv, Ledger
    <3>6. ASSUME NEW k \in Keys PROVE owed'[k] = InFlight(k)' + lost'[k]
      <4>1. Count(outbound'["cli"], k) = Count(outbound["cli"], k) + Count(ks, k)
        BY <3>1, <3>2, CountConcat DEF WayInv, CliPipe
      <4>2. owed'[k] = owed[k] + Count(ks, k) /\ Count(ks, k) \in Nat
        BY <3>1, <3>3
      <4>3. owed[k] = InFlight(k) + lost[k]
        BY DEF WayInv, UpdatesConserved
      <4>4. /\ Count(outbound["cli"], k) \in Nat /\ Count(wire["cli"], k) \in Nat
            /\ Count(inbound, k) \in Nat /\ owed[k] \in Nat /\ lost[k] \in Nat
        BY WayCounts DEF WayInv
      <4> QED
        BY <3>1, <4>1, <4>2, <4>3, <4>4 DEF InFlight
    <3> QED
      BY <2>1, <3>4, <3>5, <3>6 DEF WayInv, UpdatesConserved
  <2> QED
    BY <2>2, <2>3
<1> QED
  BY <1>1, <1>2

\* The goroutine takes an update from the channel into its hands.
LEMMA TakeKeeps ==
    ASSUME WayInv, NEW p \in Procs, TakeOutbound(p)
    PROVE  WayInv'
<1>1. PipeShape'
  BY DEF TakeOutbound, WayInv, PipeShape
<1>2. CASE p # "cli"
  <2>1. UNCHANGED way
    BY <1>2 DEF TakeOutbound, way, WayInv, PipeShape, Procs
  <2> QED
    BY <1>1, <2>1, WayKept
<1>3. CASE p = "cli"
  <2>1. /\ pushing["cli"] = NoUpdate /\ outbound["cli"] # <<>>
        /\ pushing'["cli"] = Head(outbound["cli"])
        /\ outbound'["cli"] = Tail(outbound["cli"])
        /\ UNCHANGED <<wire, inbound, owed, lost>>
    BY <1>3 DEF TakeOutbound, WayInv, PipeShape, Procs
  <2>2. outbound["cli"] \in Seq(Keys)
    BY DEF WayInv, CliPipe
  <2>3. Head(outbound["cli"]) \in Keys /\ Tail(outbound["cli"]) \in Seq(Keys)
    BY <2>1, <2>2
  <2>4. CliPipe' /\ Ledger'
    BY <2>1, <2>3 DEF WayInv, CliPipe, Ledger
  <2>5. ASSUME NEW k \in Keys PROVE owed'[k] = InFlight(k)' + lost'[k]
    <3>1. Count(outbound["cli"], k)
            = Count(outbound'["cli"], k)
                + IF pushing'["cli"] = k THEN 1 ELSE 0
      BY <2>1, <2>2, CountTail
    <3>2. Count(outbound'["cli"], k) \in Nat
      BY <2>1, <2>3, CountNat
    <3>3. pushing["cli"] # k
      BY <2>1, NoKey
    <3>4. owed[k] = InFlight(k) + lost[k]
      BY DEF WayInv, UpdatesConserved
    <3>5. /\ Count(wire["cli"], k) \in Nat
          /\ Count(inbound, k) \in Nat /\ owed[k] \in Nat /\ lost[k] \in Nat
      BY WayCounts DEF WayInv
    <3> QED
      BY <2>1, <3>1, <3>2, <3>3, <3>4, <3>5 DEF InFlight
  <2> QED
    BY <1>1, <2>4, <2>5 DEF WayInv, UpdatesConserved
<1> QED
  BY <1>2, <1>3

\* Push puts it on the wire, or it is lost.
LEMMA PushKeeps ==
    ASSUME WayInv, NEW p \in Procs, Push(p)
    PROVE  WayInv'
<1>1. PipeShape'
  BY DEF Push, WayInv, PipeShape
<1>2. CASE p # "cli"
  <2>1. UNCHANGED way
    BY <1>2 DEF Push, way, WayInv, PipeShape, Procs
  <2> QED
    BY <1>1, <2>1, WayKept
<1>3. CASE p = "cli"
  <2> DEFINE u == pushing["cli"]
             written == Connected(p) /\ Heard(u)
  <2>1. u \in Keys
    BY <1>3 DEF Push, WayInv, CliPipe
  <2>2. /\ pushing'["cli"] = NoUpdate
        /\ UNCHANGED <<outbound, inbound, owed>>
        /\ wire'["cli"] = IF written THEN Append(wire["cli"], u)
                          ELSE wire["cli"]
        /\ lost' = IF written THEN lost ELSE [lost EXCEPT ![u] = @ + 1]
    BY <1>3 DEF Push, WayInv, PipeShape, Procs
  <2> HIDE DEF written
  <2>3. CliPipe' /\ Ledger'
    BY <2>1, <2>2 DEF WayInv, CliPipe, Ledger
  <2>4. ASSUME NEW k \in Keys PROVE owed'[k] = InFlight(k)' + lost'[k]
    <3>1. Count(wire'["cli"], k) =
            Count(wire["cli"], k) + IF written /\ u = k THEN 1 ELSE 0
      <4>1. Count(Append(wire["cli"], u), k)
              = Count(wire["cli"], k) + IF u = k THEN 1 ELSE 0
        BY <2>1, CountAppend DEF WayInv, CliPipe
      <4>2. Count(wire["cli"], k) \in Nat
        BY WayCounts DEF WayInv
      <4> QED
        BY <2>2, <4>1, <4>2
    <3>2. lost'[k] = lost[k] + IF ~written /\ u = k THEN 1 ELSE 0
      BY <2>1, <2>2 DEF WayInv, Ledger
    <3>3. pushing'["cli"] # k
      BY <2>2, NoKey
    <3>4. owed[k] = InFlight(k) + lost[k]
      BY DEF WayInv, UpdatesConserved
    <3>5. /\ Count(outbound["cli"], k) \in Nat /\ Count(wire["cli"], k) \in Nat
          /\ Count(inbound, k) \in Nat /\ owed[k] \in Nat /\ lost[k] \in Nat
      BY WayCounts DEF WayInv
    <3> QED
      BY <2>2, <3>1, <3>2, <3>3, <3>4, <3>5 DEF InFlight
  <2> QED
    BY <1>1, <2>3, <2>4 DEF WayInv, UpdatesConserved
<1> QED
  BY <1>2, <1>3

\* The server's reader skips its own updates and passes on the command's.
LEMMA ReadKeeps ==
    ASSUME WayInv, NEW p \in Procs, Read(p)
    PROVE  WayInv'
<1>1. PipeShape'
  BY DEF Read, WayInv, PipeShape
<1>2. CASE p # "cli"
  <2>1. UNCHANGED way
    BY <1>2 DEF Read, way, WayInv, PipeShape, Procs
  <2> QED
    BY <1>1, <2>1, WayKept
<1>3. CASE p = "cli"
  <2>1. /\ wire["cli"] # <<>> /\ wire'["cli"] = Tail(wire["cli"])
        /\ inbound' = Append(inbound, Head(wire["cli"]))
        /\ UNCHANGED <<outbound, pushing, owed, lost>>
    BY <1>3 DEF Read, WayInv, PipeShape, Procs
  <2>2. wire["cli"] \in Seq(Keys) /\ inbound \in Seq(Keys)
    BY DEF WayInv, CliPipe
  <2>3. Head(wire["cli"]) \in Keys /\ Tail(wire["cli"]) \in Seq(Keys)
    BY <2>1, <2>2
  <2>4. CliPipe' /\ Ledger'
    BY <2>1, <2>2, <2>3 DEF WayInv, CliPipe, Ledger
  <2>5. ASSUME NEW k \in Keys PROVE owed'[k] = InFlight(k)' + lost'[k]
    <3>1. Count(wire["cli"], k)
            = Count(wire'["cli"], k)
                + IF Head(wire["cli"]) = k THEN 1 ELSE 0
      BY <2>1, <2>2, CountTail
    <3>2. Count(inbound', k)
            = Count(inbound, k) + IF Head(wire["cli"]) = k THEN 1 ELSE 0
      BY <2>1, <2>2, <2>3, CountAppend
    <3>3. Count(wire'["cli"], k) \in Nat
      BY <2>1, <2>3, CountNat
    <3>4. owed[k] = InFlight(k) + lost[k]
      BY DEF WayInv, UpdatesConserved
    <3>5. /\ Count(outbound["cli"], k) \in Nat /\ Count(wire["cli"], k) \in Nat
          /\ Count(inbound, k) \in Nat /\ owed[k] \in Nat /\ lost[k] \in Nat
      BY WayCounts DEF WayInv
    <3> QED
      BY <2>1, <3>1, <3>2, <3>3, <3>4, <3>5 DEF InFlight
  <2> QED
    BY <1>1, <2>4, <2>5 DEF WayInv, UpdatesConserved
<1> QED
  BY <1>2, <1>3

\* What is applied was owed: it was counted when the command reported it.
LEMMA ApplyKeeps ==
    ASSUME WayInv, Apply
    PROVE  WayInv'
<1> DEFINE h == Head(inbound)
<1>1. PipeShape'
  BY DEF Apply, WayInv, PipeShape
<1>2. inbound \in Seq(Keys) /\ inbound # <<>>
  BY DEF Apply, WayInv, CliPipe
<1>3. h \in Keys /\ Tail(inbound) \in Seq(Keys)
  BY <1>2
<1>4. /\ inbound' = Tail(inbound)
      /\ owed' = [owed EXCEPT ![h] = IF @ = 0 THEN 0 ELSE @ - 1]
      /\ UNCHANGED <<outbound, pushing, wire, lost>>
  BY DEF Apply
<1> HIDE DEF h
<1>5. CliPipe'
  BY <1>3, <1>4 DEF WayInv, CliPipe
<1>6. Ledger'
  BY <1>3, <1>4 DEF WayInv, Ledger
<1>7. ASSUME NEW k \in Keys PROVE owed'[k] = InFlight(k)' + lost'[k]
  <2>1. Count(inbound, k) = Count(inbound', k) + IF h = k THEN 1 ELSE 0
    BY <1>2, <1>4, CountTail DEF h
  <2>2. Count(inbound', k) \in Nat
    BY <1>3, <1>4, CountNat
  <2>3. owed[k] = InFlight(k) + lost[k]
    BY DEF WayInv, UpdatesConserved
  <2>4. /\ Count(outbound["cli"], k) \in Nat /\ Count(wire["cli"], k) \in Nat
        /\ owed[k] \in Nat /\ lost[k] \in Nat
    BY WayCounts DEF WayInv
  <2>5. CASE h = k
    <3>1. owed[k] # 0
      BY <2>1, <2>2, <2>3, <2>4, <2>5 DEF InFlight
    <3>2. owed'[k] = owed[k] - 1
      BY <1>4, <2>5, <3>1 DEF WayInv, Ledger
    <3> QED
      BY <1>4, <2>1, <2>2, <2>3, <2>4, <2>5, <3>2 DEF InFlight
  <2>6. CASE h # k
    <3>1. owed'[k] = owed[k]
      BY <1>3, <1>4, <2>6 DEF WayInv, Ledger
    <3> QED
      BY <1>4, <2>1, <2>2, <2>3, <2>4, <2>6, <3>1 DEF InFlight
  <2> QED
    BY <2>5, <2>6
<1> QED
  BY <1>1, <1>5, <1>6, <1>7 DEF WayInv, UpdatesConserved

\* A lost connection moves what was on the wire to what is lost.
LEMMA ReconnectKeeps ==
    ASSUME WayInv, Reconnect
    PROVE  WayInv'
<1>1. PipeShape'
  BY DEF Reconnect, WayInv, PipeShape
<1>2. /\ wire'["cli"] = <<>>
      /\ lost' = [k \in Keys |-> lost[k] + Count(wire["cli"], k)]
      /\ UNCHANGED <<outbound, pushing, inbound, owed>>
  BY DEF Reconnect, Procs
<1>3. CliPipe'
  BY <1>2 DEF WayInv, CliPipe
<1>4. \A k \in Keys : Count(wire["cli"], k) \in Nat
  BY WayCounts DEF WayInv
<1>5. Ledger'
  BY <1>2, <1>4 DEF WayInv, Ledger
<1>6. ASSUME NEW k \in Keys PROVE owed'[k] = InFlight(k)' + lost'[k]
  <2>1. Count(wire'["cli"], k) = 0
    BY <1>2, CountEmpty
  <2>2. lost'[k] = lost[k] + Count(wire["cli"], k)
    BY <1>2
  <2>3. owed[k] = InFlight(k) + lost[k]
    BY DEF WayInv, UpdatesConserved
  <2>4. /\ Count(outbound["cli"], k) \in Nat /\ Count(wire["cli"], k) \in Nat
        /\ Count(inbound, k) \in Nat /\ owed[k] \in Nat /\ lost[k] \in Nat
    BY WayCounts DEF WayInv
  <2> QED
    BY <1>2, <2>1, <2>2, <2>3, <2>4 DEF InFlight
<1> QED
  BY <1>1, <1>3, <1>5, <1>6 DEF WayInv, UpdatesConserved

\* The command closes a pipe that is flushed, so nothing goes with it.
LEMMA PushEndsKeeps ==
    ASSUME WayInv, Flushed("cli"), PushEnds
    PROVE  WayInv'
<1>1. PipeShape'
  BY DEF PushEnds, WayInv, PipeShape
<1>2. UNCHANGED way
  BY DEF PushEnds, Flushed, way, WayInv, PipeShape, Procs
<1> QED
  BY <1>1, <1>2, WayKept

\* A server that ends owes what the command has not sent yet.
LEMMA ServerEndsKeeps ==
    ASSUME WayInv, NEW orderly \in BOOLEAN, ServerEnds(orderly)
    PROVE  WayInv'
<1>1. PipeShape'
  BY DEF ServerEnds, WayInv, PipeShape
<1>2. /\ outbound'["cli"] = outbound["cli"] /\ pushing'["cli"] = pushing["cli"]
      /\ wire'["cli"] = <<>> /\ inbound' = <<>>
      /\ owed' = [k \in Keys |-> Count(outbound["cli"], k)
                     + (IF pushing["cli"] = k THEN 1 ELSE 0)]
      /\ lost' = [k \in Keys |-> 0]
  BY DEF ServerEnds, WayInv, PipeShape, Procs, AllKeys
<1>3. CliPipe'
  BY <1>2 DEF WayInv, CliPipe
<1>4. \A k \in Keys : Count(outbound["cli"], k) \in Nat
  BY WayCounts DEF WayInv
<1>5. Ledger'
  BY <1>2, <1>4 DEF WayInv, Ledger
<1>6. ASSUME NEW k \in Keys PROVE owed'[k] = InFlight(k)' + lost'[k]
  <2>1. Count(wire'["cli"], k) = 0 /\ Count(inbound', k) = 0
    BY <1>2, CountEmpty
  <2> QED
    BY <1>2, <1>4, <2>1 DEF InFlight
<1> QED
  BY <1>1, <1>3, <1>5, <1>6 DEF WayInv, UpdatesConserved

-----------------------------------------------------------------------------
(***************************************************************************)
(* UpdatesConserved: the system's steps                                    *)
(***************************************************************************)

\* Only the command changes the record of the command.
LEMMA CliKept == ASSUME CliInv, UNCHANGED cli PROVE CliInv'
  BY DEF CliInv

\* A command that goes on keeps its arguments.
LEMMA CliGoesOn ==
    ASSUME CliInv, NEW pc \in {"open", "ready", "closing"}, cli.pc # "idle",
           cli' = [cli EXCEPT !.pc = pc]
    PROVE  CliInv'
  BY DEF CliInv

\* Both keys that a running command may report are keys.
LEMMA CliKeys ==
    ASSUME CliInv, cli.pc # "idle"
    PROVE  CliSource \in Keys /\ CliTarget \in Keys
  BY StorageAssumption DEF CliInv, CliSource, CliTarget

\* A command that does its work reports keys.
LEMMA CliChangesKeeps ==
    ASSUME PipeInv, NEW newBoxes, NEW newCopies, NEW ks \in Seq(Keys),
           cli.pc = "ready", CliChanges(newBoxes, newCopies, ks)
    PROVE  PipeInv'
<1>1. cli' = [cli EXCEPT !.pc = "closing"] /\ Notify("cli", ks)
  BY DEF CliChanges
<1>2. "cli" \in Procs
  BY DEF Procs
<1>3. WayInv'
  BY <1>1, <1>2, NotifyKeeps DEF PipeInv
<1>4. CliInv'
  BY <1>1, CliGoesOn DEF PipeInv
<1> QED
  BY <1>3, <1>4 DEF PipeInv

\* The pipe alone is left as it was.
LEMMA PipeKept == ASSUME WayInv, UNCHANGED pipeVars PROVE WayInv'
  BY WayKept DEF pipeVars, way, WayInv, PipeShape

\* Every step of a delivery keeps the invariant: Commit's report is not the
\* command's.
LEMMA DeliveryPipe ==
    ASSUME PipeInv, NEW d \in Deliveries, DeliveryNext(d)
    PROVE  PipeInv'
<1>1. CASE Commit(d)
  <2>1. PICK folder \in Folders(d) :
            Notify("server", SetToSeq({<<a, folder[a]>> : a \in Added(d)}))
    BY <1>1 DEF Commit
  <2>2. "server" \in Procs /\ "server" # "cli"
    BY DEF Procs
  <2>3. WayInv'
    BY <2>1, <2>2, NotifyKeeps DEF PipeInv
  <2>4. CliInv'
    BY <1>1, CliKept DEF Commit, PipeInv
  <2> QED
    BY <2>3, <2>4 DEF PipeInv
<1>2. CASE ~Commit(d)
  <2>1. UNCHANGED <<cli, pipeVars>>
    BY <1>2 DEF DeliveryNext, Start, Body, BodyStore, Abort, AddRcpt,
                BodyCheckQuota, OnlyDelivery
  <2> QED
    BY <2>1, PipeKept, CliKept DEF PipeInv
<1> QED
  BY <1>1, <1>2

\* The server's subscriptions are no part of the way.
LEMMA SubscriptionKeeps ==
    ASSUME WayInv, NEW k, Subscribe(k) \/ Unsubscribe(k)
    PROVE  WayInv'
<1>1. PipeShape' /\ UNCHANGED way
  BY DEF Subscribe, Unsubscribe, way, WayInv, PipeShape
<1> QED
  BY <1>1, WayKept

\* Every step of an IMAP session keeps the invariant.
LEMMA ImapPipe == ASSUME PipeInv, ImapNext PROVE PipeInv'
<1>1. CASE \E a \in Accounts : Login(a)
  BY <1>1, PipeKept, CliKept DEF Login, PipeInv
<1>2. CASE \E b \in Boxes : Select(b)
  BY <1>2, SubscriptionKeeps, CliKept DEF Select, PipeInv
<1>3. CASE \E m \in Msgs : ClientChange(m)
  <2>1. Notify("server", <<<<session.a, session.b>>>>) /\ UNCHANGED cli
    BY <1>3 DEF ClientChange
  <2>2. "server" \in Procs /\ "server" # "cli"
    BY DEF Procs
  <2> QED
    BY <2>1, <2>2, NotifyKeeps, CliKept DEF PipeInv
<1>4. CASE Logout
  <2>1. \/ Unsubscribe(<<session.a, session.b>>)
        \/ UNCHANGED pipeVars
    BY <1>4 DEF Logout
  <2> QED
    BY <1>4, <2>1, SubscriptionKeeps, PipeKept, CliKept DEF Logout, PipeInv
<1> QED
  BY <1>1, <1>2, <1>3, <1>4 DEF ImapNext

\* Every step of the command keeps the invariant.
LEMMA CliStepPipe == ASSUME PipeInv, CliNext PROVE PipeInv'
<1>1. ASSUME NEW cmd \in CliCmds, NEW a \in Managed, NEW b \in Boxes,
             NEW to \in Boxes, CliOpen(cmd, a, b, to)
      PROVE  PipeInv'
  <2>1. CliInv'
    BY <1>1, StorageAssumption DEF CliOpen, CliInv
  <2>2. PipeShape' /\ UNCHANGED way
    BY <1>1 DEF CliOpen, EnablePush, way, PipeInv, WayInv, PipeShape
  <2> QED
    BY <2>1, <2>2, WayKept DEF PipeInv
<1>2. CASE CliLookup \/ CliGivesUp \/ ImapAcctCreate \/ ImapAcctRemove
  <2>1. /\ UNCHANGED pipeVars /\ cli.pc # "idle"
        /\ \E pc \in {"open", "ready", "closing"} : cli' = [cli EXCEPT !.pc = pc]
    BY <1>2 DEF CliLookup, CliGivesUp, ImapAcctCreate, ImapAcctRemove
  <2> QED
    BY <2>1, PipeKept, CliGoesOn DEF PipeInv
<1>3. CASE CliClose
  <2>1. WayInv'
    BY <1>3, PushEndsKeeps DEF CliClose, PipeInv
  <2>2. CliInv'
    BY <1>3, StorageAssumption
       DEF CliClose, NoCommand, CliInv, CliCmds, MboxesCmds
  <2> QED
    BY <2>1, <2>2 DEF PipeInv
<1>4. ASSUME cli.pc = "ready"
      PROVE  /\ <<>> \in Seq(Keys) /\ <<CliSource>> \in Seq(Keys)
             /\ <<CliTarget>> \in Seq(Keys)
             /\ <<CliTarget, CliSource>> \in Seq(Keys)
  BY <1>4, CliKeys DEF PipeInv
<1>5. CASE MboxesList
  BY <1>4, <1>5, CliChangesKeeps DEF MboxesList, CliDoes
<1>6. CASE MboxesCreate
  BY <1>4, <1>6, CliChangesKeeps DEF MboxesCreate, CliDoes
<1>7. CASE MboxesRemove
  BY <1>4, <1>7, CliChangesKeeps DEF MboxesRemove, CliDoes
<1>8. CASE MboxesRename
  BY <1>4, <1>8, CliChangesKeeps DEF MboxesRename, CliDoes
<1>9. CASE MsgsList
  BY <1>4, <1>9, CliChangesKeeps DEF MsgsList, CliDoes
<1>10. CASE MsgsAdd
  BY <1>4, <1>10, CliChangesKeeps DEF MsgsAdd, CliDoes
<1>11. CASE MsgsFlags
  BY <1>4, <1>11, CliChangesKeeps DEF MsgsFlags, CliDoes
<1>12. CASE \E m \in Msgs : MsgsRemove(m)
  BY <1>4, <1>12, CliChangesKeeps DEF MsgsRemove, CliDoes
<1>13. CASE \E m \in Msgs : MsgsCopy(m)
  BY <1>4, <1>13, CliChangesKeeps DEF MsgsCopy, CliDoes
<1>14. CASE \E m \in Msgs : MsgsMove(m)
  BY <1>4, <1>14, CliChangesKeeps DEF MsgsMove, CliDoes
<1> QED
  BY <1>1, <1>2, <1>3, <1>5, <1>6, <1>7, <1>8, <1>9, <1>10, <1>11, <1>12,
     <1>13, <1>14 DEF CliNext

\* The REST API does not report what it changes.
LEMMA ApiPipe == ASSUME PipeInv, ApiNext PROVE PipeInv'
<1>1. UNCHANGED <<cli, pipeVars>>
  BY DEF ApiNext, ApiCall, ApiAddKey, ApiCreateAccount, ApiCreateMailboxes,
         ApiDelete, ApiSetUserQuota, Credential, ApiGoes
<1> QED
  BY <1>1, PipeKept, CliKept DEF PipeInv

\* Every step keeps the invariant.
LEMMA PipeInvNext == PipeInv /\ [Next]_vars => PipeInv'
<1> SUFFICES ASSUME PipeInv, [Next]_vars PROVE PipeInv'
  OBVIOUS
<1>1. CASE \E d \in Deliveries : DeliveryNext(d)
  BY <1>1, DeliveryPipe
<1>2. CASE ImapNext
  BY <1>2, ImapPipe
<1>3. CASE CliNext
  BY <1>3, CliStepPipe
<1>4. CASE ApiNext
  BY <1>4, ApiPipe
<1>5. CASE ServerStart
  <2>1. PipeShape' /\ UNCHANGED way /\ UNCHANGED cli
    BY <1>5 DEF ServerStart, EnableReplicate, way, PipeInv, WayInv, PipeShape
  <2> QED
    BY <2>1, WayKept, CliKept DEF PipeInv
<1>6. CASE \E orderly \in BOOLEAN : ServerStop(orderly)
  BY <1>6, ServerEndsKeeps, CliKept DEF ServerStop, PipeInv
<1>7. CASE \E p \in Procs : PipeGoes(p)
  BY <1>7, TakeKeeps, PushKeeps, ReadKeeps, CliKept
     DEF PipeGoes, PipeStep, procVars, PipeInv
<1>8. CASE PipeApplies
  BY <1>8, ApplyKeeps, CliKept DEF PipeApplies, procVars, PipeInv
<1>9. CASE PipeReconnects
  BY <1>9, ReconnectKeeps, CliKept DEF PipeReconnects, procVars, PipeInv
<1>10. CASE UNCHANGED vars
  BY <1>10, PipeKept, CliKept DEF vars, procVars, PipeInv
<1> QED
  BY <1>1, <1>2, <1>3, <1>4, <1>5, <1>6, <1>7, <1>8, <1>9, <1>10 DEF Next

\* The invariant holds before anything was reported.
LEMMA PipeInvInit == Init => PipeInv
<1> SUFFICES ASSUME Init PROVE PipeInv
  OBVIOUS
<1>1. /\ outbound = [p \in Procs |-> <<>>] /\ wire = [p \in Procs |-> <<>>]
      /\ pushing = [p \in Procs |-> NoUpdate] /\ inbound = <<>>
      /\ owed = [k \in Keys |-> 0] /\ lost = [k \in Keys |-> 0]
  BY DEF Init, PipeInit, AllKeys
<1>2. PipeShape /\ CliPipe /\ Ledger
  BY <1>1 DEF PipeShape, CliPipe, Ledger, Procs
<1>3. CliInv
  BY StorageAssumption DEF Init, NoCommand, CliInv, CliCmds, MboxesCmds
<1>4. ASSUME NEW k \in Keys PROVE owed[k] = InFlight(k) + lost[k]
  <2>1. /\ outbound["cli"] = <<>> /\ wire["cli"] = <<>>
        /\ pushing["cli"] = NoUpdate
    BY <1>1 DEF Procs
  <2>2. pushing["cli"] # k
    BY <2>1, NoKey
  <2>3. /\ Count(outbound["cli"], k) = 0 /\ Count(wire["cli"], k) = 0
        /\ Count(inbound, k) = 0
    BY <1>1, <2>1, CountEmpty
  <2> QED
    BY <1>1, <2>2, <2>3 DEF InFlight
<1> QED
  BY <1>2, <1>3, <1>4 DEF PipeInv, WayInv, UpdatesConserved

\* What the command has reported is applied once, is on its way or was lost
\* to a fault, whatever the capacities of the channels, for any accounts and
\* mailboxes: EnableUpdatePipe's goroutines, readUpdates and Storage.Close.
THEOREM UpdatesConservedHolds == Spec => []UpdatesConserved
<1>1. Init => PipeInv
  BY PipeInvInit
<1>2. PipeInv /\ [Next]_vars => PipeInv'
  BY PipeInvNext
<1>3. PipeInv => UpdatesConserved
  BY DEF PipeInv, WayInv
<1> QED
  BY <1>1, <1>2, <1>3, PTL DEF Spec

-----------------------------------------------------------------------------
(***************************************************************************)
(* OneCopyEach                                                             *)
(***************************************************************************)

\* What every account may have: copies of each message in each mailbox.
Holdings == [Boxes -> [Msgs -> Nat]]

\* The mailboxes of an account have no message of a delivery that has not
\* committed.
Clean(h) ==
    \A d \in Deliveries : dlv[d].pc # "committed" =>
        \A b \in Boxes : h[b][d] = 0

\* The messages of deliveries are messages, and none was appended.
LEMMA MsgsAre ==
    /\ Deliveries \subseteq Msgs /\ Appended \in Msgs
    /\ \A d \in Deliveries : d # Appended
  BY StorageAssumption DEF Msgs, Appended

\* A step that leaves the deliveries alone, or ends them without a commit,
\* and gives the accounts clean holdings keeps the invariant.
LEMMA CopiesKeep ==
    ASSUME CopyInv, CliInv', UNCHANGED dlv,
           copies' \in [Accounts -> Holdings],
           \A a \in Accounts : Clean(copies'[a])
    PROVE  CopyInv'
  BY DEF CopyInv, CopyTypes, Holdings, NoCopy, Clean

\* What an account has is clean.
LEMMA AreClean ==
    ASSUME CopyInv, NEW a \in Accounts
    PROVE  copies[a] \in Holdings /\ Clean(copies[a])
  BY DEF CopyInv, CopyTypes, NoCopy, Holdings, Clean

\* An account that lost everything is clean.
LEMMA EmptyClean == Empty \in Holdings /\ Clean(Empty)
  BY MsgsAre DEF Empty, Holdings, Clean

\* One account's holdings are replaced by clean ones.
LEMMA OneAccount ==
    ASSUME CopyInv, CliInv', UNCHANGED dlv, NEW x, NEW h \in Holdings,
           Clean(h), copies' = [copies EXCEPT ![x] = h]
    PROVE  CopyInv'
<1>1. copies' \in [Accounts -> Holdings]
  BY DEF CopyInv, CopyTypes, Holdings
<1>2. ASSUME NEW a \in Accounts PROVE Clean(copies'[a])
  <2>1. copies'[a] = h \/ copies'[a] = copies[a]
    BY DEF CopyInv, CopyTypes
  <2> QED
    BY <2>1, AreClean
<1> QED
  BY <1>1, <1>2, CopiesKeep

\* Nothing that the copies are about has changed.
LEMMA CopiesSame ==
    ASSUME CopyInv, CliInv', UNCHANGED <<copies, dlv>>
    PROVE  CopyInv'
  BY DEF CopyInv, CopyTypes, NoCopy

\* A step of one delivery to a state that is not a commit.
LEMMA OneDelivery ==
    ASSUME CopyInv, NEW d \in Deliveries, NEW r, DlvOk(r),
           r.pc # "committed" => dlv[d].pc # "committed",
           dlv' = [dlv EXCEPT ![d] = r], UNCHANGED <<copies, cli>>
    PROVE  CopyInv'
<1>1. CliInv'
  BY CliKept DEF CopyInv
<1>2. CopyTypes'
  BY DEF CopyInv, CopyTypes
<1>3. NoCopy'
  BY DEF CopyInv, CopyTypes, NoCopy
<1> QED
  BY <1>1, <1>2, <1>3 DEF CopyInv

\* The record of a delivery that is over is one.
LEMMA OverOk ==
    ASSUME NEW d, NEW pc
    PROVE  DlvOk(Over(d, pc)) /\ Over(d, pc).pc = pc
  BY DEF DlvOk, Over, NewDelivery

\* All steps of a delivery but Commit: they add no account twice, and leave
\* the mailboxes alone.
LEMMA DeliverySteps ==
    ASSUME CopyInv, NEW d \in Deliveries,
           \/ Start(d) \/ Body(d) \/ BodyStore(d) \/ Abort(d)
           \/ \E r \in Rcpts : AddRcpt(d, r)
           \/ \E a \in Accounts : BodyCheckQuota(d, a)
    PROVE  /\ CopyInv'
           /\ \A e \in Deliveries : ~Commits(e)
<1>0. DlvOk(dlv[d])
  BY DEF CopyInv, CopyTypes
<1> SUFFICES ASSUME TRUE
             PROVE  \E r : /\ DlvOk(r) /\ r.pc # "committed"
                           /\ dlv[d].pc # "committed"
                           /\ dlv' = [dlv EXCEPT ![d] = r]
                           /\ UNCHANGED <<copies, cli>>
  <2>1. PICK r : /\ DlvOk(r) /\ r.pc # "committed"
                 /\ dlv[d].pc # "committed"
                 /\ dlv' = [dlv EXCEPT ![d] = r]
                 /\ UNCHANGED <<copies, cli>>
    OBVIOUS
  <2>2. CopyInv'
    BY <2>1, OneDelivery
  <2>3. ASSUME NEW e \in Deliveries PROVE ~Commits(e)
    <3>1. dlv'[e] = dlv[e] \/ dlv'[e] = r
      BY <2>1 DEF CopyInv, CopyTypes
    <3> QED
      BY <2>1, <3>1 DEF Commits
  <2> QED
    BY <2>2, <2>3
<1>1. CASE Start(d)
  <2> WITNESS [dlv[d] EXCEPT !.pc = "open"]
  <2> QED
    BY <1>0, <1>1 DEF Start, dbVars, DlvOk
<1>2. CASE Body(d)
  <2> DEFINE r == [dlv[d] EXCEPT !.pc = "body", !.todo = Added(d)]
  <2>1. OnlyDelivery(d, r) /\ dlv[d].pc = "open"
    BY <1>2 DEF Body
  <2>2. DlvOk(r) /\ r.pc = "body"
    <3>1. r \in [pc : {"body"}, users : [Accounts -> {0, 1}],
                 todo : {Added(d)}, seen : {dlv[d].seen}]
      BY <1>0 DEF DlvOk
    <3> QED
      BY <1>0, <3>1 DEF DlvOk
  <2> HIDE DEF r
  <2> WITNESS r
  <2> QED
    BY <2>1, <2>2 DEF OnlyDelivery, dbVars
<1>3. CASE BodyStore(d)
  <2>1. PICK pc \in {"stored", "failed"} :
            OnlyDelivery(d, [dlv[d] EXCEPT !.pc = pc])
    BY <1>3 DEF BodyStore
  <2>2. dlv[d].pc = "checked"
    BY <1>3 DEF BodyStore
  <2> DEFINE r == [dlv[d] EXCEPT !.pc = pc]
  <2>3. DlvOk(r) /\ r.pc = pc
    BY <1>0 DEF DlvOk
  <2>4. OnlyDelivery(d, r)
    BY <2>1
  <2> HIDE DEF r
  <2> WITNESS r
  <2> QED
    BY <2>1, <2>2, <2>3, <2>4 DEF OnlyDelivery, dbVars
<1>4. CASE Abort(d)
  <2> WITNESS Over(d, "aborted")
  <2> QED
    BY <1>4, OverOk DEF Abort, OnlyDelivery, dbVars
<1>5. CASE \E r \in Rcpts : AddRcpt(d, r)
  <2>1. PICK r \in Rcpts : AddRcpt(d, r)
    BY <1>5
  <2> DEFINE a == AccountOf[r]
  <2>2. /\ a \in Accounts /\ dlv[d].users[a] = 0 /\ dlv[d].pc = "open"
        /\ OnlyDelivery(d, [dlv[d] EXCEPT !.users[a] = @ + 1])
    BY <1>0, <2>1, StorageAssumption DEF AddRcpt, Added, DlvOk
  <2> HIDE DEF a
  <2> WITNESS [dlv[d] EXCEPT !.users[a] = @ + 1]
  <2>3. DlvOk([dlv[d] EXCEPT !.users[a] = @ + 1])
    BY <1>0, <2>2 DEF DlvOk
  <2> QED
    BY <1>0, <2>2, <2>3 DEF OnlyDelivery, dbVars, DlvOk
<1>6. CASE \E a \in Accounts : BodyCheckQuota(d, a)
  <2>1. PICK a \in Accounts : BodyCheckQuota(d, a)
    BY <1>6
  <2> DEFINE todo == dlv[d].todo \ {a}
  <2> DEFINE pass == [dlv[d] EXCEPT !.todo = todo,
                                    !.pc = IF todo = {} THEN "checked" ELSE @,
                                    !.seen[a] = <<Used(a), EffectiveQuota(a)>>]
             fail == [dlv[d] EXCEPT !.pc = "failed"]
  <2>2. dlv[d].pc = "body"
    BY <2>1 DEF BodyCheckQuota
  <2>3. OnlyDelivery(d, pass) \/ OnlyDelivery(d, fail)
    BY <2>1 DEF BodyCheckQuota
  <2>4. DlvOk(pass) /\ pass.pc \in {"checked", "body"}
    <3> DEFINE new == [dlv[d].seen EXCEPT ![a] =
                            <<Used(a), EffectiveQuota(a)>>]
    <3>1. pass \in [pc : {"checked", "body"}, users : [Accounts -> {0, 1}],
                    todo : {todo}, seen : {new}]
      BY <1>0, <2>2 DEF DlvOk
    <3> QED
      BY <3>1 DEF DlvOk
  <2>5. DlvOk(fail) /\ fail.pc = "failed"
    BY <1>0 DEF DlvOk
  <2> HIDE DEF pass, fail
  <2>6. PICK r \in {pass, fail} : OnlyDelivery(d, r)
    BY <2>3
  <2> WITNESS r
  <2> QED
    BY <2>2, <2>4, <2>5, <2>6 DEF OnlyDelivery, dbVars
<1> QED
  BY <1>1, <1>2, <1>3, <1>4, <1>5, <1>6

\* Commit gives every account that was accepted one copy, and no other
\* delivery's message to anybody.
LEMMA CommitStep ==
    ASSUME CopyInv, NEW d \in Deliveries, Commit(d)
    PROVE  /\ CopyInv'
           /\ \A e \in Deliveries : e # d => ~Commits(e)
           /\ \A a \in Accounts : IF a \in Added(d) THEN GainsOne(a, d)
                                  ELSE copies'[a] = copies[a]
<1>1. PICK folder \in Folders(d) :
          copies' = [a \in Accounts |->
                IF a \in Added(d)
                THEN [copies[a] EXCEPT ![folder[a]][d] = @ + dlv[d].users[a]]
                ELSE copies[a]]
  BY DEF Commit
<1>2. \A a \in Added(d) : folder[a] \in Boxes
  BY StorageAssumption DEF Folders
<1>3. ASSUME NEW a \in Accounts, a \in Added(d)
      PROVE  copies'[a] = [copies[a] EXCEPT ![folder[a]][d] = @ + 1]
  <2>1. dlv[d].users[a] = 1
    BY <1>3 DEF CopyInv, CopyTypes, DlvOk, Added
  <2> QED
    BY <1>1, <1>3, <2>1
<1>4. ASSUME NEW a \in Accounts, a \notin Added(d)
      PROVE  copies'[a] = copies[a]
  BY <1>1, <1>4
<1>5. dlv' = [dlv EXCEPT ![d] = Over(d, "committed")] /\ UNCHANGED cli
  BY DEF Commit
<1>6. /\ dlv' = [e \in Deliveries |-> dlv'[e]]
      /\ dlv'[d] = Over(d, "committed")
      /\ \A e \in Deliveries : e # d => dlv'[e] = dlv[e]
  BY <1>5 DEF CopyInv, CopyTypes
<1>7. \A e \in Deliveries : DlvOk(dlv'[e])
  BY <1>6, OverOk DEF CopyInv, CopyTypes
<1>8. ASSUME NEW a \in Accounts
      PROVE  /\ copies'[a] \in Holdings
             /\ \A e \in Deliveries, b \in Boxes :
                    e # d => copies'[a][b][e] = copies[a][b][e]
  <2>1. copies[a] \in Holdings
    BY AreClean
  <2>2. CASE a \in Added(d)
    <3>1. copies'[a] = [copies[a] EXCEPT ![folder[a]][d] = @ + 1]
      BY <1>3, <2>2
    <3>2. folder[a] \in Boxes /\ d \in Msgs
      BY <1>2, <2>2, MsgsAre
    <3>3. copies'[a] \in Holdings
      BY <2>1, <3>1, <3>2 DEF Holdings
    <3>4. ASSUME NEW e \in Deliveries, NEW b \in Boxes, e # d
          PROVE  copies'[a][b][e] = copies[a][b][e]
      BY <2>1, <3>1, <3>2, <3>4, MsgsAre DEF Holdings
    <3> QED
      BY <3>3, <3>4
  <2>3. CASE a \notin Added(d)
    BY <1>4, <2>1, <2>3
  <2> QED
    BY <2>2, <2>3
<1>9. CopyTypes'
  <2>1. copies' \in [Accounts -> Holdings]
    BY <1>1, <1>8
  <2> QED
    BY <1>6, <1>7, <2>1 DEF CopyTypes, Holdings
<1>10. NoCopy'
  <2>1. ASSUME NEW e \in Deliveries, dlv'[e].pc # "committed",
               NEW a \in Accounts, NEW b \in Boxes
        PROVE  copies'[a][b][e] = 0
    <3>1. e # d
      BY <1>6, <2>1, OverOk
    <3> QED
      BY <1>6, <1>8, <2>1, <3>1 DEF CopyInv, NoCopy
  <2> QED
    BY <2>1 DEF NoCopy
<1>11. CopyInv'
  BY <1>5, <1>9, <1>10, CliKept DEF CopyInv
<1>12. \A e \in Deliveries : e # d => ~Commits(e)
  BY <1>6 DEF Commits
<1>13. \A a \in Accounts : IF a \in Added(d) THEN GainsOne(a, d)
                           ELSE copies'[a] = copies[a]
  BY <1>2, <1>3, <1>4 DEF GainsOne
<1> QED
  BY <1>11, <1>12, <1>13

\* A command that changes an account leaves clean holdings clean.
LEMMA CliChangesCopies ==
    ASSUME CopyInv, NEW newBoxes, NEW newCopies \in Holdings, NEW ks,
           Clean(newCopies), cli.pc = "ready",
           CliChanges(newBoxes, newCopies, ks)
    PROVE  CopyInv' /\ UNCHANGED dlv
<1>1. /\ cli' = [cli EXCEPT !.pc = "closing"] /\ UNCHANGED dlv
      /\ copies' = [copies EXCEPT ![cli.a] = newCopies]
  BY DEF CliChanges
<1>2. CliInv'
  BY <1>1, CliGoesOn DEF CopyInv
<1> QED
  BY <1>1, <1>2, OneAccount

\* A mailbox that is emptied, or renamed, brings no message.
LEMMA PutMailbox ==
    ASSUME NEW h \in Holdings, Clean(h), NEW b, NEW row \in [Msgs -> Nat],
           \A d \in Deliveries : dlv[d].pc # "committed" => row[d] = 0
    PROVE  /\ [h EXCEPT ![b] = row] \in Holdings
           /\ Clean([h EXCEPT ![b] = row])
  BY DEF Holdings, Clean

\* A message that is copied, moved or removed is one that a delivery has
\* brought, or was appended.
LEMMA PutMessage ==
    ASSUME NEW h \in Holdings, Clean(h), NEW b \in Boxes, NEW m \in Msgs,
           NEW n \in Nat,
           m \in Deliveries /\ dlv[m].pc # "committed" => n = 0
    PROVE  /\ [h EXCEPT ![b][m] = n] \in Holdings
           /\ Clean([h EXCEPT ![b][m] = n])
<1>1. h[b] \in [Msgs -> Nat]
  BY DEF Holdings
<1> DEFINE row == [h[b] EXCEPT ![m] = n]
<1>2. row \in [Msgs -> Nat]
  BY <1>1
<1>3. \A d \in Deliveries : dlv[d].pc # "committed" => row[d] = 0
  BY <1>1, MsgsAre DEF Clean
<1>4. [h EXCEPT ![b][m] = n] = [h EXCEPT ![b] = row]
  OBVIOUS
<1> HIDE DEF row
<1> QED
  BY <1>2, <1>3, <1>4, PutMailbox

\* Every step of the command but the removal of an account leaves clean
\* holdings.
LEMMA CliStepCopies ==
    ASSUME CopyInv, CliNext
    PROVE  CopyInv' /\ UNCHANGED dlv
<1>1. ASSUME NEW cmd \in CliCmds, NEW a \in Managed, NEW b \in Boxes,
             NEW to \in Boxes, CliOpen(cmd, a, b, to)
      PROVE  CopyInv' /\ UNCHANGED dlv
  <2>1. CliInv'
    BY <1>1, StorageAssumption DEF CliOpen, CliInv
  <2>2. UNCHANGED <<copies, dlv>>
    BY <1>1 DEF CliOpen, dbVars
  <2> QED
    BY <2>1, <2>2, CopiesSame
<1>2. CASE CliLookup \/ CliGivesUp \/ ImapAcctCreate
  <2>1. /\ UNCHANGED <<copies, dlv>> /\ cli.pc # "idle"
        /\ \E pc \in {"open", "ready", "closing"} : cli' = [cli EXCEPT !.pc = pc]
    BY <1>2 DEF CliLookup, CliGivesUp, ImapAcctCreate, CreateAccount, dbVars
  <2>2. CliInv'
    BY <2>1, CliGoesOn DEF CopyInv
  <2> QED
    BY <2>1, <2>2, CopiesSame
<1>3. CASE ImapAcctRemove
  <2>1. /\ cli.pc = "ready" /\ cli' = [cli EXCEPT !.pc = "closing"]
        /\ copies' = [copies EXCEPT ![cli.a] = Empty] /\ UNCHANGED dlv
    BY <1>3 DEF ImapAcctRemove, DeleteAccount
  <2>2. CliInv'
    BY <2>1, CliGoesOn DEF CopyInv
  <2> QED
    BY <2>1, <2>2, EmptyClean, OneAccount
<1>4. CASE CliClose
  <2>1. CliInv'
    BY <1>4, StorageAssumption
       DEF CliClose, NoCommand, CliInv, CliCmds, MboxesCmds
  <2>2. UNCHANGED <<copies, dlv>>
    BY <1>4 DEF CliClose, dbVars
  <2> QED
    BY <2>1, <2>2, CopiesSame
<1>5. CASE cli.pc = "ready"
  <2> DEFINE h == copies[cli.a]
             b == cli.b
             to == cli.to
  <2>1. h \in Holdings /\ Clean(h) /\ b \in Boxes /\ to \in Boxes
    BY <1>5, AreClean DEF CopyInv, CliInv
  <2>2. h[b] \in [Msgs -> Nat] /\ h[to] \in [Msgs -> Nat]
    BY <2>1 DEF Holdings
  <2>3. \A d \in Deliveries : dlv[d].pc # "committed" => h[b][d] = 0
    BY <2>1 DEF Clean
  <2>4. None \in [Msgs -> Nat] /\ \A d \in Deliveries : None[d] = 0
    BY MsgsAre DEF None
  <2>5. CASE MboxesList \/ MboxesCreate \/ MsgsList \/ MsgsFlags
    <3>1. \E newBoxes, ks : CliChanges(newBoxes, h, ks)
      BY <2>5 DEF MboxesList, MboxesCreate, MsgsList, MsgsFlags, CliCopies
    <3> HIDE DEF h
    <3> QED
      BY <1>5, <2>1, <3>1, CliChangesCopies
  <2>6. CASE MboxesRemove
    <3> DEFINE new == [h EXCEPT ![b] = None]
    <3>1. new \in Holdings /\ Clean(new)
      <4> HIDE DEF h, b
      <4> QED
        BY <2>1, <2>4, PutMailbox
    <3>2. \E newBoxes, ks : CliChanges(newBoxes, new, ks)
      BY <2>6 DEF MboxesRemove, CliCopies
    <3> HIDE DEF new
    <3> QED
      BY <1>5, <3>1, <3>2, CliChangesCopies
  <2>7. CASE MboxesRename
    <3> DEFINE first == [h EXCEPT ![to] = h[b]]
               new == [first EXCEPT ![b] = None]
    <3>1. first \in Holdings /\ Clean(first)
      <4> HIDE DEF h, b, to
      <4> QED
        BY <2>1, <2>2, <2>3, PutMailbox
    <3>2. new \in Holdings /\ Clean(new)
      <4> HIDE DEF first, b
      <4> QED
        BY <2>4, <3>1, PutMailbox
    <3>3. new = [h EXCEPT ![to] = h[b], ![b] = None]
      OBVIOUS
    <3>4. \E newBoxes, ks : CliChanges(newBoxes, new, ks)
      BY <2>7, <3>3 DEF MboxesRename, CliCopies
    <3> HIDE DEF new
    <3> QED
      BY <1>5, <3>2, <3>4, CliChangesCopies
  <2>8. CASE MsgsAdd
    <3> DEFINE n == h[b][Appended] + 1
               new == [h EXCEPT ![b][Appended] = n]
    <3>1. n \in Nat /\ Appended \in Msgs /\ Appended \notin Deliveries
      BY <2>2, MsgsAre
    <3>2. new \in Holdings /\ Clean(new)
      <4> HIDE DEF h, b, n
      <4> QED
        BY <2>1, <3>1, PutMessage
    <3>3. \E newBoxes, ks : CliChanges(newBoxes, new, ks)
      BY <2>8 DEF MsgsAdd, CliCopies
    <3> HIDE DEF new
    <3> QED
      BY <1>5, <3>2, <3>3, CliChangesCopies
  <2>9. ASSUME NEW m \in Msgs, MsgsRemove(m) PROVE CopyInv' /\ UNCHANGED dlv
    <3> DEFINE new == [h EXCEPT ![b][m] = 0]
    <3>1. new \in Holdings /\ Clean(new)
      <4> HIDE DEF h, b
      <4> QED
        BY <2>1, PutMessage
    <3>2. \E newBoxes, ks : CliChanges(newBoxes, new, ks)
      BY <2>9 DEF MsgsRemove, CliCopies
    <3> HIDE DEF new
    <3> QED
      BY <1>5, <3>1, <3>2, CliChangesCopies
  <2>10. ASSUME NEW m \in Msgs, MsgsCopy(m) \/ MsgsMove(m)
         PROVE  CopyInv' /\ UNCHANGED dlv
    <3> DEFINE n == h[to][m] + h[b][m]
               copied == [h EXCEPT ![to][m] = n]
               moved == [copied EXCEPT ![b][m] = 0]
    <3>1. n \in Nat
      BY <2>2
    <3>2. h[b][m] > 0
      BY <2>10 DEF MsgsCopy, MsgsMove, CliCopies
    <3>3. m \in Deliveries => dlv[m].pc = "committed"
      BY <2>3, <3>2
    <3>4. copied \in Holdings /\ Clean(copied)
      <4> HIDE DEF h, b, to, n
      <4> QED
        BY <2>1, <3>1, <3>3, PutMessage
    <3>5. moved \in Holdings /\ Clean(moved)
      <4> HIDE DEF h, b, to, copied
      <4> QED
        BY <2>1, <3>4, PutMessage
    <3>6. \/ \E newBoxes, ks : CliChanges(newBoxes, copied, ks)
          \/ \E newBoxes, ks : CliChanges(newBoxes, moved, ks)
      BY <2>10 DEF MsgsCopy, MsgsMove, CliCopies
    <3> HIDE DEF copied, moved
    <3> QED
      BY <1>5, <3>4, <3>5, <3>6, CliChangesCopies
  <2> QED
    BY <1>1, <1>2, <1>3, <1>4, <2>5, <2>6, <2>7, <2>8, <2>9, <2>10
       DEF CliNext
<1>6. CASE cli.pc # "ready"
  BY <1>1, <1>2, <1>3, <1>4, <1>6
     DEF CliNext, CliDoes, MboxesList, MboxesCreate, MboxesRemove,
         MboxesRename, MsgsList, MsgsAdd, MsgsFlags, MsgsRemove, MsgsCopy,
         MsgsMove
<1> QED
  BY <1>5, <1>6

\* A client stores messages of its own and expunges what is there.
LEMMA ImapCopies ==
    ASSUME CopyInv, ImapNext
    PROVE  CopyInv' /\ UNCHANGED dlv
<1>1. UNCHANGED <<cli, dlv>>
  BY DEF ImapNext, Login, Select, ClientChange, Logout
<1>2. CliInv'
  BY <1>1, CliKept DEF CopyInv
<1>3. CASE UNCHANGED copies
  BY <1>1, <1>2, <1>3, CopiesSame
<1>4. ASSUME NEW m \in Msgs, ClientChange(m) PROVE CopyInv'
  <2> DEFINE a == session.a
             b == session.b
             h == copies[a]
             more == [h EXCEPT ![b][Appended] = @ + 1]
             gone == [h EXCEPT ![b][m] = 0]
  <2>1. \/ copies' = [copies EXCEPT ![a] = more]
        \/ copies' = [copies EXCEPT ![a] = gone]
    BY <1>4 DEF ClientChange
  <2>2. CASE a \in Accounts /\ b \in Boxes
    <3>1. h \in Holdings /\ Clean(h)
      BY <2>2, AreClean
    <3>2. h[b][Appended] + 1 \in Nat
      BY <2>2, <3>1, MsgsAre DEF Holdings
    <3>3. more \in Holdings /\ Clean(more)
      <4> HIDE DEF h, b
      <4> QED
        BY <2>2, <3>1, <3>2, MsgsAre, PutMessage
    <3>4. gone \in Holdings /\ Clean(gone)
      <4> HIDE DEF h, b
      <4> QED
        BY <2>2, <3>1, PutMessage
    <3> HIDE DEF a, h, more, gone
    <3> QED
      BY <1>1, <1>2, <2>1, <3>3, <3>4, OneAccount
  <2>3. CASE a \notin Accounts \/ b \notin Boxes
    <3>1. CASE a \notin Accounts
      <4>1. UNCHANGED copies
        BY <2>1, <3>1 DEF CopyInv, CopyTypes
      <4> QED
        BY <1>3, <4>1
    <3>2. CASE a \in Accounts /\ b \notin Boxes
      <4>1. more = h /\ gone = h
        BY <3>2 DEF CopyInv, CopyTypes
      <4>2. UNCHANGED copies
        BY <2>1, <3>2, <4>1 DEF CopyInv, CopyTypes
      <4> QED
        BY <1>3, <4>2
    <3> QED
      BY <2>3, <3>1, <3>2
  <2> QED
    BY <2>2, <2>3
<1> QED
  BY <1>1, <1>3, <1>4
     DEF ImapNext, Login, Select, Logout, dbVars

\* The REST API creates accounts without copies and deletes whole accounts.
LEMMA ApiCopies ==
    ASSUME CopyInv, ApiNext
    PROVE  CopyInv' /\ UNCHANGED dlv
<1>1. UNCHANGED <<cli, dlv>>
  BY DEF ApiNext, ApiCall, ApiAddKey, ApiCreateAccount, ApiCreateMailboxes,
         ApiDelete, ApiSetUserQuota, Credential, ApiGoes
<1>2. CliInv'
  BY <1>1, CliKept DEF CopyInv
<1>3. UNCHANGED copies \/ copies' = [copies EXCEPT ![api.a] = Empty]
  BY DEF ApiNext, ApiCall, ApiAddKey, ApiCreateAccount, ApiCreateMailboxes,
         ApiDelete, ApiSetUserQuota, Credential, CreateAccount,
         DeleteAccount, dbVars
<1> QED
  BY <1>1, <1>2, <1>3, CopiesSame, OneAccount, EmptyClean

\* A server that stops aborts its deliveries; the database stays.
LEMMA StopCopies ==
    ASSUME CopyInv, NEW orderly \in BOOLEAN, ServerStop(orderly)
    PROVE  CopyInv' /\ \A e \in Deliveries : ~Commits(e)
<1>1. /\ dlv' = [d \in Deliveries |->
                    IF dlv[d].pc \in {"idle", "committed"} THEN dlv[d]
                    ELSE Over(d, "aborted")]
      /\ UNCHANGED <<copies, cli>>
  BY DEF ServerStop, dbVars
<1>2. \A d \in Deliveries : /\ DlvOk(dlv'[d])
                            /\ dlv'[d].pc = "committed"
                                  <=> dlv[d].pc = "committed"
  BY <1>1, OverOk DEF CopyInv, CopyTypes
<1>3. CopyTypes' /\ NoCopy'
  BY <1>1, <1>2 DEF CopyInv, CopyTypes, NoCopy
<1>4. CliInv'
  BY <1>1, CliKept DEF CopyInv
<1> QED
  BY <1>2, <1>3, <1>4 DEF CopyInv, Commits

\* What OneCopyEach says of one step.
OneCopyStep ==
    \A d \in Deliveries :
       /\ Commits(d) => \A a \in Accounts :
             IF a \in Added(d) THEN GainsOne(a, d)
                              ELSE copies'[a] = copies[a]
       /\ dlv'[d].pc # "committed" => \A a \in Accounts, b \in Boxes :
             copies'[a][b][d] = 0

\* A step without a commit is allowed when the invariant holds after it.
LEMMA NoCommit ==
    ASSUME CopyInv', \A d \in Deliveries : ~Commits(d)
    PROVE  OneCopyStep
  BY DEF OneCopyStep, CopyInv, NoCopy

\* Every step keeps the invariant and is one that OneCopyEach allows.
LEMMA CopyNext == CopyInv /\ [Next]_vars => CopyInv' /\ OneCopyStep
<1> SUFFICES ASSUME CopyInv, [Next]_vars PROVE CopyInv' /\ OneCopyStep
  OBVIOUS
<1>1. CASE CopyInv' /\ UNCHANGED dlv
  BY <1>1, NoCommit DEF Commits
<1>2. ASSUME NEW d \in Deliveries, DeliveryNext(d)
      PROVE  CopyInv' /\ OneCopyStep
  <2>1. CASE Commit(d)
    <3>1. CopyInv'
      BY <2>1, CommitStep
    <3> QED
      BY <2>1, <3>1, CommitStep DEF OneCopyStep, CopyInv, NoCopy
  <2>2. CASE ~Commit(d)
    BY <1>2, <2>2, DeliverySteps, NoCommit DEF DeliveryNext
  <2> QED
    BY <2>1, <2>2
<1>3. CASE ImapNext
  BY <1>1, <1>3, ImapCopies
<1>4. CASE CliNext
  BY <1>1, <1>4, CliStepCopies
<1>5. CASE ApiNext
  BY <1>1, <1>5, ApiCopies
<1>6. CASE \E orderly \in BOOLEAN : ServerStop(orderly)
  BY <1>6, StopCopies, NoCommit
<1>7. CASE \/ ServerStart \/ (\E p \in Procs : PipeGoes(p))
           \/ PipeApplies \/ PipeReconnects \/ UNCHANGED vars
  <2>1. UNCHANGED <<copies, dlv, cli>>
    BY <1>7 DEF ServerStart, PipeGoes, PipeApplies, PipeReconnects, vars,
                dbVars, procVars
  <2>2. CopyInv'
    BY <2>1, CliKept, CopiesSame DEF CopyInv
  <2> QED
    BY <1>1, <2>1, <2>2
<1> QED
  BY <1>2, <1>3, <1>4, <1>5, <1>6, <1>7 DEF Next

\* At first nobody has anything.
LEMMA CopyInvInit == Init => CopyInv
<1> SUFFICES ASSUME Init PROVE CopyInv
  OBVIOUS
<1>1. CliInv
  BY StorageAssumption DEF Init, NoCommand, CliInv, CliCmds, MboxesCmds
<1>2. DlvOk(NewDelivery)
  BY DEF NewDelivery, DlvOk
<1>3. CopyTypes
  BY <1>2, EmptyClean DEF Init, CopyTypes, Holdings
<1>4. NoCopy
  BY MsgsAre DEF Init, NoCopy, Empty
<1> QED
  BY <1>1, <1>3, <1>4 DEF CopyInv

\* A delivery brings one copy to each account that AddRcpt accepted, all in
\* the step of Commit, and nobody has one before, whatever sessions, commands
\* and API requests do to the mailboxes meanwhile and however often the
\* server crashes: delivery.AddRcpt, Body, Commit and Abort of imapsql.
THEOREM OneCopyHolds == Spec => OneCopyEach
<1>1. Init => CopyInv
  BY CopyInvInit
<1>2. CopyInv /\ [Next]_vars => CopyInv'
  BY CopyNext
<1>3. CopyInv /\ [Next]_vars => [OneCopyStep]_vars
  BY CopyNext
<1> QED
  BY <1>1, <1>2, <1>3, PTL DEF Spec, OneCopyEach, OneCopyStep

-----------------------------------------------------------------------------
(***************************************************************************)
(* QuotaOnlyRaced                                                          *)
(***************************************************************************)

\* The rows of the two tables of quotas.
Rows == Nat \union {NoRow}

\* A request, with the quota it asks for.
ApiOk(r) ==
    /\ r = [op |-> r.op, a |-> r.a, q |-> r.q, boxes |-> r.boxes,
            found |-> r.found, pc |-> r.pc, report |-> r.report]
    /\ r.q \in Nat

QuotaTypes ==
    /\ boxes \in [Accounts -> SUBSET Boxes]
    /\ userQuota \in [Accounts -> Rows]
    /\ domainQuota \in [Domains -> Rows]
    /\ ApiOk(api)

\* An account that does not exist has no mailbox, and a mailbox that does not
\* exist has no message.
NoBoxes == \A a \in Accounts : a \notin accts => boxes[a] = {}
NoMail == \A a \in Accounts : \A b \in Boxes \ boxes[a] : copies[a][b] = None

\* When Body looked at an account it had room for the message.
HadRoom(seen) ==
    /\ seen \in [Accounts -> Nat \X Nat]
    /\ \A a \in Accounts : seen[a][2] # 0 => seen[a][1] + 1 <= seen[a][2]

\* The accounts of a transaction that is under way exist, since DeleteAccount
\* waits for it.
Kept(r) == r.pc = "stored" => \A a \in Accounts : r.users[a] > 0 => a \in accts

QuotaInv ==
    /\ QuotaTypes /\ NoBoxes /\ NoMail
    /\ \A d \in Deliveries : HadRoom(dlv[d].seen) /\ Kept(dlv[d])

\* A copy that an account has: its mailbox, its message and its number.
LEMMA HeldAre ==
    ASSUME NEW bs, NEW cs, NEW x
    PROVE  x \in Held(bs, cs) <=>
              \E b \in bs, m \in Msgs : x \in {<<b, m>>} \X (1 .. cs[b][m])
<1> DEFINE Of(b, m) == {<<b, m>>} \X (1 .. cs[b][m])
<1>1. Held(bs, cs) = UNION {Of(b, m) : b \in bs, m \in Msgs}
  BY DEF Held
<1> HIDE DEF Of
<1>2. x \in Held(bs, cs) <=> \E b \in bs, m \in Msgs : x \in Of(b, m)
  BY <1>1
<1> QED
  BY <1>2 DEF Of

\* What an account has can be counted.
LEMMA HeldFinite ==
    ASSUME NEW bs \in SUBSET Boxes, NEW cs \in Holdings
    PROVE  /\ IsFiniteSet(Held(bs, cs))
           /\ Cardinality(Held(bs, cs)) \in Nat
<1> DEFINE P == bs \X Msgs
           Of(p) == {<<p[1], p[2]>>} \X (1 .. cs[p[1]][p[2]])
           f == [p \in P |-> Of(p)]
           S == {{<<b, m>>} \X (1 .. cs[b][m]) : b \in bs, m \in Msgs}
<1>1. IsFiniteSet(P)
  <2>1. IsFiniteSet(bs)
    BY StorageAssumption, FS_Subset
  <2>2. IsFiniteSet(Msgs)
    BY StorageAssumption, FS_AddElement DEF Msgs
  <2> QED
    BY <2>1, <2>2, FS_Product
<1>2. f \in Surjection(P, S)
  <2>1. f \in [P -> S]
    OBVIOUS
  <2>2. ASSUME NEW t \in S PROVE \E p \in P : f[p] = t
    <3>1. PICK b \in bs, m \in Msgs : t = {<<b, m>>} \X (1 .. cs[b][m])
      OBVIOUS
    <3> WITNESS <<b, m>> \in P
    <3> QED
      BY <3>1
  <2> HIDE DEF f, S, P
  <2> QED
    BY <2>1, <2>2 DEF Surjection
<1>3. IsFiniteSet(S)
  <2> HIDE DEF f, S, P
  <2> QED
    BY <1>1, <1>2, FS_Surjection
<1>4. ASSUME NEW t \in S PROVE IsFiniteSet(t)
  <2>1. PICK b \in bs, m \in Msgs : t = {<<b, m>>} \X (1 .. cs[b][m])
    OBVIOUS
  <2>2. cs[b][m] \in Nat
    BY DEF Holdings
  <2>3. IsFiniteSet(1 .. cs[b][m])
    BY <2>2, FS_Interval
  <2> DEFINE pair == <<b, m>>
             one == {pair}
             all == 1 .. cs[b][m]
  <2>5. IsFiniteSet(one)
    <3> HIDE DEF pair
    <3>1. IsFiniteSet({} \union {pair})
      BY FS_EmptySet, FS_AddElement
    <3>2. {} \union {pair} = one
      OBVIOUS
    <3> QED
      BY <3>1, <3>2
  <2>6. IsFiniteSet(all)
    BY <2>3
  <2>7. t = one \X all
    BY <2>1
  <2> HIDE DEF one, all
  <2> QED
    BY <2>5, <2>6, <2>7, FS_Product
<1>5. IsFiniteSet(UNION S)
  <2> HIDE DEF S
  <2> QED
    BY <1>3, <1>4, FS_UNION
<1> QED
  BY <1>5, FS_CardinalityType DEF Held

\* One more copy in a mailbox, which may be new and is empty then.
LEMMA HeldOneMore ==
    ASSUME NEW bs \in SUBSET Boxes, NEW cs \in Holdings, NEW b \in Boxes,
           NEW m \in Msgs, b \notin bs => cs[b] = None
    PROVE  LET new == [cs EXCEPT ![b][m] = @ + 1]
           IN  Cardinality(Held(bs \union {b}, new)) =
                  Cardinality(Held(bs, cs)) + 1
<1> DEFINE new == [cs EXCEPT ![b][m] = @ + 1]
           n == cs[b][m] + 1
           x == <<<<b, m>>, n>>
           old == Held(bs, cs)
           now == Held(bs \union {b}, new)
<1>1. cs[b][m] \in Nat /\ n \in Nat
  BY DEF Holdings
<1>2. new[b][m] = n
  BY DEF Holdings
<1>3. ASSUME NEW c \in Boxes, NEW k \in Msgs, c # b \/ k # m
      PROVE  new[c][k] = cs[c][k]
  BY <1>3 DEF Holdings
<1>4. x \notin old
  <2> SUFFICES ASSUME x \in old PROVE FALSE
    OBVIOUS
  <2>1. PICK c \in bs, k \in Msgs : x \in {<<c, k>>} \X (1 .. cs[c][k])
    BY HeldAre
  <2>2. c = b /\ k = m /\ n \in 1 .. cs[b][m]
    BY <2>1
  <2> QED
    BY <1>1, <2>2
<1>5. x \in now
  <2>1. x \in {<<b, m>>} \X (1 .. new[b][m])
    BY <1>1, <1>2
  <2> HIDE DEF x, new
  <2> QED
    BY <2>1, HeldAre
<1>6. ASSUME NEW y \in old PROVE y \in now
  <2>1. PICK c \in bs, k \in Msgs : y \in {<<c, k>>} \X (1 .. cs[c][k])
    BY HeldAre
  <2>2. c \in Boxes
    OBVIOUS
  <2>3. PICK i \in 1 .. cs[c][k] : y = <<<<c, k>>, i>>
    BY <2>1
  <2>4. i \in 1 .. new[c][k]
    <3>1. CASE c = b /\ k = m
      BY <1>1, <1>2, <2>3, <3>1
    <3>2. CASE c # b \/ k # m
      BY <1>3, <2>2, <2>3, <3>2
    <3> QED
      BY <3>1, <3>2
  <2>5. y \in {<<c, k>>} \X (1 .. new[c][k])
    BY <2>3, <2>4
  <2> HIDE DEF new
  <2> QED
    BY <2>5, HeldAre
<1>7. ASSUME NEW y \in now PROVE y \in old \union {x}
  <2>1. PICK c \in bs \union {b}, k \in Msgs :
            y \in {<<c, k>>} \X (1 .. new[c][k])
    BY HeldAre
  <2>2. PICK i \in 1 .. new[c][k] : y = <<<<c, k>>, i>>
    BY <2>1
  <2>3. c \in Boxes
    OBVIOUS
  <2>4. CASE i \in 1 .. cs[c][k]
    <3>1. c \in bs
      <4> SUFFICES ASSUME c \notin bs PROVE FALSE
        OBVIOUS
      <4>1. c = b /\ cs[c] = None
        BY <2>1
      <4>2. cs[c][k] = 0
        BY <4>1 DEF None
      <4> QED
        BY <2>4, <4>2
    <3>2. y \in {<<c, k>>} \X (1 .. cs[c][k])
      BY <2>2, <2>4
    <3> QED
      BY <3>1, <3>2, HeldAre
  <2>5. CASE i \notin 1 .. cs[c][k]
    <3>1. c = b /\ k = m
      BY <1>3, <2>2, <2>3, <2>5
    <3>2. i = n
      BY <1>1, <1>2, <2>2, <2>5, <3>1
    <3> QED
      BY <2>2, <3>1, <3>2
  <2> QED
    BY <2>4, <2>5
<1>8. now = old \union {x}
  <2> HIDE DEF now, old, x
  <2> QED
    BY <1>5, <1>6, <1>7
<1>9. IsFiniteSet(old)
  BY HeldFinite
<1>10. Cardinality(old \union {x}) = Cardinality(old) + 1
  <2> HIDE DEF old, x
  <2> QED
    BY <1>4, <1>9, FS_AddElement
<1> QED
  BY <1>8, <1>10

\* What is used and what is allowed are numbers.
LEMMA QuotaNumbers ==
    ASSUME CopyInv, QuotaInv, NEW a \in Accounts
    PROVE  Used(a) \in Nat /\ EffectiveQuota(a) \in Nat
<1>1. Used(a) \in Nat
  <2>1. boxes[a] \in SUBSET Boxes /\ copies[a] \in Holdings
    BY AreClean DEF QuotaInv, QuotaTypes
  <2> QED
    BY <2>1, HeldFinite DEF Used
<1>2. userQuota[a] \in Rows /\ domainQuota[DomainOf[a]] \in Rows
  BY StorageAssumption DEF QuotaInv, QuotaTypes
<1>3. EffectiveQuota(a) \in Nat
  BY <1>2 DEF EffectiveQuota, Rows
<1> QED
  BY <1>1, <1>3

\* An account that does not exist uses nothing.
LEMMA GoneUsesNothing ==
    ASSUME QuotaInv, NEW a \in Accounts, a \notin accts
    PROVE  Used(a) = 0
<1>1. boxes[a] = {}
  BY DEF QuotaInv, NoBoxes
<1>2. Held({}, copies[a]) = {}
  BY HeldAre
<1> QED
  BY <1>1, <1>2, FS_EmptySet DEF Used

\* A step that leaves the database and the deliveries alone.
LEMMA QuotaKept ==
    ASSUME QuotaInv, UNCHANGED <<dbVars, dlv, api>>
    PROVE  QuotaInv'
<1>1. UNCHANGED <<accts, boxes, copies, userQuota, domainQuota, dlv, api>>
  BY DEF dbVars
<1>2. QuotaTypes' /\ NoBoxes' /\ NoMail'
  BY <1>1 DEF QuotaInv, QuotaTypes, NoBoxes, NoMail
<1>3. \A d \in Deliveries : (HadRoom(dlv[d].seen) /\ Kept(dlv[d]))'
  BY <1>1 DEF QuotaInv, Kept
<1> QED
  BY <1>2, <1>3 DEF QuotaInv

\* A step of one delivery that leaves the database alone.
LEMMA QuotaDelivery ==
    ASSUME CopyInv, QuotaInv, NEW d \in Deliveries, NEW r,
           HadRoom(r.seen), Kept(r), dlv' = [dlv EXCEPT ![d] = r],
           UNCHANGED <<dbVars, api>>
    PROVE  QuotaInv'
<1>1. UNCHANGED <<accts, boxes, copies, userQuota, domainQuota, api>>
  BY DEF dbVars
<1>2. QuotaTypes' /\ NoBoxes' /\ NoMail'
  BY <1>1 DEF QuotaInv, QuotaTypes, NoBoxes, NoMail
<1>3. ASSUME NEW e \in Deliveries
      PROVE  (HadRoom(dlv[e].seen) /\ Kept(dlv[e]))'
  <2>1. dlv'[e] = r \/ dlv'[e] = dlv[e]
    BY DEF CopyInv, CopyTypes
  <2>2. HadRoom(dlv'[e].seen) /\ Kept(dlv'[e])
    BY <2>1 DEF QuotaInv
  <2> QED
    BY <1>1, <2>2 DEF Kept
<1> QED
  BY <1>2, <1>3 DEF QuotaInv

\* The mailboxes of one account change; it exists afterwards, or has none and
\* is in no transaction.
LEMMA QuotaAccount ==
    ASSUME CopyInv, QuotaInv, NEW x, NEW bs, NEW h, ApiOk(api'),
           UNCHANGED <<userQuota, domainQuota, dlv>>,
           boxes' = [boxes EXCEPT ![x] = bs],
           copies' = [copies EXCEPT ![x] = h],
           \A a \in Accounts : a # x => (a \in accts' <=> a \in accts),
           x \in Accounts =>
              /\ bs \subseteq Boxes /\ \A b \in Boxes \ bs : h[b] = None
              /\ x \in accts' \/ (bs = {} /\ ~Locked(x))
    PROVE  QuotaInv'
<1>1. QuotaTypes'
  BY DEF QuotaInv, QuotaTypes
<1>2. ASSUME NEW a \in Accounts
      PROVE  /\ boxes'[a] = IF a = x THEN bs ELSE boxes[a]
             /\ copies'[a] = IF a = x THEN h ELSE copies[a]
  BY DEF QuotaInv, QuotaTypes, CopyInv, CopyTypes
<1>3. NoBoxes' /\ NoMail'
  BY <1>2 DEF QuotaInv, NoBoxes, NoMail
<1>4. ASSUME NEW e \in Deliveries
      PROVE  (HadRoom(dlv[e].seen) /\ Kept(dlv[e]))'
  <2>1. HadRoom(dlv[e].seen) /\ Kept(dlv[e]) /\ dlv'[e] = dlv[e]
    BY DEF QuotaInv
  <2>2. ASSUME dlv[e].pc = "stored", NEW a \in Accounts, dlv[e].users[a] > 0
        PROVE  a \in accts'
    <3>1. a \in accts /\ Locked(a)
      BY <2>1, <2>2 DEF Kept, Locked, Added
    <3> QED
      BY <3>1
  <2> QED
    BY <2>1, <2>2 DEF Kept
<1> QED
  BY <1>1, <1>3, <1>4 DEF QuotaInv

\* What Body writes down of an account that CheckQuota lets through.
LEMMA CheckedHadRoom ==
    ASSUME CopyInv, QuotaInv, NEW a \in Accounts, CheckQuota(a, 1),
           NEW seen, HadRoom(seen)
    PROVE  HadRoom([seen EXCEPT ![a] = <<Used(a), EffectiveQuota(a)>>])
<1>1. Used(a) \in Nat /\ EffectiveQuota(a) \in Nat
  BY QuotaNumbers
<1>2. EffectiveQuota(a) # 0 => Used(a) + 1 <= EffectiveQuota(a)
  <2>1. CASE a \in accts
    BY <2>1 DEF CheckQuota
  <2>2. CASE a \notin accts
    BY <1>1, <2>2, GoneUsesNothing
  <2> QED
    BY <2>1, <2>2
<1> DEFINE u == Used(a)
           q == EffectiveQuota(a)
<1> HIDE DEF u, q
<1>3. u \in Nat /\ q \in Nat /\ (q # 0 => u + 1 <= q)
  BY <1>1, <1>2 DEF u, q
<1>4. HadRoom([seen EXCEPT ![a] = <<u, q>>])
  BY <1>3 DEF HadRoom
<1> QED
  BY <1>4 DEF u, q

\* A delivery that is over, or has not begun, has seen nothing.
LEMMA OverHadRoom ==
    ASSUME NEW d, NEW pc, pc # "stored"
    PROVE  HadRoom(Over(d, pc).seen) /\ Kept(Over(d, pc))
  BY DEF Over, NewDelivery, HadRoom, Kept

\* All steps of a delivery but Commit keep what the quota needs.
LEMMA QuotaDeliverySteps ==
    ASSUME CopyInv, QuotaInv, NEW d \in Deliveries,
           \/ Start(d) \/ Body(d) \/ BodyStore(d) \/ Abort(d)
           \/ \E r \in Rcpts : AddRcpt(d, r)
           \/ \E a \in Accounts : BodyCheckQuota(d, a)
    PROVE  QuotaInv'
<1>0. DlvOk(dlv[d]) /\ HadRoom(dlv[d].seen)
  BY DEF CopyInv, CopyTypes, QuotaInv
<1>a. ASSUME NEW r, r.seen = dlv[d].seen, r.pc # "stored",
             dlv' = [dlv EXCEPT ![d] = r], UNCHANGED <<dbVars, api>>
      PROVE  QuotaInv'
  BY <1>0, <1>a, QuotaDelivery DEF Kept
<1>1. CASE Start(d)
  <2> DEFINE r == [dlv[d] EXCEPT !.pc = "open"]
  <2>1. r.seen = dlv[d].seen /\ r.pc # "stored"
    BY <1>0 DEF DlvOk
  <2>2. dlv' = [dlv EXCEPT ![d] = r] /\ UNCHANGED <<dbVars, api>>
    BY <1>1 DEF Start
  <2> HIDE DEF r
  <2> QED
    BY <1>a, <2>1, <2>2
<1>2. CASE Body(d)
  <2> DEFINE r == [dlv[d] EXCEPT !.pc = "body", !.todo = Added(d)]
  <2>1. r.seen = dlv[d].seen /\ r.pc # "stored"
    BY <1>0 DEF DlvOk
  <2>2. dlv' = [dlv EXCEPT ![d] = r] /\ UNCHANGED <<dbVars, api>>
    BY <1>2 DEF Body, OnlyDelivery
  <2> HIDE DEF r
  <2> QED
    BY <1>a, <2>1, <2>2
<1>3. CASE BodyStore(d)
  <2>1. PICK ok \in BOOLEAN :
            /\ ok => Added(d) \subseteq accts
            /\ OnlyDelivery(d, [dlv[d] EXCEPT !.pc =
                                    IF ok THEN "stored" ELSE "failed"])
    BY <1>3 DEF BodyStore
  <2>2. CASE ok
    <3> DEFINE r == [dlv[d] EXCEPT !.pc = "stored"]
    <3>1. r.seen = dlv[d].seen /\ r.users = dlv[d].users
      BY <1>0 DEF DlvOk
    <3>2. Kept(r)
      BY <2>1, <2>2, <3>1 DEF Kept, Added
    <3>3. dlv' = [dlv EXCEPT ![d] = r] /\ UNCHANGED <<dbVars, api>>
      BY <2>1, <2>2 DEF OnlyDelivery
    <3> HIDE DEF r
    <3> QED
      BY <1>0, <3>1, <3>2, <3>3, QuotaDelivery
  <2>3. CASE ~ok
    <3> DEFINE r == [dlv[d] EXCEPT !.pc = "failed"]
    <3>1. r.seen = dlv[d].seen /\ r.pc # "stored"
      BY <1>0 DEF DlvOk
    <3>2. dlv' = [dlv EXCEPT ![d] = r] /\ UNCHANGED <<dbVars, api>>
      BY <2>1, <2>3 DEF OnlyDelivery
    <3> HIDE DEF r
    <3> QED
      BY <1>a, <3>1, <3>2
  <2> QED
    BY <2>2, <2>3
<1>4. CASE Abort(d)
  <2> DEFINE r == Over(d, "aborted")
  <2>1. HadRoom(r.seen) /\ Kept(r)
    BY OverHadRoom
  <2>2. dlv' = [dlv EXCEPT ![d] = r] /\ UNCHANGED <<dbVars, api>>
    BY <1>4 DEF Abort, OnlyDelivery
  <2> HIDE DEF r
  <2> QED
    BY <2>1, <2>2, QuotaDelivery
<1>5. ASSUME NEW s \in Rcpts, AddRcpt(d, s) PROVE QuotaInv'
  <2> DEFINE a == AccountOf[s]
             r == [dlv[d] EXCEPT !.users[a] = @ + 1]
  <2>1. dlv[d].pc = "open" /\ OnlyDelivery(d, r)
    BY <1>5 DEF AddRcpt
  <2>2. r.seen = dlv[d].seen /\ r.pc # "stored"
    BY <1>0, <2>1 DEF DlvOk
  <2>3. dlv' = [dlv EXCEPT ![d] = r] /\ UNCHANGED <<dbVars, api>>
    BY <2>1 DEF OnlyDelivery
  <2> HIDE DEF r
  <2> QED
    BY <1>a, <2>2, <2>3
<1>6. ASSUME NEW a \in Accounts, BodyCheckQuota(d, a) PROVE QuotaInv'
  <2> DEFINE todo == dlv[d].todo \ {a}
             new == [dlv[d].seen EXCEPT ![a] = <<Used(a), EffectiveQuota(a)>>]
             pass == [dlv[d] EXCEPT !.todo = todo,
                                    !.pc = IF todo = {} THEN "checked" ELSE @,
                                    !.seen[a] = <<Used(a), EffectiveQuota(a)>>]
             fail == [dlv[d] EXCEPT !.pc = "failed"]
  <2>1. dlv[d].pc = "body"
    BY <1>6 DEF BodyCheckQuota
  <2>2. CASE CheckQuota(a, 1)
    <3>1. OnlyDelivery(d, pass)
      BY <1>6, <2>2 DEF BodyCheckQuota
    <3>2. pass \in [pc : {"checked", "body"}, users : [Accounts -> {0, 1}],
                    todo : {todo}, seen : {new}]
      BY <1>0, <2>1 DEF DlvOk
    <3>3. pass.seen = new /\ pass.pc # "stored"
      BY <3>2
    <3>4. HadRoom(new)
      BY <1>0, <2>2, CheckedHadRoom
    <3>5. dlv' = [dlv EXCEPT ![d] = pass] /\ UNCHANGED <<dbVars, api>>
      BY <3>1 DEF OnlyDelivery
    <3> HIDE DEF pass, new
    <3>6. HadRoom(pass.seen) /\ Kept(pass)
      BY <3>3, <3>4 DEF Kept
    <3> QED
      BY <3>5, <3>6, QuotaDelivery
  <2>3. CASE ~CheckQuota(a, 1)
    <3>1. OnlyDelivery(d, fail)
      BY <1>6, <2>3 DEF BodyCheckQuota
    <3>2. fail.seen = dlv[d].seen /\ fail.pc # "stored"
      BY <1>0 DEF DlvOk
    <3>3. dlv' = [dlv EXCEPT ![d] = fail] /\ UNCHANGED <<dbVars, api>>
      BY <3>1 DEF OnlyDelivery
    <3> HIDE DEF fail
    <3> QED
      BY <1>a, <3>2, <3>3
  <2> QED
    BY <2>2, <2>3
<1> QED
  BY <1>1, <1>2, <1>3, <1>4, <1>5, <1>6

\* What QuotaOnlyRaced says of one step.
QuotaStep ==
    \A d \in Deliveries : Commits(d) =>
       \A a \in Added(d) :
          EffectiveQuota(a) # 0 /\ UsedNext(a) > EffectiveQuota(a) =>
             dlv[d].seen[a] # <<Used(a), EffectiveQuota(a)>>

\* Commit makes the mailbox that it needs, in an account that exists, and adds
\* one to what the account uses: the room that Body has seen.
LEMMA QuotaCommit ==
    ASSUME CopyInv, QuotaInv, NEW d \in Deliveries, Commit(d)
    PROVE  QuotaInv' /\ QuotaStep
<1>1. PICK folder \in Folders(d) :
          /\ copies' = [a \in Accounts |->
                IF a \in Added(d)
                THEN [copies[a] EXCEPT ![folder[a]][d] = @ + dlv[d].users[a]]
                ELSE copies[a]]
          /\ boxes' = [a \in Accounts |->
                IF a \in Added(d) THEN boxes[a] \union {folder[a]}
                ELSE boxes[a]]
  BY DEF Commit
<1>2. \A a \in Added(d) : folder[a] \in Boxes
  BY StorageAssumption DEF Folders
<1>3. /\ dlv' = [dlv EXCEPT ![d] = Over(d, "committed")]
      /\ UNCHANGED <<accts, userQuota, domainQuota, api>>
      /\ dlv[d].pc = "stored"
  BY DEF Commit
<1>4. Added(d) \subseteq accts /\ Added(d) \subseteq Accounts /\ d \in Msgs
  BY <1>3, MsgsAre DEF QuotaInv, Kept, Added
<1>5. ASSUME NEW a \in Added(d)
      PROVE  /\ copies'[a] = [copies[a] EXCEPT ![folder[a]][d] = @ + 1]
             /\ boxes'[a] = boxes[a] \union {folder[a]}
             /\ copies[a] \in Holdings /\ boxes[a] \in SUBSET Boxes
  <2>1. dlv[d].users[a] = 1 /\ a \in Accounts
    BY DEF CopyInv, CopyTypes, DlvOk, Added
  <2> QED
    BY <1>1, <2>1, AreClean DEF QuotaInv, QuotaTypes
<1>6. ASSUME NEW a \in Accounts, a \notin Added(d)
      PROVE  copies'[a] = copies[a] /\ boxes'[a] = boxes[a]
  BY <1>1, <1>6
<1>7. QuotaTypes'
  <2>1. boxes' \in [Accounts -> SUBSET Boxes]
    BY <1>1, <1>2 DEF QuotaInv, QuotaTypes
  <2> QED
    BY <1>3, <2>1 DEF QuotaInv, QuotaTypes
<1>8. NoBoxes'
  BY <1>3, <1>4, <1>6 DEF QuotaInv, NoBoxes
<1>9. NoMail'
  <2> SUFFICES ASSUME NEW a \in Accounts, NEW b \in Boxes, b \notin boxes'[a]
               PROVE  copies'[a][b] = None
    BY DEF NoMail
  <2>1. CASE a \in Added(d)
    <3>1. b \notin boxes[a] /\ b # folder[a]
      BY <1>5, <2>1
    <3>2. copies'[a][b] = copies[a][b]
      <4> DEFINE h == copies[a]
                 f == folder[a]
                 new == copies'[a]
      <4>1. /\ new = [h EXCEPT ![f][d] = @ + 1] /\ h \in Holdings
            /\ f \in Boxes /\ b # f
        BY <1>2, <1>5, <2>1, <3>1
      <4> HIDE DEF h, f, new
      <4>2. new[b] = h[b]
        BY <4>1 DEF Holdings
      <4> QED
        BY <4>2 DEF h, new
    <3> QED
      BY <3>1, <3>2 DEF QuotaInv, NoMail
  <2>2. CASE a \notin Added(d)
    BY <1>6, <2>2 DEF QuotaInv, NoMail
  <2> QED
    BY <2>1, <2>2
<1>10. ASSUME NEW e \in Deliveries
       PROVE  (HadRoom(dlv[e].seen) /\ Kept(dlv[e]))'
  <2>1. dlv'[e] = Over(d, "committed") \/ dlv'[e] = dlv[e]
    BY <1>3 DEF CopyInv, CopyTypes
  <2>2. HadRoom(dlv'[e].seen) /\ Kept(dlv'[e])
    BY <2>1, OverHadRoom DEF QuotaInv
  <2> QED
    BY <1>3, <2>2 DEF Kept
<1>11. QuotaInv'
  BY <1>7, <1>8, <1>9, <1>10 DEF QuotaInv
<1>12. ASSUME NEW e \in Deliveries, Commits(e) PROVE e = d
  BY <1>12, CommitStep
<1>13. ASSUME NEW a \in Added(d), EffectiveQuota(a) # 0,
              UsedNext(a) > EffectiveQuota(a),
              dlv[d].seen[a] = <<Used(a), EffectiveQuota(a)>>
       PROVE  FALSE
  <2> DEFINE u == Used(a)
             q == EffectiveQuota(a)
             next == UsedNext(a)
  <2>1. u \in Nat /\ q \in Nat
    BY <1>4, QuotaNumbers
  <2>2. folder[a] \notin boxes[a] => copies[a][folder[a]] = None
    BY <1>2, <1>4 DEF QuotaInv, NoMail
  <2>3. next = u + 1
    <3> DEFINE bs == boxes[a]
               h == copies[a]
               f == folder[a]
    <3>1. /\ bs \in SUBSET Boxes /\ h \in Holdings /\ f \in Boxes
          /\ f \notin bs => h[f] = None
      BY <1>2, <1>5, <2>2
    <3>2. /\ u = Cardinality(Held(bs, h))
          /\ next = Cardinality(Held(bs \union {f},
                                     [h EXCEPT ![f][d] = @ + 1]))
      BY <1>5 DEF Used, UsedNext
    <3> HIDE DEF bs, h, f, u, next
    <3> QED
      BY <1>4, <3>1, <3>2, HeldOneMore
  <2>4. HadRoom(dlv[d].seen) /\ a \in Accounts
    BY <1>4 DEF QuotaInv
  <2>5. dlv[d].seen[a] = <<u, q>> /\ q # 0 /\ next > q
    BY <1>13
  <2> HIDE DEF u, q, next
  <2>6. u + 1 <= q
    BY <2>1, <2>4, <2>5 DEF HadRoom
  <2> QED
    BY <2>1, <2>3, <2>5, <2>6
<1>14. QuotaStep
  BY <1>12, <1>13 DEF QuotaStep
<1> QED
  BY <1>11, <1>14

\* Sessions create the account of who logs in, and change mailboxes that are
\* there.
LEMMA QuotaImap == ASSUME CopyInv, QuotaInv, ImapNext PROVE QuotaInv'
<1>0. UNCHANGED <<dlv, api, userQuota, domainQuota>> /\ ApiOk(api')
  BY DEF ImapNext, Login, Select, ClientChange, Logout, dbVars, QuotaInv,
         QuotaTypes
<1>1. ASSUME NEW a \in Accounts, Login(a) PROVE QuotaInv'
  <2> DEFINE bs == boxes[a] \union {Inbox}
             h == copies[a]
  <2>1. /\ boxes' = [boxes EXCEPT ![a] = bs]
        /\ accts' = accts \union {a} /\ copies' = copies
    BY <1>1 DEF Login
  <2>2. copies' = [copies EXCEPT ![a] = h]
    BY <2>1 DEF CopyInv, CopyTypes
  <2>3. bs \subseteq Boxes /\ \A b \in Boxes \ bs : h[b] = None
    BY StorageAssumption DEF QuotaInv, QuotaTypes, NoMail
  <2> HIDE DEF bs, h
  <2> QED
    BY <1>0, <2>1, <2>2, <2>3, QuotaAccount
<1>2. CASE (\E b \in Boxes : Select(b)) \/ Logout
  <2>1. UNCHANGED <<dbVars, dlv, api>>
    BY <1>2 DEF Select, Logout
  <2> QED
    BY <2>1, QuotaKept
<1>3. ASSUME NEW m \in Msgs, ClientChange(m) PROVE QuotaInv'
  <2> DEFINE a == session.a
             b == session.b
             bs == boxes[a]
             more == [copies[a] EXCEPT ![b][m] = @ + 1]
             gone == [copies[a] EXCEPT ![b][m] = 0]
  <2>1. /\ b \in bs /\ accts' = accts /\ boxes' = boxes
        /\ \/ copies' = [copies EXCEPT ![a] = more]
           \/ copies' = [copies EXCEPT ![a] = gone]
    BY <1>3 DEF ClientChange
  <2>2. boxes' = [boxes EXCEPT ![a] = bs]
    BY <2>1 DEF QuotaInv, QuotaTypes
  <2>3. ASSUME a \in Accounts
        PROVE  /\ bs \subseteq Boxes /\ a \in accts'
               /\ \A c \in Boxes \ bs : more[c] = None /\ gone[c] = None
    <3>1. bs \subseteq Boxes /\ a \in accts
      BY <2>1, <2>3 DEF QuotaInv, QuotaTypes, NoBoxes
    <3>2. copies[a] \in Holdings
      BY <2>3, AreClean
    <3>3. ASSUME NEW c \in Boxes, c \notin bs
          PROVE  more[c] = None /\ gone[c] = None
      <4>1. c # b /\ copies[a][c] = None
        BY <2>1, <2>3, <3>3 DEF QuotaInv, NoMail
      <4> QED
        BY <3>2, <4>1 DEF Holdings
    <3> QED
      BY <2>1, <3>1, <3>3
  <2> HIDE DEF a, bs, more, gone
  <2> QED
    BY <1>0, <2>1, <2>2, <2>3, QuotaAccount
<1> QED
  BY <1>1, <1>2, <1>3 DEF ImapNext

\* A command changes the mailboxes of an account that exists, and leaves
\* nothing in those that it removes.
LEMMA QuotaCliChanges ==
    ASSUME CopyInv, QuotaInv, NEW bs \in SUBSET Boxes, NEW h, NEW ks,
           cli.a \in accts, CliChanges(bs, h, ks),
           \A b \in Boxes \ bs : h[b] = None
    PROVE  QuotaInv'
<1>1. /\ boxes' = [boxes EXCEPT ![cli.a] = bs]
      /\ copies' = [copies EXCEPT ![cli.a] = h]
      /\ UNCHANGED <<accts, userQuota, domainQuota, dlv, api>>
  BY DEF CliChanges
<1>2. ApiOk(api')
  BY <1>1 DEF QuotaInv, QuotaTypes
<1> QED
  BY <1>1, <1>2, QuotaAccount

\* An account that is created has its new mailboxes, which are empty.
LEMMA QuotaCreate ==
    ASSUME CopyInv, QuotaInv, NEW x, NEW more \in SUBSET Boxes,
           CreateAccount(x, more), UNCHANGED dlv, ApiOk(api')
    PROVE  QuotaInv'
<1> DEFINE bs == {Inbox} \union more
           h == copies[x]
<1>1. /\ x \notin accts /\ accts' = accts \union {x}
      /\ boxes' = [boxes EXCEPT ![x] = bs]
      /\ UNCHANGED <<copies, userQuota, domainQuota>>
  BY DEF CreateAccount
<1>2. copies' = [copies EXCEPT ![x] = h]
  BY <1>1 DEF CopyInv, CopyTypes
<1>3. bs \subseteq Boxes
  BY StorageAssumption
<1>4. x \in Accounts => \A b \in Boxes \ bs : h[b] = None
  BY <1>1 DEF QuotaInv, NoBoxes, NoMail
<1> HIDE DEF bs, h
<1> QED
  BY <1>1, <1>2, <1>3, <1>4, QuotaAccount

\* An account that is deleted is in no transaction, and nothing of it stays.
LEMMA QuotaDelete ==
    ASSUME CopyInv, QuotaInv, NEW x, DeleteAccount(x), UNCHANGED dlv,
           ApiOk(api')
    PROVE  QuotaInv'
<1>1. /\ accts' = accts \ {x} /\ ~Locked(x)
      /\ boxes' = [boxes EXCEPT ![x] = {}]
      /\ copies' = [copies EXCEPT ![x] = Empty]
      /\ UNCHANGED <<userQuota, domainQuota>>
  BY DEF DeleteAccount
<1>2. \A b \in Boxes : Empty[b] = None
  BY DEF Empty, None
<1> QED
  BY <1>1, <1>2, QuotaAccount

\* Every step of the command.
LEMMA QuotaCli == ASSUME CopyInv, QuotaInv, CliNext PROVE QuotaInv'
<1>1. CASE \/ CliLookup \/ CliGivesUp \/ CliClose
           \/ \E cmd \in CliCmds, a \in Managed, b, to \in Boxes :
                 CliOpen(cmd, a, b, to)
  <2>1. UNCHANGED <<dbVars, dlv, api>>
    BY <1>1 DEF CliLookup, CliGivesUp, CliClose, CliOpen
  <2> QED
    BY <2>1, QuotaKept
<1>2. CASE ImapAcctCreate
  <2>1. PICK more \in SUBSET Boxes : CreateAccount(cli.a, more)
    BY <1>2 DEF ImapAcctCreate
  <2>2. UNCHANGED <<dlv, api>>
    BY <1>2 DEF ImapAcctCreate
  <2>3. ApiOk(api')
    BY <2>2 DEF QuotaInv, QuotaTypes
  <2> QED
    BY <2>1, <2>2, <2>3, QuotaCreate
<1>3. CASE ImapAcctRemove
  <2>1. DeleteAccount(cli.a) /\ UNCHANGED <<dlv, api>>
    BY <1>3 DEF ImapAcctRemove
  <2>2. ApiOk(api')
    BY <2>1 DEF QuotaInv, QuotaTypes
  <2> QED
    BY <2>1, <2>2, QuotaDelete
<1>4. CASE \/ MboxesList \/ MboxesCreate \/ MboxesRemove \/ MboxesRename
           \/ MsgsList \/ MsgsAdd \/ MsgsFlags
           \/ \E m \in Msgs : MsgsRemove(m) \/ MsgsCopy(m) \/ MsgsMove(m)
  <2> DEFINE bs == boxes[cli.a]
             h == copies[cli.a]
             b == cli.b
             to == cli.to
  <2>1. cli.pc = "ready" /\ cli.a \in accts
    BY <1>4 DEF CliDoes, MboxesList, MboxesCreate, MboxesRemove,
                MboxesRename, MsgsList, MsgsAdd, MsgsFlags, MsgsRemove,
                MsgsCopy, MsgsMove
  <2>2. cli.a \in Accounts /\ b \in Boxes /\ to \in Boxes
    BY <2>1 DEF CopyInv, CliInv
  <2>3. h \in Holdings /\ bs \in SUBSET Boxes
    BY <2>2, AreClean DEF QuotaInv, QuotaTypes
  <2>4. \A c \in Boxes \ bs : h[c] = None
    BY <2>2 DEF QuotaInv, NoMail
  <2>5. CASE MboxesList \/ MsgsList \/ MsgsFlags
    <3>1. \E ks : CliChanges(bs, h, ks)
      BY <2>5 DEF MboxesList, MsgsList, MsgsFlags, CliCopies, CliBoxes
    <3> HIDE DEF bs, h
    <3> QED
      BY <2>1, <2>3, <2>4, <3>1, QuotaCliChanges
  <2>6. CASE MboxesCreate
    <3> DEFINE new == bs \union {b}
    <3>1. CliChanges(new, h, <<>>)
      BY <2>6 DEF MboxesCreate, CliCopies, CliBoxes
    <3>2. new \in SUBSET Boxes /\ \A c \in Boxes \ new : h[c] = None
      BY <2>2, <2>3, <2>4
    <3> HIDE DEF new, h
    <3> QED
      BY <2>1, <3>1, <3>2, QuotaCliChanges
  <2>7. CASE MboxesRemove
    <3> DEFINE new == bs \ {b}
               left == [h EXCEPT ![b] = None]
    <3>1. \E ks : CliChanges(new, left, ks)
      BY <2>7 DEF MboxesRemove, CliCopies, CliBoxes
    <3>2. new \in SUBSET Boxes /\ \A c \in Boxes \ new : left[c] = None
      <4> HIDE DEF bs, h, b
      <4> QED
        BY <2>2, <2>3, <2>4 DEF Holdings
    <3> HIDE DEF new, left
    <3> QED
      BY <2>1, <3>1, <3>2, QuotaCliChanges
  <2>8. CASE MboxesRename
    <3> DEFINE new == (bs \ {b}) \union {to}
               left == [h EXCEPT ![to] = h[b], ![b] = None]
    <3>1. \E ks : CliChanges(new, left, ks)
      BY <2>8 DEF MboxesRename, CliCopies, CliBoxes
    <3>2. new \in SUBSET Boxes /\ \A c \in Boxes \ new : left[c] = None
      <4> HIDE DEF bs, h, b, to
      <4> QED
        BY <2>2, <2>3, <2>4 DEF Holdings
    <3> HIDE DEF new, left
    <3> QED
      BY <2>1, <3>1, <3>2, QuotaCliChanges
  <2>9. CASE MsgsAdd
    <3> DEFINE left == [h EXCEPT ![b][Appended] = @ + 1]
    <3>1. b \in bs /\ \E ks : CliChanges(bs, left, ks)
      BY <2>9 DEF MsgsAdd, CliCopies, CliBoxes
    <3>2. \A c \in Boxes \ bs : left[c] = None
      <4> HIDE DEF bs, h, b
      <4> QED
        BY <2>2, <2>3, <2>4, <3>1 DEF Holdings
    <3> HIDE DEF bs, left
    <3> QED
      BY <2>1, <2>3, <3>1, <3>2, QuotaCliChanges
  <2>10. ASSUME NEW m \in Msgs, MsgsRemove(m) PROVE QuotaInv'
    <3> DEFINE left == [h EXCEPT ![b][m] = 0]
    <3>1. b \in bs /\ \E ks : CliChanges(bs, left, ks)
      BY <2>10 DEF MsgsRemove, CliCopies, CliBoxes
    <3>2. \A c \in Boxes \ bs : left[c] = None
      <4> HIDE DEF bs, h, b
      <4> QED
        BY <2>2, <2>3, <2>4, <3>1 DEF Holdings
    <3> HIDE DEF bs, left
    <3> QED
      BY <2>1, <2>3, <3>1, <3>2, QuotaCliChanges
  <2>11. ASSUME NEW m \in Msgs, MsgsCopy(m) PROVE QuotaInv'
    <3> DEFINE left == [h EXCEPT ![to][m] = @ + h[b][m]]
    <3>1. to \in bs /\ \E ks : CliChanges(bs, left, ks)
      BY <2>11 DEF MsgsCopy, CliCopies, CliBoxes
    <3>2. \A c \in Boxes \ bs : left[c] = None
      <4> HIDE DEF bs, h, b, to
      <4> QED
        BY <2>2, <2>3, <2>4, <3>1 DEF Holdings
    <3> HIDE DEF bs, left
    <3> QED
      BY <2>1, <2>3, <3>1, <3>2, QuotaCliChanges
  <2>12. ASSUME NEW m \in Msgs, MsgsMove(m) PROVE QuotaInv'
    <3> DEFINE left == [h EXCEPT ![to][m] = @ + h[b][m], ![b][m] = 0]
    <3>1. b \in bs /\ to \in bs /\ \E ks : CliChanges(bs, left, ks)
      BY <2>12 DEF MsgsMove, CliCopies, CliBoxes
    <3>2. \A c \in Boxes \ bs : left[c] = None
      <4> HIDE DEF bs, h, b, to
      <4> QED
        BY <2>2, <2>3, <2>4, <3>1 DEF Holdings
    <3> HIDE DEF bs, left
    <3> QED
      BY <2>1, <2>3, <3>1, <3>2, QuotaCliChanges
  <2> QED
    BY <1>4, <2>5, <2>6, <2>7, <2>8, <2>9, <2>10, <2>11, <2>12
<1> QED
  BY <1>1, <1>2, <1>3, <1>4 DEF CliNext

\* A request goes on with the quota that it asked for.
LEMMA ApiGoesOk ==
    ASSUME ApiOk(api), NEW pc, ApiGoes(pc)
    PROVE  ApiOk(api') /\ UNCHANGED dlv
  BY DEF ApiOk, ApiGoes

\* Every step of the REST API.
LEMMA QuotaApi == ASSUME CopyInv, QuotaInv, ApiNext PROVE QuotaInv'
<1>0. ApiOk(api)
  BY DEF QuotaInv, QuotaTypes
<1>a. ASSUME UNCHANGED <<accts, boxes, copies, dlv>>, ApiOk(api'),
             userQuota' \in [Accounts -> Rows],
             domainQuota' \in [Domains -> Rows]
      PROVE  QuotaInv'
  <2>1. QuotaTypes' /\ NoBoxes' /\ NoMail'
    BY <1>a DEF QuotaInv, QuotaTypes, NoBoxes, NoMail
  <2>2. \A d \in Deliveries : (HadRoom(dlv[d].seen) /\ Kept(dlv[d]))'
    BY <1>a DEF QuotaInv, Kept
  <2> QED
    BY <2>1, <2>2 DEF QuotaInv
<1>1. ASSUME NEW op \in ApiOps, NEW a \in Managed, NEW q \in Quotas \union {0},
             NEW mailboxes \in BOOLEAN, ApiCall(op, a, q, mailboxes)
      PROVE  QuotaInv'
  <2>0. Quotas \subseteq Nat
    BY StorageAssumption
  <2>1. q \in Nat
    BY <2>0
  <2>2. PICK found, pc, report :
            api' = [op |-> op, a |-> a, q |-> q, boxes |-> mailboxes,
                    found |-> found, pc |-> pc, report |-> report]
    BY <1>1, Zenon DEF ApiCall
  <2>3. ApiOk(api')
    BY <2>1, <2>2 DEF ApiOk
  <2>4. /\ UNCHANGED <<accts, boxes, copies, userQuota, dlv>>
        /\ \/ domainQuota' = domainQuota
           \/ domainQuota' = [domainQuota EXCEPT ![DomainOf[a]] = q]
    BY <1>1 DEF ApiCall
  <2>5. domainQuota' \in [Domains -> Rows]
    BY <2>1, <2>4 DEF QuotaInv, QuotaTypes, Rows
  <2> QED
    BY <1>a, <2>3, <2>4, <2>5 DEF QuotaInv, QuotaTypes
<1>2. CASE ApiAddKey
  <2>1. /\ \E pc : ApiGoes(pc)
        /\ UNCHANGED <<accts, boxes, copies, userQuota, domainQuota>>
    BY <1>2 DEF ApiAddKey
  <2> QED
    BY <1>0, <1>a, <2>1, ApiGoesOk DEF QuotaInv, QuotaTypes
<1>3. CASE ApiCreateAccount
  <2>1. (\E pc : ApiGoes(pc)) /\ (CreateAccount(api.a, {}) \/ UNCHANGED dbVars)
    BY <1>3 DEF ApiCreateAccount
  <2>2. ApiOk(api') /\ UNCHANGED dlv
    BY <1>0, <2>1, ApiGoesOk
  <2>3. CASE CreateAccount(api.a, {})
    BY <2>2, <2>3, QuotaCreate
  <2>4. CASE UNCHANGED dbVars
    BY <1>a, <2>2, <2>4 DEF dbVars, QuotaInv, QuotaTypes
  <2> QED
    BY <2>1, <2>3, <2>4
<1>4. CASE ApiCreateMailboxes
  <2>1. /\ \E pc : ApiGoes(pc)
        /\ UNCHANGED <<accts, copies, userQuota, domainQuota>>
    BY <1>4 DEF ApiCreateMailboxes
  <2>2. ApiOk(api') /\ UNCHANGED dlv
    BY <1>0, <2>1, ApiGoesOk
  <2>3. CASE UNCHANGED boxes
    BY <1>a, <2>1, <2>2, <2>3 DEF QuotaInv, QuotaTypes
  <2>4. CASE boxes' # boxes
    <3> DEFINE x == api.a
               h == copies[x]
    <3>1. PICK more \in SUBSET Named :
              boxes' = [boxes EXCEPT ![x] = @ \union more]
      BY <1>4, <2>4 DEF ApiCreateMailboxes
    <3> DEFINE bs == boxes[x] \union more
    <3>2. x \in accts /\ boxes' = [boxes EXCEPT ![x] = bs]
      BY <1>4, <2>4, <3>1 DEF ApiCreateMailboxes
    <3>3. copies' = [copies EXCEPT ![x] = h]
      BY <2>1 DEF CopyInv, CopyTypes
    <3>4. x \in Accounts =>
             bs \subseteq Boxes /\ \A b \in Boxes \ bs : h[b] = None
      BY StorageAssumption DEF QuotaInv, QuotaTypes, NoMail
    <3> HIDE DEF x, bs, h
    <3> QED
      BY <2>1, <2>2, <3>2, <3>3, <3>4, QuotaAccount
  <2> QED
    BY <2>3, <2>4
<1>5. CASE ApiDelete
  <2>1. (\E pc : ApiGoes(pc)) /\ (DeleteAccount(api.a) \/ UNCHANGED dbVars)
    BY <1>5 DEF ApiDelete
  <2>2. ApiOk(api') /\ UNCHANGED dlv
    BY <1>0, <2>1, ApiGoesOk
  <2>3. CASE DeleteAccount(api.a)
    BY <2>2, <2>3, QuotaDelete
  <2>4. CASE UNCHANGED dbVars
    BY <1>a, <2>2, <2>4 DEF dbVars, QuotaInv, QuotaTypes
  <2> QED
    BY <2>1, <2>3, <2>4
<1>6. CASE ApiSetUserQuota
  <2>1. /\ ApiGoes("ok") /\ userQuota' = [userQuota EXCEPT ![api.a] = api.q]
        /\ UNCHANGED <<accts, boxes, copies, domainQuota>>
    BY <1>6 DEF ApiSetUserQuota
  <2>2. userQuota' \in [Accounts -> Rows]
    BY <1>0, <2>1 DEF ApiOk, QuotaInv, QuotaTypes, Rows
  <2> QED
    BY <1>0, <1>a, <2>1, <2>2, ApiGoesOk DEF QuotaInv, QuotaTypes
<1>7. ASSUME NEW a \in Managed, Credential(a) PROVE QuotaInv'
  <2>1. UNCHANGED <<accts, boxes, copies, userQuota, domainQuota, dlv, api>>
    BY <1>7 DEF Credential
  <2> QED
    BY <1>0, <1>a, <2>1 DEF QuotaInv, QuotaTypes
<1> QED
  BY <1>1, <1>2, <1>3, <1>4, <1>5, <1>6, <1>7 DEF ApiNext

\* A server that stops forgets its deliveries and its requests.
LEMMA QuotaStop ==
    ASSUME CopyInv, QuotaInv, NEW orderly \in BOOLEAN, ServerStop(orderly)
    PROVE  QuotaInv'
<1>1. /\ dlv' = [d \in Deliveries |->
                    IF dlv[d].pc \in {"idle", "committed"} THEN dlv[d]
                    ELSE Over(d, "aborted")]
      /\ api' = NoRequest
      /\ UNCHANGED <<accts, boxes, copies, userQuota, domainQuota>>
  BY DEF ServerStop, dbVars
<1>2. ApiOk(api')
  BY <1>1 DEF NoRequest, ApiOk
<1>3. QuotaTypes' /\ NoBoxes' /\ NoMail'
  BY <1>1, <1>2 DEF QuotaInv, QuotaTypes, NoBoxes, NoMail
<1>4. ASSUME NEW d \in Deliveries
      PROVE  (HadRoom(dlv[d].seen) /\ Kept(dlv[d]))'
  <2>1. dlv'[d] = dlv[d] \/ dlv'[d] = Over(d, "aborted")
    BY <1>1
  <2>2. HadRoom(dlv'[d].seen) /\ Kept(dlv'[d])
    BY <2>1, OverHadRoom DEF QuotaInv
  <2> QED
    BY <1>1, <2>2 DEF Kept
<1> QED
  BY <1>3, <1>4 DEF QuotaInv

\* Every step keeps the invariant and is one that QuotaOnlyRaced allows.
LEMMA QuotaNext ==
    CopyInv /\ QuotaInv /\ [Next]_vars => QuotaInv' /\ QuotaStep
<1> SUFFICES ASSUME CopyInv, QuotaInv, [Next]_vars
             PROVE  QuotaInv' /\ QuotaStep
  OBVIOUS
<1>1. CASE QuotaInv' /\ \A d \in Deliveries : ~Commits(d)
  BY <1>1 DEF QuotaStep
<1>2. ASSUME UNCHANGED dlv PROVE \A d \in Deliveries : ~Commits(d)
  BY <1>2 DEF Commits
<1>3. ASSUME NEW d \in Deliveries, DeliveryNext(d)
      PROVE  QuotaInv' /\ QuotaStep
  <2>1. CASE Commit(d)
    BY <2>1, QuotaCommit
  <2>2. CASE ~Commit(d)
    BY <1>1, <1>3, <2>2, QuotaDeliverySteps, DeliverySteps DEF DeliveryNext
  <2> QED
    BY <2>1, <2>2
<1>4. CASE ImapNext
  BY <1>1, <1>2, <1>4, QuotaImap, ImapCopies
<1>5. CASE CliNext
  BY <1>1, <1>2, <1>5, QuotaCli, CliStepCopies
<1>6. CASE ApiNext
  BY <1>1, <1>2, <1>6, QuotaApi, ApiCopies
<1>7. CASE \E orderly \in BOOLEAN : ServerStop(orderly)
  BY <1>1, <1>7, QuotaStop, StopCopies
<1>8. CASE \/ ServerStart \/ (\E p \in Procs : PipeGoes(p))
           \/ PipeApplies \/ PipeReconnects \/ UNCHANGED vars
  <2>1. UNCHANGED <<dbVars, dlv, api>>
    BY <1>8 DEF ServerStart, PipeGoes, PipeApplies, PipeReconnects, vars,
                procVars
  <2> QED
    BY <1>1, <1>2, <2>1, QuotaKept
<1> QED
  BY <1>3, <1>4, <1>5, <1>6, <1>7, <1>8 DEF Next

\* At first accounts have an empty Inbox, and no delivery has seen anything.
LEMMA QuotaInit == Init => QuotaInv
<1> SUFFICES ASSUME Init PROVE QuotaInv
  OBVIOUS
<1>1. ApiOk(api)
  BY DEF Init, NoRequest, ApiOk
<1>2. userQuota \in [Accounts -> Rows] /\ domainQuota \in [Domains -> Rows]
  BY StorageAssumption DEF Init, Rows, NoRow
<1>3. boxes \in [Accounts -> SUBSET Boxes] /\ NoBoxes
  BY StorageAssumption DEF Init, NoBoxes
<1>4. NoMail
  BY DEF Init, NoMail, Empty, None
<1>5. HadRoom(NewDelivery.seen) /\ Kept(NewDelivery)
  BY DEF NewDelivery, HadRoom, Kept
<1>6. \A d \in Deliveries : HadRoom(dlv[d].seen) /\ Kept(dlv[d])
  BY <1>5 DEF Init
<1> QED
  BY <1>1, <1>2, <1>3, <1>4, <1>6 DEF QuotaInv, QuotaTypes

\* A delivery takes an account above its quota only if what the account uses,
\* or its quota, is not what Body saw when CheckQuota let it through, for any
\* accounts and quotas and whatever deliveries, sessions, commands and
\* requests of the API run in between: CheckQuota, Body and Commit of imapsql.
THEOREM QuotaHolds == Spec => QuotaOnlyRaced
<1>1. Init => CopyInv /\ QuotaInv
  BY CopyInvInit, QuotaInit
<1>2. CopyInv /\ QuotaInv /\ [Next]_vars => (CopyInv /\ QuotaInv)'
  BY CopyNext, QuotaNext
<1>3. CopyInv /\ QuotaInv /\ [Next]_vars => [QuotaStep]_vars
  BY QuotaNext
<1> QED
  BY <1>1, <1>2, <1>3, PTL DEF Spec, QuotaOnlyRaced, QuotaStep
=============================================================================
