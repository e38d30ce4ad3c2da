------------------------- MODULE MsgPipelineProofs -------------------------
(***************************************************************************)
(* Proofs about MsgPipeline, for any configuration of checks, blocks and   *)
(* targets and any number of recipients.  A method is a list of steps, so  *)
(* what it will do is read off the list: the invariants say of each step   *)
(* of todo what the steps before it will have done when it is reached, and *)
(* of each promise of the method which step is left to keep it.            *)
(***************************************************************************)
EXTENDS MsgPipeline, Integers, SequenceTheorems, FiniteSetTheorems, TLAPS

-----------------------------------------------------------------------------
(***************************************************************************)
(* Steps and what they have to do with each other                          *)
(***************************************************************************)

\* The steps of the methods.
Runs == {<<"run", k, a, l>> : k \in {"rcpt", "again"}, a \in Addrs, l \in Lists}
        \cup {<<"run", k, NoAddr, l>> : k \in {"conn", "sender", "body"},
                                        l \in Lists}
Singles == {<<"globalMods">>, <<"sourceMods">>, <<"close">>, <<"refuse">>,
            <<"rewrite">>, <<"apply">>, <<"tell">>}
Steps ==
    Runs \cup Singles
    \cup {<<"states", l>> : l \in Lists}
    \cup {<<"store", n>> : n \in SUBSET Checks}
    \cup {<<"route", a>> : a \in Addrs}
    \cup {<<"mods", b>> : b \in Blocks}
    \cup {<<"rewriteIn", b, a>> : b \in Blocks, a \in Addrs}
    \cup {<<"passOn", x, b, a>> : x \in Addrs, b \in Blocks, a \in Addrs}
    \cup {<<"pass", t, x, b, a>> : t \in Targets, x \in Addrs, b \in Blocks,
                                   a \in Addrs}
    \cup {<<"bodyIn", b>> : b \in Blocks}
    \cup {<<"rewriteBody", g>> : g \in Groups}
    \cup {<<op, t>> : op \in {"send", "commit", "abort"}, t \in Targets}

\* The steps a method consists of.
KindsOf(m) ==
    IF m = "starting" THEN {"states", "store", "run", "globalMods",
                            "sourceMods", "close", "refuse"}
    ELSE IF m = "adding" THEN {"states", "store", "run", "rewrite", "route",
                               "mods", "rewriteIn", "passOn", "pass"}
    ELSE IF m = "body" THEN {"states", "store", "run", "bodyIn", "apply",
                             "rewriteBody", "send"}
    ELSE IF m = "nonatomic" THEN {"states", "store", "run", "rewriteBody",
                                  "send", "tell"}
    ELSE IF m = "committing" THEN {"close", "commit"}
    ELSE IF m = "aborting" THEN {"close", "abort"}
    ELSE {}

(***************************************************************************)
(* Facts a step may rely on: a check has a state ("stored"), it has one    *)
(* and was shown an address ("seen"), it was shown the body ("body").      *)
(***************************************************************************)
Facts == {"stored", "seen", "body"} \X Checks \X (Addrs \cup {NoAddr})

\* The facts that hold.
Met == {p \in Facts : /\ p[1] \in {"stored", "seen"} => p[2] \in stored
                      /\ p[1] = "seen" => p[3] \in seen[p[2]]
                      /\ p[1] = "body" => p[2] \in bodySeen}

\* The facts a step establishes, itself or through the steps it puts in
\* front of the list.
Gives(s) ==
    {p \in Facts :
        \/ s[1] = "states" /\ p[1] = "stored" /\ p[2] \in Elems(s[2])
        \/ s[1] = "store" /\ p[1] = "stored" /\ p[2] \in s[2]
        \/ /\ s[1] = "run" /\ s[2] = "rcpt"
           /\ p[1] = "seen" /\ p[2] \in Elems(s[4]) /\ p[3] = s[3]
        \/ /\ s[1] = "run" /\ s[2] = "body"
           /\ p[1] = "body" /\ p[2] \in Elems(s[4])
        \/ /\ s[1] = "bodyIn"
           /\ p[1] = "body" /\ p[2] \in Elems(BlockChecks[s[2]])}

\* The checks of block b were shown a, those of the pipeline and the source
\* block the recipient r.
Shown(r) ==
    {p \in Facts : /\ p[1] = "seen" /\ p[3] = r
                   /\ p[2] \in Elems(GlobalChecks) \cup Elems(SourceChecks)}
ShownIn(b, a) ==
    {p \in Facts : p[1] = "seen" /\ p[3] = a /\ p[2] \in Elems(BlockChecks[b])}

\* The facts a step relies on, in a method for recipient r, where the body is
\* for the checks C.
Needs(r, C, s) ==
    {p \in Facts :
        \/ /\ s[1] = "run" /\ s[2] \in {"rcpt", "body"}
           /\ p[1] = "stored" /\ p[2] \in Elems(s[4])
        \/ /\ s[1] \in {"rewrite", "route", "rewriteIn", "passOn", "pass"}
           /\ p \in Shown(r)
        \/ s[1] = "rewriteIn" /\ p \in ShownIn(s[2], s[3])
        \/ s[1] = "passOn" /\ p \in ShownIn(s[3], s[4])
        \/ s[1] = "pass" /\ p \in ShownIn(s[4], s[5])
        \/ s[1] = "send" /\ p[1] = "body" /\ p[2] \in C}

\* Each step of a list finds what it relies on: it is met, or a step before
\* it establishes it.
Provided(r, C, list, met) ==
    \A i \in 1 .. Len(list) : \A p \in Needs(r, C, list[i]) :
        p \in met \/ \E j \in 1 .. i - 1 : p \in Gives(list[j])

\* The checks that have to see the body before Body passes it on.
ChecksOf(S) == Elems(GlobalChecks) \cup Elems(SourceChecks)
               \cup UNION {Elems(BlockChecks[b]) : b \in S}
BodyNeeds == IF phase = "body" THEN ChecksOf(UsedBlocks) ELSE {}

\* Body: checks, then applyResults at place k, then modifiers and targets.
CheckKinds == {"states", "store", "run", "bodyIn"}
LateKinds == {"rewriteBody", "send"}
Split(list, k) ==
    /\ list[k][1] = "apply"
    /\ \A i \in 1 .. k - 1 : list[i][1] \in CheckKinds
    /\ \A i \in k + 1 .. Len(list) : list[i][1] \in LateKinds

-----------------------------------------------------------------------------
(***************************************************************************)
(* The inductive invariant                                                 *)
(***************************************************************************)

Ways == [to : Rcpts, routed : Addrs, block : Blocks, final : Addrs,
         target : Targets]

\* Types, the list and the history included.
RunnerTypes ==
    /\ stored \subseteq Checks
    /\ closes \in [Checks -> Nat]
    /\ seen \in [Checks -> SUBSET Addrs]
    /\ checked \in Seq(Addrs)
    /\ quarantine \in BOOLEAN
    /\ bodySeen \subseteq Checks
ModTypes ==
    /\ mods \subseteq Groups
    /\ modCloses \in [Groups -> Nat]
    /\ dropped \subseteq Groups
DeliveryTypes ==
    /\ dlv \in [Targets -> {"none", "open", "body", "bodyFailed",
                            "committed", "commitFailed", "aborted"}]
    /\ got \in [Targets -> SUBSET Addrs]
    /\ recips \in [Targets -> SUBSET Rcpts]
    /\ orig \in [Addrs -> Rcpts \cup {NoAddr}]
    /\ metaQ \in BOOLEAN
HistTypes ==
    /\ accepted \subseteq Rcpts
    /\ told \subseteq Addrs
    /\ ways \subseteq Ways
    /\ failedAt \subseteq Targets \X Addrs
MethodTypes ==
    /\ phase \in Phases
    /\ todo \in Seq(Steps)
    /\ cur \in Rcpts \cup {NoAddr}
    /\ phase = "adding" => cur \in Rcpts
    /\ \A s \in Elems(todo) : s[1] \in KindsOf(phase)
TypeInv == RunnerTypes /\ ModTypes /\ DeliveryTypes /\ HistTypes /\ MethodTypes

\* A target knows no address that the source did not name or OriginalRcpts
\* has no name for, so a status goes to a recipient of the source.
Known(x) == x \in Rcpts \/ orig[x] # NoAddr
KnownInv ==
    /\ told \subseteq Rcpts
    /\ \A t \in Targets : \A x \in got[t] : Known(x)
    /\ \A s \in Elems(todo) : s[1] = "pass" => Known(s[3])

\* Every step finds what it relies on, and what went to a target was shown
\* to its checks.
OrderInv ==
    /\ Provided(cur, BodyNeeds, todo, Met)
    /\ \A w \in ways : Shown(w.to) \cup ShownIn(w.block, w.routed) \subseteq Met

\* Before applyResults no target has the body; after it no check runs any
\* more, and a target that has the body got it from a message all checks saw.
BodyInv ==
    phase = "body" =>
        \/ /\ \E k \in 1 .. Len(todo) : Split(todo, k)
           /\ \A t \in Targets : dlv[t] \in {"none", "open"}
        \/ /\ \A i \in 1 .. Len(todo) : todo[i][1] \in LateKinds
           /\ quarantine => metaQ
           /\ (\E t \in Targets : dlv[t] \notin {"none", "open"})
                => BodyNeeds \subseteq bodySeen

\* The states of the checks and the modifiers in use were closed.
Closed ==
    /\ \A c \in stored : closes[c] > 0
    /\ \A g \in mods : modCloses[g] > 0

\* Closing is the first thing a method that ends the delivery does.
Closing(list) ==
    /\ list # <<>>
    /\ Head(list) = <<"close">>
    /\ \A s \in Elems(Tail(list)) : s[1] # "close"
CloseInv ==
    /\ phase = "starting" =>
         \/ \A s \in Elems(todo) : s[1] \notin {"close", "refuse"}
         \/ todo = <<<<"close">>, <<"refuse">>>>
         \/ todo = <<<<"refuse">>>> /\ Closed
    /\ phase \in {"committing", "aborting"} =>
         \/ Closing(todo)
         \/ Closed /\ \A s \in Elems(todo) : s[1] # "close"
    /\ phase \in Over => Closed

\* An address of the recipient that is being added will reach the targets
\* of its block, or has.
Held(r, t, x) == x \in got[t] /\ r \in recips[t]
Reaching(a, b, x) ==
    \/ <<"passOn", x, b, a>> \in Elems(todo)
    \/ \A t \in Elems(TargetsOf[b]) :
           Held(cur, t, x) \/ <<"pass", t, x, b, a>> \in Elems(todo)
Underway(a) ==
    \/ <<"rewrite">> \in Elems(todo)
    \/ <<"route", a>> \in Elems(todo)
    \/ \E b \in BlocksFor[a] \ Rejects :
          \/ <<"rewriteIn", b, a>> \in Elems(todo)
          \/ \A x \in Elems(RcptRewritten[a]) : Reaching(a, b, x)
HoldInv ==
    /\ AcceptedIsHeld
    /\ phase = "adding" => \A a \in Elems(Rewritten[cur]) : Underway(a)

\* Before the source passes the body, no target has it.
Early == {"new", "starting", "ready", "adding"}
EarlyInv ==
    phase \in Early =>
        /\ failedAt = {}
        /\ \A t \in Targets : dlv[t] \in {"none", "open"}

\* How far the targets are: a target that was started gets the body, or its
\* recipients a status, and then is committed or aborted.
OutcomeInv ==
    /\ phase = "body" => \A t \in UsedTargets :
         dlv[t] = "body" \/ <<"send", t>> \in Elems(todo)
    /\ phase = "nonatomic" => \A t \in UsedTargets :
         \/ dlv[t] = "body"
         \/ recips[t] \subseteq told
         \/ <<"send", t>> \in Elems(todo)
         \/ <<"tell">> \in Elems(todo)
    /\ phase = "sent" => \A t \in UsedTargets :
         dlv[t] = "body" \/ recips[t] \subseteq told
    /\ phase = "committing" => \A t \in UsedTargets :
         dlv[t] = "committed" \/ <<"commit", t>> \in Elems(todo)
    /\ phase = "aborting" => \A t \in UsedTargets :
         dlv[t] = "aborted" \/ <<"abort", t>> \in Elems(todo)
    /\ phase = "committed" => \A t \in UsedTargets : dlv[t] = "committed"
    /\ phase = "aborted" => \A t \in UsedTargets : dlv[t] = "aborted"

(***************************************************************************)
(* A condition on the configuration: no two recipients are rewritten to    *)
(* one address, as OriginalRcpts has room for one name.                    *)
(***************************************************************************)
Finals(r) == UNION {Elems(RcptRewritten[a]) : a \in Elems(Rewritten[r])}
NamesApart == \A r, q \in Rcpts : Finals(r) \cap Finals(q) # {} => r = q

\* The name OriginalRcpts has for an address is that of a recipient that is
\* rewritten to it, and it has one unless it is the address itself.
Named(r, x) == x \in Finals(r) /\ (x = r \/ orig[x] # NoAddr)
NameInv ==
    /\ \A x \in Addrs : orig[x] # NoAddr => x \in Finals(orig[x])
    /\ \A w \in ways : /\ Named(w.to, w.final)
                       /\ w.to \in recips[w.target]
    /\ phase = "adding" => \A s \in Elems(todo) :
         /\ s[1] = "route" => s[2] \in Elems(Rewritten[cur])
         /\ s[1] = "rewriteIn" => s[3] \in Elems(Rewritten[cur])
         /\ s[1] = "passOn" => s[2] \in Finals(cur)
         /\ s[1] = "pass" => Named(cur, s[3])
    /\ \A w \in ways : <<w.target, w.final>> \in failedAt => w.to \in told

-----------------------------------------------------------------------------
(***************************************************************************)
(* Lists of steps                                                          *)
(***************************************************************************)

\* The steps of a list are its first one and those of the rest.
LEMMA TailElems ==
    ASSUME NEW S, NEW list \in Seq(S), list # <<>>
    PROVE  /\ Head(list) \in S
           /\ Tail(list) \in Seq(S)
           /\ Len(Tail(list)) = Len(list) - 1
           /\ \A i \in 1 .. Len(Tail(list)) : Tail(list)[i] = list[i + 1]
           /\ Head(list) = list[1]
           /\ Elems(list) = {Head(list)} \cup Elems(Tail(list))
<1>1. /\ Len(list) \in Nat \ {0}
      /\ Head(list) \in S
      /\ Tail(list) \in Seq(S)
      /\ Len(Tail(list)) = Len(list) - 1
      /\ \A i \in 1 .. Len(Tail(list)) : Tail(list)[i] = list[i + 1]
      /\ Head(list) = list[1]
  OBVIOUS
<1>2. DOMAIN list = 1 .. Len(list) /\ DOMAIN Tail(list) = 1 .. Len(list) - 1
  BY <1>1
<1>3. ASSUME NEW s \in Elems(list) PROVE s \in {Head(list)} \cup Elems(Tail(list))
  <2>1. PICK i \in 1 .. Len(list) : s = list[i]
    BY <1>2 DEF Elems
  <2>2. CASE i = 1
    BY <2>1, <2>2, <1>1
  <2>3. CASE i # 1
    <3>1. i - 1 \in 1 .. Len(list) - 1 /\ Tail(list)[i - 1] = list[i]
      BY <2>3, <1>1
    <3> QED BY <3>1, <2>1, <1>2 DEF Elems
  <2> QED BY <2>2, <2>3
<1>4. ASSUME NEW s \in {Head(list)} \cup Elems(Tail(list)) PROVE s \in Elems(list)
  <2>1. CASE s = Head(list)
    <3>1. 1 \in DOMAIN list
      BY <1>1, <1>2
    <3> QED BY <3>1, <2>1, <1>1 DEF Elems
  <2>2. CASE s \in Elems(Tail(list))
    <3>1. PICK i \in 1 .. Len(list) - 1 : s = Tail(list)[i]
      BY <1>2, <2>2 DEF Elems
    <3>2. i + 1 \in DOMAIN list /\ s = list[i + 1]
      BY <3>1, <1>1, <1>2
    <3> QED BY <3>2 DEF Elems
  <2> QED BY <2>1, <2>2
<1> QED BY <1>1, <1>3, <1>4

\* The steps of two lists, one after the other.
LEMMA ConcatElems ==
    ASSUME NEW S, NEW f \in Seq(S), NEW g \in Seq(S)
    PROVE  /\ f \o g \in Seq(S)
           /\ Len(f \o g) = Len(f) + Len(g)
           /\ \A i \in 1 .. Len(f) : (f \o g)[i] = f[i]
           /\ \A i \in 1 .. Len(g) : (f \o g)[Len(f) + i] = g[i]
           /\ Elems(f \o g) = Elems(f) \cup Elems(g)
<1>1. /\ f \o g \in Seq(S)
      /\ Len(f) \in Nat /\ Len(g) \in Nat
      /\ Len(f \o g) = Len(f) + Len(g)
      /\ \A i \in 1 .. Len(f) : (f \o g)[i] = f[i]
      /\ \A i \in 1 .. Len(g) : (f \o g)[Len(f) + i] = g[i]
  OBVIOUS
<1>2. /\ DOMAIN f = 1 .. Len(f) /\ DOMAIN g = 1 .. Len(g)
      /\ DOMAIN (f \o g) = 1 .. Len(f) + Len(g)
  BY <1>1
<1>3. ASSUME NEW s \in Elems(f \o g) PROVE s \in Elems(f) \cup Elems(g)
  <2>1. PICK i \in 1 .. Len(f) + Len(g) : s = (f \o g)[i]
    BY <1>2 DEF Elems
  <2>2. CASE i <= Len(f)
    BY <2>1, <2>2, <1>1, <1>2 DEF Elems
  <2>3. CASE ~(i <= Len(f))
    <3>1. i - Len(f) \in 1 .. Len(g) /\ s = g[i - Len(f)]
      <4>1. i - Len(f) \in 1 .. Len(g) /\ i = Len(f) + (i - Len(f))
        BY <2>3, <1>1
      <4> QED BY <4>1, <2>1, <1>1
    <3> QED BY <3>1, <1>2 DEF Elems
  <2> QED BY <2>2, <2>3
<1>4. ASSUME NEW s \in Elems(f) PROVE s \in Elems(f \o g)
  <2>1. PICK i \in 1 .. Len(f) : s = f[i]
    BY <1>2 DEF Elems
  <2>2. i \in DOMAIN (f \o g) /\ s = (f \o g)[i]
    BY <2>1, <1>1, <1>2
  <2> QED BY <2>2 DEF Elems
<1>5. ASSUME NEW s \in Elems(g) PROVE s \in Elems(f \o g)
  <2>1. PICK i \in 1 .. Len(g) : s = g[i]
    BY <1>2 DEF Elems
  <2>2. Len(f) + i \in DOMAIN (f \o g) /\ s = (f \o g)[Len(f) + i]
    BY <2>1, <1>1, <1>2
  <2> QED BY <2>2 DEF Elems
<1> QED BY <1>1, <1>3, <1>4, <1>5

\* An order of a finite set has every member of it.
LEMMA OrdersCover ==
    ASSUME NEW S, IsFiniteSet(S), NEW f \in Orders(S)
    PROVE  f \in Seq(S) /\ Elems(f) = S
<1>1. Cardinality(S) \in Nat
  BY FS_CardinalityType
<1>2. f \in [1 .. Cardinality(S) -> S] /\ \A i, j \in DOMAIN f : f[i] = f[j] => i = j
  BY DEF Orders
<1>3. f \in Injection(1 .. Cardinality(S), S)
  BY <1>2 DEF Injection, IsInjective
<1>4. Cardinality(1 .. Cardinality(S)) = Cardinality(S)
  BY <1>1, FS_Interval
<1>5. f \in Surjection(1 .. Cardinality(S), S)
  BY <1>3, <1>4, FS_Injection
<1>6. \A s \in S : \E i \in 1 .. Cardinality(S) : f[i] = s
  BY <1>5 DEF Surjection
<1>7. f \in Seq(S)
  BY <1>1, <1>2
<1> QED BY <1>2, <1>6, <1>7 DEF Elems

-----------------------------------------------------------------------------
(***************************************************************************)
(* What a list of steps relies on                                          *)
(***************************************************************************)

\* When the first step is done, the others find what it has established.
LEMMA ProvidedTail ==
    ASSUME NEW r, NEW C, NEW met, NEW list \in Seq(Steps), list # <<>>,
           Provided(r, C, list, met)
    PROVE  /\ Needs(r, C, Head(list)) \subseteq met
           /\ Provided(r, C, Tail(list), met \cup Gives(Head(list)))
<1>1. /\ Len(list) \in Nat \ {0}
      /\ Len(Tail(list)) = Len(list) - 1
      /\ \A i \in 1 .. Len(Tail(list)) : Tail(list)[i] = list[i + 1]
      /\ Head(list) = list[1]
  BY TailElems
<1>2. Needs(r, C, Head(list)) \subseteq met
  <2>1. 1 \in 1 .. Len(list) /\ \A j \in 1 .. 1 - 1 : FALSE
    BY <1>1
  <2> QED BY <1>1, <2>1 DEF Provided
<1>3. ASSUME NEW i \in 1 .. Len(Tail(list)), NEW p \in Needs(r, C, Tail(list)[i])
      PROVE  \/ p \in met \cup Gives(Head(list))
             \/ \E j \in 1 .. i - 1 : p \in Gives(Tail(list)[j])
  <2>1. i + 1 \in 1 .. Len(list) /\ p \in Needs(r, C, list[i + 1])
    BY <1>1
  <2>2. p \in met \/ \E j \in 1 .. (i + 1) - 1 : p \in Gives(list[j])
    BY <2>1 DEF Provided
  <2>3. ASSUME NEW j \in 1 .. (i + 1) - 1, p \in Gives(list[j]), j # 1
        PROVE  \E k \in 1 .. i - 1 : p \in Gives(Tail(list)[k])
    <3>1. j - 1 \in 1 .. i - 1 /\ j - 1 \in 1 .. Len(Tail(list)) /\ (j - 1) + 1 = j
      BY <2>3, <1>1
    <3>2. Tail(list)[j - 1] = list[j]
      BY <3>1, <1>1
    <3> QED BY <2>3, <3>1, <3>2
  <2> QED BY <2>2, <2>3, <1>1
<1> QED BY <1>2, <1>3 DEF Provided

\* More facts do no harm.
LEMMA ProvidedMono ==
    ASSUME NEW r, NEW C, NEW list, NEW met, NEW more,
           Provided(r, C, list, met), met \subseteq more
    PROVE  Provided(r, C, list, more)
  BY DEF Provided

\* What the steps of a list establish.
GivesAll(list) == UNION {Gives(list[j]) : j \in 1 .. Len(list)}

\* A list in front of another may establish what that one relies on.
LEMMA ProvidedConcat ==
    ASSUME NEW r, NEW C, NEW met, NEW f \in Seq(Steps), NEW g \in Seq(Steps),
           Provided(r, C, f, met), Provided(r, C, g, met \cup GivesAll(f))
    PROVE  Provided(r, C, f \o g, met)
<1>1. /\ Len(f) \in Nat /\ Len(g) \in Nat
      /\ Len(f \o g) = Len(f) + Len(g)
      /\ \A i \in 1 .. Len(f) : (f \o g)[i] = f[i]
      /\ \A i \in 1 .. Len(g) : (f \o g)[Len(f) + i] = g[i]
  BY ConcatElems
<1>2. ASSUME NEW i \in 1 .. Len(f \o g), NEW p \in Needs(r, C, (f \o g)[i])
      PROVE  p \in met \/ \E j \in 1 .. i - 1 : p \in Gives((f \o g)[j])
  <2>1. CASE i <= Len(f)
    <3>1. i \in 1 .. Len(f) /\ p \in Needs(r, C, f[i])
      BY <1>1, <2>1
    <3>2. p \in met \/ \E j \in 1 .. i - 1 : p \in Gives(f[j])
      BY <3>1 DEF Provided
    <3>3. \A j \in 1 .. i - 1 : (f \o g)[j] = f[j]
      BY <3>1, <1>1
    <3> QED BY <3>2, <3>3
  <2>2. CASE ~(i <= Len(f))
    <3>1. /\ i - Len(f) \in 1 .. Len(g)
          /\ Len(f) + (i - Len(f)) = i
      BY <1>1, <2>2
    <3>2. p \in Needs(r, C, g[i - Len(f)])
      BY <3>1, <1>1
    <3>3. \/ p \in met \cup GivesAll(f)
          \/ \E j \in 1 .. (i - Len(f)) - 1 : p \in Gives(g[j])
      BY <3>1, <3>2 DEF Provided
    <3>4. CASE p \in GivesAll(f)
      <4>1. PICK j \in 1 .. Len(f) : p \in Gives(f[j])
        BY <3>4 DEF GivesAll
      <4>2. j \in 1 .. i - 1 /\ (f \o g)[j] = f[j]
        BY <1>1, <2>2
      <4> QED BY <4>1, <4>2
    <3>5. ASSUME NEW j \in 1 .. (i - Len(f)) - 1, p \in Gives(g[j])
          PROVE  \E k \in 1 .. i - 1 : p \in Gives((f \o g)[k])
      <4>1. Len(f) + j \in 1 .. i - 1 /\ j \in 1 .. Len(g)
        BY <1>1, <2>2
      <4>2. (f \o g)[Len(f) + j] = g[j]
        BY <4>1, <1>1
      <4> QED BY <3>5, <4>1, <4>2
    <3> QED BY <3>3, <3>4, <3>5
  <2> QED BY <2>1, <2>2
<1> QED BY <1>2 DEF Provided

\* A step is done, and others take its place that establish no less.
LEMMA ProvidedThen ==
    ASSUME NEW r, NEW C, NEW met, NEW more, NEW list \in Seq(Steps),
           list # <<>>, NEW f \in Seq(Steps), Provided(r, C, list, met),
           met \subseteq more, Provided(r, C, f, more),
           Gives(Head(list)) \subseteq more \cup GivesAll(f)
    PROVE  Provided(r, C, f \o Tail(list), more)
<1>1. Tail(list) \in Seq(Steps) /\ Provided(r, C, Tail(list), met \cup Gives(Head(list)))
  BY TailElems, ProvidedTail
<1>2. Provided(r, C, Tail(list), more \cup GivesAll(f))
  <2>1. met \cup Gives(Head(list)) \subseteq more \cup GivesAll(f)
    OBVIOUS
  <2> QED BY <1>1, <2>1, ProvidedMono
<1> QED BY <1>1, <1>2, ProvidedConcat

\* A list whose steps rely on nothing is provided for.
LEMMA ProvidedFree ==
    ASSUME NEW r, NEW C, NEW met, NEW list \in Seq(Steps),
           \A s \in Elems(list) : Needs(r, C, s) \subseteq met
    PROVE  Provided(r, C, list, met)
  BY DEF Provided, Elems

\* A short list establishes what each of its steps does.
LEMMA GivesElems ==
    ASSUME NEW list \in Seq(Steps), NEW s \in Elems(list)
    PROVE  Gives(s) \subseteq GivesAll(list)
  BY DEF GivesAll, Elems

\* Body's list loses a check from its front, or gains some.
LEMMA SplitTail ==
    ASSUME NEW list \in Seq(Steps), NEW k \in 1 .. Len(list), Split(list, k),
           Head(list)[1] \in CheckKinds
    PROVE  Tail(list) \in Seq(Steps) /\ k - 1 \in 1 .. Len(Tail(list)) /\ Split(Tail(list), k - 1)
<1>1. list # <<>> /\ Len(list) \in Nat
  OBVIOUS
<1>2. /\ Tail(list) \in Seq(Steps)
      /\ Len(Tail(list)) = Len(list) - 1
      /\ \A i \in 1 .. Len(Tail(list)) : Tail(list)[i] = list[i + 1]
      /\ Head(list) = list[1]
  BY <1>1, TailElems
<1>3. k # 1
  <2>1. "apply" \notin CheckKinds
    BY DEF CheckKinds
  <2> QED BY <1>2, <2>1 DEF Split
<1>4. k - 1 \in 1 .. Len(Tail(list)) /\ Tail(list)[k - 1] = list[k]
  <2>1. k - 1 \in 1 .. Len(Tail(list)) /\ (k - 1) + 1 = k
    BY <1>1, <1>2, <1>3
  <2> QED BY <1>2, <2>1
<1>5. ASSUME NEW i \in 1 .. (k - 1) - 1 PROVE Tail(list)[i][1] \in CheckKinds
  <2>1. i \in 1 .. Len(Tail(list)) /\ i + 1 \in 1 .. k - 1
    BY <1>1, <1>2
  <2> QED BY <2>1, <1>2 DEF Split
<1>6. ASSUME NEW i \in (k - 1) + 1 .. Len(Tail(list)) PROVE Tail(list)[i][1] \in LateKinds
  <2>1. i \in 1 .. Len(Tail(list)) /\ i + 1 \in k + 1 .. Len(list)
    BY <1>1, <1>2
  <2> QED BY <2>1, <1>2 DEF Split
<1> QED BY <1>2, <1>4, <1>5, <1>6 DEF Split

LEMMA SplitConcat ==
    ASSUME NEW f \in Seq(Steps), NEW g \in Seq(Steps), NEW k \in 1 .. Len(g),
           Split(g, k), \A s \in Elems(f) : s[1] \in CheckKinds
    PROVE  Len(f) + k \in 1 .. Len(f \o g) /\ Split(f \o g, Len(f) + k)
<1>1. /\ Len(f) \in Nat /\ Len(g) \in Nat
      /\ Len(f \o g) = Len(f) + Len(g)
      /\ \A i \in 1 .. Len(f) : (f \o g)[i] = f[i]
      /\ \A i \in 1 .. Len(g) : (f \o g)[Len(f) + i] = g[i]
  BY ConcatElems
<1>2. ASSUME NEW i \in 1 .. (Len(f) + k) - 1 PROVE (f \o g)[i][1] \in CheckKinds
  <2>1. CASE i <= Len(f)
    <3>1. i \in 1 .. Len(f) /\ f[i] \in Elems(f)
      BY <1>1, <2>1 DEF Elems
    <3> QED BY <1>1, <3>1
  <2>2. CASE ~(i <= Len(f))
    <3>1. i - Len(f) \in 1 .. k - 1 /\ i - Len(f) \in 1 .. Len(g) /\ Len(f) + (i - Len(f)) = i
      BY <1>1, <2>2
    <3>2. (f \o g)[i] = g[i - Len(f)]
      BY <1>1, <3>1
    <3> QED BY <3>1, <3>2 DEF Split
  <2> QED BY <2>1, <2>2
<1>3. ASSUME NEW i \in (Len(f) + k) + 1 .. Len(f \o g) PROVE (f \o g)[i][1] \in LateKinds
  <2>1. i - Len(f) \in k + 1 .. Len(g) /\ i - Len(f) \in 1 .. Len(g) /\ Len(f) + (i - Len(f)) = i
    BY <1>1
  <2>2. (f \o g)[i] = g[i - Len(f)]
    BY <1>1, <2>1
  <2> QED BY <2>1, <2>2 DEF Split
<1>4. Len(f) + k \in 1 .. Len(f \o g) /\ (f \o g)[Len(f) + k] = g[k]
  BY <1>1
<1> QED BY <1>2, <1>3, <1>4 DEF Split

-----------------------------------------------------------------------------
(***************************************************************************)
(* The steps the methods put on the list                                   *)
(***************************************************************************)

\* The kind of a step tells its arguments.
LEMMA StepShape ==
    ASSUME NEW s \in Steps
    PROVE  /\ s[1] = "states" => \E l \in Lists : s = <<"states", l>>
           /\ s[1] = "store" => \E n \in SUBSET Checks : s = <<"store", n>>
           /\ s[1] = "run" => s \in Runs
           /\ s[1] = "route" => \E a \in Addrs : s = <<"route", a>>
           /\ s[1] = "mods" => \E b \in Blocks : s = <<"mods", b>>
           /\ s[1] = "rewriteIn" =>
                \E b \in Blocks : \E a \in Addrs : s = <<"rewriteIn", b, a>>
           /\ s[1] = "passOn" => \E x \in Addrs : \E b \in Blocks :
                \E a \in Addrs : s = <<"passOn", x, b, a>>
           /\ s[1] = "pass" => \E t \in Targets : \E x \in Addrs :
                \E b \in Blocks : \E a \in Addrs : s = <<"pass", t, x, b, a>>
           /\ s[1] = "bodyIn" => \E b \in Blocks : s = <<"bodyIn", b>>
           /\ s[1] = "rewriteBody" => \E g \in Groups : s = <<"rewriteBody", g>>
           /\ s[1] = "send" => \E t \in Targets : s = <<"send", t>>
           /\ s[1] = "commit" => \E t \in Targets : s = <<"commit", t>>
           /\ s[1] = "abort" => \E t \in Targets : s = <<"abort", t>>
           /\ s[1] = "close" => s = <<"close">>
           /\ s[1] = "refuse" => s = <<"refuse">>
           /\ s[1] = "rewrite" => s = <<"rewrite">>
           /\ s[1] = "apply" => s = <<"apply">>
           /\ s[1] = "tell" => s = <<"tell">>
           /\ s[1] = "globalMods" => s = <<"globalMods">>
           /\ s[1] = "sourceMods" => s = <<"sourceMods">>
<1>1. CASE s \in Runs
  BY <1>1 DEF Runs
<1>2. CASE s \in Singles
  BY <1>2 DEF Singles
<1>3. CASE s \in {<<"states", l>> : l \in Lists}
  BY <1>3
<1>4. CASE s \in {<<"store", n>> : n \in SUBSET Checks}
  BY <1>4
<1>5. CASE s \in {<<"route", a>> : a \in Addrs}
  BY <1>5
<1>6. CASE s \in {<<"mods", b>> : b \in Blocks}
  BY <1>6
<1>7. CASE s \in {<<"rewriteIn", b, a>> : b \in Blocks, a \in Addrs}
  BY <1>7
<1>8. CASE s \in {<<"passOn", x, b, a>> : x \in Addrs, b \in Blocks, a \in Addrs}
  BY <1>8
<1>9. CASE s \in {<<"pass", t, x, b, a>> : t \in Targets, x \in Addrs, b \in Blocks, a \in Addrs}
  BY <1>9
<1>10. CASE s \in {<<"bodyIn", b>> : b \in Blocks}
  BY <1>10
<1>11. CASE s \in {<<"rewriteBody", g>> : g \in Groups}
  BY <1>11
<1>12. CASE s \in {<<op, t>> : op \in {"send", "commit", "abort"}, t \in Targets}
  BY <1>12
<1> QED BY <1>1, <1>2, <1>3, <1>4, <1>5, <1>6, <1>7, <1>8, <1>9, <1>10, <1>11, <1>12 DEF Steps

\* The arguments of a run.
LEMMA RunShape ==
    ASSUME NEW s \in Runs
    PROVE  \E k \in {"rcpt", "again", "conn", "sender", "body"} :
             \E a \in Addrs \cup {NoAddr} : \E l \in Lists :
               /\ s = <<"run", k, a, l>>
               /\ k \in {"rcpt", "again"} => a \in Addrs
<1>1. ASSUME NEW k \in {"rcpt", "again"}, NEW a \in Addrs, NEW l \in Lists,
             s = <<"run", k, a, l>>
      PROVE  \E kk \in {"rcpt", "again", "conn", "sender", "body"} :
             \E aa \in Addrs \cup {NoAddr} : \E ll \in Lists :
               /\ s = <<"run", kk, aa, ll>>
               /\ kk \in {"rcpt", "again"} => aa \in Addrs
  BY <1>1
<1>2. ASSUME NEW k \in {"conn", "sender", "body"}, NEW l \in Lists,
             s = <<"run", k, NoAddr, l>>
      PROVE  \E kk \in {"rcpt", "again", "conn", "sender", "body"} :
             \E aa \in Addrs \cup {NoAddr} : \E ll \in Lists :
               /\ s = <<"run", kk, aa, ll>>
               /\ kk \in {"rcpt", "again"} => aa \in Addrs
  <2>1. k \notin {"rcpt", "again"} /\ k \in {"rcpt", "again", "conn", "sender", "body"}
    OBVIOUS
  <2> QED BY <1>2, <2>1
<1>3. \/ \E k \in {"rcpt", "again"} : \E a \in Addrs : \E l \in Lists : s = <<"run", k, a, l>>
      \/ \E k \in {"conn", "sender", "body"} : \E l \in Lists : s = <<"run", k, NoAddr, l>>
  BY DEF Runs
<1> QED BY <1>1, <1>2, <1>3

\* A list of checks has checks.
LEMMA ListElems ==
    ASSUME NEW l \in Lists
    PROVE  Elems(l) \subseteq Checks
<1>1. PICK n \in 0 .. Cardinality(Checks) : l \in [1 .. n -> Checks]
  BY DEF Lists
<1> QED BY <1>1 DEF Elems

\* The lists of the configuration are lists of checks.
LEMMA ConfLists ==
    /\ GlobalChecks \in Lists
    /\ SourceChecks \in Lists
    /\ \A b \in Blocks : BlockChecks[b] \in Lists
  BY ChecksAssumption

\* CheckRcpt and CheckBody.
LEMMA CheckSteps ==
    ASSUME NEW l \in Lists
    PROVE  /\ \A a \in Addrs :
                /\ CheckRcpt(l, a) \in Seq(Steps)
                /\ Elems(CheckRcpt(l, a)) = {<<"states", l>>, <<"run", "rcpt", a, l>>}
           /\ CheckBody(l) \in Seq(Steps)
           /\ Elems(CheckBody(l)) = {<<"states", l>>, <<"run", "body", NoAddr, l>>}
<1>1. <<"states", l>> \in Steps
  BY DEF Steps
<1>2. /\ \A a \in Addrs : <<"run", "rcpt", a, l>> \in Runs
      /\ <<"run", "body", NoAddr, l>> \in Runs
  <2>1. "rcpt" \in {"rcpt", "again"} /\ "body" \in {"conn", "sender", "body"}
    OBVIOUS
  <2> QED BY <2>1 DEF Runs
<1>3. /\ \A a \in Addrs : <<"run", "rcpt", a, l>> \in Steps
      /\ <<"run", "body", NoAddr, l>> \in Steps
  BY <1>2 DEF Steps
<1> QED BY <1>1, <1>3 DEF CheckRcpt, CheckBody, Elems

\* The replay: the connection, the sender and the recipients so far are shown
\* to the list, then its new checks are stored.
Replays(l) == {<<"run", "conn", NoAddr, l>>, <<"run", "sender", NoAddr, l>>}
              \cup {<<"run", "again", a, l>> : a \in Addrs}
LEMMA ReplaySteps ==
    ASSUME NEW l \in Lists, NEW n \in SUBSET Checks, checked \in Seq(Addrs)
    PROVE  /\ Replay(l, n) \in Seq(Steps)
           /\ Elems(Replay(l, n)) \subseteq Replays(l) \cup {<<"store", n>>}
           /\ <<"store", n>> \in Elems(Replay(l, n))
<1> DEFINE first == <<<<"run", "conn", NoAddr, l>>, <<"run", "sender", NoAddr, l>>>>
           again == [i \in DOMAIN checked |-> <<"run", "again", checked[i], l>>]
           last == <<<<"store", n>>>>
           front == first \o again
<1>1. Replay(l, n) = front \o last
  BY DEF Replay, Each
<1>2. <<"store", n>> \in Steps
  BY DEF Steps
<1>3. /\ <<"run", "conn", NoAddr, l>> \in Runs /\ <<"run", "sender", NoAddr, l>> \in Runs
      /\ \A a \in Addrs : <<"run", "again", a, l>> \in Runs
  <2>1. "again" \in {"rcpt", "again"} /\ {"conn", "sender"} \subseteq {"conn", "sender", "body"}
    OBVIOUS
  <2> QED BY <2>1 DEF Runs
<1>4. Runs \subseteq Steps
  BY DEF Steps
<1>5. /\ first \in Seq(Steps) /\ last \in Seq(Steps)
      /\ Elems(first) = {<<"run", "conn", NoAddr, l>>, <<"run", "sender", NoAddr, l>>}
      /\ Elems(last) = {<<"store", n>>}
  BY <1>2, <1>3, <1>4 DEF Elems
<1>6. again \in Seq(Steps) /\ Elems(again) \subseteq {<<"run", "again", a, l>> : a \in Addrs}
  <2>1. DOMAIN checked = 1 .. Len(checked) /\ Len(checked) \in Nat
    OBVIOUS
  <2>2. \A i \in DOMAIN checked : checked[i] \in Addrs
    BY <2>1
  <2>3. again \in [1 .. Len(checked) -> Steps]
    BY <2>1, <2>2, <1>3, <1>4
  <2>4. again \in Seq(Steps)
    BY <2>1, <2>3
  <2> QED BY <2>2, <2>4 DEF Elems
<1> HIDE DEF first, again, last
<1>7. front \in Seq(Steps) /\ Elems(front) = Elems(first) \cup Elems(again)
  BY <1>5, <1>6, ConcatElems
<1> HIDE DEF front
<1>8. /\ front \o last \in Seq(Steps)
      /\ Elems(front \o last) = Elems(front) \cup Elems(last)
  BY <1>5, <1>7, ConcatElems
<1> QED BY <1>1, <1>5, <1>6, <1>7, <1>8 DEF Replays

\* A list of checks is asked for their states before it is run.
LEMMA CheckProvided ==
    ASSUME NEW r, NEW C, NEW met, NEW l \in Lists
    PROVE  /\ \A a : Provided(r, C, CheckRcpt(l, a), met)
           /\ Provided(r, C, CheckBody(l), met)
<1>1. \A k, aa : /\ Needs(r, C, <<"states", l>>) = {}
                 /\ Needs(r, C, <<"run", k, aa, l>>) \subseteq Gives(<<"states", l>>)
  BY DEF Needs, Gives
<1>2. ASSUME NEW k, NEW aa
      PROVE  Provided(r, C, <<<<"states", l>>, <<"run", k, aa, l>>>>, met)
  <2> DEFINE list == <<<<"states", l>>, <<"run", k, aa, l>>>>
  <2>1. Len(list) = 2 /\ list[1] = <<"states", l>> /\ list[2] = <<"run", k, aa, l>>
    OBVIOUS
  <2> HIDE DEF list
  <2>2. ASSUME NEW i \in 1 .. Len(list), NEW p \in Needs(r, C, list[i])
        PROVE  \E j \in 1 .. i - 1 : p \in Gives(list[j])
    <3>1. i = 2
      BY <1>1, <2>1, <2>2
    <3>2. 1 \in 1 .. i - 1 /\ p \in Gives(list[1])
      BY <1>1, <2>1, <2>2, <3>1
    <3> QED BY <3>2
  <2> QED BY <2>2 DEF Provided, list
<1> QED BY <1>2 DEF CheckRcpt, CheckBody

\* The same for the body, whether there are addresses or not.
LEMMA BodyListSteps ==
    ASSUME NEW l \in Lists
    PROVE  /\ CheckBody(l) \in Seq(Steps)
           /\ Elems(CheckBody(l)) = {<<"states", l>>, <<"run", "body", NoAddr, l>>}
           /\ \A r, C, met : Provided(r, C, CheckBody(l), met)
  BY CheckSteps, CheckProvided

\* Start.
LEMMA StartSteps ==
    LET list == <<<<"states", GlobalChecks>>, <<"globalMods">>,
                  <<"states", SourceChecks>>, <<"sourceMods">>>>
    IN  /\ list \in Seq(Steps)
        /\ Elems(list) = {<<"states", GlobalChecks>>, <<"globalMods">>,
                          <<"states", SourceChecks>>, <<"sourceMods">>}
        /\ \A r, met : Provided(r, {}, list, met)
<1> DEFINE list == <<<<"states", GlobalChecks>>, <<"globalMods">>,
                     <<"states", SourceChecks>>, <<"sourceMods">>>>
<1>1. <<"states", GlobalChecks>> \in Steps /\ <<"states", SourceChecks>> \in Steps
  BY ConfLists DEF Steps
<1>2. <<"globalMods">> \in Steps /\ <<"sourceMods">> \in Steps
  BY DEF Steps, Singles
<1>3. /\ list \in Seq(Steps)
      /\ Elems(list) = {<<"states", GlobalChecks>>, <<"globalMods">>,
                        <<"states", SourceChecks>>, <<"sourceMods">>}
  BY <1>1, <1>2 DEF Elems
<1>4. ASSUME NEW r, NEW s \in Elems(list) PROVE Needs(r, {}, s) = {}
  BY <1>3 DEF Needs
<1> HIDE DEF list
<1>5. \A r, met : Provided(r, {}, list, met)
  BY <1>3, <1>4, ProvidedFree
<1> QED BY <1>3, <1>5 DEF list

\* AddRcpt: the checks of the pipeline and the source block see the recipient
\* before it is rewritten.
AddSteps(r) == CheckRcpt(GlobalChecks, r) \o CheckRcpt(SourceChecks, r)
               \o <<<<"rewrite">>>>
LEMMA AddStepsOrder ==
    ASSUME NEW r \in Addrs, NEW met
    PROVE  /\ AddSteps(r) \in Seq(Steps)
           /\ Elems(AddSteps(r)) =
                {<<"states", GlobalChecks>>, <<"run", "rcpt", r, GlobalChecks>>,
                 <<"states", SourceChecks>>, <<"run", "rcpt", r, SourceChecks>>,
                 <<"rewrite">>}
           /\ Provided(r, {}, AddSteps(r), met)
<1> DEFINE f == CheckRcpt(GlobalChecks, r)
           g == CheckRcpt(SourceChecks, r)
           fg == f \o g
           last == <<<<"rewrite">>>>
<1>1. /\ f \in Seq(Steps) /\ g \in Seq(Steps)
      /\ Elems(f) = {<<"states", GlobalChecks>>, <<"run", "rcpt", r, GlobalChecks>>}
      /\ Elems(g) = {<<"states", SourceChecks>>, <<"run", "rcpt", r, SourceChecks>>}
      /\ \A m : Provided(r, {}, f, m) /\ Provided(r, {}, g, m)
  BY ConfLists, CheckSteps, CheckProvided
<1>2. last \in Seq(Steps) /\ Elems(last) = {<<"rewrite">>}
  <2>1. <<"rewrite">> \in Steps
    BY DEF Steps, Singles
  <2> QED BY <2>1 DEF Elems
<1>3. AddSteps(r) = fg \o last
  BY DEF AddSteps
<1> HIDE DEF f, g, last
<1>4. fg \in Seq(Steps) /\ Elems(fg) = Elems(f) \cup Elems(g)
  BY <1>1, ConcatElems
<1>5. Provided(r, {}, fg, met)
  BY <1>1, ProvidedConcat
<1> HIDE DEF fg
<1>6. Shown(r) \subseteq GivesAll(fg)
  <2>1. /\ Gives(<<"run", "rcpt", r, GlobalChecks>>) \subseteq GivesAll(fg)
        /\ Gives(<<"run", "rcpt", r, SourceChecks>>) \subseteq GivesAll(fg)
    BY <1>1, <1>4, GivesElems
  <2>2. Shown(r) \subseteq Gives(<<"run", "rcpt", r, GlobalChecks>>)
                           \cup Gives(<<"run", "rcpt", r, SourceChecks>>)
    BY DEF Shown, Gives
  <2> QED BY <2>1, <2>2
<1>7. Needs(r, {}, <<"rewrite">>) \subseteq Shown(r)
  BY DEF Needs
<1>8. Provided(r, {}, last, met \cup GivesAll(fg))
  BY <1>2, <1>6, <1>7, ProvidedFree
<1>9. Provided(r, {}, fg \o last, met)
  BY <1>2, <1>4, <1>5, <1>8, ProvidedConcat
<1>10. fg \o last \in Seq(Steps) /\ Elems(fg \o last) = Elems(fg) \cup Elems(last)
  BY <1>2, <1>4, ConcatElems
<1> QED BY <1>1, <1>2, <1>3, <1>4, <1>9, <1>10

\* Route: the checks of the block see the address before the block rewrites
\* it.
RouteSteps(b, a) == CheckRcpt(BlockChecks[b], a)
                    \o <<<<"mods", b>>, <<"rewriteIn", b, a>>>>
LEMMA RouteStepsOrder ==
    ASSUME NEW r, NEW b \in Blocks, NEW a \in Addrs, NEW met,
           Shown(r) \subseteq met
    PROVE  /\ RouteSteps(b, a) \in Seq(Steps)
           /\ Elems(RouteSteps(b, a)) =
                {<<"states", BlockChecks[b]>>, <<"run", "rcpt", a, BlockChecks[b]>>,
                 <<"mods", b>>, <<"rewriteIn", b, a>>}
           /\ Provided(r, {}, RouteSteps(b, a), met)
<1> DEFINE f == CheckRcpt(BlockChecks[b], a)
           last == <<<<"mods", b>>, <<"rewriteIn", b, a>>>>
<1>1. /\ f \in Seq(Steps)
      /\ Elems(f) = {<<"states", BlockChecks[b]>>, <<"run", "rcpt", a, BlockChecks[b]>>}
      /\ Provided(r, {}, f, met)
  BY ConfLists, CheckSteps, CheckProvided
<1>2. last \in Seq(Steps) /\ Elems(last) = {<<"mods", b>>, <<"rewriteIn", b, a>>}
  <2>1. <<"mods", b>> \in Steps /\ <<"rewriteIn", b, a>> \in Steps
    BY DEF Steps
  <2> QED BY <2>1 DEF Elems
<1>3. RouteSteps(b, a) = f \o last
  BY DEF RouteSteps
<1> HIDE DEF f, last
<1>4. ShownIn(b, a) \subseteq GivesAll(f)
  <2>1. Gives(<<"run", "rcpt", a, BlockChecks[b]>>) \subseteq GivesAll(f)
    BY <1>1, GivesElems
  <2>2. ShownIn(b, a) \subseteq Gives(<<"run", "rcpt", a, BlockChecks[b]>>)
    BY DEF ShownIn, Gives
  <2> QED BY <2>1, <2>2
<1>5. /\ Needs(r, {}, <<"mods", b>>) = {}
      /\ Needs(r, {}, <<"rewriteIn", b, a>>) \subseteq Shown(r) \cup ShownIn(b, a)
  BY DEF Needs
<1>6. Provided(r, {}, last, met \cup GivesAll(f))
  BY <1>2, <1>4, <1>5, ProvidedFree
<1>7. Provided(r, {}, f \o last, met)
  BY <1>1, <1>2, <1>6, ProvidedConcat
<1>8. f \o last \in Seq(Steps) /\ Elems(f \o last) = Elems(f) \cup Elems(last)
  BY <1>1, <1>2, ConcatElems
<1> QED BY <1>1, <1>2, <1>3, <1>7, <1>8

\* The addresses of a recipient.
LEMMA RouteList ==
    ASSUME NEW r \in Rcpts
    PROVE  LET list == Each(Rewritten[r], LAMBDA y : <<"route", y>>)
           IN  /\ list \in Seq(Steps)
               /\ Elems(list) = {<<"route", y>> : y \in Elems(Rewritten[r])}
<1> DEFINE L == Rewritten[r]
           list == [i \in DOMAIN L |-> <<"route", L[i]>>]
<1>1. L \in Seq(Addrs)
  BY AddrsAssumption
<1> HIDE DEF L
<1>2. /\ DOMAIN L = 1 .. Len(L) /\ Len(L) \in Nat
      /\ \A i \in DOMAIN L : L[i] \in Addrs
  BY <1>1
<1>3. \A y \in Addrs : <<"route", y>> \in Steps
  BY DEF Steps
<1>4. list \in [1 .. Len(L) -> Steps]
  BY <1>2, <1>3
<1>5. list \in Seq(Steps)
  BY <1>2, <1>4
<1>6. Elems(list) = {<<"route", y>> : y \in Elems(L)}
  BY DEF Elems
<1> QED BY <1>5, <1>6 DEF Each, L

\* The addresses a block makes of one, and the targets of a block.
LEMMA FanOut ==
    ASSUME NEW b \in Blocks, NEW a \in Addrs, NEW x \in Addrs
    PROVE  /\ LET list == Each(RcptRewritten[a], LAMBDA y : <<"passOn", y, b, a>>)
              IN  /\ list \in Seq(Steps)
                  /\ Elems(list) = {<<"passOn", y, b, a>> :
                                      y \in Elems(RcptRewritten[a])}
           /\ LET list == Each(TargetsOf[b], LAMBDA t : <<"pass", t, x, b, a>>)
              IN  /\ list \in Seq(Steps)
                  /\ Elems(list) = {<<"pass", t, x, b, a>> :
                                      t \in Elems(TargetsOf[b])}
<1>2. LET list == Each(RcptRewritten[a], LAMBDA y : <<"passOn", y, b, a>>)
      IN  /\ list \in Seq(Steps)
          /\ Elems(list) = {<<"passOn", y, b, a>> : y \in Elems(RcptRewritten[a])}
  <2> DEFINE L == RcptRewritten[a]
             list == [i \in DOMAIN L |-> <<"passOn", L[i], b, a>>]
  <2>1. L \in Seq(Addrs)
    BY AddrsAssumption
  <2> HIDE DEF L
  <2>2. /\ DOMAIN L = 1 .. Len(L) /\ Len(L) \in Nat
        /\ \A i \in DOMAIN L : L[i] \in Addrs
    BY <2>1
  <2>3. \A y \in Addrs : <<"passOn", y, b, a>> \in Steps
    BY DEF Steps
  <2>4. list \in [1 .. Len(L) -> Steps]
    BY <2>2, <2>3
  <2>5. list \in Seq(Steps)
    BY <2>2, <2>4
  <2>6. Elems(list) = {<<"passOn", y, b, a>> : y \in Elems(L)}
    BY DEF Elems
  <2> QED BY <2>5, <2>6 DEF Each, L
<1>3. LET list == Each(TargetsOf[b], LAMBDA t : <<"pass", t, x, b, a>>)
      IN  /\ list \in Seq(Steps)
          /\ Elems(list) = {<<"pass", t, x, b, a>> : t \in Elems(TargetsOf[b])}
  <2> DEFINE L == TargetsOf[b]
             list == [i \in DOMAIN L |-> <<"pass", L[i], x, b, a>>]
  <2>1. L \in Seq(Targets)
    BY TargetsAssumption
  <2> HIDE DEF L
  <2>2. /\ DOMAIN L = 1 .. Len(L) /\ Len(L) \in Nat
        /\ \A i \in DOMAIN L : L[i] \in Targets
    BY <2>1
  <2>3. \A t \in Targets : <<"pass", t, x, b, a>> \in Steps
    BY DEF Steps
  <2>4. list \in [1 .. Len(L) -> Steps]
    BY <2>2, <2>3
  <2>5. list \in Seq(Steps)
    BY <2>2, <2>4
  <2>6. Elems(list) = {<<"pass", t, x, b, a>> : t \in Elems(L)}
    BY DEF Elems
  <2> QED BY <2>5, <2>6 DEF Each, L
<1> QED BY <1>2, <1>3

\* The targets, one by one.
LEMMA TargetSteps ==
    ASSUME NEW S \in SUBSET Targets, NEW out \in Orders(S),
           NEW op \in {"send", "commit", "abort"}
    PROVE  LET list == Each(out, LAMBDA t : <<op, t>>)
           IN  list \in Seq(Steps) /\ Elems(list) = {<<op, t>> : t \in S}
<1> DEFINE list == [i \in DOMAIN out |-> <<op, out[i]>>]
<1>1. IsFiniteSet(S)
  BY TargetsAssumption, FS_Subset
<1>2. out \in Seq(S) /\ Elems(out) = S
  BY <1>1, OrdersCover
<1>3. /\ DOMAIN out = 1 .. Len(out) /\ Len(out) \in Nat
      /\ \A i \in DOMAIN out : out[i] \in Targets
  BY <1>2
<1>4. \A t \in Targets : <<op, t>> \in Steps
  BY DEF Steps
<1>5. list \in [1 .. Len(out) -> Steps]
  BY <1>3, <1>4
<1>6. list \in Seq(Steps)
  BY <1>3, <1>5
<1>7. Elems(list) = {<<op, t>> : t \in Elems(out)}
  BY DEF Elems
<1> QED BY <1>2, <1>6, <1>7 DEF Each

\* The recipient blocks, one by one.
LEMMA BlockSteps ==
    ASSUME NEW S \in SUBSET Blocks, NEW order \in Orders(S)
    PROVE  /\ LET list == Each(order, LAMBDA b : <<"bodyIn", b>>)
              IN  list \in Seq(Steps) /\ Elems(list) = {<<"bodyIn", b>> : b \in S}
           /\ LET list == Each(order, LAMBDA b : <<"rewriteBody", b>>)
              IN  list \in Seq(Steps) /\ Elems(list) = {<<"rewriteBody", b>> : b \in S}
<1>1. IsFiniteSet(S)
  BY TargetsAssumption, FS_Subset
<1>2. order \in Seq(S) /\ Elems(order) = S
  BY <1>1, OrdersCover
<1>3. /\ DOMAIN order = 1 .. Len(order) /\ Len(order) \in Nat
      /\ \A i \in DOMAIN order : order[i] \in Blocks
  BY <1>2
<1>4. \A b \in Blocks : <<"bodyIn", b>> \in Steps /\ <<"rewriteBody", b>> \in Steps
  <2>1. \A b \in Blocks : b \in Groups
    BY DEF Groups
  <2> QED BY <2>1 DEF Steps
<1> DEFINE f == [i \in DOMAIN order |-> <<"bodyIn", order[i]>>]
           g == [i \in DOMAIN order |-> <<"rewriteBody", order[i]>>]
<1>5. f \in [1 .. Len(order) -> Steps] /\ g \in [1 .. Len(order) -> Steps]
  BY <1>3, <1>4
<1>6. f \in Seq(Steps) /\ g \in Seq(Steps)
  BY <1>3, <1>5
<1>7. /\ Elems(f) = {<<"bodyIn", b>> : b \in Elems(order)}
      /\ Elems(g) = {<<"rewriteBody", b>> : b \in Elems(order)}
  BY DEF Elems
<1> QED BY <1>2, <1>6, <1>7 DEF Each

\* Commit and Abort close first.
FinishSteps(op, out) == <<<<"close">>>> \o Each(out, LAMBDA t : <<op, t>>)
LEMMA FinishOrder ==
    ASSUME NEW S \in SUBSET Targets, NEW out \in Orders(S),
           NEW op \in {"commit", "abort"}
    PROVE  /\ FinishSteps(op, out) \in Seq(Steps)
           /\ Elems(FinishSteps(op, out)) = {<<"close">>} \cup {<<op, t>> : t \in S}
           /\ Closing(FinishSteps(op, out))
           /\ \A r, met : Provided(r, {}, FinishSteps(op, out), met)
<1> DEFINE f == <<<<"close">>>>
           g == Each(out, LAMBDA t : <<op, t>>)
<1>1. op \in {"send", "commit", "abort"}
  OBVIOUS
<1>2. g \in Seq(Steps) /\ Elems(g) = {<<op, t>> : t \in S}
  BY <1>1, TargetSteps
<1>3. f \in Seq(Steps) /\ Elems(f) = {<<"close">>} /\ Len(f) = 1 /\ f[1] = <<"close">>
  <2>1. <<"close">> \in Steps
    BY DEF Steps, Singles
  <2> QED BY <2>1 DEF Elems
<1>4. FinishSteps(op, out) = f \o g
  BY DEF FinishSteps
<1> HIDE DEF f, g
<1>5. /\ f \o g \in Seq(Steps)
      /\ Len(f \o g) = 1 + Len(g)
      /\ (f \o g)[1] = <<"close">>
      /\ \A i \in 1 .. Len(g) : (f \o g)[1 + i] = g[i]
      /\ Elems(f \o g) = Elems(f) \cup Elems(g)
  BY <1>2, <1>3, ConcatElems
<1> DEFINE fg == f \o g
<1>6. PICK n \in Nat : n = Len(g)
  BY <1>2
<1> HIDE DEF fg
<1>7. fg # <<>> /\ Len(fg) = n + 1 /\ fg \in Seq(Steps)
  BY <1>5, <1>6 DEF fg
<1>8. /\ Head(fg) = fg[1]
      /\ Len(Tail(fg)) = n
      /\ \A i \in 1 .. n : Tail(fg)[i] = fg[i + 1]
      /\ Tail(fg) \in Seq(Steps)
  BY <1>7, TailElems
<1>9. Elems(Tail(fg)) \subseteq Elems(g)
  <2>1. ASSUME NEW s \in Elems(Tail(fg)) PROVE s \in Elems(g)
    <3>1. PICK i \in 1 .. n : s = Tail(fg)[i]
      BY <1>8 DEF Elems
    <3>2. s = g[i]
      <4>1. fg[i + 1] = g[i]
        BY <1>5, <1>6 DEF fg
      <4> QED BY <3>1, <4>1, <1>8
    <3>3. i \in DOMAIN g
      BY <1>2, <1>6
    <3> QED BY <3>2, <3>3 DEF Elems
  <2> QED BY <2>1
<1>10. Closing(fg)
  <2>1. \A s \in Elems(g) : s[1] # "close"
    BY <1>2
  <2> QED BY <1>5, <1>7, <1>8, <1>9, <2>1 DEF Closing, fg
<1>11. ASSUME NEW r, NEW s \in Elems(fg) PROVE Needs(r, {}, s) = {}
  <2>1. s = <<"close">> \/ \E t \in S : s = <<op, t>>
    BY <1>2, <1>3, <1>5 DEF fg
  <2>2. s[1] \in {"close", "commit", "abort"}
    BY <2>1
  <2> QED BY <2>2 DEF Needs
<1>12. \A r, met : Provided(r, {}, fg, met)
  BY <1>7, <1>11, ProvidedFree
<1> QED BY <1>2, <1>3, <1>4, <1>5, <1>10, <1>12 DEF fg

\* Modifiers and targets after applyResults.
LEMMA SplitAppend ==
    ASSUME NEW f \in Seq(Steps), NEW g \in Seq(Steps), NEW k \in 1 .. Len(f),
           Split(f, k), \A s \in Elems(g) : s[1] \in LateKinds
    PROVE  k \in 1 .. Len(f \o g) /\ Split(f \o g, k)
<1>1. /\ Len(f) \in Nat /\ Len(g) \in Nat
      /\ Len(f \o g) = Len(f) + Len(g)
      /\ \A i \in 1 .. Len(f) : (f \o g)[i] = f[i]
      /\ \A i \in 1 .. Len(g) : (f \o g)[Len(f) + i] = g[i]
  BY ConcatElems
<1>2. ASSUME NEW i \in 1 .. k - 1 PROVE (f \o g)[i][1] \in CheckKinds
  <2>1. i \in 1 .. Len(f) /\ f[i][1] \in CheckKinds
    BY <1>1 DEF Split
  <2> QED BY <1>1, <2>1
<1>3. ASSUME NEW i \in k + 1 .. Len(f \o g) PROVE (f \o g)[i][1] \in LateKinds
  <2>1. CASE i <= Len(f)
    <3>1. i \in k + 1 .. Len(f) /\ i \in 1 .. Len(f)
      BY <1>1, <2>1
    <3> QED BY <1>1, <3>1 DEF Split
  <2>2. CASE ~(i <= Len(f))
    <3>1. i - Len(f) \in 1 .. Len(g) /\ Len(f) + (i - Len(f)) = i
      BY <1>1, <2>2
    <3>2. (f \o g)[i] = g[i - Len(f)] /\ g[i - Len(f)] \in Elems(g)
      BY <1>1, <3>1 DEF Elems
    <3> QED BY <3>2
  <2> QED BY <2>1, <2>2
<1>4. k \in 1 .. Len(f \o g) /\ (f \o g)[k] = f[k]
  BY <1>1
<1> QED BY <1>2, <1>3, <1>4 DEF Split

\* RewriteBody of the modifiers.
LEMMA RewriteSteps ==
    ASSUME NEW S \in SUBSET Blocks, NEW order \in Orders(S)
    PROVE  /\ RewriteBodies(order) \in Seq(Steps)
           /\ \A s \in Elems(RewriteBodies(order)) : s[1] = "rewriteBody"
<1> DEFINE f == <<<<"rewriteBody", "global">>, <<"rewriteBody", "source">>>>
           g == Each(order, LAMBDA b : <<"rewriteBody", b>>)
<1>1. g \in Seq(Steps) /\ Elems(g) = {<<"rewriteBody", b>> : b \in S}
  BY BlockSteps
<1>2. f \in Seq(Steps) /\ Elems(f) = {<<"rewriteBody", "global">>, <<"rewriteBody", "source">>}
  <2>1. "global" \in Groups /\ "source" \in Groups
    BY DEF Groups
  <2>2. <<"rewriteBody", "global">> \in Steps /\ <<"rewriteBody", "source">> \in Steps
    BY <2>1 DEF Steps
  <2> QED BY <2>2 DEF Elems
<1>3. RewriteBodies(order) = f \o g
  BY DEF RewriteBodies
<1> HIDE DEF f, g
<1>4. f \o g \in Seq(Steps) /\ Elems(f \o g) = Elems(f) \cup Elems(g)
  BY <1>1, <1>2, ConcatElems
<1>5. \A s \in Elems(f) \cup Elems(g) : s[1] = "rewriteBody"
  BY <1>1, <1>2
<1> QED BY <1>3, <1>4, <1>5

\* The facts that the checks C were shown the body.
BodyShown(C) == {p \in Facts : p[1] = "body" /\ p[2] \in C}

\* The checks of the pipeline and the source block see the body.
LEMMA FirstBodyChecks ==
    ASSUME NEW r, NEW C, NEW met
    PROVE  LET list == CheckBody(GlobalChecks) \o CheckBody(SourceChecks)
           IN  /\ list \in Seq(Steps)
               /\ Elems(list) = {<<"states", GlobalChecks>>,
                                 <<"run", "body", NoAddr, GlobalChecks>>,
                                 <<"states", SourceChecks>>,
                                 <<"run", "body", NoAddr, SourceChecks>>}
               /\ Provided(r, C, list, met)
<1> DEFINE f == CheckBody(GlobalChecks)
           g == CheckBody(SourceChecks)
<1>1. /\ f \in Seq(Steps) /\ g \in Seq(Steps)
      /\ Elems(f) = {<<"states", GlobalChecks>>, <<"run", "body", NoAddr, GlobalChecks>>}
      /\ Elems(g) = {<<"states", SourceChecks>>, <<"run", "body", NoAddr, SourceChecks>>}
      /\ \A m : Provided(r, C, f, m) /\ Provided(r, C, g, m)
  <2>1. ASSUME NEW l \in Lists
        PROVE  /\ CheckBody(l) \in Seq(Steps)
               /\ Elems(CheckBody(l)) = {<<"states", l>>, <<"run", "body", NoAddr, l>>}
               /\ \A m : Provided(r, C, CheckBody(l), m)
    BY BodyListSteps
  <2> QED BY <2>1, ConfLists
<1> HIDE DEF f, g
<1>2. f \o g \in Seq(Steps) /\ Elems(f \o g) = Elems(f) \cup Elems(g)
  BY <1>1, ConcatElems
<1>3. Provided(r, C, f \o g, met)
  BY <1>1, ProvidedConcat
<1> QED BY <1>1, <1>2, <1>3 DEF f, g

\* Body: every check of the blocks in use sees the body before any target
\* does, with applyResults in between.
BodySteps(order, again, out) ==
    BodyChecks(order) \o <<<<"apply">>>> \o RewriteBodies(again)
    \o Each(out, LAMBDA t : <<"send", t>>)
LEMMA BodyOrder ==
    ASSUME NEW r, NEW met, NEW S \in SUBSET Blocks, NEW T \in SUBSET Targets,
           NEW order \in Orders(S), NEW again \in Orders(S),
           NEW out \in Orders(T)
    PROVE  LET list == BodySteps(order, again, out)
           IN  /\ list \in Seq(Steps)
               /\ \A s \in Elems(list) : s[1] \in KindsOf("body")
               /\ {<<"send", t>> : t \in T} \subseteq Elems(list)
               /\ Provided(r, ChecksOf(S), list, met)
               /\ \E k \in 1 .. Len(list) : Split(list, k)
<1>0. PICK C : C = ChecksOf(S)
  OBVIOUS
<1> DEFINE f == CheckBody(GlobalChecks) \o CheckBody(SourceChecks)
           g == Each(order, LAMBDA b : <<"bodyIn", b>>)
           fg == f \o g
           a == <<<<"apply">>>>
           fga == fg \o a
           h == RewriteBodies(again)
           fgah == fga \o h
           z == Each(out, LAMBDA t : <<"send", t>>)
<1>1. BodySteps(order, again, out) = fgah \o z
  BY DEF BodySteps, BodyChecks
<1>2. /\ f \in Seq(Steps)
      /\ Elems(f) = {<<"states", GlobalChecks>>,
                     <<"run", "body", NoAddr, GlobalChecks>>,
                     <<"states", SourceChecks>>,
                     <<"run", "body", NoAddr, SourceChecks>>}
      /\ Provided(r, C, f, met)
  BY FirstBodyChecks
<1>3. g \in Seq(Steps) /\ Elems(g) = {<<"bodyIn", b>> : b \in S}
  BY BlockSteps
<1>4. a \in Seq(Steps) /\ Elems(a) = {<<"apply">>} /\ Len(a) = 1 /\ a[1] = <<"apply">>
  <2>1. <<"apply">> \in Steps
    BY DEF Steps, Singles
  <2> QED BY <2>1 DEF Elems
<1>5. h \in Seq(Steps) /\ \A s \in Elems(h) : s[1] = "rewriteBody"
  BY RewriteSteps
<1>6. z \in Seq(Steps) /\ Elems(z) = {<<"send", t>> : t \in T}
  BY TargetSteps
<1> HIDE DEF f, g, a, h, z
<1>7. fg \in Seq(Steps) /\ Elems(fg) = Elems(f) \cup Elems(g)
  BY <1>2, <1>3, ConcatElems
<1>8. Provided(r, C, fg, met)
  <2>1. \A s \in Elems(g) : Needs(r, C, s) = {}
    BY <1>3 DEF Needs
  <2>2. Provided(r, C, g, met \cup GivesAll(f))
    BY <1>3, <2>1, ProvidedFree
  <2> QED BY <1>2, <1>3, <2>2, ProvidedConcat
<1> HIDE DEF fg
<1>9. fga \in Seq(Steps) /\ Elems(fga) = Elems(fg) \cup Elems(a)
  BY <1>4, <1>7, ConcatElems
<1>10. Provided(r, C, fga, met)
  <2>1. \A s \in Elems(a) : Needs(r, C, s) = {}
    BY <1>4 DEF Needs
  <2>2. Provided(r, C, a, met \cup GivesAll(fg))
    BY <1>4, <2>1, ProvidedFree
  <2> QED BY <1>4, <1>7, <1>8, <2>2, ProvidedConcat
<1>11. PICK k \in 1 .. Len(fga) : Split(fga, k)
  <2>1. \A s \in Elems(fg) : s[1] \in CheckKinds
    BY <1>2, <1>3, <1>7 DEF CheckKinds
  <2>2. 1 \in 1 .. Len(a) /\ Split(a, 1)
    BY <1>4 DEF Split
  <2>3. Len(fg) + 1 \in 1 .. Len(fga) /\ Split(fga, Len(fg) + 1)
    BY <1>4, <1>7, <2>1, <2>2, SplitConcat
  <2> QED BY <2>3
<1> HIDE DEF fga
<1>12. fgah \in Seq(Steps) /\ Elems(fgah) = Elems(fga) \cup Elems(h)
  BY <1>5, <1>9, ConcatElems
<1>13. Provided(r, C, fgah, met)
  <2>1. \A s \in Elems(h) : Needs(r, C, s) = {}
    BY <1>5 DEF Needs
  <2>2. Provided(r, C, h, met \cup GivesAll(fga))
    BY <1>5, <2>1, ProvidedFree
  <2> QED BY <1>5, <1>9, <1>10, <2>2, ProvidedConcat
<1>14. k \in 1 .. Len(fgah) /\ Split(fgah, k)
  <2>1. \A s \in Elems(h) : s[1] \in LateKinds
    BY <1>5 DEF LateKinds
  <2> QED BY <1>5, <1>9, <1>11, <2>1, SplitAppend
<1> HIDE DEF fgah
<1>15. BodyShown(C) \subseteq GivesAll(fgah)
  <2>1. Elems(f) \cup Elems(g) \subseteq Elems(fgah)
    BY <1>7, <1>9, <1>12
  <2>2. \A s \in Elems(f) \cup Elems(g) : Gives(s) \subseteq GivesAll(fgah)
    BY <2>1, <1>12, GivesElems
  <2>3. ASSUME NEW p \in BodyShown(C) PROVE \E s \in Elems(f) \cup Elems(g) : p \in Gives(s)
    <3>1. p \in Facts /\ p[1] = "body" /\ p[2] \in C
      BY DEF BodyShown
    <3>2. CASE p[2] \in Elems(GlobalChecks)
      <4>1. p \in Gives(<<"run", "body", NoAddr, GlobalChecks>>)
        BY <3>1, <3>2 DEF Gives
      <4> QED BY <4>1, <1>2
    <3>3. CASE p[2] \in Elems(SourceChecks)
      <4>1. p \in Gives(<<"run", "body", NoAddr, SourceChecks>>)
        BY <3>1, <3>3 DEF Gives
      <4> QED BY <4>1, <1>2
    <3>4. ASSUME NEW b \in S, p[2] \in Elems(BlockChecks[b])
          PROVE  \E s \in Elems(f) \cup Elems(g) : p \in Gives(s)
      <4>1. p \in Gives(<<"bodyIn", b>>)
        BY <3>1, <3>4 DEF Gives
      <4> QED BY <4>1, <1>3
    <3> QED BY <1>0, <3>1, <3>2, <3>3, <3>4 DEF ChecksOf
  <2> QED BY <2>2, <2>3
<1>16. Provided(r, C, z, met \cup GivesAll(fgah))
  <2>1. \A s \in Elems(z) : Needs(r, C, s) \subseteq BodyShown(C)
    BY <1>6 DEF Needs, BodyShown
  <2> QED BY <1>6, <1>15, <2>1, ProvidedFree
<1>17. Provided(r, C, fgah \o z, met)
  BY <1>6, <1>12, <1>13, <1>16, ProvidedConcat
<1>18. k \in 1 .. Len(fgah \o z) /\ Split(fgah \o z, k)
  <2>1. \A s \in Elems(z) : s[1] \in LateKinds
    BY <1>6 DEF LateKinds
  <2> QED BY <1>6, <1>12, <1>14, <2>1, SplitAppend
<1>19. fgah \o z \in Seq(Steps) /\ Elems(fgah \o z) = Elems(fgah) \cup Elems(z)
  BY <1>6, <1>12, ConcatElems
<1>20. \A s \in Elems(fgah \o z) : s[1] \in KindsOf("body")
  <2>1. KindsOf("body") = {"states", "store", "run", "bodyIn", "apply", "rewriteBody", "send"}
    BY DEF KindsOf
  <2>2. \A s \in Elems(f) \cup Elems(g) \cup Elems(a) : s[1] \in {"states", "run", "bodyIn", "apply"}
    BY <1>2, <1>3, <1>4
  <2>3. \A s \in Elems(h) \cup Elems(z) : s[1] \in {"rewriteBody", "send"}
    BY <1>5, <1>6
  <2> QED BY <2>1, <2>2, <2>3, <1>7, <1>9, <1>12, <1>19
<1> QED BY <1>0, <1>1, <1>6, <1>17, <1>18, <1>19, <1>20

\* BodyNonAtomic: the same without the checks of the blocks.
NonAtomicSteps(order, out) ==
    CheckBody(GlobalChecks) \o CheckBody(SourceChecks)
    \o RewriteBodies(order) \o Each(out, LAMBDA t : <<"send", t>>)
LEMMA NonAtomicOrder ==
    ASSUME NEW r, NEW met, NEW S \in SUBSET Blocks, NEW T \in SUBSET Targets,
           NEW order \in Orders(S), NEW out \in Orders(T)
    PROVE  LET list == NonAtomicSteps(order, out)
           IN  /\ list \in Seq(Steps)
               /\ \A s \in Elems(list) : s[1] \in KindsOf("nonatomic")
               /\ {<<"send", t>> : t \in T} \subseteq Elems(list)
               /\ Provided(r, {}, list, met)
<1> DEFINE f == CheckBody(GlobalChecks) \o CheckBody(SourceChecks)
           h == RewriteBodies(order)
           fh == f \o h
           z == Each(out, LAMBDA t : <<"send", t>>)
<1>1. NonAtomicSteps(order, out) = fh \o z
  BY DEF NonAtomicSteps
<1>2. /\ f \in Seq(Steps)
      /\ Elems(f) = {<<"states", GlobalChecks>>,
                     <<"run", "body", NoAddr, GlobalChecks>>,
                     <<"states", SourceChecks>>,
                     <<"run", "body", NoAddr, SourceChecks>>}
      /\ Provided(r, {}, f, met)
  BY FirstBodyChecks
<1>3. h \in Seq(Steps) /\ \A s \in Elems(h) : s[1] = "rewriteBody"
  BY RewriteSteps
<1>4. z \in Seq(Steps) /\ Elems(z) = {<<"send", t>> : t \in T}
  BY TargetSteps
<1> HIDE DEF f, h, z
<1>5. fh \in Seq(Steps) /\ Elems(fh) = Elems(f) \cup Elems(h)
  BY <1>2, <1>3, ConcatElems
<1>6. Provided(r, {}, fh, met)
  <2>1. \A s \in Elems(h) : Needs(r, {}, s) = {}
    BY <1>3 DEF Needs
  <2>2. Provided(r, {}, h, met \cup GivesAll(f))
    BY <1>3, <2>1, ProvidedFree
  <2> QED BY <1>2, <1>3, <2>2, ProvidedConcat
<1> HIDE DEF fh
<1>7. Provided(r, {}, fh \o z, met)
  <2>1. \A s \in Elems(z) : Needs(r, {}, s) = {}
    BY <1>4 DEF Needs
  <2>2. Provided(r, {}, z, met \cup GivesAll(fh))
    BY <1>4, <2>1, ProvidedFree
  <2> QED BY <1>4, <1>5, <1>6, <2>2, ProvidedConcat
<1>8. fh \o z \in Seq(Steps) /\ Elems(fh \o z) = Elems(fh) \cup Elems(z)
  BY <1>4, <1>5, ConcatElems
<1>9. \A s \in Elems(fh \o z) : s[1] \in KindsOf("nonatomic")
  <2>1. KindsOf("nonatomic") = {"states", "store", "run", "rewriteBody", "send", "tell"}
    BY DEF KindsOf
  <2>2. \A s \in Elems(f) : s[1] \in {"states", "run"}
    BY <1>2
  <2>3. \A s \in Elems(h) \cup Elems(z) : s[1] \in {"rewriteBody", "send"}
    BY <1>3, <1>4
  <2> QED BY <2>1, <2>2, <2>3, <1>5, <1>8
<1> QED BY <1>1, <1>4, <1>7, <1>8, <1>9

-----------------------------------------------------------------------------
(***************************************************************************)
(* How a step leaves the list                                              *)
(***************************************************************************)

\* The step that is next, and the methods it may belong to.
LEMMA AtStep ==
    ASSUME MethodTypes, NEW op, At(op)
    PROVE  /\ todo \in Seq(Steps) /\ todo # <<>> /\ phase \in Methods
           /\ Step \in Steps /\ Step \in Elems(todo) /\ Step[1] = op
           /\ op \in KindsOf(phase)
           /\ Tail(todo) \in Seq(Steps)
           /\ Elems(todo) = {Step} \cup Elems(Tail(todo))
<1>1. todo \in Seq(Steps) /\ todo # <<>> /\ phase \in Methods /\ Step[1] = op
  BY DEF MethodTypes, At, Step
<1>2. /\ Step \in Steps /\ Tail(todo) \in Seq(Steps)
      /\ Elems(todo) = {Step} \cup Elems(Tail(todo))
  BY <1>1, TailElems DEF Step
<1> QED BY <1>1, <1>2 DEF MethodTypes

\* An empty list.
LEMMA EmptyList ==
    ASSUME NEW S
    PROVE  /\ <<>> \in Seq(S)
           /\ Elems(<<>>) = {}
           /\ \A list \in Seq(S) : Elems(list) = {} => list = <<>>
           /\ \A r, C, met : Provided(r, C, <<>>, met)
<1>1. <<>> \in Seq(S) /\ Elems(<<>>) = {}
  BY DEF Elems
<1>2. ASSUME NEW list \in Seq(S), Elems(list) = {} PROVE list = <<>>
  <2>1. Len(list) \in Nat /\ DOMAIN list = 1 .. Len(list)
    OBVIOUS
  <2>2. 1 \notin DOMAIN list
    BY <1>2 DEF Elems
  <2> QED BY <2>1, <2>2
<1>3. \A r, C, met : Provided(r, C, <<>>, met)
  BY DEF Provided
<1> QED BY <1>1, <1>2, <1>3

\* What becomes of the method when a step fails.
LEMMA FailMeans ==
    ASSUME Fail, phase \in Methods
    PROVE  /\ phase \in {"starting", "nonatomic", "adding", "body", "committing"}
           /\ phase = "starting" =>
                phase' = "starting" /\ todo' = <<<<"close">>, <<"refuse">>>>
           /\ phase = "nonatomic" => phase' = "nonatomic" /\ todo' = <<<<"tell">>>>
           /\ phase = "adding" => phase' = "ready" /\ todo' = <<>>
           /\ phase = "body" => phase' = "failed" /\ todo' = <<>>
           /\ phase = "committing" => phase' = "brokenCommit" /\ todo' = <<>>
<1>1. CASE phase = "starting" \/ phase = "nonatomic"
  BY <1>1 DEF Fail
<1>2. CASE phase = "adding"
  BY <1>2 DEF Fail
<1>3. CASE phase = "body"
  BY <1>3 DEF Fail
<1>4. CASE phase = "committing"
  BY <1>4 DEF Fail
<1>5. phase \in {"starting", "nonatomic", "adding", "body", "committing"}
  BY DEF Fail
<1> QED BY <1>1, <1>2, <1>3, <1>4, <1>5

\* The two lists a failed step may leave.
LEMMA FailLists ==
    /\ <<<<"close">>, <<"refuse">>>> \in Seq(Steps)
    /\ Elems(<<<<"close">>, <<"refuse">>>>) = {<<"close">>, <<"refuse">>}
    /\ <<<<"tell">>>> \in Seq(Steps)
    /\ Elems(<<<<"tell">>>>) = {<<"tell">>}
    /\ \A r, C, met : Provided(r, C, <<<<"close">>, <<"refuse">>>>, met)
    /\ \A r, C, met : Provided(r, C, <<<<"tell">>>>, met)
<1>1. <<"close">> \in Steps /\ <<"refuse">> \in Steps /\ <<"tell">> \in Steps
  BY DEF Steps, Singles
<1>2. /\ <<<<"close">>, <<"refuse">>>> \in Seq(Steps)
      /\ Elems(<<<<"close">>, <<"refuse">>>>) = {<<"close">>, <<"refuse">>}
      /\ <<<<"tell">>>> \in Seq(Steps)
      /\ Elems(<<<<"tell">>>>) = {<<"tell">>}
  BY <1>1 DEF Elems
<1>3. \A r, C : \A s \in {<<"close">>, <<"refuse">>, <<"tell">>} : Needs(r, C, s) = {}
  BY DEF Needs
<1>4. \A r, C, met : Provided(r, C, <<<<"close">>, <<"refuse">>>>, met)
  BY <1>2, <1>3, ProvidedFree
<1>5. \A r, C, met : Provided(r, C, <<<<"tell">>>>, met)
  BY <1>2, <1>3, ProvidedFree
<1> QED BY <1>2, <1>4, <1>5

LEMMA DoneTypes ==
    ASSUME MethodTypes, NEW op, At(op), Done, cur' = cur
    PROVE  MethodTypes'
<1>1. todo' = Tail(todo) /\ phase' = phase
  BY DEF Done
<1>2. Tail(todo) \in Seq(Steps) /\ Elems(Tail(todo)) \subseteq Elems(todo)
  BY AtStep
<1>3. \A s \in Elems(todo)' : s[1] \in KindsOf(phase)
  BY <1>1, <1>2 DEF MethodTypes, Elems
<1>4. KindsOf(phase)' = KindsOf(phase)
  BY <1>1 DEF KindsOf
<1> QED BY <1>1, <1>2, <1>3, <1>4 DEF MethodTypes

LEMMA ThenTypes ==
    ASSUME MethodTypes, NEW op, At(op), NEW f \in Seq(Steps),
           \A s \in Elems(f) : s[1] \in KindsOf(phase),
           DoneThen(f), cur' = cur
    PROVE  /\ MethodTypes'
           /\ todo' = f \o Tail(todo) /\ phase' = phase
           /\ Elems(todo') = Elems(f) \cup Elems(Tail(todo))
<1>1. todo' = f \o Tail(todo) /\ phase' = phase
  BY DEF DoneThen
<1>2. Tail(todo) \in Seq(Steps) /\ Elems(Tail(todo)) \subseteq Elems(todo)
  BY AtStep
<1>3. /\ f \o Tail(todo) \in Seq(Steps)
      /\ Elems(f \o Tail(todo)) = Elems(f) \cup Elems(Tail(todo))
  BY <1>2, ConcatElems
<1>4. \A s \in Elems(todo') : s[1] \in KindsOf(phase)
  BY <1>1, <1>2, <1>3 DEF MethodTypes
<1>5. \A s \in Elems(todo') : s[1] \in KindsOf(phase')
  BY <1>1, <1>4
<1> QED BY <1>1, <1>3, <1>5 DEF MethodTypes

LEMMA FailTypes ==
    ASSUME MethodTypes, NEW op, At(op), Fail, cur' = cur
    PROVE  MethodTypes'
<1>1. phase \in Methods /\ phase \in Phases
  BY DEF At, MethodTypes
<1>2. CASE phase = "starting"
  <2>1. phase' = "starting" /\ todo' = <<<<"close">>, <<"refuse">>>>
    BY <1>1, <1>2, FailMeans
  <2>2. todo' \in Seq(Steps) /\ Elems(todo') = {<<"close">>, <<"refuse">>}
    BY <2>1, FailLists
  <2>3. \A s \in Elems(todo') : s[1] \in KindsOf(phase')
    BY <2>1, <2>2 DEF KindsOf
  <2> QED BY <1>1, <1>2, <2>1, <2>2, <2>3 DEF MethodTypes
<1>3. CASE phase = "nonatomic"
  <2>1. phase' = "nonatomic" /\ todo' = <<<<"tell">>>>
    BY <1>1, <1>3, FailMeans
  <2>2. todo' \in Seq(Steps) /\ Elems(todo') = {<<"tell">>}
    BY <2>1, FailLists
  <2>3. \A s \in Elems(todo') : s[1] \in KindsOf(phase')
    BY <2>1, <2>2 DEF KindsOf
  <2> QED BY <1>1, <1>3, <2>1, <2>2, <2>3 DEF MethodTypes
<1>4. CASE phase \in {"adding", "body", "committing"}
  <2>1. phase' \in {"ready", "failed", "brokenCommit"} /\ todo' = <<>>
    BY <1>1, <1>4, FailMeans
  <2>2. todo' \in Seq(Steps) /\ Elems(todo') = {}
    BY <2>1, EmptyList
  <2>3. phase' \in Phases /\ phase' # "adding"
    BY <2>1 DEF Phases
  <2> QED BY <2>2, <2>3 DEF MethodTypes
<1> QED BY <1>1, <1>2, <1>3, <1>4, FailMeans

-----------------------------------------------------------------------------
(***************************************************************************)
(* Types                                                                   *)
(***************************************************************************)

LEMMA TypeInit == Init => TypeInv
<1> SUFFICES ASSUME Init PROVE TypeInv
  OBVIOUS
<1>1. RunnerTypes
  BY EmptyList DEF Init, RunnerTypes
<1>2. ModTypes
  BY DEF Init, ModTypes
<1>3. DeliveryTypes
  BY DEF Init, DeliveryTypes
<1>4. HistTypes
  BY DEF Init, HistTypes
<1>5. MethodTypes
  <2>1. todo \in Seq(Steps) /\ Elems(todo) = {}
    BY EmptyList DEF Init
  <2>2. phase \in Phases /\ phase # "adding" /\ cur = NoAddr
    BY DEF Init, Phases
  <2> QED BY <2>1, <2>2 DEF MethodTypes
<1> QED BY <1>1, <1>2, <1>3, <1>4, <1>5 DEF TypeInv

\* The methods a step belongs to.
LEMMA PhaseOf ==
    ASSUME MethodTypes, NEW op, At(op)
    PROVE  /\ op \in {"rewrite", "route", "mods", "rewriteIn", "passOn", "pass"}
                => phase = "adding"
           /\ op \in {"bodyIn", "apply"} => phase = "body"
           /\ op \in {"send", "rewriteBody"} => phase \in {"body", "nonatomic"}
           /\ op = "tell" => phase = "nonatomic"
           /\ op \in {"globalMods", "sourceMods", "refuse"} => phase = "starting"
           /\ op = "close" => phase \in {"starting", "committing", "aborting"}
           /\ op = "commit" => phase = "committing"
           /\ op = "abort" => phase = "aborting"
           /\ op \in {"states", "store", "run"} =>
                phase \in {"starting", "adding", "body", "nonatomic"}
<1>1. op \in KindsOf(phase) /\ phase \in Methods
  BY AtStep
<1> QED BY <1>1 DEF KindsOf, Methods

\* The checks a run calls are checks of its list.
LEMMA CalledType ==
    ASSUME NEW k, NEW a, NEW l \in Lists
    PROVE  Called(k, a, l) \subseteq Elems(l) /\ Called(k, a, l) \subseteq Checks
  BY ListElems DEF Called

LEMMA CloseStatesType ==
    ASSUME closes \in [Checks -> Nat], NEW S, CloseStates(S)
    PROVE  /\ closes' \in [Checks -> Nat]
           /\ \A c \in Checks : closes'[c] >= closes[c]
           /\ \A c \in S \cap stored \cap Checks : closes'[c] > 0
  BY DEF CloseStates

\* checkStates, with its step.
LEMMA CheckStatesTypes ==
    ASSUME TypeInv, CheckStates
    PROVE  TypeInv'
<1> USE DEF TypeInv
<1>1. At("states") /\ MethodTypes /\ cur' = cur
  BY DEF CheckStates
<1>2. PICK l \in Lists : Step = <<"states", l>>
  BY <1>1, AtStep, StepShape
<1>3. phase \in {"starting", "adding", "body", "nonatomic"}
  BY <1>1, PhaseOf
<1> DEFINE new == Elems(l) \ stored
<1>4. Step[2] = l
  BY <1>2
<1>5. \/ /\ seen' = [c \in Checks |-> IF c \in new THEN {} ELSE seen[c]]
         /\ DoneThen(IF new = {} THEN <<>> ELSE Replay(l, new))
         /\ UNCHANGED closes
      \/ /\ \E k \in DOMAIN l : CloseStates({l[i] : i \in 1 .. k - 1})
         /\ Fail
         /\ UNCHANGED seen
  BY <1>4 DEF CheckStates
<1>6. RunnerTypes'
  <2>1. closes' \in [Checks -> Nat] /\ seen' \in [Checks -> SUBSET Addrs]
    BY <1>5, CloseStatesType DEF RunnerTypes
  <2> QED BY <2>1 DEF RunnerTypes, CheckStates, histVars
<1>7. new \subseteq Checks
  BY ListElems
<1>8. MethodTypes'
  <2>1. CASE Fail
    BY <1>1, <2>1, FailTypes
  <2>2. CASE DoneThen(IF new = {} THEN <<>> ELSE Replay(l, new))
    <3> DEFINE f == IF new = {} THEN <<>> ELSE Replay(l, new)
    <3>1. f \in Seq(Steps) /\ \A s \in Elems(f) : s[1] \in {"run", "store"}
      <4>1. CASE new = {}
        BY <4>1, EmptyList
      <4>2. CASE new # {}
        <5>1. /\ Replay(l, new) \in Seq(Steps)
              /\ Elems(Replay(l, new)) \subseteq Replays(l) \cup {<<"store", new>>}
          BY <1>7, ReplaySteps DEF RunnerTypes
        <5>2. \A s \in Replays(l) \cup {<<"store", new>>} : s[1] \in {"run", "store"}
          BY DEF Replays
        <5> QED BY <4>2, <5>1, <5>2
      <4> QED BY <4>1, <4>2
    <3>2. {"run", "store"} \subseteq KindsOf(phase)
      BY <1>3 DEF KindsOf
    <3> HIDE DEF f
    <3>3. DoneThen(f)
      BY <2>2 DEF f
    <3> QED BY <1>1, <3>1, <3>2, <3>3, ThenTypes
  <2> QED BY <1>5, <2>1, <2>2
<1>9. ModTypes' /\ DeliveryTypes' /\ HistTypes'
  BY DEF CheckStates, ModTypes, DeliveryTypes, HistTypes, modVars, deliveryVars, histVars
<1> QED BY <1>6, <1>8, <1>9

\* runAndMergeResults, with its step.
LEMMA RunChecksTypes ==
    ASSUME TypeInv, RunChecks
    PROVE  TypeInv'
<1> USE DEF TypeInv
<1>1. At("run") /\ MethodTypes /\ cur' = cur
  BY DEF RunChecks
<1>2. Step \in Runs
  BY <1>1, AtStep, StepShape
<1>3. PICK k \in {"rcpt", "again", "conn", "sender", "body"} :
        \E a \in Addrs \cup {NoAddr} : \E l \in Lists :
           Step = <<"run", k, a, l>> /\ (k \in {"rcpt", "again"} => a \in Addrs)
  BY <1>2, RunShape
<1>4. PICK a \in Addrs \cup {NoAddr} : \E l \in Lists :
           Step = <<"run", k, a, l>> /\ (k \in {"rcpt", "again"} => a \in Addrs)
  BY <1>3
<1>5. PICK l \in Lists :
           Step = <<"run", k, a, l>> /\ (k \in {"rcpt", "again"} => a \in Addrs)
  BY <1>4
<1>6. Step[2] = k /\ Step[3] = a /\ Step[4] = l
  BY <1>5
<1>7. PICK called : called = Called(k, a, l)
  OBVIOUS
<1>8. called \subseteq Elems(l) /\ called \subseteq Checks
  BY <1>7, CalledType
<1>9. /\ seen' = [c \in Checks |-> IF k \in {"rcpt", "again"} /\ c \in called
                                   THEN seen[c] \cup {a} ELSE seen[c]]
      /\ bodySeen' = IF k = "body" THEN bodySeen \cup called ELSE bodySeen
      /\ checked' = IF k = "rcpt" THEN Append(checked, a) ELSE checked
  BY <1>6, <1>7 DEF RunChecks
<1>10. \/ Fail /\ quarantine' = quarantine
          /\ CloseStates(IF k \in {"rcpt", "body"} THEN {} ELSE Elems(l))
       \/ Done /\ quarantine' \in BOOLEAN /\ closes' = closes
  BY <1>6, <1>7 DEF RunChecks
<1>11. RunnerTypes'
  <2>1. closes' \in [Checks -> Nat]
    BY <1>10, CloseStatesType DEF RunnerTypes
  <2>2. seen' \in [Checks -> SUBSET Addrs] /\ checked' \in Seq(Addrs)
    BY <1>5, <1>9 DEF RunnerTypes
  <2>3. bodySeen' \subseteq Checks
    BY <1>8, <1>9 DEF RunnerTypes
  <2>4. quarantine' \in BOOLEAN
    BY <1>10 DEF RunnerTypes
  <2>5. stored' = stored
    BY DEF RunChecks
  <2> QED BY <2>1, <2>2, <2>3, <2>4, <2>5 DEF RunnerTypes
<1>12. MethodTypes'
  BY <1>1, <1>10, FailTypes, DoneTypes
<1>13. ModTypes' /\ DeliveryTypes' /\ HistTypes'
  BY DEF RunChecks, ModTypes, DeliveryTypes, HistTypes, modVars, deliveryVars
<1> QED BY <1>11, <1>12, <1>13

\* The source's calls.
LEMMA StartTypes ==
    ASSUME TypeInv, Start
    PROVE  TypeInv'
<1> USE DEF TypeInv
<1> DEFINE list == <<<<"states", GlobalChecks>>, <<"globalMods">>,
                     <<"states", SourceChecks>>, <<"sourceMods">>>>
<1>1. phase' = "starting" /\ todo' = list /\ UNCHANGED itsVars
  BY DEF Start
<1>2. list \in Seq(Steps)
      /\ Elems(list) = {<<"states", GlobalChecks>>, <<"globalMods">>,
                        <<"states", SourceChecks>>, <<"sourceMods">>}
  BY StartSteps
<1>3. \A s \in Elems(todo') : s[1] \in KindsOf(phase')
  BY <1>1, <1>2 DEF KindsOf
<1>4. MethodTypes'
  <2>1. phase' \in Phases /\ phase' # "adding" /\ cur' = cur
    BY <1>1 DEF Phases, Methods, itsVars
  <2>2. todo' \in Seq(Steps)
    BY <1>1, <1>2
  <2> QED BY <1>3, <2>1, <2>2 DEF MethodTypes
<1>5. RunnerTypes' /\ ModTypes' /\ DeliveryTypes' /\ HistTypes'
  BY <1>1 DEF RunnerTypes, ModTypes, DeliveryTypes, HistTypes, itsVars, runnerVars, modVars,
     deliveryVars, histVars
<1> QED BY <1>4, <1>5

LEMMA AddRcptTypes ==
    ASSUME TypeInv, NEW r \in Rcpts, AddRcpt(r)
    PROVE  TypeInv'
<1> USE DEF TypeInv
<1>1. phase' = "adding" /\ todo' = AddSteps(r) /\ cur' = r
  BY DEF AddRcpt, AddSteps
<1>2. r \in Addrs
  BY AddrsAssumption
<1>3. /\ AddSteps(r) \in Seq(Steps)
      /\ Elems(AddSteps(r)) =
           {<<"states", GlobalChecks>>, <<"run", "rcpt", r, GlobalChecks>>,
            <<"states", SourceChecks>>, <<"run", "rcpt", r, SourceChecks>>,
            <<"rewrite">>}
  BY <1>2, AddStepsOrder
<1>4. \A s \in Elems(todo') : s[1] \in KindsOf(phase')
  BY <1>1, <1>3 DEF KindsOf
<1>5. MethodTypes'
  <2>1. phase' \in Phases /\ cur' \in Rcpts
    BY <1>1 DEF Phases, Methods
  <2>2. todo' \in Seq(Steps)
    BY <1>1, <1>3
  <2> QED BY <1>4, <2>1, <2>2 DEF MethodTypes
<1>6. RunnerTypes' /\ ModTypes' /\ DeliveryTypes' /\ HistTypes'
  BY DEF AddRcpt, RunnerTypes, ModTypes, DeliveryTypes, HistTypes, runnerVars, modVars,
     deliveryVars
<1> QED BY <1>5, <1>6

\* A call that only puts a list of its own steps on.
LEMMA CallTypes ==
    ASSUME TypeInv, NEW m \in Methods \ {"adding"}, NEW list \in Seq(Steps),
           \A s \in Elems(list) : s[1] \in KindsOf(m),
           phase' = m, todo' = list, UNCHANGED itsVars
    PROVE  TypeInv'
<1>1. MethodTypes'
  <2>1. phase' \in Phases /\ phase' # "adding" /\ cur' = cur
    BY DEF Phases, Methods, itsVars
  <2> QED BY <2>1 DEF MethodTypes, TypeInv
<1>2. RunnerTypes' /\ ModTypes' /\ DeliveryTypes' /\ HistTypes'
  BY DEF TypeInv, RunnerTypes, ModTypes, DeliveryTypes, HistTypes, itsVars, runnerVars, modVars,
     deliveryVars, histVars
<1> QED BY <1>1, <1>2 DEF TypeInv

\* The blocks and targets in use.
LEMMA UsedTypes == UsedBlocks \in SUBSET Blocks /\ UsedTargets \in SUBSET Targets
  BY DEF UsedBlocks, UsedTargets

LEMMA BodyCallTypes ==
    ASSUME TypeInv, Body \/ BodyNonAtomic \/ Commit \/ Abort
    PROVE  TypeInv'
<1>1. CASE Body
  <2>1. PICK order \in Orders(UsedBlocks), again \in Orders(UsedBlocks),
             out \in Orders(UsedTargets) : todo' = BodySteps(order, again, out)
    BY <1>1 DEF Body, BodySteps
  <2>3. /\ BodySteps(order, again, out) \in Seq(Steps)
        /\ \A s \in Elems(BodySteps(order, again, out)) : s[1] \in KindsOf("body")
    BY UsedTypes, BodyOrder
  <2>4. phase' = "body" /\ UNCHANGED itsVars /\ "body" \in Methods \ {"adding"}
    BY <1>1 DEF Body, Methods
  <2> QED BY <2>1, <2>3, <2>4, CallTypes
<1>2. CASE BodyNonAtomic
  <2>1. PICK order \in Orders(UsedBlocks), out \in Orders(UsedTargets) :
          todo' = NonAtomicSteps(order, out)
    BY <1>2 DEF BodyNonAtomic, NonAtomicSteps
  <2>2. /\ NonAtomicSteps(order, out) \in Seq(Steps)
        /\ \A s \in Elems(NonAtomicSteps(order, out)) : s[1] \in KindsOf("nonatomic")
    BY UsedTypes, NonAtomicOrder
  <2>3. phase' = "nonatomic" /\ UNCHANGED itsVars /\ "nonatomic" \in Methods \ {"adding"}
    BY <1>2 DEF BodyNonAtomic, Methods
  <2> QED BY <2>1, <2>2, <2>3, CallTypes
<1>3. ASSUME NEW m, NEW op, Finish(m, op),
             <<m, op>> \in {<<"committing", "commit">>, <<"aborting", "abort">>}
      PROVE  TypeInv'
  <2>1. PICK out \in Orders(UsedTargets) : todo' = FinishSteps(op, out)
    BY <1>3 DEF Finish, FinishSteps
  <2>2. op \in {"commit", "abort"} /\ m \in Methods \ {"adding"}
    BY <1>3 DEF Methods
  <2>3. /\ FinishSteps(op, out) \in Seq(Steps)
        /\ Elems(FinishSteps(op, out)) = {<<"close">>} \cup {<<op, t>> : t \in UsedTargets}
    BY <2>2, UsedTypes, FinishOrder
  <2>4. \A s \in Elems(FinishSteps(op, out)) : s[1] \in KindsOf(m)
    <3>1. {"close", op} \subseteq KindsOf(m)
      BY <1>3 DEF KindsOf
    <3> QED BY <2>3, <3>1
  <2>5. phase' = m /\ UNCHANGED itsVars
    BY <1>3 DEF Finish
  <2> QED BY <2>1, <2>2, <2>3, <2>4, <2>5, CallTypes
<1> QED BY <1>1, <1>2, <1>3 DEF Commit, Abort

\* The steps of Start and of the end of the delivery, and the returns.
LEMMA EndTypes ==
    ASSUME TypeInv,
           StoreStates \/ GlobalModifiers \/ SourceModifiers \/ CloseAll \/ Refuse
           \/ CommitTarget \/ AbortTarget \/ Return
    PROVE  TypeInv'
<1> USE DEF TypeInv
<1>1. CASE StoreStates
  <2>1. At("store") /\ MethodTypes /\ Done /\ cur' = cur
    BY <1>1 DEF StoreStates
  <2>2. PICK n \in SUBSET Checks : Step = <<"store", n>>
    BY <2>1, AtStep, StepShape
  <2>3. stored' = stored \cup n
    BY <1>1, <2>2 DEF StoreStates
  <2>4. RunnerTypes'
    BY <1>1, <2>3 DEF StoreStates, RunnerTypes, histVars
  <2>5. ModTypes' /\ DeliveryTypes' /\ HistTypes'
    BY <1>1 DEF StoreStates, ModTypes, DeliveryTypes, HistTypes, modVars, deliveryVars, histVars
  <2> QED BY <2>1, <2>4, <2>5, DoneTypes
<1>2. CASE GlobalModifiers \/ SourceModifiers
  <2>1. /\ At("globalMods") \/ At("sourceMods")
        /\ Done \/ Fail
        /\ cur' = cur
    BY <1>2 DEF GlobalModifiers, SourceModifiers
  <2>2. MethodTypes'
    BY <2>1, DoneTypes, FailTypes
  <2>3. ModTypes'
    <3>1. "global" \in Groups /\ "source" \in Groups
      BY DEF Groups
    <3>2. mods' \subseteq Groups /\ dropped' \subseteq Groups /\ modCloses' = modCloses
      BY <1>2, <3>1 DEF GlobalModifiers, SourceModifiers, ModTypes
    <3> QED BY <3>2 DEF ModTypes
  <2>4. RunnerTypes' /\ DeliveryTypes' /\ HistTypes'
    BY <1>2 DEF GlobalModifiers, SourceModifiers, RunnerTypes, DeliveryTypes, HistTypes,
       runnerVars, deliveryVars, histVars
  <2> QED BY <2>2, <2>3, <2>4
<1>3. CASE CloseAll
  <2>1. At("close") /\ Done /\ cur' = cur /\ CloseStates(stored)
    BY <1>3 DEF CloseAll
  <2>2. MethodTypes'
    BY <2>1, DoneTypes
  <2>3. RunnerTypes'
    <3>1. closes' \in [Checks -> Nat]
      BY <2>1, CloseStatesType DEF RunnerTypes
    <3> QED BY <1>3, <3>1 DEF CloseAll, RunnerTypes, histVars
  <2>4. ModTypes'
    BY <1>3 DEF CloseAll, ModTypes
  <2>5. DeliveryTypes' /\ HistTypes'
    BY <1>3 DEF CloseAll, DeliveryTypes, HistTypes, deliveryVars, histVars
  <2> QED BY <2>2, <2>3, <2>4, <2>5
<1>4. CASE Refuse
  <2>1. phase' = "refused" /\ todo' = <<>> /\ cur' = cur
    BY <1>4 DEF Refuse, itsVars
  <2>2. MethodTypes'
    <3>1. phase' \in Phases /\ phase' # "adding"
      BY <2>1 DEF Phases
    <3>2. todo' \in Seq(Steps) /\ Elems(todo') = {}
      BY <2>1, EmptyList
    <3> QED BY <2>1, <3>1, <3>2 DEF MethodTypes
  <2>3. RunnerTypes' /\ ModTypes' /\ DeliveryTypes' /\ HistTypes'
    BY <1>4 DEF Refuse, RunnerTypes, ModTypes, DeliveryTypes, HistTypes, itsVars, runnerVars,
       modVars, deliveryVars, histVars
  <2> QED BY <2>2, <2>3
<1>5. CASE CommitTarget \/ AbortTarget
  <2>1. /\ At("commit") \/ At("abort")
        /\ Done \/ Fail
        /\ cur' = cur
    BY <1>5 DEF CommitTarget, AbortTarget
  <2>2. MethodTypes'
    BY <2>1, DoneTypes, FailTypes
  <2>3. \E t, v : v \in {"committed", "commitFailed", "aborted"} /\ dlv' = [dlv EXCEPT ![t] = v]
    BY <1>5 DEF CommitTarget, AbortTarget
  <2>4. DeliveryTypes'
    BY <1>5, <2>3 DEF CommitTarget, AbortTarget, DeliveryTypes
  <2>5. RunnerTypes' /\ ModTypes' /\ HistTypes'
    BY <1>5 DEF CommitTarget, AbortTarget, RunnerTypes, ModTypes, HistTypes, runnerVars, modVars,
       histVars
  <2> QED BY <2>2, <2>4, <2>5
<1>6. CASE Return
  <2>1. phase \in Methods /\ todo = <<>> /\ todo' = todo /\ cur' = cur
    BY <1>6 DEF Return
  <2>2. phase' \in {"ready", "sent", "committed", "aborted"}
    BY <1>6 DEF Return, Methods
  <2>3. MethodTypes'
    <3>1. phase' \in Phases /\ phase' # "adding"
      BY <2>2 DEF Phases
    <3>2. todo' \in Seq(Steps) /\ Elems(todo') = {}
      BY <2>1, EmptyList
    <3> QED BY <2>1, <3>1, <3>2 DEF MethodTypes
  <2>4. HistTypes'
    <3>1. phase = "adding" => cur \in Rcpts
      BY DEF MethodTypes
    <3> QED BY <1>6, <3>1 DEF Return, HistTypes
  <2>5. RunnerTypes' /\ ModTypes' /\ DeliveryTypes'
    BY <1>6 DEF Return, RunnerTypes, ModTypes, DeliveryTypes, runnerVars, modVars, deliveryVars
  <2> QED BY <2>3, <2>4, <2>5
<1> QED BY <1>1, <1>2, <1>3, <1>4, <1>5, <1>6

\* The steps of AddRcpt: each with what it stands for.
LEMMA RewriteRcptDoes ==
    ASSUME TypeInv, RewriteRcpt
    PROVE  /\ At("rewrite") /\ phase = "adding" /\ Step = <<"rewrite">>
           /\ UNCHANGED itsVars
           /\ \/ \E f \in Seq(Steps) :
                   /\ Elems(f) = {<<"route", a>> : a \in Elems(Rewritten[cur])}
                   /\ DoneThen(f)
              \/ Fail
<1>1. At("rewrite") /\ MethodTypes /\ UNCHANGED itsVars
  BY DEF RewriteRcpt, TypeInv
<1>2. phase = "adding" /\ Step = <<"rewrite">>
  BY <1>1, PhaseOf, AtStep, StepShape
<1>3. cur \in Rcpts
  BY <1>1, <1>2 DEF MethodTypes
<1>4. CASE Fail
  BY <1>1, <1>2, <1>4
<1>5. CASE DoneThen(Each(Rewritten[cur], LAMBDA a : <<"route", a>>))
  <2>1. PICK f : f = Each(Rewritten[cur], LAMBDA a : <<"route", a>>)
    OBVIOUS
  <2>2. f \in Seq(Steps) /\ Elems(f) = {<<"route", a>> : a \in Elems(Rewritten[cur])}
    BY <1>3, <2>1, RouteList
  <2> QED BY <1>1, <1>2, <1>5, <2>1, <2>2
<1> QED BY <1>4, <1>5 DEF RewriteRcpt

LEMMA RouteDoes ==
    ASSUME TypeInv, Route
    PROVE  /\ At("route") /\ phase = "adding"
           /\ UNCHANGED itsVars
           /\ \E a \in Addrs :
                /\ Step = <<"route", a>>
                /\ \/ \E b \in BlocksFor[a] \ Rejects : b \in Blocks /\ DoneThen(RouteSteps(b, a))
                   \/ Fail
<1>1. At("route") /\ MethodTypes /\ UNCHANGED itsVars
  BY DEF Route, TypeInv
<1>2. phase = "adding"
  BY <1>1, PhaseOf
<1>3. PICK a \in Addrs : Step = <<"route", a>>
  BY <1>1, AtStep, StepShape
<1>4. Step[2] = a
  BY <1>3
<1>5. \/ \E b \in BlocksFor[a] \ Rejects : DoneThen(RouteSteps(b, a))
      \/ Fail
  BY <1>4 DEF Route, RouteSteps
<1>6. BlocksFor[a] \subseteq Blocks
  BY AddrsAssumption
<1> QED BY <1>1, <1>2, <1>3, <1>5, <1>6

LEMMA RcptModifiersDoes ==
    ASSUME TypeInv, RcptModifiers
    PROVE  /\ At("mods") /\ phase = "adding"
           /\ UNCHANGED <<cur, runnerVars, modCloses, dropped, deliveryVars, histVars>>
           /\ \E b \in Blocks :
                /\ Step = <<"mods", b>>
                /\ \/ mods' = mods \cup {b} /\ Done
                   \/ mods' = mods /\ Fail
<1>1. At("mods") /\ MethodTypes
  BY DEF RcptModifiers, TypeInv
<1>2. phase = "adding"
  BY <1>1, PhaseOf
<1>3. PICK b \in Blocks : Step = <<"mods", b>>
  BY <1>1, AtStep, StepShape
<1>4. Step[2] = b
  BY <1>3
<1> QED BY <1>1, <1>2, <1>3, <1>4 DEF RcptModifiers

LEMMA RewriteInBlockDoes ==
    ASSUME TypeInv, RewriteInBlock
    PROVE  /\ At("rewriteIn") /\ phase = "adding"
           /\ UNCHANGED <<cur, runnerVars, mods, dropped, deliveryVars, histVars>>
           /\ modCloses' \in [Groups -> Nat]
           /\ \E b \in Blocks : \E a \in Addrs :
                /\ Step = <<"rewriteIn", b, a>>
                /\ \/ \E f \in Seq(Steps) :
                        /\ Elems(f) = {<<"passOn", x, b, a>> : x \in Elems(RcptRewritten[a])}
                        /\ DoneThen(f)
                   \/ Fail
<1>1. /\ At("rewriteIn") /\ MethodTypes
      /\ UNCHANGED <<cur, runnerVars, mods, dropped, deliveryVars, histVars>>
  BY DEF RewriteInBlock, TypeInv
<1>2. phase = "adding"
  BY <1>1, PhaseOf
<1>3. PICK b \in Blocks : \E a \in Addrs : Step = <<"rewriteIn", b, a>>
  BY <1>1, AtStep, StepShape
<1>4. PICK a \in Addrs : Step = <<"rewriteIn", b, a>>
  BY <1>3
<1>5. Step[2] = b /\ Step[3] = a
  BY <1>4
<1>6. PICK f : f = Each(RcptRewritten[a], LAMBDA x : <<"passOn", x, b, a>>)
  OBVIOUS
<1>7. f \in Seq(Steps) /\ Elems(f) = {<<"passOn", x, b, a>> : x \in Elems(RcptRewritten[a])}
  BY <1>6, FanOut
<1>8. \/ DoneThen(f) /\ modCloses' = modCloses
      \/ modCloses' = [modCloses EXCEPT ![b] = @ + 1] /\ Fail
  BY <1>5, <1>6 DEF RewriteInBlock, Each
<1>9. modCloses' \in [Groups -> Nat]
  BY <1>8 DEF TypeInv, ModTypes
<1>10. \/ \E g \in Seq(Steps) :
            /\ Elems(g) = {<<"passOn", x, b, a>> : x \in Elems(RcptRewritten[a])}
            /\ DoneThen(g)
       \/ Fail
  BY <1>7, <1>8
<1> QED BY <1>1, <1>2, <1>4, <1>9, <1>10

LEMMA PassOnDoes ==
    ASSUME TypeInv, PassOn
    PROVE  /\ At("passOn") /\ phase = "adding"
           /\ UNCHANGED <<cur, runnerVars, modVars, dlv, got, recips, metaQ, histVars>>
           /\ \E x \in Addrs : \E b \in Blocks : \E a \in Addrs :
                /\ Step = <<"passOn", x, b, a>>
                /\ orig' = IF cur # x THEN [orig EXCEPT ![x] = cur] ELSE orig
                /\ \E f \in Seq(Steps) :
                     /\ Elems(f) = {<<"pass", t, x, b, a>> : t \in Elems(TargetsOf[b])}
                     /\ DoneThen(f)
<1>1. /\ At("passOn") /\ MethodTypes
      /\ UNCHANGED <<cur, runnerVars, modVars, dlv, got, recips, metaQ, histVars>>
  BY DEF PassOn, TypeInv
<1>2. phase = "adding"
  BY <1>1, PhaseOf
<1>3. PICK x \in Addrs : \E b \in Blocks : \E a \in Addrs : Step = <<"passOn", x, b, a>>
  BY <1>1, AtStep, StepShape
<1>4. PICK b \in Blocks : \E a \in Addrs : Step = <<"passOn", x, b, a>>
  BY <1>3
<1>5. PICK a \in Addrs : Step = <<"passOn", x, b, a>>
  BY <1>4
<1>6. Step[2] = x /\ Step[3] = b /\ Step[4] = a
  BY <1>5
<1>7. PICK f : f = Each(TargetsOf[b], LAMBDA t : <<"pass", t, x, b, a>>)
  OBVIOUS
<1>8. f \in Seq(Steps) /\ Elems(f) = {<<"pass", t, x, b, a>> : t \in Elems(TargetsOf[b])}
  BY <1>7, FanOut
<1>9. DoneThen(f) /\ orig' = IF cur # x THEN [orig EXCEPT ![x] = cur] ELSE orig
  BY <1>6, <1>7 DEF PassOn, Each
<1> QED BY <1>1, <1>2, <1>5, <1>8, <1>9

LEMMA PassToDoes ==
    ASSUME TypeInv, PassTo
    PROVE  /\ At("pass") /\ phase = "adding" /\ cur \in Rcpts
           /\ UNCHANGED <<cur, runnerVars, modVars, orig, metaQ, calls, accepted,
                          bodySeen, failedAt, told>>
           /\ \E t \in Targets : \E x \in Addrs : \E b \in Blocks : \E a \in Addrs :
                /\ Step = <<"pass", t, x, b, a>>
                /\ \/ /\ dlv' = [dlv EXCEPT ![t] = "open"]
                      /\ got' = [got EXCEPT ![t] = @ \cup {x}]
                      /\ recips' = [recips EXCEPT ![t] = @ \cup {cur}]
                      /\ ways' = ways \cup {[to |-> cur, routed |-> a, block |-> b,
                                             final |-> x, target |-> t]}
                      /\ Done
                   \/ /\ dlv' = [dlv EXCEPT ![t] = "open"] \/ dlv' = dlv
                      /\ UNCHANGED <<got, recips, ways>>
                      /\ Fail
<1>1. /\ At("pass") /\ MethodTypes
      /\ UNCHANGED <<cur, runnerVars, modVars, orig, metaQ, calls, accepted,
                     bodySeen, failedAt, told>>
  BY DEF PassTo, TypeInv
<1>2. phase = "adding"
  BY <1>1, PhaseOf
<1>3. cur \in Rcpts
  BY <1>1, <1>2 DEF MethodTypes
<1>4. PICK t \in Targets : \E x \in Addrs : \E b \in Blocks : \E a \in Addrs :
        Step = <<"pass", t, x, b, a>>
  BY <1>1, AtStep, StepShape
<1>5. PICK x \in Addrs : \E b \in Blocks : \E a \in Addrs : Step = <<"pass", t, x, b, a>>
  BY <1>4
<1>6. PICK b \in Blocks : \E a \in Addrs : Step = <<"pass", t, x, b, a>>
  BY <1>5
<1>7. PICK a \in Addrs : Step = <<"pass", t, x, b, a>>
  BY <1>6
<1>8. Step[2] = t /\ Step[3] = x /\ Step[4] = b /\ Step[5] = a
  BY <1>7
<1>9. \/ /\ dlv' = [dlv EXCEPT ![t] = "open"]
         /\ got' = [got EXCEPT ![t] = @ \cup {x}]
         /\ recips' = [recips EXCEPT ![t] = @ \cup {cur}]
         /\ ways' = ways \cup {[to |-> cur, routed |-> a, block |-> b,
                                final |-> x, target |-> t]}
         /\ Done
      \/ /\ dlv' = [dlv EXCEPT ![t] = "open"] \/ dlv' = dlv
         /\ UNCHANGED <<got, recips, ways>>
         /\ Fail
  BY <1>8 DEF PassTo
<1> QED BY <1>1, <1>2, <1>3, <1>7, <1>9

LEMMA AddingTypes ==
    ASSUME TypeInv, RewriteRcpt \/ Route \/ RcptModifiers \/ RewriteInBlock \/ PassOn \/ PassTo
    PROVE  TypeInv'
<1>0. phase = "adding" => KindsOf(phase) = {"states", "store", "run", "rewrite", "route",
                                            "mods", "rewriteIn", "passOn", "pass"}
  BY DEF KindsOf
<1>m. MethodTypes
  BY DEF TypeInv
<1>1. CASE RewriteRcpt
  <2>1. /\ At("rewrite") /\ phase = "adding" /\ UNCHANGED itsVars
        /\ \/ \E f \in Seq(Steps) :
                /\ Elems(f) = {<<"route", a>> : a \in Elems(Rewritten[cur])}
                /\ DoneThen(f)
           \/ Fail
    BY <1>1, RewriteRcptDoes
  <2>2. cur' = cur
    BY <2>1 DEF itsVars
  <2>3. MethodTypes'
    <3>1. CASE Fail
      BY <1>m, <2>1, <2>2, <3>1, FailTypes
    <3>2. ASSUME NEW f \in Seq(Steps), DoneThen(f),
                 Elems(f) = {<<"route", a>> : a \in Elems(Rewritten[cur])}
          PROVE  MethodTypes'
      <4>1. \A s \in Elems(f) : s[1] \in KindsOf(phase)
        BY <1>0, <2>1, <3>2
      <4> QED BY <1>m, <2>1, <2>2, <3>2, <4>1, ThenTypes
    <3> QED BY <2>1, <3>1, <3>2
  <2> QED BY <2>1, <2>3 DEF TypeInv, RunnerTypes, ModTypes, DeliveryTypes, HistTypes, itsVars,
             runnerVars, modVars, deliveryVars, histVars
<1>2. CASE Route
  <2>1. PICK a \in Addrs :
          /\ At("route") /\ phase = "adding" /\ UNCHANGED itsVars
          /\ \/ \E b \in BlocksFor[a] \ Rejects : b \in Blocks /\ DoneThen(RouteSteps(b, a))
             \/ Fail
    BY <1>2, RouteDoes
  <2>2. cur' = cur
    BY <2>1 DEF itsVars
  <2>3. MethodTypes'
    <3>1. CASE Fail
      BY <1>m, <2>1, <2>2, <3>1, FailTypes
    <3>2. ASSUME NEW b \in Blocks, DoneThen(RouteSteps(b, a)) PROVE MethodTypes'
      <4>1. /\ RouteSteps(b, a) \in Seq(Steps)
            /\ Elems(RouteSteps(b, a)) =
                 {<<"states", BlockChecks[b]>>, <<"run", "rcpt", a, BlockChecks[b]>>,
                  <<"mods", b>>, <<"rewriteIn", b, a>>}
        BY RouteStepsOrder
      <4>2. \A s \in Elems(RouteSteps(b, a)) : s[1] \in KindsOf(phase)
        BY <1>0, <2>1, <4>1
      <4> QED BY <1>m, <2>1, <2>2, <3>2, <4>1, <4>2, ThenTypes
    <3> QED BY <2>1, <3>1, <3>2
  <2> QED BY <2>1, <2>3 DEF TypeInv, RunnerTypes, ModTypes, DeliveryTypes, HistTypes, itsVars,
             runnerVars, modVars, deliveryVars, histVars
<1>3. CASE RcptModifiers
  <2>1. /\ At("mods") /\ (Done \/ Fail) /\ \E b \in Blocks : mods' \subseteq mods \cup {b}
        /\ UNCHANGED <<cur, runnerVars, modCloses, dropped, deliveryVars, histVars>>
    BY <1>3, RcptModifiersDoes
  <2>2. MethodTypes'
    BY <1>m, <2>1, DoneTypes, FailTypes
  <2>3. ModTypes'
    BY <2>1 DEF TypeInv, ModTypes, Groups
  <2> QED BY <2>1, <2>2, <2>3 DEF TypeInv, RunnerTypes, DeliveryTypes, HistTypes,
             runnerVars, deliveryVars, histVars
<1>4. CASE RewriteInBlock
  <2>1. /\ At("rewriteIn") /\ phase = "adding"
        /\ UNCHANGED <<cur, runnerVars, mods, dropped, deliveryVars, histVars>>
        /\ modCloses' \in [Groups -> Nat]
    BY <1>4, RewriteInBlockDoes
  <2>2. PICK b \in Blocks : \E a \in Addrs :
           \/ \E f \in Seq(Steps) :
                /\ Elems(f) = {<<"passOn", x, b, a>> : x \in Elems(RcptRewritten[a])}
                /\ DoneThen(f)
           \/ Fail
    BY <1>4, RewriteInBlockDoes
  <2>3. PICK a \in Addrs :
           \/ \E f \in Seq(Steps) :
                /\ Elems(f) = {<<"passOn", x, b, a>> : x \in Elems(RcptRewritten[a])}
                /\ DoneThen(f)
           \/ Fail
    BY <2>2
  <2>4. MethodTypes'
    <3>1. CASE Fail
      BY <1>m, <2>1, <3>1, FailTypes
    <3>2. ASSUME NEW f \in Seq(Steps), DoneThen(f),
                 Elems(f) = {<<"passOn", x, b, a>> : x \in Elems(RcptRewritten[a])}
          PROVE  MethodTypes'
      <4>1. \A s \in Elems(f) : s[1] \in KindsOf(phase)
        BY <1>0, <2>1, <3>2
      <4> QED BY <1>m, <2>1, <3>2, <4>1, ThenTypes
    <3> QED BY <2>3, <3>1, <3>2
  <2>5. ModTypes'
    BY <2>1 DEF TypeInv, ModTypes
  <2> QED BY <2>1, <2>4, <2>5 DEF TypeInv, RunnerTypes, DeliveryTypes, HistTypes,
             runnerVars, deliveryVars, histVars
<1>5. CASE PassOn
  <2>1. /\ At("passOn") /\ phase = "adding"
        /\ UNCHANGED <<cur, runnerVars, modVars, dlv, got, recips, metaQ, histVars>>
    BY <1>5, PassOnDoes
  <2>2. PICK x \in Addrs : \E b \in Blocks : \E a \in Addrs :
           /\ orig' = IF cur # x THEN [orig EXCEPT ![x] = cur] ELSE orig
           /\ \E f \in Seq(Steps) :
                /\ Elems(f) = {<<"pass", t, x, b, a>> : t \in Elems(TargetsOf[b])}
                /\ DoneThen(f)
    BY <1>5, PassOnDoes
  <2>3. PICK f \in Seq(Steps) : DoneThen(f) /\ \A s \in Elems(f) : s[1] = "pass"
    BY <2>2
  <2>4. MethodTypes'
    <3>1. \A s \in Elems(f) : s[1] \in KindsOf(phase)
      BY <1>0, <2>1, <2>3
    <3> QED BY <1>m, <2>1, <2>3, <3>1, ThenTypes
  <2>5. DeliveryTypes'
    <3>1. orig' \in [Addrs -> Rcpts \cup {NoAddr}]
      BY <2>2 DEF TypeInv, DeliveryTypes, MethodTypes
    <3> QED BY <2>1, <3>1 DEF TypeInv, DeliveryTypes
  <2> QED BY <2>1, <2>4, <2>5 DEF TypeInv, RunnerTypes, ModTypes, HistTypes,
             runnerVars, modVars, histVars
<1>6. CASE PassTo
  <2>1. /\ At("pass") /\ phase = "adding" /\ cur \in Rcpts
        /\ UNCHANGED <<cur, runnerVars, modVars, orig, metaQ, calls, accepted,
                       bodySeen, failedAt, told>>
    BY <1>6, PassToDoes
  <2>2. PICK t \in Targets : \E x \in Addrs : \E b \in Blocks : \E a \in Addrs :
           \/ /\ dlv' = [dlv EXCEPT ![t] = "open"]
              /\ got' = [got EXCEPT ![t] = @ \cup {x}]
              /\ recips' = [recips EXCEPT ![t] = @ \cup {cur}]
              /\ ways' = ways \cup {[to |-> cur, routed |-> a, block |-> b,
                                     final |-> x, target |-> t]}
              /\ Done
           \/ /\ dlv' = [dlv EXCEPT ![t] = "open"] \/ dlv' = dlv
              /\ UNCHANGED <<got, recips, ways>>
              /\ Fail
    BY <1>6, PassToDoes
  <2>3. MethodTypes'
    BY <1>m, <2>1, <2>2, DoneTypes, FailTypes
  <2>4. DeliveryTypes'
    <3>1. dlv' = [dlv EXCEPT ![t] = "open"] \/ dlv' = dlv
      BY <2>2
    <3>2. got' \in [Targets -> SUBSET Addrs] /\ recips' \in [Targets -> SUBSET Rcpts]
      BY <2>1, <2>2 DEF TypeInv, DeliveryTypes
    <3> QED BY <2>1, <3>1, <3>2 DEF TypeInv, DeliveryTypes
  <2>5. HistTypes'
    <3>1. ways' \subseteq Ways
      BY <2>1, <2>2 DEF TypeInv, HistTypes, Ways
    <3> QED BY <2>1, <3>1 DEF TypeInv, HistTypes
  <2> QED BY <2>1, <2>3, <2>4, <2>5 DEF TypeInv, RunnerTypes, ModTypes, runnerVars, modVars
<1> QED BY <1>1, <1>2, <1>3, <1>4, <1>5, <1>6

\* The steps of Body and BodyNonAtomic.
LEMMA CheckBodyInDoes ==
    ASSUME TypeInv, CheckBodyIn
    PROVE  /\ At("bodyIn") /\ phase = "body" /\ UNCHANGED itsVars
           /\ \E b \in Blocks : /\ Step = <<"bodyIn", b>>
                                /\ DoneThen(CheckBody(BlockChecks[b]))
<1>1. At("bodyIn") /\ MethodTypes /\ UNCHANGED itsVars
  BY DEF CheckBodyIn, TypeInv
<1>2. phase = "body"
  BY <1>1, PhaseOf
<1>3. PICK b \in Blocks : Step = <<"bodyIn", b>>
  BY <1>1, AtStep, StepShape
<1>4. Step[2] = b
  BY <1>3
<1> QED BY <1>1, <1>2, <1>3, <1>4 DEF CheckBodyIn

\* What BodyNonAtomic of a target may end with.
Failed(t) == {f \in [ok : BOOLEAN, bad : SUBSET got[t]] :
                 IF t \in Partials THEN f.ok ELSE f.ok => f.bad = {}}

LEMMA SendBodyDoes ==
    ASSUME TypeInv, SendBody
    PROVE  /\ At("send") /\ phase \in {"body", "nonatomic"}
           /\ UNCHANGED <<cur, runnerVars, modVars, got, recips, orig, metaQ, calls,
                          accepted, ways, bodySeen>>
           /\ \E t \in Targets :
                /\ Step = <<"send", t>>
                /\ \/ /\ phase = "body"
                      /\ dlv' = [dlv EXCEPT ![t] = "body"]
                      /\ Done
                      /\ UNCHANGED <<failedAt, told>>
                   \/ /\ phase = "body"
                      /\ dlv' = [dlv EXCEPT ![t] = "bodyFailed"]
                      /\ Fail
                      /\ UNCHANGED <<failedAt, told>>
                   \/ /\ phase = "nonatomic"
                      /\ \E f \in Failed(t) :
                           /\ failedAt' = failedAt \cup ({t} \X f.bad)
                           /\ told' = StatusFor(t, f)
                           /\ dlv' = [dlv EXCEPT ![t] = IF f.ok THEN "body" ELSE "bodyFailed"]
                      /\ Done
<1>1. /\ At("send") /\ MethodTypes
      /\ UNCHANGED <<cur, runnerVars, modVars, got, recips, orig, metaQ, calls,
                     accepted, ways, bodySeen>>
  BY DEF SendBody, TypeInv
<1>2. phase \in {"body", "nonatomic"}
  BY <1>1, PhaseOf
<1>3. PICK t \in Targets : Step = <<"send", t>>
  BY <1>1, AtStep, StepShape
<1>4. Step[2] = t
  BY <1>3
<1>5. \/ /\ phase = "body"
         /\ dlv' = [dlv EXCEPT ![t] = "body"]
         /\ Done
         /\ UNCHANGED <<failedAt, told>>
      \/ /\ phase = "body"
         /\ dlv' = [dlv EXCEPT ![t] = "bodyFailed"]
         /\ Fail
         /\ UNCHANGED <<failedAt, told>>
      \/ /\ phase = "nonatomic"
         /\ \E f \in Failures(t) :
              /\ failedAt' = failedAt \cup ({t} \X f.bad)
              /\ told' = StatusFor(t, f)
              /\ dlv' = [dlv EXCEPT ![t] = IF f.ok THEN "body" ELSE "bodyFailed"]
         /\ Done
  BY <1>4 DEF SendBody
<1>6. ASSUME NEW f \in Failures(t)
      PROVE  f \in Failed(t)
  <2>1. CASE t \in Partials
    <3>1. f \in [ok : {TRUE}, bad : SUBSET got[t]]
      BY <1>6, <2>1 DEF Failures
    <3>2. f \in [ok : BOOLEAN, bad : SUBSET got[t]] /\ f.ok
      BY <3>1
    <3> QED BY <2>1, <3>2 DEF Failed
  <2>2. CASE t \notin Partials
    <3>1. f = [ok |-> TRUE, bad |-> {}] \/ f = [ok |-> FALSE, bad |-> got[t]]
      BY <1>6, <2>2 DEF Failures
    <3>2. f \in [ok : BOOLEAN, bad : SUBSET got[t]] /\ (f.ok => f.bad = {})
      <4>1. CASE f = [ok |-> TRUE, bad |-> {}]
        BY <4>1
      <4>2. CASE f = [ok |-> FALSE, bad |-> got[t]]
        <5>1. f.ok = FALSE /\ got[t] \in SUBSET got[t]
          BY <4>2
        <5>2. f \in [ok : BOOLEAN, bad : SUBSET got[t]]
          BY <4>2, <5>1, Zenon
        <5> QED BY <5>1, <5>2
      <4> QED BY <3>1, <4>1, <4>2
    <3> QED BY <2>2, <3>2 DEF Failed
  <2> QED BY <2>1, <2>2
<1>7. CASE phase = "body"
  BY <1>1, <1>2, <1>3, <1>5, <1>7
<1>8. CASE phase = "nonatomic"
  <2>1. PICK f \in Failures(t) :
              /\ failedAt' = failedAt \cup ({t} \X f.bad)
              /\ told' = StatusFor(t, f)
              /\ dlv' = [dlv EXCEPT ![t] = IF f.ok THEN "body" ELSE "bodyFailed"]
    BY <1>5, <1>8
  <2>2. Done
    BY <1>5, <1>8
  <2>3. f \in Failed(t)
    BY <1>6
  <2> QED BY <1>1, <1>2, <1>3, <1>8, <2>1, <2>2, <2>3
<1> QED BY <1>2, <1>7, <1>8

\* A status goes to addresses.
LEMMA StatusType ==
    ASSUME TypeInv, NEW t \in Targets, NEW f, f.bad \in SUBSET Addrs
    PROVE  StatusFor(t, f) \subseteq Addrs
<1>1. \A x \in f.bad : Original(x) \in Addrs
  BY AddrsAssumption DEF Original, TypeInv, DeliveryTypes
<1>2. recips[t] \subseteq Addrs /\ told \subseteq Addrs
  BY AddrsAssumption DEF TypeInv, DeliveryTypes, HistTypes
<1> QED BY <1>1, <1>2 DEF StatusFor

LEMMA BodyTypes ==
    ASSUME TypeInv, CheckBodyIn \/ ApplyResults \/ RewriteBody \/ TellAll \/ SendBody
    PROVE  TypeInv'
<1>m. MethodTypes
  BY DEF TypeInv
<1>1. CASE CheckBodyIn
  <2>1. PICK b \in Blocks : /\ At("bodyIn") /\ phase = "body" /\ UNCHANGED itsVars
                            /\ DoneThen(CheckBody(BlockChecks[b]))
    BY <1>1, CheckBodyInDoes
  <2>2. PICK f : f = CheckBody(BlockChecks[b])
    OBVIOUS
  <2>3. f \in Seq(Steps) /\ \A s \in Elems(f) : s[1] \in {"states", "run"}
    BY <2>2, ConfLists, BodyListSteps
  <2>4. \A s \in Elems(f) : s[1] \in KindsOf(phase)
    BY <2>1, <2>3 DEF KindsOf
  <2>5. cur' = cur
    BY <2>1 DEF itsVars
  <2>6. MethodTypes'
    BY <1>m, <2>1, <2>2, <2>3, <2>4, <2>5, ThenTypes
  <2> QED BY <2>1, <2>6 DEF TypeInv, RunnerTypes, ModTypes, DeliveryTypes, HistTypes, itsVars,
             runnerVars, modVars, deliveryVars, histVars
<1>2. CASE ApplyResults
  <2>1. At("apply") /\ (Done \/ Fail) /\ cur' = cur
    BY <1>2 DEF ApplyResults
  <2>2. MethodTypes'
    BY <1>m, <2>1, DoneTypes, FailTypes
  <2>3. metaQ' \in BOOLEAN
    BY <1>2 DEF ApplyResults, TypeInv, RunnerTypes, DeliveryTypes
  <2>4. DeliveryTypes'
    BY <1>2, <2>3 DEF ApplyResults, TypeInv, DeliveryTypes
  <2> QED BY <1>2, <2>2, <2>4 DEF ApplyResults, TypeInv, RunnerTypes, ModTypes, HistTypes,
             runnerVars, modVars, histVars
<1>3. CASE RewriteBody
  <2>1. At("rewriteBody") /\ (Done \/ Fail) /\ cur' = cur /\ UNCHANGED itsVars
    BY <1>3 DEF RewriteBody, itsVars
  <2>2. MethodTypes'
    BY <1>m, <2>1, DoneTypes, FailTypes
  <2> QED BY <2>1, <2>2 DEF TypeInv, RunnerTypes, ModTypes, DeliveryTypes, HistTypes, itsVars,
             runnerVars, modVars, deliveryVars, histVars
<1>4. CASE TellAll
  <2>1. At("tell") /\ Done /\ cur' = cur
    BY <1>4 DEF TellAll
  <2>2. MethodTypes'
    BY <1>m, <2>1, DoneTypes
  <2>3. HistTypes'
    BY <1>4, AddrsAssumption DEF TellAll, TypeInv, HistTypes, DeliveryTypes
  <2> QED BY <1>4, <2>2, <2>3 DEF TellAll, TypeInv, RunnerTypes, ModTypes, DeliveryTypes,
             runnerVars, modVars, deliveryVars
<1>5. CASE SendBody
  <2>0. /\ At("send")
        /\ UNCHANGED <<cur, runnerVars, modVars, got, recips, orig, metaQ, calls,
                       accepted, ways, bodySeen>>
    BY <1>5, SendBodyDoes
  <2>1. PICK t \in Targets :
           \/ /\ dlv' = [dlv EXCEPT ![t] = "body"] \/ dlv' = [dlv EXCEPT ![t] = "bodyFailed"]
              /\ Done \/ Fail
              /\ UNCHANGED <<failedAt, told>>
           \/ /\ \E f \in Failed(t) :
                   /\ failedAt' = failedAt \cup ({t} \X f.bad)
                   /\ told' = StatusFor(t, f)
              /\ dlv' = [dlv EXCEPT ![t] = "body"] \/ dlv' = [dlv EXCEPT ![t] = "bodyFailed"]
              /\ Done
    BY <1>5, SendBodyDoes
  <2>2. MethodTypes'
    BY <1>m, <2>0, <2>1, DoneTypes, FailTypes
  <2>3. DeliveryTypes'
    <3>1. dlv' = [dlv EXCEPT ![t] = "body"] \/ dlv' = [dlv EXCEPT ![t] = "bodyFailed"]
      BY <2>1
    <3> QED BY <2>0, <3>1 DEF TypeInv, DeliveryTypes
  <2>4. HistTypes'
    <3>1. CASE UNCHANGED <<failedAt, told>>
      BY <2>0, <3>1 DEF TypeInv, HistTypes
    <3>2. ASSUME NEW f \in Failed(t), failedAt' = failedAt \cup ({t} \X f.bad),
                 told' = StatusFor(t, f)
          PROVE  HistTypes'
      <4>1. f.bad \in SUBSET Addrs
        BY DEF Failed, TypeInv, DeliveryTypes
      <4>2. told' \subseteq Addrs
        BY <3>2, <4>1, StatusType
      <4> QED BY <2>0, <3>2, <4>1, <4>2 DEF TypeInv, HistTypes
    <3> QED BY <2>1, <3>1, <3>2
  <2> QED BY <2>0, <2>2, <2>3, <2>4 DEF TypeInv, RunnerTypes, ModTypes, runnerVars, modVars
<1> QED BY <1>1, <1>2, <1>3, <1>4, <1>5


LEMMA TypeNext == TypeInv /\ [Next]_vars => TypeInv'
<1> SUFFICES ASSUME TypeInv, [Next]_vars PROVE TypeInv'
  OBVIOUS
<1>1. CASE Source
  <2>1. ASSUME NEW r \in Rcpts, AddRcpt(r) PROVE TypeInv'
    BY <2>1, AddRcptTypes
  <2> QED BY <1>1, <2>1, StartTypes, BodyCallTypes DEF Source
<1>2. CASE Pipeline
  BY <1>2, CheckStatesTypes, RunChecksTypes, EndTypes, AddingTypes, BodyTypes DEF Pipeline
<1>3. CASE UNCHANGED vars
  BY <1>3 DEF TypeInv, RunnerTypes, ModTypes, DeliveryTypes, HistTypes, MethodTypes, vars,
     itsVars, runnerVars, modVars, deliveryVars, histVars
<1> QED BY <1>1, <1>2, <1>3 DEF Next

-----------------------------------------------------------------------------
(***************************************************************************)
(* Steps in terms of the list                                              *)
(***************************************************************************)

LEMMA DoneList ==
    ASSUME MethodTypes, NEW op, At(op), Done
    PROVE  /\ todo' = Tail(todo) /\ phase' = phase
           /\ Elems(todo) = {Step} \cup Elems(todo')
  BY AtStep DEF Done

LEMMA ThenList ==
    ASSUME MethodTypes, NEW op, At(op), NEW f \in Seq(Steps), DoneThen(f)
    PROVE  /\ todo' = f \o Tail(todo) /\ phase' = phase
           /\ Elems(todo') = Elems(f) \cup Elems(Tail(todo))
           /\ Elems(todo) = {Step} \cup Elems(Tail(todo))
<1>1. Elems(todo) = {Step} \cup Elems(Tail(todo))
  BY AtStep
<1>2. PICK rest \in Seq(Steps) : rest = Tail(todo)
  BY AtStep
<1>3. Elems(f \o rest) = Elems(f) \cup Elems(rest)
  BY ConcatElems
<1> QED BY <1>1, <1>2, <1>3 DEF DoneThen

\* checkStates: the new checks are shown what went before and stored last, or
\* the method fails.
StatesWith(l) ==
    LET new == Elems(l) \ stored
    IN
    \/ /\ \E f \in Seq(Steps) :
            /\ DoneThen(f)
            /\ Elems(f) \subseteq Replays(l) \cup {<<"store", new>>}
            /\ new # {} => <<"store", new>> \in Elems(f)
       /\ seen' = [c \in Checks |-> IF c \in new THEN {} ELSE seen[c]]
       /\ closes' = closes
    \/ Fail /\ seen' = seen
LEMMA CheckStatesDoes ==
    ASSUME TypeInv, CheckStates
    PROVE  /\ At("states") /\ phase \in {"starting", "adding", "body", "nonatomic"}
           /\ UNCHANGED <<cur, stored, checked, quarantine, modVars, deliveryVars, histVars>>
           /\ \A c \in Checks : closes'[c] >= closes[c]
           /\ \E l \in Lists : Step = <<"states", l>> /\ StatesWith(l)
<1>1. /\ At("states") /\ MethodTypes
      /\ UNCHANGED <<cur, stored, checked, quarantine, modVars, deliveryVars, histVars>>
  BY DEF CheckStates, TypeInv
<1>2. phase \in {"starting", "adding", "body", "nonatomic"}
  BY <1>1, PhaseOf
<1>3. PICK l \in Lists : Step = <<"states", l>>
  BY <1>1, AtStep, StepShape
<1>4. Step[2] = l
  BY <1>3
<1>5. PICK new : new = Elems(l) \ stored
  OBVIOUS
<1>6. \/ /\ seen' = [c \in Checks |-> IF c \in new THEN {} ELSE seen[c]]
         /\ DoneThen(IF new = {} THEN <<>> ELSE Replay(l, new))
         /\ closes' = closes
      \/ /\ \E k \in DOMAIN l : CloseStates({l[i] : i \in 1 .. k - 1})
         /\ Fail
         /\ seen' = seen
  BY <1>4, <1>5 DEF CheckStates
<1>7. closes \in [Checks -> Nat] /\ checked \in Seq(Addrs) /\ new \in SUBSET Checks
  BY <1>5, ListElems DEF TypeInv, RunnerTypes
<1>8. \A c \in Checks : closes'[c] >= closes[c]
  <2>1. CASE closes' = closes
    BY <1>7, <2>1
  <2>2. ASSUME NEW k \in DOMAIN l, CloseStates({l[i] : i \in 1 .. k - 1})
        PROVE  \A c \in Checks : closes'[c] >= closes[c]
    <3>1. PICK S : S = {l[i] : i \in 1 .. k - 1}
      OBVIOUS
    <3> QED BY <1>7, <2>2, <3>1, CloseStatesType
  <2> QED BY <1>6, <2>1, <2>2
<1>9. ASSUME DoneThen(IF new = {} THEN <<>> ELSE Replay(l, new))
      PROVE  \E f \in Seq(Steps) :
               /\ DoneThen(f)
               /\ Elems(f) \subseteq Replays(l) \cup {<<"store", new>>}
               /\ new # {} => <<"store", new>> \in Elems(f)
  <2>1. CASE new = {}
    <3>1. <<>> \in Seq(Steps) /\ Elems(<<>>) = {} /\ DoneThen(<<>>)
      BY <1>9, <2>1, EmptyList
    <3> QED BY <2>1, <3>1
  <2>2. CASE new # {}
    <3>1. DoneThen(Replay(l, new))
      BY <1>9, <2>2
    <3>2. /\ Replay(l, new) \in Seq(Steps)
          /\ Elems(Replay(l, new)) \subseteq Replays(l) \cup {<<"store", new>>}
          /\ <<"store", new>> \in Elems(Replay(l, new))
      BY <1>7, ReplaySteps
    <3> QED BY <3>1, <3>2
  <2> QED BY <2>1, <2>2
<1>10. StatesWith(l)
  BY <1>5, <1>6, <1>9 DEF StatesWith
<1> QED BY <1>1, <1>2, <1>3, <1>8, <1>10

\* runAndMergeResults: what the checks of the list were shown.
RunWith(k, a, l) ==
    /\ \A c \in Checks : seen[c] \subseteq seen'[c]
    /\ bodySeen \subseteq bodySeen'
    /\ k = "rcpt" => \A c \in Elems(l) : a \in seen'[c]
    /\ k = "body" => Elems(l) \subseteq bodySeen'
LEMMA RunChecksDoes ==
    ASSUME TypeInv, RunChecks
    PROVE  /\ At("run") /\ phase \in {"starting", "adding", "body", "nonatomic"}
           /\ UNCHANGED <<cur, stored, modVars, deliveryVars, calls, accepted, ways,
                          failedAt, told>>
           /\ \A c \in Checks : closes'[c] >= closes[c]
           /\ Done \/ Fail
           /\ \E k \in {"rcpt", "again", "conn", "sender", "body"} :
                \E a \in Addrs \cup {NoAddr} : \E l \in Lists :
                  Step = <<"run", k, a, l>> /\ RunWith(k, a, l)
<1>1. /\ At("run") /\ MethodTypes
      /\ UNCHANGED <<cur, stored, modVars, deliveryVars, calls, accepted, ways,
                     failedAt, told>>
  BY DEF RunChecks, TypeInv
<1>2. Step \in Runs /\ phase \in {"starting", "adding", "body", "nonatomic"}
  BY <1>1, AtStep, StepShape, PhaseOf
<1>3. PICK k \in {"rcpt", "again", "conn", "sender", "body"} :
        \E a \in Addrs \cup {NoAddr} : \E l \in Lists : Step = <<"run", k, a, l>>
  BY <1>2, RunShape
<1>4. PICK a \in Addrs \cup {NoAddr} : \E l \in Lists : Step = <<"run", k, a, l>>
  BY <1>3
<1>5. PICK l \in Lists : Step = <<"run", k, a, l>>
  BY <1>4
<1>6. Step[2] = k /\ Step[3] = a /\ Step[4] = l
  BY <1>5
<1>7. PICK called : called = Called(k, a, l)
  OBVIOUS
<1>8. /\ seen' = [c \in Checks |-> IF k \in {"rcpt", "again"} /\ c \in called
                                   THEN seen[c] \cup {a} ELSE seen[c]]
      /\ bodySeen' = IF k = "body" THEN bodySeen \cup called ELSE bodySeen
  BY <1>6, <1>7 DEF RunChecks
<1>9. \/ Fail /\ CloseStates(IF k \in {"rcpt", "body"} THEN {} ELSE Elems(l))
      \/ Done /\ closes' = closes
  BY <1>6, <1>7 DEF RunChecks
<1>10. \A c \in Checks : closes'[c] >= closes[c]
  <2>1. closes \in [Checks -> Nat]
    BY DEF TypeInv, RunnerTypes
  <2> QED BY <1>9, <2>1, CloseStatesType
<1>11. RunWith(k, a, l)
  <2>1. Elems(l) \subseteq Checks
    BY ListElems
  <2>2. k = "rcpt" => called = {c \in Elems(l) : a \notin seen[c]}
    BY <1>7 DEF Called
  <2>3. k = "body" => called = Elems(l)
    BY <1>7 DEF Called
  <2>4. (\A c \in Checks : seen[c] \subseteq seen'[c]) /\ bodySeen \subseteq bodySeen'
    BY <1>8
  <2>5. k = "rcpt" => \A c \in Elems(l) : a \in seen'[c]
    BY <1>8, <2>1, <2>2
  <2>6. k = "body" => Elems(l) \subseteq bodySeen'
    BY <1>8, <2>3
  <2> QED BY <2>4, <2>5, <2>6 DEF RunWith
<1> QED BY <1>1, <1>2, <1>5, <1>9, <1>10, <1>11

\* A method other than AddRcpt has none of its steps.
AddKinds == {"rewrite", "route", "rewriteIn", "passOn", "pass"}
LEMMA NotAdding ==
    ASSUME MethodTypes, phase # "adding"
    PROVE  \A s \in Elems(todo) : s[1] \notin AddKinds
<1>1. KindsOf(phase) \cap AddKinds = {}
  BY DEF KindsOf, AddKinds
<1> QED BY <1>1 DEF MethodTypes

\* A step of AddRcpt that has to do with checks and modifiers only.
QuietAdd ==
    /\ phase = "adding" /\ phase' = "adding"
    /\ UNCHANGED <<cur, deliveryVars, accepted, ways, failedAt, told>>
    /\ \A s \in Elems(todo') : s \in Elems(todo) \/ s[1] \notin AddKinds
    /\ \A s \in Elems(todo) : s \in Elems(todo') \/ s[1] \notin AddKinds

LEMMA AddingCases ==
    ASSUME TypeInv, Next, phase' = "adding"
    PROVE  \/ \E r \in Rcpts : AddRcpt(r)
           \/ QuietAdd
           \/ RewriteRcpt \/ Route \/ RewriteInBlock \/ PassOn \/ PassTo
<1>m. MethodTypes
  BY DEF TypeInv
<1>f. ASSUME NEW op, At(op), Fail PROVE FALSE
  <2>1. phase \in Methods
    BY <1>f DEF At
  <2> QED BY <1>f, <2>1, FailMeans
<1>1. CASE Source
  BY <1>1 DEF Source, Start, Body, BodyNonAtomic, Commit, Abort, Finish
<1>2. CASE CheckStates
  <2>1. PICK l \in Lists :
          /\ At("states")
          /\ UNCHANGED <<cur, deliveryVars, histVars>>
          /\ Step = <<"states", l>> /\ StatesWith(l)
    BY <1>2, CheckStatesDoes
  <2>2. PICK new : new = Elems(l) \ stored
    OBVIOUS
  <2>3. PICK f \in Seq(Steps) :
          DoneThen(f) /\ Elems(f) \subseteq Replays(l) \cup {<<"store", new>>}
    BY <1>f, <2>1, <2>2 DEF StatesWith
  <2>4. /\ phase' = phase
        /\ Elems(todo') = Elems(f) \cup Elems(Tail(todo))
        /\ Elems(todo) = {Step} \cup Elems(Tail(todo))
    BY <1>m, <2>1, <2>3, ThenList
  <2>5. \A s \in Replays(l) \cup {<<"store", new>>} : s[1] \notin AddKinds
    BY DEF Replays, AddKinds
  <2>6. Step[1] \notin AddKinds
    BY <2>1 DEF AddKinds
  <2>7. QuietAdd
    BY <2>1, <2>3, <2>4, <2>5, <2>6 DEF QuietAdd, histVars
  <2> QED BY <2>7
<1>3. CASE StoreStates \/ RunChecks \/ RcptModifiers
  <2>1. PICK op \in {"store", "run", "mods"} :
          /\ At(op) /\ (Done \/ Fail)
          /\ UNCHANGED <<cur, deliveryVars, accepted, ways, failedAt, told>>
    <3>1. CASE StoreStates
      BY <3>1 DEF StoreStates, histVars
    <3>2. CASE RunChecks
      BY <3>2, RunChecksDoes
    <3>3. CASE RcptModifiers
      BY <3>3 DEF RcptModifiers, histVars
    <3> QED BY <1>3, <3>1, <3>2, <3>3
  <2>2. Done
    BY <1>f, <2>1
  <2>3. phase' = phase /\ Elems(todo) = {Step} \cup Elems(todo')
    BY <1>m, <2>1, <2>2, DoneList
  <2>4. Step[1] \notin AddKinds
    BY <1>m, <2>1, AtStep DEF AddKinds
  <2>5. QuietAdd
    BY <2>1, <2>3, <2>4 DEF QuietAdd
  <2> QED BY <2>5
<1>4. CASE \/ GlobalModifiers \/ SourceModifiers \/ CloseAll \/ ApplyResults \/ RewriteBody
           \/ TellAll \/ SendBody \/ CommitTarget \/ AbortTarget \/ CheckBodyIn
  <2>1. PICK op \in {"globalMods", "sourceMods", "close", "apply", "rewriteBody", "tell",
                     "send", "commit", "abort", "bodyIn"} : At(op)
    BY <1>4 DEF GlobalModifiers, SourceModifiers, CloseAll, ApplyResults, RewriteBody,
       TellAll, SendBody, CommitTarget, AbortTarget, CheckBodyIn
  <2>2. phase # "adding"
    BY <1>m, <2>1, PhaseOf
  <2>3. phase' = phase \/ Fail
    BY <1>4 DEF GlobalModifiers, SourceModifiers, CloseAll, ApplyResults, RewriteBody,
       TellAll, SendBody, CommitTarget, AbortTarget, CheckBodyIn, Done, DoneThen
  <2> QED BY <1>f, <2>1, <2>2, <2>3
<1>5. CASE Refuse \/ Return
  BY <1>5 DEF Refuse, Return, Methods
<1> QED BY <1>1, <1>2, <1>3, <1>4, <1>5 DEF Next, Pipeline

\* Who writes what.
Frame ==
    /\ PassOn \/ orig' = orig
    /\ PassTo \/ UNCHANGED <<got, recips, ways>>
    /\ TellAll \/ SendBody \/ told' = told
    /\ SendBody \/ failedAt' = failedAt
    /\ PassTo \/ SendBody \/ CommitTarget \/ AbortTarget \/ dlv' = dlv
    /\ Return \/ accepted' = accepted
    /\ (\E r \in Rcpts : AddRcpt(r)) \/ cur' = cur
    /\ ApplyResults \/ metaQ' = metaQ
    /\ CheckStates \/ StoreStates \/ RunChecks \/ UNCHANGED <<stored, seen>>
    /\ RunChecks \/ UNCHANGED <<quarantine, bodySeen>>
    /\ GlobalModifiers \/ SourceModifiers \/ RcptModifiers \/ mods' = mods
LEMMA Frames ==
    ASSUME Next
    PROVE  Frame
<1> USE DEF runnerVars, modVars, deliveryVars, histVars, itsVars
<1>1. CASE Source
  BY <1>1 DEF Source, Start, AddRcpt, Body, BodyNonAtomic, Commit, Abort, Finish, Frame
<1>2. CASE CheckStates
  BY <1>2 DEF CheckStates, Frame
<1>3. CASE StoreStates
  BY <1>3 DEF StoreStates, Frame
<1>4. CASE RunChecks
  BY <1>4 DEF RunChecks, Frame
<1>5. CASE GlobalModifiers \/ SourceModifiers \/ RcptModifiers
  BY <1>5 DEF GlobalModifiers, SourceModifiers, RcptModifiers, Frame
<1>6. CASE CloseAll \/ Refuse \/ Return
  BY <1>6 DEF CloseAll, Refuse, Return, Frame
<1>7. CASE RewriteRcpt \/ Route \/ RewriteInBlock
  BY <1>7 DEF RewriteRcpt, Route, RewriteInBlock, Frame
<1>8. CASE PassOn
  BY <1>8 DEF PassOn, Frame
<1>9. CASE PassTo
  BY <1>9 DEF PassTo, Frame
<1>10. CASE CheckBodyIn \/ ApplyResults \/ RewriteBody \/ TellAll
  BY <1>10 DEF CheckBodyIn, ApplyResults, RewriteBody, TellAll, Frame
<1>11. CASE SendBody
  BY <1>11 DEF SendBody, Frame
<1>12. CASE CommitTarget \/ AbortTarget
  BY <1>12 DEF CommitTarget, AbortTarget, Frame
<1> QED BY <1>1, <1>2, <1>3, <1>4, <1>5, <1>6, <1>7, <1>8, <1>9, <1>10, <1>11, <1>12
        DEF Next, Pipeline

-----------------------------------------------------------------------------
(***************************************************************************)
(* A status reaches a recipient of the source                              *)
(***************************************************************************)

LEMMA KnownInit == Init => KnownInv
<1> SUFFICES ASSUME Init PROVE KnownInv
  OBVIOUS
<1>1. told = {} /\ \A t \in Targets : got[t] = {}
  BY DEF Init
<1>2. Elems(todo) = {}
  BY EmptyList DEF Init
<1> QED BY <1>1, <1>2 DEF KnownInv

\* A recipient is an address.
LEMMA RcptsAreAddrs == Rcpts \subseteq Addrs /\ NoAddr \notin Rcpts /\ NoAddr \notin Addrs
  BY AddrsAssumption

\* OriginalRcpts forgets no address.
LEMMA OrigKept ==
    ASSUME TypeInv, Next
    PROVE  \A x \in Addrs : orig[x] # NoAddr => orig'[x] # NoAddr
<1>1. CASE orig' = orig
  BY <1>1
<1>2. CASE PassOn
  <2>1. PICK y \in Addrs : orig' = IF cur # y THEN [orig EXCEPT ![y] = cur] ELSE orig
    BY <1>2, PassOnDoes
  <2>2. phase = "adding"
    BY <1>2, PassOnDoes
  <2>3. cur # NoAddr
    BY <2>2, RcptsAreAddrs DEF TypeInv, MethodTypes
  <2>4. orig \in [Addrs -> Rcpts \cup {NoAddr}]
    BY DEF TypeInv, DeliveryTypes
  <2> QED BY <2>1, <2>3, <2>4
<1> QED BY <1>1, <1>2, Frames DEF Frame

LEMMA KnownNext == TypeInv /\ TypeInv' /\ KnownInv /\ [Next]_vars => KnownInv'
<1> SUFFICES ASSUME TypeInv, TypeInv', KnownInv, [Next]_vars PROVE KnownInv'
  OBVIOUS
<1>1. CASE UNCHANGED vars
  BY <1>1 DEF KnownInv, Known, vars, itsVars, deliveryVars, histVars
<1>2. CASE Next
  <2>m. MethodTypes /\ MethodTypes'
    BY DEF TypeInv
  <2>1. Frame /\ \A x \in Addrs : Known(x) => Known(x)'
    BY <1>2, Frames, OrigKept DEF Known
  <2>g. got \in [Targets -> SUBSET Addrs] /\ recips \in [Targets -> SUBSET Rcpts]
    BY DEF TypeInv, DeliveryTypes
  <2>2. told' \subseteq Rcpts
    <3>1. CASE told' = told
      BY <3>1 DEF KnownInv
    <3>2. CASE TellAll
      BY <3>2, <2>g DEF TellAll, KnownInv
    <3>3. CASE SendBody
      <4>1. PICK t \in Targets :
              \/ told' = told
              \/ \E f \in Failed(t) : told' = StatusFor(t, f)
        BY <3>3, SendBodyDoes
      <4>2. ASSUME NEW f \in Failed(t), told' = StatusFor(t, f)
            PROVE  told' \subseteq Rcpts
        <5>1. ASSUME NEW x \in f.bad PROVE Original(x) \in Rcpts
          <6>1. x \in got[t] /\ x \in Addrs
            BY <2>g DEF Failed
          <6>2. x \in Rcpts \/ orig[x] # NoAddr
            BY <6>1 DEF KnownInv, Known
          <6>3. orig[x] \in Rcpts \cup {NoAddr}
            BY <6>1 DEF TypeInv, DeliveryTypes
          <6> QED BY <6>2, <6>3 DEF Original
        <5> QED BY <2>g, <4>2, <5>1 DEF StatusFor, KnownInv
      <4> QED BY <4>1, <4>2 DEF KnownInv
    <3> QED BY <2>1, <3>1, <3>2, <3>3 DEF Frame
  <2>3. \A t \in Targets : \A x \in got'[t] : Known(x)'
    <3>1. CASE got' = got
      BY <2>1, <2>g, <3>1 DEF KnownInv
    <3>2. CASE PassTo
      <4>1. PICK t \in Targets : \E x \in Addrs : \E b \in Blocks : \E a \in Addrs :
              /\ Step = <<"pass", t, x, b, a>>
              /\ got' = [got EXCEPT ![t] = @ \cup {x}] \/ got' = got
        BY <3>2, PassToDoes
      <4>2. PICK x \in Addrs : \E b \in Blocks : \E a \in Addrs :
              /\ Step = <<"pass", t, x, b, a>>
              /\ got' = [got EXCEPT ![t] = @ \cup {x}] \/ got' = got
        BY <4>1
      <4>3. Step[1] = "pass" /\ Step[3] = x
        BY <4>2
      <4>4. Step \in Elems(todo)
        <5>1. At("pass")
          BY <3>2, PassToDoes
        <5> QED BY <2>m, <5>1, AtStep
      <4>5. Known(x)
        BY <4>3, <4>4 DEF KnownInv
      <4>6. \A u \in Targets : \A y \in got'[u] : y \in got[u] \/ y = x
        BY <4>2, <2>g
      <4> QED BY <2>1, <2>g, <4>2, <4>5, <4>6 DEF KnownInv
    <3> QED BY <2>1, <3>1, <3>2 DEF Frame
  <2>4. ASSUME NEW s \in Elems(todo'), s[1] = "pass" PROVE Known(s[3])'
    <3>0. phase' = "adding"
      <4>1. s[1] \in KindsOf(phase')
        BY <2>m, <2>4 DEF MethodTypes
      <4> QED BY <2>4, <4>1 DEF KindsOf
    <3>1. ASSUME NEW u \in Elems(todo), u[1] = "pass" PROVE Known(u[3])'
      <4>1. u \in Steps
        BY <2>m DEF MethodTypes, Elems
      <4>2. u[3] \in Addrs
        BY <3>1, <4>1, StepShape
      <4> QED BY <2>1, <3>1, <4>2 DEF KnownInv
    <3>2. ASSUME NEW r \in Rcpts, AddRcpt(r) PROVE FALSE
      <4>1. todo' = AddSteps(r) /\ r \in Addrs
        BY <3>2, RcptsAreAddrs DEF AddRcpt, AddSteps
      <4>2. \A v \in Elems(todo') : v[1] # "pass"
        BY <4>1, AddStepsOrder
      <4> QED BY <2>4, <4>2
    <3>3. CASE QuietAdd
      <4>1. s \in Elems(todo)
        BY <2>4, <3>3 DEF QuietAdd, AddKinds
      <4> QED BY <2>4, <3>1, <4>1
    <3>4. ASSUME NEW op, At(op), NEW f \in Seq(Steps), DoneThen(f), s \notin Elems(f)
          PROVE  Known(s[3])'
      <4>1. s \in Elems(todo)
        BY <2>m, <2>4, <3>4, ThenList
      <4> QED BY <2>4, <3>1, <4>1
    <3>5. CASE RewriteRcpt \/ RewriteInBlock \/ Route
      <4>1. ~Fail
        <5>1. phase = "adding"
          BY <3>5, RewriteRcptDoes, RewriteInBlockDoes, RouteDoes
        <5> QED BY <3>0, <5>1, FailMeans DEF Methods
      <4>2. \E op : \E f \in Seq(Steps) :
              At(op) /\ DoneThen(f) /\ \A v \in Elems(f) : v[1] # "pass"
        <5>1. CASE RewriteRcpt
          <6>1. PICK f \in Seq(Steps) :
                  /\ Elems(f) = {<<"route", a>> : a \in Elems(Rewritten[cur])}
                  /\ DoneThen(f) /\ At("rewrite")
            BY <4>1, <5>1, RewriteRcptDoes
          <6> QED BY <6>1
        <5>2. CASE RewriteInBlock
          <6>1. PICK b \in Blocks : \E a \in Addrs : \E f \in Seq(Steps) :
                  /\ Elems(f) = {<<"passOn", x, b, a>> : x \in Elems(RcptRewritten[a])}
                  /\ DoneThen(f) /\ At("rewriteIn")
            BY <4>1, <5>2, RewriteInBlockDoes
          <6>2. PICK a \in Addrs : \E f \in Seq(Steps) :
                  /\ Elems(f) = {<<"passOn", x, b, a>> : x \in Elems(RcptRewritten[a])}
                  /\ DoneThen(f) /\ At("rewriteIn")
            BY <6>1
          <6> QED BY <6>2
        <5>3. CASE Route
          <6>1. PICK a \in Addrs : \E b \in Blocks : DoneThen(RouteSteps(b, a)) /\ At("route")
            BY <4>1, <5>3, RouteDoes
          <6>2. PICK b \in Blocks : DoneThen(RouteSteps(b, a)) /\ At("route")
            BY <6>1
          <6>3. /\ RouteSteps(b, a) \in Seq(Steps)
                /\ Elems(RouteSteps(b, a)) =
                     {<<"states", BlockChecks[b]>>, <<"run", "rcpt", a, BlockChecks[b]>>,
                      <<"mods", b>>, <<"rewriteIn", b, a>>}
            BY RouteStepsOrder
          <6>4. \A v \in Elems(RouteSteps(b, a)) : v[1] # "pass"
            BY <6>3
          <6> QED BY <6>2, <6>3, <6>4
        <5> QED BY <3>5, <5>1, <5>2, <5>3
      <4> QED BY <2>4, <3>4, <4>2
    <3>6. CASE PassOn
      <4>0. At("passOn") /\ phase = "adding"
        BY <3>6, PassOnDoes
      <4>1. PICK x \in Addrs : \E b \in Blocks : \E a \in Addrs :
              /\ orig' = IF cur # x THEN [orig EXCEPT ![x] = cur] ELSE orig
              /\ \E f \in Seq(Steps) :
                   /\ Elems(f) = {<<"pass", t, x, b, a>> : t \in Elems(TargetsOf[b])}
                   /\ DoneThen(f)
        BY <3>6, PassOnDoes
      <4>2. PICK f \in Seq(Steps) : DoneThen(f) /\ \A v \in Elems(f) : v[3] = x
        BY <4>1
      <4>3. CASE s \in Elems(f)
        <5>1. s[3] = x
          BY <4>2, <4>3
        <5>2. cur \in Rcpts /\ cur # NoAddr
          BY <4>0, RcptsAreAddrs DEF TypeInv, MethodTypes
        <5>3. orig \in [Addrs -> Rcpts \cup {NoAddr}]
          BY DEF TypeInv, DeliveryTypes
        <5> QED BY <4>1, <5>1, <5>2, <5>3 DEF Known
      <4> QED BY <3>4, <4>0, <4>2, <4>3
    <3>7. CASE PassTo
      <4>1. At("pass") /\ (Done \/ Fail) /\ phase = "adding"
        BY <3>7, PassToDoes
      <4>2. Done
        BY <3>0, <4>1, FailMeans DEF Methods
      <4>3. s \in Elems(todo)
        BY <2>m, <2>4, <4>1, <4>2, DoneList
      <4> QED BY <2>4, <3>1, <4>3
    <3> QED BY <1>2, <3>0, <3>2, <3>3, <3>5, <3>6, <3>7, AddingCases
  <2> QED BY <2>2, <2>3, <2>4 DEF KnownInv
<1> QED BY <1>1, <1>2

(***************************************************************************)
(* TypeOK holds: in particular a status is only ever set for an address    *)
(* the source passed to AddRcpt (statusCollector.SetStatus).               *)
(***************************************************************************)
THEOREM TypeCorrect == Spec => []TypeOK
<1>1. Init => TypeInv /\ KnownInv
  BY TypeInit, KnownInit
<1>2. TypeInv /\ KnownInv /\ [Next]_vars => (TypeInv /\ KnownInv)'
  BY TypeNext, KnownNext
<1>3. TypeInv /\ KnownInv => TypeOK
  BY DEF TypeInv, KnownInv, TypeOK, RunnerTypes, ModTypes, DeliveryTypes, HistTypes, MethodTypes
<1> QED BY <1>1, <1>2, <1>3, PTL DEF Spec

-----------------------------------------------------------------------------
(***************************************************************************)
(* A recipient that was accepted is with its targets                       *)
(***************************************************************************)

LEMMA HoldInit == Init => HoldInv
  BY DEF Init, HoldInv, AcceptedIsHeld

\* What a target has it keeps.
LEMMA HeldKept ==
    ASSUME TypeInv, Next
    PROVE  /\ \A t \in Targets : got[t] \subseteq got'[t] /\ recips[t] \subseteq recips'[t]
           /\ \A r, x : \A t \in Targets : Held(r, t, x) => Held(r, t, x)'
<1>1. CASE UNCHANGED <<got, recips>>
  BY <1>1 DEF Held
<1>2. CASE PassTo
  <2>1. PICK t \in Targets : \E x \in Addrs :
          \/ got' = [got EXCEPT ![t] = @ \cup {x}] /\ recips' = [recips EXCEPT ![t] = @ \cup {cur}]
          \/ UNCHANGED <<got, recips>>
    BY <1>2, PassToDoes
  <2>2. got \in [Targets -> SUBSET Addrs] /\ recips \in [Targets -> SUBSET Rcpts]
    BY DEF TypeInv, DeliveryTypes
  <2>3. \A u \in Targets : got[u] \subseteq got'[u] /\ recips[u] \subseteq recips'[u]
    BY <2>1, <2>2
  <2> QED BY <2>3 DEF Held
<1> QED BY <1>1, <1>2, Frames DEF Frame

\* An address goes on its way when the step it waits for, old, is replaced by
\* the next one.
LEMMA UnderwayKept ==
    ASSUME NEW a \in Addrs, Underway(a), cur' = cur, NEW old,
           \A x : \A t \in Targets : Held(cur, t, x) => Held(cur, t, x)',
           \A w \in Elems(todo) : w[1] \in AddKinds => w \in Elems(todo') \/ w = old,
           old = <<"rewrite">> => <<"route", a>> \in Elems(todo'),
           old = <<"route", a>> =>
             \E b \in BlocksFor[a] \ Rejects : <<"rewriteIn", b, a>> \in Elems(todo'),
           \A b : old = <<"rewriteIn", b, a>> =>
             \A x \in Elems(RcptRewritten[a]) : <<"passOn", x, b, a>> \in Elems(todo'),
           \A b, x : old = <<"passOn", x, b, a>> =>
             \A t \in Elems(TargetsOf[b]) : <<"pass", t, x, b, a>> \in Elems(todo'),
           \A b, x, t : old = <<"pass", t, x, b, a>> => Held(cur, t, x)'
    PROVE  Underway(a)'
<1>k. \A k \in {"rewrite", "route", "rewriteIn", "passOn", "pass"} : k \in AddKinds
  BY DEF AddKinds
<1>1. CASE <<"rewrite">> \in Elems(todo)
  <2>1. <<"rewrite">> \in Elems(todo') \/ old = <<"rewrite">>
    BY <1>1, <1>k
  <2> QED BY <2>1 DEF Underway
<1>2. CASE <<"route", a>> \in Elems(todo)
  <2>1. <<"route", a>> \in Elems(todo') \/ old = <<"route", a>>
    BY <1>2, <1>k
  <2> QED BY <2>1 DEF Underway
<1>3. ASSUME NEW b \in BlocksFor[a] \ Rejects,
             \/ <<"rewriteIn", b, a>> \in Elems(todo)
             \/ \A x \in Elems(RcptRewritten[a]) : Reaching(a, b, x)
      PROVE  Underway(a)'
  <2>t. Elems(TargetsOf[b]) \subseteq Targets
    <3>1. b \in Blocks
      BY AddrsAssumption
    <3>2. TargetsOf[b] \in Seq(Targets)
      BY <3>1, TargetsAssumption
    <3> QED BY <3>2 DEF Elems
  <2>1. CASE <<"rewriteIn", b, a>> \in Elems(todo)
    <3>1. <<"rewriteIn", b, a>> \in Elems(todo') \/ old = <<"rewriteIn", b, a>>
      BY <2>1, <1>k
    <3>2. CASE old = <<"rewriteIn", b, a>>
      <4>1. \A x \in Elems(RcptRewritten[a]) : Reaching(a, b, x)'
        BY <3>2 DEF Reaching
      <4> QED BY <4>1 DEF Underway
    <3> QED BY <3>1, <3>2 DEF Underway
  <2>2. CASE \A x \in Elems(RcptRewritten[a]) : Reaching(a, b, x)
    <3>1. ASSUME NEW x \in Elems(RcptRewritten[a]) PROVE Reaching(a, b, x)'
      <4>1. CASE <<"passOn", x, b, a>> \in Elems(todo)
        <5>1. <<"passOn", x, b, a>> \in Elems(todo') \/ old = <<"passOn", x, b, a>>
          BY <4>1, <1>k
        <5> QED BY <5>1 DEF Reaching
      <4>2. CASE \A t \in Elems(TargetsOf[b]) :
                   Held(cur, t, x) \/ <<"pass", t, x, b, a>> \in Elems(todo)
        <5>1. ASSUME NEW t \in Elems(TargetsOf[b])
              PROVE  Held(cur, t, x)' \/ <<"pass", t, x, b, a>> \in Elems(todo')
          <6>1. CASE Held(cur, t, x)
            BY <6>1, <2>t
          <6>2. CASE <<"pass", t, x, b, a>> \in Elems(todo)
            BY <6>2, <1>k
          <6> QED BY <4>2, <6>1, <6>2
        <5> QED BY <5>1 DEF Reaching
      <4> QED BY <2>2, <4>1, <4>2 DEF Reaching
    <3> QED BY <3>1 DEF Underway
  <2> QED BY <1>3, <2>1, <2>2
<1> QED BY <1>1, <1>2, <1>3 DEF Underway

\* The addresses of a recipient.
LEMMA RewrittenAddrs ==
    ASSUME NEW r \in Rcpts
    PROVE  Elems(Rewritten[r]) \subseteq Addrs
<1>1. Rewritten[r] \in Seq(Addrs)
  BY AddrsAssumption
<1> QED BY <1>1 DEF Elems

\* In AddRcpt, each address stays under way.
LEMMA UnderwayNext ==
    ASSUME TypeInv, HoldInv, Next, phase' = "adding", TypeInv',
           NEW a \in Elems(Rewritten[cur'])
    PROVE  Underway(a)'
<1>m. MethodTypes
  BY DEF TypeInv
<1>n. cur' \in Rcpts
  BY DEF TypeInv, MethodTypes
<1>a. a \in Addrs
  BY <1>n, RewrittenAddrs
<1>h. \A x : \A t \in Targets : Held(cur, t, x) => Held(cur, t, x)' \/ cur' # cur
  BY HeldKept DEF Held
<1>1. ASSUME NEW r \in Rcpts, AddRcpt(r) PROVE Underway(a)'
  <2>1. todo' = AddSteps(r) /\ r \in Addrs
    BY <1>1, RcptsAreAddrs DEF AddRcpt, AddSteps
  <2>2. <<"rewrite">> \in Elems(todo')
    BY <2>1, AddStepsOrder
  <2> QED BY <2>2 DEF Underway
<1>2. ASSUME phase = "adding", cur' = cur
      PROVE  /\ Underway(a)
             /\ \A x : \A t \in Targets : Held(cur, t, x) => Held(cur, t, x)'
             /\ ~Fail
  <2>1. ~Fail
    BY <1>2, FailMeans DEF Methods
  <2>2. Underway(a)
    BY <1>2 DEF HoldInv
  <2> QED BY <1>2, <1>h, <2>1, <2>2
<1>3. CASE QuietAdd
  <2>1. phase = "adding" /\ cur' = cur
    BY <1>3 DEF QuietAdd
  <2>2. PICK old : old = <<"none">>
    OBVIOUS
  <2>3. \A w \in Elems(todo) : w[1] \in AddKinds => w \in Elems(todo') \/ w = old
    BY <1>3 DEF QuietAdd
  <2>4. /\ old # <<"rewrite">> /\ old # <<"route", a>>
        /\ \A b : old # <<"rewriteIn", b, a>>
        /\ \A b, x : old # <<"passOn", x, b, a>>
        /\ \A b, x, t : old # <<"pass", t, x, b, a>>
    BY <2>2
  <2> QED BY <1>2, <1>a, <2>1, <2>3, <2>4, UnderwayKept
<1>4. ASSUME NEW op, At(op), NEW f \in Seq(Steps), DoneThen(f)
      PROVE  /\ \A w \in Elems(todo) : w[1] \in AddKinds => w \in Elems(todo') \/ w = Step
             /\ Elems(f) \subseteq Elems(todo')
  BY <1>m, <1>4, ThenList
<1>5. CASE RewriteRcpt
  <2>1. At("rewrite") /\ phase = "adding" /\ cur' = cur /\ Step = <<"rewrite">>
    BY <1>5, RewriteRcptDoes DEF itsVars
  <2>2. PICK f \in Seq(Steps) :
          /\ Elems(f) = {<<"route", y>> : y \in Elems(Rewritten[cur])}
          /\ DoneThen(f)
    BY <1>2, <1>5, <2>1, RewriteRcptDoes
  <2>3. <<"route", a>> \in Elems(todo')
    BY <1>4, <2>1, <2>2
  <2>4. \A w \in Elems(todo) : w[1] \in AddKinds => w \in Elems(todo') \/ w = Step
    BY <1>4, <2>1, <2>2
  <2>5. /\ Step # <<"route", a>>
        /\ \A b : Step # <<"rewriteIn", b, a>>
        /\ \A b, x : Step # <<"passOn", x, b, a>>
        /\ \A b, x, t : Step # <<"pass", t, x, b, a>>
    BY <2>1
  <2> QED BY <1>2, <1>a, <2>1, <2>3, <2>4, <2>5, UnderwayKept
<1>6. CASE Route
  <2>1. At("route") /\ phase = "adding" /\ cur' = cur
    BY <1>6, RouteDoes DEF itsVars
  <2>2. PICK y \in Addrs : \E b \in BlocksFor[y] \ Rejects :
          Step = <<"route", y>> /\ b \in Blocks /\ DoneThen(RouteSteps(b, y))
    BY <1>2, <1>6, <2>1, RouteDoes
  <2>3. PICK b \in BlocksFor[y] \ Rejects :
          Step = <<"route", y>> /\ b \in Blocks /\ DoneThen(RouteSteps(b, y))
    BY <2>2
  <2>4. /\ RouteSteps(b, y) \in Seq(Steps)
        /\ <<"rewriteIn", b, y>> \in Elems(RouteSteps(b, y))
    BY <2>3, RouteStepsOrder
  <2>5. /\ \A w \in Elems(todo) : w[1] \in AddKinds => w \in Elems(todo') \/ w = Step
        /\ <<"rewriteIn", b, y>> \in Elems(todo')
    BY <1>4, <2>1, <2>3, <2>4
  <2>6. Step = <<"route", a>> =>
          \E bb \in BlocksFor[a] \ Rejects : <<"rewriteIn", bb, a>> \in Elems(todo')
    <3>1. ASSUME Step = <<"route", a>> PROVE y = a
      BY <2>3, <3>1
    <3> QED BY <2>5, <3>1
  <2>7. /\ Step # <<"rewrite">>
        /\ \A bb : Step # <<"rewriteIn", bb, a>>
        /\ \A bb, x : Step # <<"passOn", x, bb, a>>
        /\ \A bb, x, t : Step # <<"pass", t, x, bb, a>>
    BY <2>3
  <2> QED BY <1>2, <1>a, <2>1, <2>5, <2>6, <2>7, UnderwayKept
<1>7. CASE RewriteInBlock
  <2>1. At("rewriteIn") /\ phase = "adding" /\ cur' = cur
    BY <1>7, RewriteInBlockDoes
  <2>2. PICK b \in Blocks : \E y \in Addrs :
          /\ Step = <<"rewriteIn", b, y>>
          /\ \E f \in Seq(Steps) :
               /\ Elems(f) = {<<"passOn", x, b, y>> : x \in Elems(RcptRewritten[y])}
               /\ DoneThen(f)
    BY <1>2, <1>7, <2>1, RewriteInBlockDoes
  <2>3. PICK y \in Addrs :
          /\ Step = <<"rewriteIn", b, y>>
          /\ \E f \in Seq(Steps) :
               /\ Elems(f) = {<<"passOn", x, b, y>> : x \in Elems(RcptRewritten[y])}
               /\ DoneThen(f)
    BY <2>2
  <2>4. PICK f \in Seq(Steps) :
          /\ Elems(f) = {<<"passOn", x, b, y>> : x \in Elems(RcptRewritten[y])}
          /\ DoneThen(f)
    BY <2>3
  <2>5. /\ \A w \in Elems(todo) : w[1] \in AddKinds => w \in Elems(todo') \/ w = Step
        /\ \A x \in Elems(RcptRewritten[y]) : <<"passOn", x, b, y>> \in Elems(todo')
    BY <1>4, <2>1, <2>4
  <2>6. ASSUME NEW bb, Step = <<"rewriteIn", bb, a>>
        PROVE  \A x \in Elems(RcptRewritten[a]) : <<"passOn", x, bb, a>> \in Elems(todo')
    <3>1. bb = b /\ y = a
      BY <2>3, <2>6
    <3> QED BY <2>5, <3>1
  <2>7. /\ Step # <<"rewrite">> /\ Step # <<"route", a>>
        /\ \A bb, x : Step # <<"passOn", x, bb, a>>
        /\ \A bb, x, t : Step # <<"pass", t, x, bb, a>>
    BY <2>3
  <2> QED BY <1>2, <1>a, <2>1, <2>5, <2>6, <2>7, UnderwayKept
<1>8. CASE PassOn
  <2>1. At("passOn") /\ phase = "adding" /\ cur' = cur
    BY <1>8, PassOnDoes
  <2>2. PICK y \in Addrs : \E b \in Blocks : \E z \in Addrs :
          /\ Step = <<"passOn", y, b, z>>
          /\ \E f \in Seq(Steps) :
               /\ Elems(f) = {<<"pass", t, y, b, z>> : t \in Elems(TargetsOf[b])}
               /\ DoneThen(f)
    BY <1>8, PassOnDoes
  <2>3. PICK b \in Blocks : \E z \in Addrs :
          /\ Step = <<"passOn", y, b, z>>
          /\ \E f \in Seq(Steps) :
               /\ Elems(f) = {<<"pass", t, y, b, z>> : t \in Elems(TargetsOf[b])}
               /\ DoneThen(f)
    BY <2>2
  <2>4. PICK z \in Addrs :
          /\ Step = <<"passOn", y, b, z>>
          /\ \E f \in Seq(Steps) :
               /\ Elems(f) = {<<"pass", t, y, b, z>> : t \in Elems(TargetsOf[b])}
               /\ DoneThen(f)
    BY <2>3
  <2>5. PICK f \in Seq(Steps) :
               /\ Elems(f) = {<<"pass", t, y, b, z>> : t \in Elems(TargetsOf[b])}
               /\ DoneThen(f)
    BY <2>4
  <2>6. /\ \A w \in Elems(todo) : w[1] \in AddKinds => w \in Elems(todo') \/ w = Step
        /\ \A t \in Elems(TargetsOf[b]) : <<"pass", t, y, b, z>> \in Elems(todo')
    BY <1>4, <2>1, <2>5
  <2>7. ASSUME NEW bb, NEW x, Step = <<"passOn", x, bb, a>>
        PROVE  \A t \in Elems(TargetsOf[bb]) : <<"pass", t, x, bb, a>> \in Elems(todo')
    <3>1. bb = b /\ x = y /\ a = z
      BY <2>4, <2>7
    <3> QED BY <2>6, <3>1
  <2>8. /\ Step # <<"rewrite">> /\ Step # <<"route", a>>
        /\ \A bb : Step # <<"rewriteIn", bb, a>>
        /\ \A bb, x, t : Step # <<"pass", t, x, bb, a>>
    BY <2>4
  <2> QED BY <1>2, <1>a, <2>1, <2>6, <2>7, <2>8, UnderwayKept
<1>9. CASE PassTo
  <2>1. At("pass") /\ phase = "adding" /\ cur' = cur
    BY <1>9, PassToDoes
  <2>2. PICK t \in Targets : \E x \in Addrs : \E b \in Blocks : \E y \in Addrs :
          /\ Step = <<"pass", t, x, b, y>>
          /\ got' = [got EXCEPT ![t] = @ \cup {x}]
          /\ recips' = [recips EXCEPT ![t] = @ \cup {cur}]
          /\ Done
    BY <1>2, <1>9, <2>1, PassToDoes
  <2>3. PICK x \in Addrs : \E b \in Blocks : \E y \in Addrs :
          /\ Step = <<"pass", t, x, b, y>>
          /\ got' = [got EXCEPT ![t] = @ \cup {x}]
          /\ recips' = [recips EXCEPT ![t] = @ \cup {cur}]
          /\ Done
    BY <2>2
  <2>4. Step[1] = "pass" /\ Step[2] = t /\ Step[3] = x
    BY <2>3
  <2>5. Held(cur, t, x)'
    <3>1. got \in [Targets -> SUBSET Addrs] /\ recips \in [Targets -> SUBSET Rcpts]
      BY DEF TypeInv, DeliveryTypes
    <3> QED BY <2>1, <2>3, <3>1 DEF Held
  <2>6. \A w \in Elems(todo) : w[1] \in AddKinds => w \in Elems(todo') \/ w = Step
    BY <1>m, <2>1, <2>3, DoneList
  <2>7. ASSUME NEW bb, NEW xx, NEW tt, Step = <<"pass", tt, xx, bb, a>>
        PROVE  Held(cur, tt, xx)'
    <3>1. tt = t /\ xx = x
      BY <2>4, <2>7
    <3> QED BY <2>5, <3>1
  <2>8. /\ Step # <<"rewrite">> /\ Step # <<"route", a>>
        /\ \A bb : Step # <<"rewriteIn", bb, a>>
        /\ \A bb, xx : Step # <<"passOn", xx, bb, a>>
    BY <2>4
  <2> QED BY <1>2, <1>a, <2>1, <2>6, <2>7, <2>8, UnderwayKept
<1> QED BY <1>1, <1>3, <1>5, <1>6, <1>7, <1>8, <1>9, AddingCases

LEMMA HoldNext == TypeInv /\ TypeInv' /\ HoldInv /\ [Next]_vars => HoldInv'
<1> SUFFICES ASSUME TypeInv, TypeInv', HoldInv, [Next]_vars PROVE HoldInv'
  OBVIOUS
<1>1. CASE UNCHANGED vars
  BY <1>1 DEF HoldInv, AcceptedIsHeld, Underway, Reaching, Held, vars, itsVars, deliveryVars,
     histVars
<1>2. CASE Next
  <2>1. ASSUME NEW r \in accepted', NEW a \in Elems(Rewritten[r])
        PROVE  \E b \in BlocksFor[a] \ Rejects :
                 \A x \in Elems(RcptRewritten[a]), t \in Elems(TargetsOf[b]) : Held(r, t, x)'
    <3>r. r \in Rcpts /\ a \in Addrs
      <4>1. r \in Rcpts
        BY DEF TypeInv, HistTypes
      <4> QED BY <4>1, RewrittenAddrs
    <3>t. \A b \in BlocksFor[a] : Elems(TargetsOf[b]) \subseteq Targets
      <4>1. ASSUME NEW b \in BlocksFor[a] PROVE Elems(TargetsOf[b]) \subseteq Targets
        <5>1. b \in Blocks
          BY <3>r, AddrsAssumption
        <5>2. TargetsOf[b] \in Seq(Targets)
          BY <5>1, TargetsAssumption
        <5> QED BY <5>2 DEF Elems
      <4> QED BY <4>1
    <3>h. \A x : \A t \in Targets : Held(r, t, x) => Held(r, t, x)'
      BY <1>2, HeldKept
    <3>1. PICK b \in BlocksFor[a] \ Rejects :
            \A x \in Elems(RcptRewritten[a]), t \in Elems(TargetsOf[b]) : Held(r, t, x)
      <4>1. CASE r \in accepted
        BY <4>1 DEF HoldInv, AcceptedIsHeld, Held
      <4>2. CASE r \notin accepted
        <5>1. Return
          BY <1>2, <4>2, Frames DEF Frame
        <5>2. phase = "adding" /\ r = cur /\ todo = <<>>
          BY <4>2, <5>1 DEF Return
        <5>3. Underway(a) /\ Elems(todo) = {}
          BY <5>2, EmptyList DEF HoldInv
        <5> QED BY <5>2, <5>3 DEF Underway, Reaching
      <4> QED BY <4>1, <4>2
    <3> QED BY <3>1, <3>h, <3>t
  <2>2. AcceptedIsHeld'
    BY <2>1 DEF AcceptedIsHeld, Held
  <2>3. phase' = "adding" => \A a \in Elems(Rewritten[cur']) : Underway(a)'
    BY <1>2, UnderwayNext
  <2> QED BY <2>2, <2>3 DEF HoldInv
<1> QED BY <1>1, <1>2

(***************************************************************************)
(* AcceptedIsHeld: a recipient AddRcpt returned nil for is with every      *)
(* target of a block that matches each of its addresses, through both      *)
(* rewritings and whatever other recipients failed half-way.               *)
(***************************************************************************)
THEOREM AcceptedHolds == Spec => []AcceptedIsHeld
<1>1. Init => TypeInv /\ HoldInv
  BY TypeInit, HoldInit
<1>2. TypeInv /\ HoldInv /\ [Next]_vars => (TypeInv /\ HoldInv)'
  BY TypeNext, HoldNext
<1>3. HoldInv => AcceptedIsHeld
  BY DEF HoldInv
<1> QED BY <1>1, <1>2, <1>3, PTL DEF Spec

-----------------------------------------------------------------------------
(***************************************************************************)
(* Every step finds what it relies on                                      *)
(***************************************************************************)

\* A fact that holds goes on to hold: a check whose state is stored keeps it,
\* and what it was shown.
LEMMA MetKept ==
    ASSUME TypeInv, Next
    PROVE  Met \subseteq Met'
<1>1. SUFFICES /\ stored \subseteq stored'
               /\ \A c \in stored : seen[c] \subseteq seen'[c]
               /\ bodySeen \subseteq bodySeen'
  BY <1>1 DEF Met
<1>t. stored \subseteq Checks
  BY DEF TypeInv, RunnerTypes
<1>2. CASE CheckStates
  <2>1. stored' = stored /\ bodySeen' = bodySeen
    BY <1>2, CheckStatesDoes DEF histVars
  <2>2. PICK l \in Lists : StatesWith(l)
    BY <1>2, CheckStatesDoes
  <2>3. PICK new : new = Elems(l) \ stored
    OBVIOUS
  <2>4. \/ seen' = [c \in Checks |-> IF c \in new THEN {} ELSE seen[c]]
        \/ seen' = seen
    BY <2>2, <2>3 DEF StatesWith
  <2>5. \A c \in stored : seen[c] \subseteq seen'[c]
    BY <1>t, <2>3, <2>4
  <2> QED BY <2>1, <2>5
<1>3. CASE StoreStates
  BY <1>3 DEF StoreStates, histVars
<1>4. CASE RunChecks
  <2>1. stored' = stored
    BY <1>4, RunChecksDoes
  <2>2. PICK k, a, l : RunWith(k, a, l)
    BY <1>4, RunChecksDoes
  <2> QED BY <1>t, <2>1, <2>2 DEF RunWith
<1> QED BY <1>2, <1>3, <1>4, Frames DEF Frame

\* A step that is done has established what it was to establish, or has put
\* steps in front of the list that will.
LEMMA OrderDone ==
    ASSUME TypeInv, NEW op, At(op), Done, OrderInv, Met \subseteq Met',
           Gives(Step) \subseteq Met'
    PROVE  Provided(cur, BodyNeeds, todo', Met')
<1>1. todo \in Seq(Steps) /\ todo # <<>>
  BY AtStep DEF TypeInv
<1>2. Provided(cur, BodyNeeds, todo, Met)
  BY DEF OrderInv
<1>3. Provided(cur, BodyNeeds, Tail(todo), Met \cup Gives(Step))
  BY <1>1, <1>2, ProvidedTail DEF Step
<1>4. Met \cup Gives(Step) \subseteq Met'
  OBVIOUS
<1>5. Provided(cur, BodyNeeds, Tail(todo), Met')
  BY <1>3, <1>4, ProvidedMono
<1> QED BY <1>5 DEF Done

LEMMA OrderThen ==
    ASSUME TypeInv, NEW op, At(op), NEW f \in Seq(Steps), DoneThen(f), OrderInv,
           Met \subseteq Met', Provided(cur, BodyNeeds, f, Met'),
           Gives(Step) \subseteq Met' \cup GivesAll(f)
    PROVE  Provided(cur, BodyNeeds, todo', Met')
<1>1. todo \in Seq(Steps) /\ todo # <<>>
  BY AtStep DEF TypeInv
<1>2. Provided(cur, BodyNeeds, todo, Met)
  BY DEF OrderInv
<1>3. Provided(cur, BodyNeeds, f \o Tail(todo), Met')
  BY <1>1, <1>2, ProvidedThen DEF Step
<1> QED BY <1>3 DEF DoneThen

\* The next step finds what it relies on.
LEMMA HeadNeeds ==
    ASSUME TypeInv, NEW op, At(op), OrderInv
    PROVE  Needs(cur, BodyNeeds, Step) \subseteq Met
<1>1. todo \in Seq(Steps) /\ todo # <<>>
  BY AtStep DEF TypeInv
<1> QED BY <1>1, ProvidedTail DEF OrderInv, Step

\* An error leaves a list that relies on nothing.
LEMMA OrderFail ==
    ASSUME NEW op, At(op), Fail
    PROVE  \A r, C, met : Provided(r, C, todo', met)
<1>1. phase \in Methods
  BY DEF At
<1> QED BY <1>1, FailMeans, FailLists, EmptyList

\* The checks the body is for are the same as long as the method runs.
LEMMA BodyNeedsKept ==
    ASSUME TypeInv, Next, phase' = phase
    PROVE  BodyNeeds' = BodyNeeds
<1>1. CASE phase # "body"
  BY <1>1 DEF BodyNeeds
<1>2. CASE phase = "body"
  <2>1. ASSUME NEW op \in {"globalMods", "sourceMods", "mods"}, At(op) PROVE FALSE
    <3>1. MethodTypes
      BY DEF TypeInv
    <3> QED BY <1>2, <2>1, <3>1, PhaseOf
  <2>2. ~(GlobalModifiers \/ SourceModifiers \/ RcptModifiers)
    BY <2>1 DEF GlobalModifiers, SourceModifiers, RcptModifiers
  <2>3. mods' = mods
    BY <2>2, Frames DEF Frame
  <2> QED BY <2>3 DEF BodyNeeds, UsedBlocks
<1> QED BY <1>1, <1>2

\* The steps that establish nothing.
LEMMA GivesNothing ==
    ASSUME NEW s, s[1] \notin {"states", "store", "run", "bodyIn"}
    PROVE  Gives(s) = {}
  BY DEF Gives

\* The lists the source starts a method with.
LEMMA OrderCalls ==
    ASSUME TypeInv, Source
    PROVE  Provided(cur', BodyNeeds', todo', Met')
<1>u. UsedBlocks \in SUBSET Blocks /\ UsedTargets \in SUBSET Targets
  BY UsedTypes
<1>1. CASE Start
  <2>1. BodyNeeds' = {}
    BY <1>1 DEF Start, BodyNeeds
  <2>2. PICK met : met = Met'
    OBVIOUS
  <2>3. Provided(cur', {}, todo', met)
    BY <1>1, StartSteps DEF Start
  <2> QED BY <2>1, <2>2, <2>3
<1>2. ASSUME NEW r \in Rcpts, AddRcpt(r)
      PROVE  Provided(cur', BodyNeeds', todo', Met')
  <2>1. BodyNeeds' = {} /\ cur' = r /\ todo' = AddSteps(r) /\ r \in Addrs
    BY <1>2, RcptsAreAddrs DEF AddRcpt, BodyNeeds, AddSteps
  <2>2. Provided(r, {}, AddSteps(r), Met')
    BY <2>1, AddStepsOrder
  <2> QED BY <2>1, <2>2
<1>3. CASE Body
  <2>1. PICK order \in Orders(UsedBlocks) : \E again \in Orders(UsedBlocks) :
          \E out \in Orders(UsedTargets) : todo' = BodySteps(order, again, out)
    BY <1>3 DEF Body, BodySteps
  <2>2. PICK again \in Orders(UsedBlocks) :
          \E out \in Orders(UsedTargets) : todo' = BodySteps(order, again, out)
    BY <2>1
  <2>3. PICK out \in Orders(UsedTargets) : todo' = BodySteps(order, again, out)
    BY <2>2
  <2>4. BodyNeeds' = ChecksOf(UsedBlocks)
    BY <1>3 DEF Body, BodyNeeds, UsedBlocks, itsVars, modVars
  <2>5. Provided(cur', ChecksOf(UsedBlocks), BodySteps(order, again, out), Met')
    BY <1>u, BodyOrder
  <2> QED BY <2>3, <2>4, <2>5
<1>4. CASE BodyNonAtomic
  <2>1. PICK order \in Orders(UsedBlocks) :
          \E out \in Orders(UsedTargets) : todo' = NonAtomicSteps(order, out)
    BY <1>4 DEF BodyNonAtomic, NonAtomicSteps
  <2>2. PICK out \in Orders(UsedTargets) : todo' = NonAtomicSteps(order, out)
    BY <2>1
  <2>3. BodyNeeds' = {}
    BY <1>4 DEF BodyNonAtomic, BodyNeeds
  <2>4. Provided(cur', {}, NonAtomicSteps(order, out), Met')
    BY <1>u, NonAtomicOrder
  <2> QED BY <2>2, <2>3, <2>4
<1>5. ASSUME NEW op \in {"commit", "abort"}, NEW m \in {"committing", "aborting"},
             Finish(m, op)
      PROVE  Provided(cur', BodyNeeds', todo', Met')
  <2>1. PICK out \in Orders(UsedTargets) : todo' = FinishSteps(op, out)
    BY <1>5 DEF Finish, FinishSteps
  <2>2. BodyNeeds' = {}
    BY <1>5 DEF Finish, BodyNeeds
  <2>3. Provided(cur', {}, FinishSteps(op, out), Met')
    BY <1>u, FinishOrder
  <2> QED BY <2>1, <2>2, <2>3
<1> QED BY <1>1, <1>2, <1>3, <1>4, <1>5 DEF Source, Commit, Abort

\* The steps of the pipeline.
LEMMA OrderSteps ==
    ASSUME TypeInv, TypeInv', OrderInv, Pipeline
    PROVE  Provided(cur', BodyNeeds', todo', Met')
<1>n. Next
  BY DEF Next
<1>m. MethodTypes /\ RunnerTypes /\ RunnerTypes'
  BY DEF TypeInv
<1>k. Met \subseteq Met'
  BY <1>n, MetKept
<1>c. cur' = cur
  <2>1. ~(\E r \in Rcpts : AddRcpt(r)) \/ cur' = cur
    <3>1. ASSUME NEW r \in Rcpts, AddRcpt(r) PROVE phase = "ready" /\ phase' = "adding"
      BY <3>1 DEF AddRcpt
    <3>2. ASSUME phase = "ready" PROVE ~Pipeline
      BY <3>2 DEF Pipeline, CheckStates, StoreStates, RunChecks, GlobalModifiers,
         SourceModifiers, CloseAll, Refuse, RewriteRcpt, Route, RcptModifiers, RewriteInBlock,
         PassOn, PassTo, CheckBodyIn, ApplyResults, RewriteBody, TellAll, SendBody,
         CommitTarget, AbortTarget, Return, At, Methods
    <3> QED BY <3>1, <3>2
  <2> QED BY <1>n, <2>1, Frames DEF Frame
<1>f. ASSUME NEW op, At(op), Fail PROVE Provided(cur', BodyNeeds', todo', Met')
  BY <1>f, OrderFail
<1>d. ASSUME NEW op, At(op), Done, Gives(Step) \subseteq Met'
      PROVE  Provided(cur', BodyNeeds', todo', Met')
  <2>1. BodyNeeds' = BodyNeeds
    BY <1>n, <1>d, BodyNeedsKept DEF Done
  <2>2. Provided(cur, BodyNeeds, todo', Met')
    BY <1>d, <1>k, OrderDone
  <2> QED BY <1>c, <2>1, <2>2
<1>t. ASSUME NEW op, At(op), NEW f \in Seq(Steps), DoneThen(f),
             \A s \in Elems(f) : Needs(cur, BodyNeeds, s) \subseteq Met',
             Gives(Step) \subseteq Met' \cup GivesAll(f)
      PROVE  Provided(cur', BodyNeeds', todo', Met')
  <2>1. BodyNeeds' = BodyNeeds
    BY <1>n, <1>t, BodyNeedsKept DEF DoneThen
  <2>2. PICK met : met = Met'
    OBVIOUS
  <2>3. Provided(cur, BodyNeeds, f, met)
    BY <1>t, <2>2, ProvidedFree
  <2>4. Provided(cur, BodyNeeds, todo', Met')
    BY <1>t, <1>k, <2>2, <2>3, OrderThen
  <2> QED BY <1>c, <2>1, <2>4
<1>1. CASE CheckStates
  <2>1. At("states") /\ stored' = stored
    BY <1>1, CheckStatesDoes
  <2>2. PICK l \in Lists : Step = <<"states", l>> /\ StatesWith(l)
    BY <1>1, CheckStatesDoes
  <2>3. PICK new : new = Elems(l) \ stored
    OBVIOUS
  <2>4. \/ \E f \in Seq(Steps) :
             /\ DoneThen(f)
             /\ Elems(f) \subseteq Replays(l) \cup {<<"store", new>>}
             /\ new # {} => <<"store", new>> \in Elems(f)
        \/ Fail
    BY <2>2, <2>3 DEF StatesWith
  <2>5. ASSUME NEW f \in Seq(Steps), DoneThen(f),
               Elems(f) \subseteq Replays(l) \cup {<<"store", new>>},
               new # {} => <<"store", new>> \in Elems(f)
        PROVE  Provided(cur', BodyNeeds', todo', Met')
    <3>1. \A s \in Replays(l) \cup {<<"store", new>>} : Needs(cur, BodyNeeds, s) = {}
      BY DEF Replays, Needs
    <3>2. \A s \in Elems(f) : Needs(cur, BodyNeeds, s) \subseteq Met'
      BY <2>5, <3>1
    <3>3. ASSUME NEW p \in Gives(Step) PROVE p \in Met' \cup GivesAll(f)
      <4>1. p \in Facts /\ p[1] = "stored" /\ p[2] \in Elems(l)
        BY <2>2 DEF Gives
      <4>2. CASE p[2] \in stored
        BY <2>1, <4>1, <4>2 DEF Met
      <4>3. CASE p[2] \in new
        <5>1. <<"store", new>> \in Elems(f)
          BY <2>5, <4>3
        <5>2. p \in Gives(<<"store", new>>)
          BY <4>1, <4>3 DEF Gives
        <5> QED BY <5>1, <5>2, GivesElems
      <4> QED BY <2>3, <4>1, <4>2, <4>3
    <3> QED BY <1>t, <2>1, <2>5, <3>2, <3>3
  <2> QED BY <1>f, <2>1, <2>4, <2>5
<1>2. CASE StoreStates
  <2>1. At("store") /\ Done /\ stored' = stored \cup Step[2]
    BY <1>2 DEF StoreStates
  <2>2. PICK n \in SUBSET Checks : Step = <<"store", n>>
    BY <1>m, <2>1, AtStep, StepShape
  <2>3. Gives(Step) \subseteq Met'
    BY <2>1, <2>2 DEF Gives, Met
  <2> QED BY <1>d, <2>1, <2>3
<1>3. CASE RunChecks
  <2>1. At("run") /\ (Done \/ Fail) /\ stored' = stored
    BY <1>3, RunChecksDoes
  <2>2. PICK k \in {"rcpt", "again", "conn", "sender", "body"} :
          \E a \in Addrs \cup {NoAddr} : \E l \in Lists :
             Step = <<"run", k, a, l>> /\ RunWith(k, a, l)
    BY <1>3, RunChecksDoes
  <2>3. PICK a \in Addrs \cup {NoAddr} : \E l \in Lists :
             Step = <<"run", k, a, l>> /\ RunWith(k, a, l)
    BY <2>2
  <2>4. PICK l \in Lists : Step = <<"run", k, a, l>> /\ RunWith(k, a, l)
    BY <2>3
  <2>5. Needs(cur, BodyNeeds, Step) \subseteq Met
    BY <2>1, HeadNeeds
  <2>6. ASSUME NEW p \in Gives(Step) PROVE p \in Met'
    <3>1. /\ p \in Facts
          /\ \/ k = "rcpt" /\ p[1] = "seen" /\ p[2] \in Elems(l) /\ p[3] = a
             \/ k = "body" /\ p[1] = "body" /\ p[2] \in Elems(l)
      BY <2>4 DEF Gives
    <3>2. CASE k = "rcpt" /\ p[1] = "seen" /\ p[2] \in Elems(l) /\ p[3] = a
      <4>1. PICK c \in Checks : c = p[2]
        BY <3>1 DEF Facts
      <4>2. PICK q : q = <<"stored", c, NoAddr>>
        OBVIOUS
      <4>3. q \in Facts /\ q[1] = "stored" /\ q[2] = c
        BY <4>2 DEF Facts
      <4>4. q \in Needs(cur, BodyNeeds, Step)
        BY <2>4, <3>2, <4>1, <4>3 DEF Needs
      <4>5. c \in stored
        BY <2>5, <4>3, <4>4 DEF Met
      <4>6. a \in seen'[c]
        BY <2>4, <3>2, <4>1 DEF RunWith
      <4> QED BY <2>1, <3>1, <3>2, <4>1, <4>5, <4>6 DEF Met
    <3>3. CASE k = "body" /\ p[1] = "body" /\ p[2] \in Elems(l)
      <4>1. p[2] \in bodySeen'
        BY <2>4, <3>3 DEF RunWith
      <4> QED BY <3>1, <3>3, <4>1 DEF Met
    <3> QED BY <3>1, <3>2, <3>3
  <2>7. Gives(Step) \subseteq Met'
    BY <2>6
  <2> QED BY <1>d, <1>f, <2>1, <2>7
<1>4. CASE \/ GlobalModifiers \/ SourceModifiers \/ CloseAll \/ RcptModifiers \/ ApplyResults
           \/ RewriteBody \/ TellAll \/ SendBody \/ CommitTarget \/ AbortTarget \/ PassTo
  <2>1. PICK op \in {"globalMods", "sourceMods", "close", "mods", "apply", "rewriteBody",
                     "tell", "send", "commit", "abort", "pass"} : At(op) /\ (Done \/ Fail)
    BY <1>4 DEF GlobalModifiers, SourceModifiers, CloseAll, RcptModifiers, ApplyResults,
       RewriteBody, TellAll, SendBody, CommitTarget, AbortTarget, PassTo
  <2>2. Step[1] = op
    BY <1>m, <2>1, AtStep
  <2>3. Gives(Step) = {}
    BY <2>1, <2>2, GivesNothing
  <2> QED BY <1>d, <1>f, <2>1, <2>3
<1>5. CASE CheckBodyIn
  <2>1. PICK b \in Blocks : /\ At("bodyIn") /\ Step = <<"bodyIn", b>>
                            /\ DoneThen(CheckBody(BlockChecks[b]))
    BY <1>5, CheckBodyInDoes
  <2>2. PICK l \in Lists : l = BlockChecks[b]
    BY ConfLists
  <2>3. /\ CheckBody(l) \in Seq(Steps)
        /\ Elems(CheckBody(l)) = {<<"states", l>>, <<"run", "body", NoAddr, l>>}
        /\ Provided(cur, BodyNeeds, CheckBody(l), Met')
    BY CheckSteps, CheckProvided
  <2>4. Gives(Step) \subseteq Gives(<<"run", "body", NoAddr, l>>)
    BY <2>1, <2>2 DEF Gives
  <2>5. Gives(<<"run", "body", NoAddr, l>>) \subseteq GivesAll(CheckBody(l))
    BY <2>3, GivesElems
  <2>6. PICK f \in Seq(Steps) : f = CheckBody(l)
    BY <2>3
  <2>7. Provided(cur, BodyNeeds, todo', Met')
    BY <1>k, <2>1, <2>2, <2>3, <2>4, <2>5, <2>6, OrderThen
  <2>8. BodyNeeds' = BodyNeeds
    BY <1>n, <2>1, BodyNeedsKept DEF DoneThen
  <2> QED BY <1>c, <2>7, <2>8
<1>6. CASE RewriteRcpt
  <2>1. At("rewrite") /\ Step = <<"rewrite">>
    BY <1>6, RewriteRcptDoes
  <2>2. ASSUME NEW f \in Seq(Steps), DoneThen(f),
               Elems(f) = {<<"route", a>> : a \in Elems(Rewritten[cur])}
        PROVE  Provided(cur', BodyNeeds', todo', Met')
    <3>1. Needs(cur, BodyNeeds, Step) \subseteq Met'
      BY <1>k, <2>1, HeadNeeds
    <3>2. \A s \in Elems(f) : Needs(cur, BodyNeeds, s) \subseteq Needs(cur, BodyNeeds, Step)
      BY <2>1, <2>2 DEF Needs
    <3>3. Gives(Step) = {}
      BY <2>1, GivesNothing
    <3> QED BY <1>t, <2>1, <2>2, <3>1, <3>2, <3>3
  <2> QED BY <1>6, <1>f, <2>1, <2>2, RewriteRcptDoes
<1>7. CASE Route
  <2>1. At("route")
    BY <1>7, RouteDoes
  <2>2. PICK a \in Addrs :
          /\ Step = <<"route", a>>
          /\ \/ \E b \in BlocksFor[a] \ Rejects : b \in Blocks /\ DoneThen(RouteSteps(b, a))
             \/ Fail
    BY <1>7, RouteDoes
  <2>3. ASSUME NEW b \in Blocks, DoneThen(RouteSteps(b, a))
        PROVE  Provided(cur', BodyNeeds', todo', Met')
    <3>1. Needs(cur, BodyNeeds, Step) \subseteq Met'
      BY <1>k, <2>1, HeadNeeds
    <3>2. Shown(cur) \subseteq Met'
      BY <2>2, <3>1 DEF Needs, Shown
    <3>3. BodyNeeds = {} /\ BodyNeeds' = {}
      BY <1>7, <2>3, RouteDoes DEF BodyNeeds, DoneThen
    <3>4. PICK met : met = Met'
      OBVIOUS
    <3>5. RouteSteps(b, a) \in Seq(Steps) /\ Provided(cur, {}, RouteSteps(b, a), met)
      BY <3>2, <3>4, RouteStepsOrder
    <3>6. Gives(Step) = {}
      BY <2>2, GivesNothing
    <3>7. Provided(cur, BodyNeeds, todo', Met')
      BY <1>k, <2>1, <2>3, <3>3, <3>4, <3>5, <3>6, OrderThen
    <3> QED BY <1>c, <3>3, <3>7
  <2> QED BY <1>f, <2>1, <2>2, <2>3
<1>8. CASE RewriteInBlock
  <2>1. At("rewriteIn")
    BY <1>8, RewriteInBlockDoes
  <2>2. PICK b \in Blocks : \E a \in Addrs :
          /\ Step = <<"rewriteIn", b, a>>
          /\ \/ \E f \in Seq(Steps) :
                  /\ Elems(f) = {<<"passOn", x, b, a>> : x \in Elems(RcptRewritten[a])}
                  /\ DoneThen(f)
             \/ Fail
    BY <1>8, RewriteInBlockDoes
  <2>3. PICK a \in Addrs :
          /\ Step = <<"rewriteIn", b, a>>
          /\ \/ \E f \in Seq(Steps) :
                  /\ Elems(f) = {<<"passOn", x, b, a>> : x \in Elems(RcptRewritten[a])}
                  /\ DoneThen(f)
             \/ Fail
    BY <2>2
  <2>4. ASSUME NEW f \in Seq(Steps), DoneThen(f),
               Elems(f) = {<<"passOn", x, b, a>> : x \in Elems(RcptRewritten[a])}
        PROVE  Provided(cur', BodyNeeds', todo', Met')
    <3>1. Needs(cur, BodyNeeds, Step) \subseteq Met'
      BY <1>k, <2>1, HeadNeeds
    <3>2. ASSUME NEW s \in Elems(f)
          PROVE  Needs(cur, BodyNeeds, s) \subseteq Needs(cur, BodyNeeds, Step)
      <4>1. PICK x : s = <<"passOn", x, b, a>>
        BY <2>4
      <4>2. Needs(cur, BodyNeeds, s) \subseteq Shown(cur) \cup ShownIn(b, a)
        BY <4>1 DEF Needs
      <4>3. Shown(cur) \cup ShownIn(b, a) \subseteq Needs(cur, BodyNeeds, Step)
        BY <2>3 DEF Needs, Shown, ShownIn
      <4> QED BY <4>2, <4>3
    <3>3. Gives(Step) = {}
      BY <2>3, GivesNothing
    <3> QED BY <1>t, <2>1, <2>4, <3>1, <3>2, <3>3
  <2> QED BY <1>f, <2>1, <2>3, <2>4
<1>9. CASE PassOn
  <2>1. At("passOn")
    BY <1>9, PassOnDoes
  <2>2. PICK x \in Addrs : \E b \in Blocks : \E a \in Addrs :
          /\ Step = <<"passOn", x, b, a>>
          /\ \E f \in Seq(Steps) :
               /\ Elems(f) = {<<"pass", t, x, b, a>> : t \in Elems(TargetsOf[b])}
               /\ DoneThen(f)
    BY <1>9, PassOnDoes
  <2>3. PICK b \in Blocks : \E a \in Addrs :
          /\ Step = <<"passOn", x, b, a>>
          /\ \E f \in Seq(Steps) :
               /\ Elems(f) = {<<"pass", t, x, b, a>> : t \in Elems(TargetsOf[b])}
               /\ DoneThen(f)
    BY <2>2
  <2>4. PICK a \in Addrs :
          /\ Step = <<"passOn", x, b, a>>
          /\ \E f \in Seq(Steps) :
               /\ Elems(f) = {<<"pass", t, x, b, a>> : t \in Elems(TargetsOf[b])}
               /\ DoneThen(f)
    BY <2>3
  <2>5. PICK f \in Seq(Steps) :
               /\ Elems(f) = {<<"pass", t, x, b, a>> : t \in Elems(TargetsOf[b])}
               /\ DoneThen(f)
    BY <2>4
  <2>6. Needs(cur, BodyNeeds, Step) \subseteq Met'
    BY <1>k, <2>1, HeadNeeds
  <2>7. ASSUME NEW s \in Elems(f)
        PROVE  Needs(cur, BodyNeeds, s) \subseteq Needs(cur, BodyNeeds, Step)
    <3>1. PICK t : s = <<"pass", t, x, b, a>>
      BY <2>5
    <3>2. Needs(cur, BodyNeeds, s) \subseteq Shown(cur) \cup ShownIn(b, a)
      BY <3>1 DEF Needs
    <3>3. Shown(cur) \cup ShownIn(b, a) \subseteq Needs(cur, BodyNeeds, Step)
      BY <2>4 DEF Needs, Shown, ShownIn
    <3> QED BY <3>2, <3>3
  <2>8. Gives(Step) = {}
    BY <2>4, GivesNothing
  <2> QED BY <1>t, <2>1, <2>5, <2>6, <2>7, <2>8
<1>10. CASE Refuse \/ Return
  BY <1>10, EmptyList DEF Refuse, Return
<1> QED BY <1>1, <1>2, <1>3, <1>4, <1>5, <1>6, <1>7, <1>8, <1>9, <1>10 DEF Pipeline

LEMMA OrderInit == Init => OrderInv
<1> SUFFICES ASSUME Init PROVE OrderInv
  OBVIOUS
<1>1. Provided(cur, BodyNeeds, todo, Met)
  BY EmptyList DEF Init
<1> QED BY <1>1 DEF Init, OrderInv

LEMMA OrderNext == TypeInv /\ TypeInv' /\ OrderInv /\ [Next]_vars => OrderInv'
<1> SUFFICES ASSUME TypeInv, TypeInv', OrderInv, [Next]_vars PROVE OrderInv'
  OBVIOUS
<1>1. CASE UNCHANGED vars
  BY <1>1 DEF OrderInv, BodyNeeds, UsedBlocks, Met, vars, itsVars, runnerVars, modVars, histVars
<1>2. CASE Next
  <2>1. Provided(cur', BodyNeeds', todo', Met')
    BY <1>2, OrderCalls, OrderSteps DEF Next
  <2>2. Met \subseteq Met'
    BY <1>2, MetKept
  <2>3. ASSUME NEW w \in ways' PROVE Shown(w.to) \cup ShownIn(w.block, w.routed) \subseteq Met'
    <3>1. CASE w \in ways
      BY <2>2, <3>1 DEF OrderInv
    <3>2. CASE w \notin ways
      <4>1. PassTo
        BY <1>2, <3>2, Frames DEF Frame
      <4>2. At("pass")
        BY <4>1, PassToDoes
      <4>3. PICK t \in Targets : \E x \in Addrs : \E b \in Blocks : \E a \in Addrs :
              /\ Step = <<"pass", t, x, b, a>>
              /\ ways' = ways \cup {[to |-> cur, routed |-> a, block |-> b,
                                     final |-> x, target |-> t]}
        BY <4>1, <3>2, PassToDoes
      <4>4. PICK x \in Addrs : \E b \in Blocks : \E a \in Addrs :
              /\ Step = <<"pass", t, x, b, a>>
              /\ ways' = ways \cup {[to |-> cur, routed |-> a, block |-> b,
                                     final |-> x, target |-> t]}
        BY <4>3
      <4>5. PICK b \in Blocks : \E a \in Addrs :
              /\ Step = <<"pass", t, x, b, a>>
              /\ ways' = ways \cup {[to |-> cur, routed |-> a, block |-> b,
                                     final |-> x, target |-> t]}
        BY <4>4
      <4>6. PICK a \in Addrs :
              /\ Step = <<"pass", t, x, b, a>>
              /\ ways' = ways \cup {[to |-> cur, routed |-> a, block |-> b,
                                     final |-> x, target |-> t]}
        BY <4>5
      <4>7. w.to = cur /\ w.routed = a /\ w.block = b
        BY <3>2, <4>6
      <4>8. Needs(cur, BodyNeeds, Step) \subseteq Met
        BY <4>2, HeadNeeds
      <4>9. Shown(cur) \cup ShownIn(b, a) \subseteq Needs(cur, BodyNeeds, Step)
        BY <4>6 DEF Needs, Shown, ShownIn
      <4> QED BY <2>2, <4>7, <4>8, <4>9
    <3> QED BY <3>1, <3>2
  <2> QED BY <2>1, <2>3 DEF OrderInv
<1> QED BY <1>1, <1>2

-----------------------------------------------------------------------------
(***************************************************************************)
(* The body                                                                *)
(***************************************************************************)

\* Where an error takes a method.
FailTo == {<<"adding", "ready">>, <<"body", "failed">>, <<"committing", "brokenCommit">>}

\* The steps that end a method or begin one.
LEMMA Moves ==
    ASSUME TypeInv, Next, phase' # phase
    PROVE  \/ Start /\ phase = "new" /\ phase' = "starting"
           \/ (\E r \in Rcpts : AddRcpt(r)) /\ phase = "ready" /\ phase' = "adding"
           \/ Body /\ phase = "ready" /\ phase' = "body"
           \/ BodyNonAtomic /\ phase = "ready" /\ phase' = "nonatomic"
           \/ Commit /\ phase = "sent" /\ phase' = "committing"
           \/ Abort /\ phase \in {"ready", "sent", "failed"} /\ phase' = "aborting"
           \/ Refuse /\ phase = "starting" /\ phase' = "refused"
           \/ Fail /\ <<phase, phase'>> \in FailTo
           \/ Return /\ <<phase, phase'>> \in
                {<<"starting", "ready">>, <<"adding", "ready">>, <<"body", "sent">>,
                 <<"nonatomic", "sent">>, <<"committing", "committed">>,
                 <<"aborting", "aborted">>}
<1>1. CASE Source
  BY <1>1 DEF Source, Start, AddRcpt, Body, BodyNonAtomic, Commit, Abort, Finish
<1>2. CASE Refuse
  <2>1. At("refuse") /\ MethodTypes /\ phase' = "refused"
    BY <1>2 DEF Refuse, TypeInv
  <2>2. phase = "starting"
    BY <2>1, PhaseOf
  <2> QED BY <1>2, <2>1, <2>2
<1>3. CASE Return
  <2>1. phase \in Methods
    BY <1>3 DEF Return
  <2>2. /\ phase = "starting" => phase' = "ready"
        /\ phase = "adding" => phase' = "ready"
        /\ phase = "body" => phase' = "sent"
        /\ phase = "nonatomic" => phase' = "sent"
        /\ phase = "committing" => phase' = "committed"
        /\ phase = "aborting" => phase' = "aborted"
    BY <1>3 DEF Return
  <2>3. <<phase, phase'>> \in
                {<<"starting", "ready">>, <<"adding", "ready">>, <<"body", "sent">>,
                 <<"nonatomic", "sent">>, <<"committing", "committed">>,
                 <<"aborting", "aborted">>}
    BY <2>1, <2>2 DEF Methods
  <2> QED BY <1>3, <2>3
<1>4. ASSUME NEW op, At(op), Fail PROVE <<phase, phase'>> \in FailTo
  <2>1. phase \in Methods
    BY <1>4 DEF At
  <2> QED BY <1>4, <2>1, FailMeans DEF FailTo
<1>5. CASE Pipeline /\ ~Refuse /\ ~Return
  <2>1. \E op : At(op) /\ (Fail \/ phase' = phase)
    BY <1>5 DEF Pipeline, CheckStates, StoreStates, RunChecks, GlobalModifiers,
         SourceModifiers, CloseAll, Refuse, RewriteRcpt, Route, RcptModifiers, RewriteInBlock,
         PassOn, PassTo, CheckBodyIn, ApplyResults, RewriteBody, TellAll, SendBody,
         CommitTarget, AbortTarget, Done, DoneThen
  <2> QED BY <1>4, <2>1
<1> QED BY <1>1, <1>2, <1>3, <1>5 DEF Next

LEMMA EarlyInit == Init => EarlyInv
  BY DEF Init, EarlyInv

LEMMA EarlyNext == TypeInv /\ EarlyInv /\ [Next]_vars => EarlyInv'
<1> SUFFICES ASSUME TypeInv, EarlyInv, [Next]_vars, phase' \in Early
             PROVE  failedAt' = {} /\ \A t \in Targets : dlv'[t] \in {"none", "open"}
  BY DEF EarlyInv
<1>1. CASE UNCHANGED vars
  BY <1>1 DEF EarlyInv, vars, itsVars, histVars, deliveryVars
<1>2. CASE Next
  <2>1. phase \in Early
    <3>1. CASE phase' = phase
      BY <3>1
    <3>2. CASE phase' # phase
      BY <1>2, <3>2, Moves DEF Early, FailTo
    <3> QED BY <3>1, <3>2
  <2>2. failedAt = {} /\ \A t \in Targets : dlv[t] \in {"none", "open"}
    BY <2>1 DEF EarlyInv
  <2>3. ~SendBody /\ ~CommitTarget /\ ~AbortTarget
    <3>1. ASSUME NEW op \in {"send", "commit", "abort"}, At(op) PROVE FALSE
      <4>1. MethodTypes
        BY DEF TypeInv
      <4> QED BY <2>1, <3>1, <4>1, PhaseOf DEF Early
    <3> QED BY <3>1 DEF SendBody, CommitTarget, AbortTarget
  <2>4. failedAt' = failedAt /\ (PassTo \/ dlv' = dlv)
    BY <1>2, <2>3, Frames DEF Frame
  <2>5. CASE PassTo
    <3>1. PICK t \in Targets : dlv' = [dlv EXCEPT ![t] = "open"] \/ dlv' = dlv
      BY <2>5, PassToDoes
    <3>2. DOMAIN dlv = Targets
      BY DEF TypeInv, DeliveryTypes
    <3> QED BY <2>2, <2>4, <3>1, <3>2
  <2> QED BY <2>2, <2>4, <2>5
<1> QED BY <1>1, <1>2

\* The steps of Body.
LEMMA BodyCases ==
    ASSUME TypeInv, Next, phase' = "body"
    PROVE  \/ Body
           \/ /\ phase = "body" /\ ~Fail
              /\ \/ CheckStates \/ StoreStates \/ RunChecks \/ CheckBodyIn
                 \/ ApplyResults \/ RewriteBody \/ SendBody
<1>1. CASE phase # "body"
  BY <1>1, Moves DEF FailTo
<1>2. CASE phase = "body"
  <2>1. ~Fail
    BY <1>2, FailMeans DEF Methods
  <2>2. ASSUME NEW op \in {"globalMods", "sourceMods", "close", "refuse", "rewrite", "route",
                           "mods", "rewriteIn", "passOn", "pass", "tell", "commit", "abort"},
               At(op)
        PROVE  FALSE
    <3>1. MethodTypes
      BY DEF TypeInv
    <3> QED BY <1>2, <2>2, <3>1, PhaseOf
  <2>3. ~(GlobalModifiers \/ SourceModifiers \/ CloseAll \/ Refuse \/ RewriteRcpt \/ Route
          \/ RcptModifiers \/ RewriteInBlock \/ PassOn \/ PassTo \/ TellAll \/ CommitTarget
          \/ AbortTarget)
    BY <2>2 DEF GlobalModifiers, SourceModifiers, CloseAll, Refuse, RewriteRcpt, Route,
       RcptModifiers, RewriteInBlock, PassOn, PassTo, TellAll, CommitTarget, AbortTarget
  <2>4. ~Return
    BY <1>2 DEF Return
  <2>5. ~Source
    BY <1>2 DEF Source, Start, AddRcpt, Body, BodyNonAtomic, Commit, Abort
  <2> QED BY <1>2, <2>1, <2>3, <2>4, <2>5 DEF Next, Pipeline
<1> QED BY <1>1, <1>2

\* While checks are left to run, applyResults is to come; after it only
\* modifiers and targets are.
LEMMA BodyPlace ==
    ASSUME TypeInv, BodyInv, phase = "body", NEW op, At(op)
    PROVE  /\ op \in CheckKinds =>
                /\ \E k \in 1 .. Len(todo) : Split(todo, k)
                /\ \A t \in Targets : dlv[t] \in {"none", "open"}
           /\ op = "apply" =>
                /\ \A i \in 1 .. Len(Tail(todo)) : Tail(todo)[i][1] \in LateKinds
                /\ \A t \in Targets : dlv[t] \in {"none", "open"}
           /\ op \in LateKinds =>
                /\ \A i \in 1 .. Len(Tail(todo)) : Tail(todo)[i][1] \in LateKinds
                /\ quarantine => metaQ
                /\ (\E t \in Targets : dlv[t] \notin {"none", "open"})
                     => BodyNeeds \subseteq bodySeen
<1>1. /\ todo \in Seq(Steps) /\ todo # <<>> /\ Step[1] = op
  BY AtStep DEF TypeInv
<1>2. /\ Len(todo) \in Nat \ {0}
      /\ Len(Tail(todo)) = Len(todo) - 1
      /\ \A i \in 1 .. Len(Tail(todo)) : Tail(todo)[i] = todo[i + 1]
      /\ todo[1][1] = op
  BY <1>1, TailElems DEF Step
<1>3. ASSUME NEW k \in 1 .. Len(todo), Split(todo, k), op \notin CheckKinds
      PROVE  /\ op = "apply"
             /\ \A i \in 1 .. Len(Tail(todo)) : Tail(todo)[i][1] \in LateKinds
  <2>1. k = 1
    <3>1. k \in Nat /\ (k = 1 \/ 1 \in 1 .. k - 1)
      BY <1>2
    <3> QED BY <1>2, <1>3, <3>1 DEF Split
  <2>2. \A i \in 1 .. Len(Tail(todo)) : i + 1 \in 2 .. Len(todo)
    BY <1>2
  <2> QED BY <1>2, <1>3, <2>1, <2>2 DEF Split
<1>4. (\A i \in 1 .. Len(todo) : todo[i][1] \in LateKinds) =>
        /\ op \in LateKinds
        /\ \A i \in 1 .. Len(Tail(todo)) : Tail(todo)[i][1] \in LateKinds
  <2>1. \A i \in 1 .. Len(Tail(todo)) : i + 1 \in 1 .. Len(todo)
    BY <1>2
  <2>2. 1 \in 1 .. Len(todo)
    BY <1>2
  <2> QED BY <1>2, <2>1, <2>2
<1>5. CheckKinds \cap LateKinds = {} /\ "apply" \notin CheckKinds \cup LateKinds
  BY DEF CheckKinds, LateKinds
<1> QED BY <1>3, <1>4, <1>5 DEF BodyInv

LEMMA BodyNext ==
    TypeInv /\ TypeInv' /\ OrderInv /\ EarlyInv /\ BodyInv /\ [Next]_vars => BodyInv'
<1> SUFFICES ASSUME TypeInv, TypeInv', OrderInv, EarlyInv, BodyInv, [Next]_vars,
                    phase' = "body"
             PROVE  BodyInv'
  BY DEF BodyInv
<1>1. CASE UNCHANGED vars
  BY <1>1 DEF BodyInv, BodyNeeds, UsedBlocks, vars, itsVars, runnerVars, modVars, deliveryVars,
     histVars
<1> SUFFICES ASSUME Next PROVE BodyInv'
  BY <1>1
<1>m. MethodTypes
  BY DEF TypeInv
<1>2. CASE Body
  <2>1. PICK order \in Orders(UsedBlocks) : \E again \in Orders(UsedBlocks) :
          \E out \in Orders(UsedTargets) : todo' = BodySteps(order, again, out)
    BY <1>2 DEF Body, BodySteps
  <2>2. PICK again \in Orders(UsedBlocks) :
          \E out \in Orders(UsedTargets) : todo' = BodySteps(order, again, out)
    BY <2>1
  <2>3. PICK out \in Orders(UsedTargets) : todo' = BodySteps(order, again, out)
    BY <2>2
  <2>4. \E k \in 1 .. Len(todo') : Split(todo', k)
    BY <2>3, UsedTypes, BodyOrder
  <2>5. \A t \in Targets : dlv'[t] \in {"none", "open"}
    BY <1>2 DEF Body, EarlyInv, Early, itsVars, deliveryVars
  <2> QED BY <2>4, <2>5 DEF BodyInv
<1>3. ASSUME phase = "body", ~Fail, NEW op \in CheckKinds, At(op), dlv' = dlv,
             \/ Done
             \/ \E f \in Seq(Steps) : DoneThen(f) /\ \A s \in Elems(f) : s[1] \in CheckKinds
      PROVE  BodyInv'
  <2>1. PICK k \in 1 .. Len(todo) : Split(todo, k)
    BY <1>3, BodyPlace
  <2>2. \A t \in Targets : dlv'[t] \in {"none", "open"}
    BY <1>3, BodyPlace
  <2>3. todo \in Seq(Steps) /\ todo # <<>> /\ Head(todo)[1] \in CheckKinds
    BY <1>m, <1>3, AtStep DEF Step
  <2>4. /\ Tail(todo) \in Seq(Steps) /\ k - 1 \in 1 .. Len(Tail(todo))
        /\ Split(Tail(todo), k - 1)
    BY <2>1, <2>3, SplitTail
  <2>5. CASE Done
    BY <2>2, <2>4, <2>5 DEF BodyInv, Done
  <2>6. ASSUME NEW f \in Seq(Steps), DoneThen(f), \A s \in Elems(f) : s[1] \in CheckKinds
        PROVE  BodyInv'
    <3>1. PICK g \in Seq(Steps) : g = Tail(todo)
      BY <2>4
    <3>2. Len(f) + (k - 1) \in 1 .. Len(f \o g) /\ Split(f \o g, Len(f) + (k - 1))
      BY <2>4, <2>6, <3>1, SplitConcat
    <3>3. todo' = f \o g
      BY <2>6, <3>1 DEF DoneThen
    <3> QED BY <2>2, <3>2, <3>3 DEF BodyInv
  <2> QED BY <1>3, <2>5, <2>6
<1>4. CASE phase = "body" /\ ~Fail /\ CheckStates
  <2>1. At("states") /\ dlv' = dlv
    BY <1>4, CheckStatesDoes DEF deliveryVars
  <2>2. PICK l \in Lists : StatesWith(l)
    BY <1>4, CheckStatesDoes
  <2>3. PICK new : new = Elems(l) \ stored
    OBVIOUS
  <2>4. PICK f \in Seq(Steps) :
          DoneThen(f) /\ Elems(f) \subseteq Replays(l) \cup {<<"store", new>>}
    BY <1>4, <2>2, <2>3 DEF StatesWith
  <2>5. \A s \in Replays(l) \cup {<<"store", new>>} : s[1] \in CheckKinds
    BY DEF Replays, CheckKinds
  <2>6. "states" \in CheckKinds
    BY DEF CheckKinds
  <2> QED BY <1>3, <1>4, <2>1, <2>4, <2>5, <2>6
<1>5. CASE phase = "body" /\ ~Fail /\ (StoreStates \/ RunChecks)
  <2>1. PICK op \in {"store", "run"} : At(op) /\ Done /\ dlv' = dlv
    BY <1>5 DEF StoreStates, RunChecks, deliveryVars
  <2>2. op \in CheckKinds
    BY <2>1 DEF CheckKinds
  <2> QED BY <1>3, <1>5, <2>1, <2>2
<1>6. CASE phase = "body" /\ ~Fail /\ CheckBodyIn
  <2>1. PICK b \in Blocks : At("bodyIn") /\ DoneThen(CheckBody(BlockChecks[b])) /\ dlv' = dlv
    BY <1>6, CheckBodyInDoes DEF itsVars, deliveryVars
  <2>2. PICK l \in Lists : l = BlockChecks[b]
    BY ConfLists
  <2>3. /\ CheckBody(l) \in Seq(Steps)
        /\ \A s \in Elems(CheckBody(l)) : s[1] \in CheckKinds
    BY CheckSteps DEF CheckKinds
  <2>4. "bodyIn" \in CheckKinds
    BY DEF CheckKinds
  <2> QED BY <1>3, <1>6, <2>1, <2>2, <2>3, <2>4
<1>b. BodyNeeds' = BodyNeeds \/ phase # "body"
  BY BodyNeedsKept
<1>7. CASE phase = "body" /\ ~Fail /\ ApplyResults
  <2>1. /\ At("apply") /\ Done /\ (quarantine' => metaQ')
        /\ dlv' = dlv
    <3>1. /\ At("apply") /\ Done /\ dlv' = dlv /\ quarantine' = quarantine
          /\ metaQ' = (metaQ \/ quarantine) \/ metaQ' = TRUE
      BY <1>7 DEF ApplyResults, runnerVars
    <3>2. quarantine' => metaQ'
      BY <3>1, Zenon
    <3> QED BY <3>1, <3>2
  <2>2. /\ \A i \in 1 .. Len(todo') : todo'[i][1] \in LateKinds
        /\ \A t \in Targets : dlv'[t] \in {"none", "open"}
    BY <1>7, <2>1, BodyPlace DEF Done
  <2> QED BY <2>1, <2>2 DEF BodyInv
<1>8. CASE phase = "body" /\ ~Fail /\ RewriteBody
  <2>1. /\ At("rewriteBody") /\ Done /\ UNCHANGED <<dlv, quarantine, metaQ, bodySeen>>
    BY <1>8 DEF RewriteBody, itsVars, runnerVars, deliveryVars, histVars
  <2>2. "rewriteBody" \in LateKinds
    BY DEF LateKinds
  <2>3. /\ \A i \in 1 .. Len(todo') : todo'[i][1] \in LateKinds
        /\ quarantine' => metaQ'
        /\ (\E t \in Targets : dlv'[t] \notin {"none", "open"})
             => BodyNeeds \subseteq bodySeen'
    BY <1>8, <2>1, <2>2, BodyPlace DEF Done
  <2> QED BY <1>8, <1>b, <2>3 DEF BodyInv
<1>9. CASE phase = "body" /\ ~Fail /\ SendBody
  <2>1. /\ At("send") /\ UNCHANGED <<quarantine, metaQ, bodySeen>> /\ Done
    BY <1>9, SendBodyDoes DEF runnerVars
  <2>2. PICK t \in Targets : Step = <<"send", t>>
    BY <1>9, SendBodyDoes
  <2>3. "send" \in LateKinds
    BY DEF LateKinds
  <2>4. /\ \A i \in 1 .. Len(todo') : todo'[i][1] \in LateKinds
        /\ quarantine' => metaQ'
    BY <1>9, <2>1, <2>3, BodyPlace DEF Done
  <2>5. Needs(cur, BodyNeeds, Step) \subseteq Met
    BY <2>1, HeadNeeds
  <2>6. ASSUME NEW c \in BodyNeeds PROVE c \in bodySeen
    <3>1. c \in Checks
      <4>1. UsedBlocks \subseteq Blocks
        BY UsedTypes
      <4>2. /\ Elems(GlobalChecks) \cup Elems(SourceChecks) \subseteq Checks
            /\ \A b \in Blocks : Elems(BlockChecks[b]) \subseteq Checks
        BY ConfLists, ListElems
      <4> QED BY <4>1, <4>2 DEF BodyNeeds, ChecksOf
    <3>2. PICK q : q = <<"body", c, NoAddr>>
      OBVIOUS
    <3>3. q \in Facts /\ q[1] = "body" /\ q[2] = c
      BY <3>1, <3>2 DEF Facts
    <3>4. q \in Needs(cur, BodyNeeds, Step)
      BY <2>2, <3>3 DEF Needs
    <3> QED BY <2>5, <3>3, <3>4 DEF Met
  <2> QED BY <1>9, <1>b, <2>1, <2>4, <2>6 DEF BodyInv
<1> QED BY <1>2, <1>4, <1>5, <1>6, <1>7, <1>8, <1>9, BodyCases

\* What the facts mean.
LEMMA OrderMeans ==
    ASSUME TypeInv, OrderInv, BodyInv
    PROVE  CheckedBeforePassed
<1>l. /\ Elems(GlobalChecks) \cup Elems(SourceChecks) \subseteq Checks
      /\ \A b \in Blocks : Elems(BlockChecks[b]) \subseteq Checks
  BY ConfLists, ListElems
<1>1. ASSUME NEW c \in Checks, NEW a \in Addrs, <<"seen", c, a>> \in Met
      PROVE  c \in stored /\ a \in seen[c]
  <2>1. PICK q : q = <<"seen", c, a>>
    OBVIOUS
  <2>2. q[1] = "seen" /\ q[2] = c /\ q[3] = a
    BY <2>1
  <2> QED BY <1>1, <2>1, <2>2 DEF Met
<1>2. ASSUME NEW w \in ways
      PROVE  /\ \A c \in Elems(GlobalChecks) \cup Elems(SourceChecks) :
                  c \in stored /\ w.to \in seen[c]
             /\ \A c \in Elems(BlockChecks[w.block]) :
                  c \in stored /\ w.routed \in seen[c]
  <2>1. w.to \in Addrs /\ w.routed \in Addrs /\ w.block \in Blocks
    BY RcptsAreAddrs DEF TypeInv, HistTypes, Ways
  <2>2. Shown(w.to) \subseteq Met /\ ShownIn(w.block, w.routed) \subseteq Met
    BY DEF OrderInv
  <2>3. ASSUME NEW c \in Elems(GlobalChecks) \cup Elems(SourceChecks)
        PROVE  c \in stored /\ w.to \in seen[c]
    <3>1. PICK q : q = <<"seen", c, w.to>>
      OBVIOUS
    <3>2. q \in Facts /\ q[1] = "seen" /\ q[2] = c /\ q[3] = w.to
      BY <1>l, <2>1, <3>1 DEF Facts
    <3>3. q \in Met
      BY <2>2, <3>2 DEF Shown
    <3> QED BY <1>1, <1>l, <2>1, <3>1, <3>3
  <2>4. ASSUME NEW c \in Elems(BlockChecks[w.block])
        PROVE  c \in stored /\ w.routed \in seen[c]
    <3>1. PICK q : q = <<"seen", c, w.routed>>
      OBVIOUS
    <3>2. q \in Facts /\ q[1] = "seen" /\ q[2] = c /\ q[3] = w.routed
      BY <1>l, <2>1, <3>1 DEF Facts
    <3>3. q \in Met
      BY <2>2, <3>2 DEF ShownIn
    <3> QED BY <1>1, <1>l, <2>1, <3>1, <3>3
  <2> QED BY <2>3, <2>4
<1>3. RcptsChecked
  BY <1>2 DEF RcptsChecked
<1>4. ASSUME phase = "body", \E t \in Targets : dlv[t] \notin {"none", "open"}
      PROVE  BodyChecked
  <2>1. (quarantine => metaQ) /\ BodyNeeds \subseteq bodySeen
    BY <1>4 DEF BodyInv
  <2>2. ChecksOf(UsedBlocks) \subseteq bodySeen
    BY <1>4, <2>1 DEF BodyNeeds
  <2> QED BY <2>1, <2>2 DEF BodyChecked, ChecksOf
<1> QED BY <1>3, <1>4 DEF CheckedBeforePassed

(***************************************************************************)
(* CheckedBeforePassed: no address reaches a target before the checks of   *)
(* the pipeline, the source block and its recipient block have a state and *)
(* were shown it, and Body passes no body before every check in use saw it *)
(* and the quarantine mark was set, for any lists of checks, shared or     *)
(* repeated, and any errors before it.                                     *)
(***************************************************************************)
THEOREM CheckedFirst == Spec => []CheckedBeforePassed
<1> DEFINE Inv == TypeInv /\ OrderInv /\ EarlyInv /\ BodyInv
<1>1. Init => Inv
  BY TypeInit, OrderInit, EarlyInit DEF BodyInv, Init
<1>2. Inv /\ [Next]_vars => Inv'
  BY TypeNext, OrderNext, EarlyNext, BodyNext
<1>3. Inv => CheckedBeforePassed
  BY OrderMeans
<1> QED BY <1>1, <1>2, <1>3, PTL DEF Spec

-----------------------------------------------------------------------------
(***************************************************************************)
(* States are closed                                                       *)
(***************************************************************************)

\* close leaves no state open.
LEMMA CloseAllCloses ==
    ASSUME TypeInv, CloseAll
    PROVE  At("close") /\ Done /\ Closed'
<1>1. /\ At("close") /\ Done /\ stored' = stored /\ mods' = mods
      /\ CloseStates(stored)
      /\ modCloses' = [g \in Groups |-> IF g \in mods THEN modCloses[g] + 1 ELSE modCloses[g]]
  BY DEF CloseAll, ClosedGroups
<1>2. /\ closes \in [Checks -> Nat] /\ stored \subseteq Checks
      /\ mods \subseteq Groups /\ modCloses \in [Groups -> Nat]
  BY DEF TypeInv, RunnerTypes, ModTypes
<1>3. PICK S : S = stored
  OBVIOUS
<1>4. \A c \in S \cap stored \cap Checks : closes'[c] > 0
  BY <1>1, <1>2, <1>3, CloseStatesType
<1>5. \A g \in mods' : modCloses'[g] > 0
  BY <1>1, <1>2
<1> QED BY <1>1, <1>2, <1>3, <1>4, <1>5 DEF Closed

\* The steps that go on with Start, Commit and Abort.
LEMMA EndCases ==
    ASSUME TypeInv, Next, phase' = phase
    PROVE  /\ phase = "starting" =>
                \/ CheckStates \/ StoreStates \/ RunChecks \/ GlobalModifiers
                \/ SourceModifiers \/ CloseAll
           /\ phase = "committing" => CloseAll \/ CommitTarget
           /\ phase = "aborting" => CloseAll \/ AbortTarget
           /\ phase \notin Over
<1>m. MethodTypes
  BY DEF TypeInv
<1>1. ~Source /\ ~Return /\ ~Refuse
  <2>1. ~Source
    BY DEF Source, Start, AddRcpt, Body, BodyNonAtomic, Commit, Abort, Finish
  <2>2. ~Return
    BY DEF Return, Methods
  <2>3. ASSUME Refuse PROVE FALSE
    <3>1. At("refuse") /\ phase' = "refused"
      BY <2>3 DEF Refuse
    <3>2. phase = "starting"
      BY <1>m, <3>1, PhaseOf
    <3> QED BY <3>1, <3>2
  <2> QED BY <2>1, <2>2, <2>3
<1>2. phase \notin Over
  BY <1>1 DEF Next, Pipeline, CheckStates, StoreStates, RunChecks, GlobalModifiers,
     SourceModifiers, CloseAll, RewriteRcpt, Route, RcptModifiers, RewriteInBlock, PassOn,
     PassTo, CheckBodyIn, ApplyResults, RewriteBody, TellAll, SendBody, CommitTarget,
     AbortTarget, At, Methods, Over
<1>3. CASE phase \in {"starting", "committing", "aborting"}
  <2>1. ASSUME NEW op \in {"rewrite", "route", "mods", "rewriteIn", "passOn", "pass", "bodyIn",
                           "apply", "rewriteBody", "tell", "send"}, At(op)
        PROVE  FALSE
    BY <1>m, <1>3, <2>1, PhaseOf
  <2>2. ~(RewriteRcpt \/ Route \/ RcptModifiers \/ RewriteInBlock \/ PassOn \/ PassTo
          \/ CheckBodyIn \/ ApplyResults \/ RewriteBody \/ TellAll \/ SendBody)
    BY <2>1 DEF RewriteRcpt, Route, RcptModifiers, RewriteInBlock, PassOn, PassTo, CheckBodyIn,
       ApplyResults, RewriteBody, TellAll, SendBody
  <2>3. CASE phase = "starting"
    <3>1. ~CommitTarget /\ ~AbortTarget
      BY <1>m, <2>3, PhaseOf DEF CommitTarget, AbortTarget
    <3> QED BY <1>1, <1>2, <2>2, <2>3, <3>1 DEF Next, Pipeline
  <2>4. CASE phase \in {"committing", "aborting"}
    <3>1. ASSUME NEW op \in {"states", "store", "run", "globalMods", "sourceMods"}, At(op)
          PROVE  FALSE
      BY <1>m, <2>4, <3>1, PhaseOf
    <3>2. ~(CheckStates \/ StoreStates \/ RunChecks \/ GlobalModifiers \/ SourceModifiers)
      BY <3>1 DEF CheckStates, StoreStates, RunChecks, GlobalModifiers, SourceModifiers
    <3>3. /\ phase = "committing" => ~AbortTarget
          /\ phase = "aborting" => ~CommitTarget
      BY <1>m, PhaseOf DEF CommitTarget, AbortTarget
    <3> QED BY <1>1, <1>2, <2>2, <2>4, <3>2, <3>3 DEF Next, Pipeline
  <2> QED BY <1>3, <2>3, <2>4
<1> QED BY <1>2, <1>3

LEMMA CloseInit == Init => CloseInv
  BY DEF Init, CloseInv, Over

LEMMA CloseNext == TypeInv /\ CloseInv /\ [Next]_vars => CloseInv'
<1> SUFFICES ASSUME TypeInv, CloseInv, [Next]_vars PROVE CloseInv'
  OBVIOUS
<1>1. CASE UNCHANGED vars
  BY <1>1 DEF CloseInv, Closed, vars, itsVars, runnerVars, modVars
<1> SUFFICES ASSUME Next PROVE CloseInv'
  BY <1>1
<1>m. MethodTypes
  BY DEF TypeInv
<1>e. Over \cap Methods = {}
  BY DEF Over, Methods
<1>2. ASSUME phase' = "starting"
      PROVE  \/ \A s \in Elems(todo') : s[1] \notin {"close", "refuse"}
             \/ todo' = <<<<"close">>, <<"refuse">>>>
             \/ todo' = <<<<"refuse">>>> /\ Closed'
  <2>1. CASE phase # "starting"
    <3>1. Start
      BY <1>2, <2>1, Moves DEF FailTo
    <3>2. \A s \in Elems(todo') : s[1] \notin {"close", "refuse"}
      BY <3>1, StartSteps DEF Start
    <3> QED BY <3>2
  <2>2. CASE phase = "starting"
    <3>1. \/ CheckStates \/ StoreStates \/ RunChecks \/ GlobalModifiers
          \/ SourceModifiers \/ CloseAll
      BY <1>2, <2>2, EndCases
    <3>2. CASE Fail
      BY <2>2, <3>2, FailMeans DEF Methods
    <3>3. CASE CloseAll
      <4>1. At("close") /\ Done /\ Closed'
        BY <3>3, CloseAllCloses
      <4>2. Step \in Elems(todo) /\ Step[1] = "close"
        BY <1>m, <4>1, AtStep
      <4>3. todo # <<<<"refuse">>>>
        BY <4>2 DEF Elems
      <4>4. todo = <<<<"close">>, <<"refuse">>>>
        BY <2>2, <4>2, <4>3 DEF CloseInv
      <4>5. todo' = <<<<"refuse">>>>
        BY <4>1, <4>4 DEF Done
      <4> QED BY <4>1, <4>5
    <3>4. ASSUME NEW op \in {"states", "store", "run", "globalMods", "sourceMods"}, At(op)
          PROVE  \A s \in Elems(todo) : s[1] \notin {"close", "refuse"}
      <4>1. Step[1] = op /\ Step = Head(todo)
        BY <1>m, <3>4, AtStep DEF Step
      <4>2. todo # <<<<"close">>, <<"refuse">>>> /\ todo # <<<<"refuse">>>>
        BY <4>1
      <4> QED BY <2>2, <4>2 DEF CloseInv
    <3>5. CASE ~Fail /\ CheckStates
      <4>1. At("states")
        BY <3>5, CheckStatesDoes
      <4>2. PICK l \in Lists : StatesWith(l)
        BY <3>5, CheckStatesDoes
      <4>3. PICK new : new = Elems(l) \ stored
        OBVIOUS
      <4>4. PICK f \in Seq(Steps) :
              DoneThen(f) /\ Elems(f) \subseteq Replays(l) \cup {<<"store", new>>}
        BY <3>5, <4>2, <4>3 DEF StatesWith
      <4>5. \A s \in Replays(l) \cup {<<"store", new>>} : s[1] \notin {"close", "refuse"}
        BY DEF Replays
      <4>6. /\ Elems(todo') = Elems(f) \cup Elems(Tail(todo))
            /\ Elems(todo) = {Step} \cup Elems(Tail(todo))
        BY <1>m, <4>1, <4>4, ThenList
      <4> QED BY <3>4, <4>1, <4>4, <4>5, <4>6
    <3>6. CASE ~Fail /\ (StoreStates \/ RunChecks \/ GlobalModifiers \/ SourceModifiers)
      <4>1. PICK op \in {"store", "run", "globalMods", "sourceMods"} : At(op) /\ Done
        BY <3>6 DEF StoreStates, RunChecks, GlobalModifiers, SourceModifiers
      <4>2. Elems(todo) = {Step} \cup Elems(todo')
        BY <1>m, <4>1, DoneList
      <4> QED BY <3>4, <4>1, <4>2
    <3> QED BY <3>1, <3>2, <3>3, <3>5, <3>6
  <2> QED BY <2>1, <2>2
<1>k. ASSUME NEW op, At(op), op # "close", phase \in {"committing", "aborting"}
      PROVE  Closed /\ \A s \in Elems(todo) : s[1] # "close"
  <2>1. Step[1] = op /\ Step = Head(todo)
    BY <1>m, <1>k, AtStep DEF Step
  <2>2. ~Closing(todo)
    BY <1>k, <2>1 DEF Closing
  <2> QED BY <1>k, <2>2 DEF CloseInv
<1>3. ASSUME phase' \in {"committing", "aborting"}
      PROVE  \/ Closing(todo')
             \/ Closed' /\ \A s \in Elems(todo') : s[1] # "close"
  <2>1. CASE phase # phase'
    <3>1. PICK op \in {"commit", "abort"} : \E m : Finish(m, op)
      BY <1>3, <2>1, Moves DEF FailTo, Commit, Abort
    <3>2. PICK out \in Orders(UsedTargets) : todo' = FinishSteps(op, out)
      BY <3>1 DEF Finish, FinishSteps
    <3> QED BY <3>2, UsedTypes, FinishOrder
  <2>2. CASE phase' = phase
    <3>1. CloseAll \/ CommitTarget \/ AbortTarget
      BY <1>3, <2>2, EndCases
    <3>2. CASE CloseAll
      <4>1. At("close") /\ Done /\ Closed'
        BY <3>2, CloseAllCloses
      <4>2. Step \in Elems(todo) /\ Step[1] = "close"
        BY <1>m, <4>1, AtStep
      <4>3. Closing(todo)
        BY <1>3, <2>2, <4>2 DEF CloseInv
      <4> QED BY <4>1, <4>3 DEF Closing, Done
    <3>3. CASE CommitTarget \/ AbortTarget
      <4>1. PICK op \in {"commit", "abort"} : At(op) /\ (Done \/ Fail)
        BY <3>3 DEF CommitTarget, AbortTarget
      <4>2. ~Fail
        BY <1>3, <2>2, FailMeans DEF Methods
      <4>3. Closed /\ \A s \in Elems(todo) : s[1] # "close"
        BY <1>3, <1>k, <2>2, <4>1
      <4>4. UNCHANGED <<runnerVars, modVars>>
        BY <3>3 DEF CommitTarget, AbortTarget
      <4>5. Closed'
        BY <4>3, <4>4 DEF Closed, runnerVars, modVars
      <4>6. Elems(todo) = {Step} \cup Elems(todo')
        BY <1>m, <4>1, <4>2, DoneList
      <4> QED BY <4>3, <4>5, <4>6
    <3> QED BY <3>1, <3>2, <3>3
  <2> QED BY <2>1, <2>2
<1>4. ASSUME phase' \in Over PROVE Closed'
  <2>1. phase' # phase
    BY <1>4, EndCases
  <2>2. \/ Refuse /\ phase = "starting"
        \/ Fail /\ phase = "committing"
        \/ Return /\ phase \in {"committing", "aborting"}
    BY <1>4, <2>1, Moves DEF Over, FailTo
  <2>3. CASE Refuse /\ phase = "starting"
    <3>1. At("refuse") /\ UNCHANGED <<runnerVars, modVars>>
      BY <2>3 DEF Refuse, itsVars
    <3>2. Step[1] = "refuse" /\ Step \in Elems(todo) /\ Step = Head(todo)
      BY <1>m, <3>1, AtStep DEF Step
    <3>3. todo # <<<<"close">>, <<"refuse">>>>
      BY <3>2
    <3>4. Closed
      BY <2>3, <3>2, <3>3 DEF CloseInv
    <3> QED BY <3>1, <3>4 DEF Closed, runnerVars, modVars
  <2>4. CASE Return /\ phase \in {"committing", "aborting"}
    <3>1. ~Closing(todo) /\ UNCHANGED <<runnerVars, modVars>>
      BY <2>4 DEF Return, Closing
    <3>2. Closed
      BY <2>4, <3>1 DEF CloseInv
    <3> QED BY <3>1, <3>2 DEF Closed, runnerVars, modVars
  <2>5. CASE Fail /\ phase = "committing" /\ ~Return /\ ~Refuse
    <3>1. ~Source
      BY <2>5 DEF Source, Start, AddRcpt, Body, BodyNonAtomic, Commit, Abort
    <3>2. ASSUME NEW op, At(op), op # "commit", op # "close" PROVE FALSE
      <4>1. op \in KindsOf(phase)
        BY <1>m, <3>2, AtStep
      <4> QED BY <2>5, <3>2, <4>1 DEF KindsOf
    <3>3. CloseAll \/ CommitTarget
      BY <2>5, <3>1, <3>2 DEF Next, Pipeline, CheckStates, StoreStates, RunChecks,
         GlobalModifiers, SourceModifiers, RewriteRcpt, Route, RcptModifiers, RewriteInBlock,
         PassOn, PassTo, CheckBodyIn, ApplyResults, RewriteBody, TellAll, SendBody, AbortTarget
    <3>4. ~CloseAll
      BY <2>1 DEF CloseAll, Done
    <3>5. At("commit") /\ UNCHANGED <<runnerVars, modVars>>
      BY <3>3, <3>4 DEF CommitTarget
    <3>6. Closed
      BY <1>k, <2>5, <3>5
    <3> QED BY <3>5, <3>6 DEF Closed, runnerVars, modVars
  <2>6. ASSUME Fail, phase = "committing", Return \/ Refuse PROVE FALSE
    BY <2>2, <2>6, FailMeans, <2>1, <1>4 DEF Return, Refuse, Methods, Over
  <2> QED BY <2>2, <2>3, <2>4, <2>5, <2>6
<1> QED BY <1>2, <1>3, <1>4 DEF CloseInv

(***************************************************************************)
(* NothingLeftOpen: whichever step of Start, Commit or Abort fails, every  *)
(* check with a state in the runner and every modifier group in use was    *)
(* closed when the message is done with.                                   *)
(***************************************************************************)
THEOREM StatesClosed == Spec => []NothingLeftOpen
<1>1. Init => TypeInv /\ CloseInv
  BY TypeInit, CloseInit
<1>2. TypeInv /\ CloseInv /\ [Next]_vars => (TypeInv /\ CloseInv)'
  BY TypeNext, CloseNext
<1>3. CloseInv => NothingLeftOpen
  BY DEF CloseInv, Closed, NothingLeftOpen
<1> QED BY <1>1, <1>2, <1>3, PTL DEF Spec

-----------------------------------------------------------------------------
(***************************************************************************)
(* Names                                                                   *)
(***************************************************************************)

\* A status for an address of a recipient goes to that recipient.
LEMMA OriginalIs ==
    ASSUME NamesApart, TypeInv, NameInv, NEW r \in Rcpts, NEW x \in Addrs, Named(r, x)
    PROVE  Original(x) = r
<1>1. CASE orig[x] = NoAddr
  BY <1>1 DEF Named, Original
<1>2. CASE orig[x] # NoAddr
  <2>1. orig[x] \in Rcpts
    BY <1>2 DEF TypeInv, DeliveryTypes
  <2>2. x \in Finals(orig[x]) /\ x \in Finals(r)
    BY <1>2 DEF NameInv, Named
  <2>3. orig[x] = r
    BY <2>1, <2>2 DEF NamesApart
  <2> QED BY <1>2, <2>3 DEF Original
<1> QED BY <1>1, <1>2

LEMMA NameInit == Init => NameInv
<1> SUFFICES ASSUME Init PROVE NameInv
  OBVIOUS
<1>1. (\A x \in Addrs : orig[x] = NoAddr) /\ ways = {} /\ phase = "new"
  BY DEF Init
<1> QED BY <1>1 DEF NameInv

\* What a step of AddRcpt says of the address it is about.
NamedStep(s) ==
    /\ s[1] = "route" => s[2] \in Elems(Rewritten[cur])
    /\ s[1] = "rewriteIn" => s[3] \in Elems(Rewritten[cur])
    /\ s[1] = "passOn" => s[2] \in Finals(cur)
    /\ s[1] = "pass" => Named(cur, s[3])

LEMMA NamedSteps ==
    ASSUME TypeInv, TypeInv', NameInv, Next, phase' = "adding", NEW s \in Elems(todo')
    PROVE  NamedStep(s)'
<1>m. MethodTypes
  BY DEF TypeInv
<1>o. \A x \in Addrs : orig[x] # NoAddr => orig'[x] # NoAddr
  BY OrigKept
<1>f. phase = "adding" => ~Fail
  BY FailMeans DEF Methods
<1>k. ASSUME phase = "adding", cur' = cur, s \in Elems(todo) PROVE NamedStep(s)'
  <2>1. NamedStep(s)
    BY <1>k DEF NameInv, NamedStep
  <2>2. s \in Steps
    BY <1>m, <1>k DEF MethodTypes, Elems
  <2>3. ASSUME s[1] = "pass" PROVE s[3] \in Addrs
    <3>1. \E t \in Targets : \E x \in Addrs : \E b \in Blocks : \E a \in Addrs :
             s = <<"pass", t, x, b, a>>
      BY <2>2, <2>3, StepShape
    <3> QED BY <3>1
  <2> QED BY <1>k, <1>o, <2>1, <2>3 DEF NamedStep, Named
<1>n. ASSUME s[1] \notin AddKinds PROVE NamedStep(s)'
  BY <1>n DEF NamedStep, AddKinds
<1>t. ASSUME NEW op, At(op), phase = "adding", cur' = cur, NEW f \in Seq(Steps), DoneThen(f),
             s \notin Elems(f)
      PROVE  NamedStep(s)'
  <2>1. s \in Elems(todo)
    BY <1>m, <1>t, ThenList
  <2> QED BY <1>k, <1>t, <2>1
<1>c. ASSUME NEW op, At(op), phase = "adding" PROVE NamedStep(Step)
  <2>1. Step \in Elems(todo)
    BY <1>m, <1>c, AtStep
  <2> QED BY <1>c, <2>1 DEF NameInv, NamedStep
<1>1. ASSUME NEW r \in Rcpts, AddRcpt(r) PROVE NamedStep(s)'
  <2>1. todo' = AddSteps(r) /\ r \in Addrs
    BY <1>1, RcptsAreAddrs DEF AddRcpt, AddSteps
  <2>2. s[1] \in {"states", "run", "rewrite"}
    BY <2>1, AddStepsOrder
  <2> QED BY <2>2 DEF NamedStep
<1>2. CASE QuietAdd
  BY <1>2, <1>k, <1>n DEF QuietAdd
<1>3. CASE RewriteRcpt
  <2>1. At("rewrite") /\ phase = "adding" /\ cur' = cur
    BY <1>3, RewriteRcptDoes DEF itsVars
  <2>2. PICK f \in Seq(Steps) :
          /\ Elems(f) = {<<"route", a>> : a \in Elems(Rewritten[cur])}
          /\ DoneThen(f)
    BY <1>3, <1>f, <2>1, RewriteRcptDoes
  <2>3. CASE s \in Elems(f)
    <3>1. PICK a \in Elems(Rewritten[cur]) : s = <<"route", a>>
      BY <2>2, <2>3
    <3>2. s[1] = "route" /\ s[2] = a
      BY <3>1
    <3> QED BY <2>1, <3>1, <3>2 DEF NamedStep
  <2> QED BY <1>t, <2>1, <2>2, <2>3
<1>4. CASE Route
  <2>1. At("route") /\ phase = "adding" /\ cur' = cur
    BY <1>4, RouteDoes DEF itsVars
  <2>2. PICK a \in Addrs : /\ Step = <<"route", a>>
                           /\ \E b \in Blocks : DoneThen(RouteSteps(b, a))
    BY <1>4, <1>f, <2>1, RouteDoes
  <2>3. PICK b \in Blocks : DoneThen(RouteSteps(b, a))
    BY <2>2
  <2>4. /\ RouteSteps(b, a) \in Seq(Steps)
        /\ Elems(RouteSteps(b, a)) =
             {<<"states", BlockChecks[b]>>, <<"run", "rcpt", a, BlockChecks[b]>>,
              <<"mods", b>>, <<"rewriteIn", b, a>>}
    BY RouteStepsOrder
  <2>5. CASE s = <<"rewriteIn", b, a>>
    <3>1. a \in Elems(Rewritten[cur])
      BY <1>c, <2>1, <2>2 DEF NamedStep
    <3>2. s[1] = "rewriteIn" /\ s[3] = a
      BY <2>5
    <3> QED BY <2>1, <3>1, <3>2 DEF NamedStep
  <2>6. CASE s \in Elems(RouteSteps(b, a)) /\ s # <<"rewriteIn", b, a>>
    BY <1>n, <2>4, <2>6 DEF AddKinds
  <2> QED BY <1>t, <2>1, <2>3, <2>4, <2>5, <2>6
<1>5. CASE RewriteInBlock
  <2>1. At("rewriteIn") /\ phase = "adding" /\ cur' = cur
    BY <1>5, RewriteInBlockDoes
  <2>2. PICK b \in Blocks : \E a \in Addrs :
          /\ Step = <<"rewriteIn", b, a>>
          /\ \E f \in Seq(Steps) :
               /\ Elems(f) = {<<"passOn", x, b, a>> : x \in Elems(RcptRewritten[a])}
               /\ DoneThen(f)
    BY <1>5, <1>f, <2>1, RewriteInBlockDoes
  <2>3. PICK a \in Addrs :
          /\ Step = <<"rewriteIn", b, a>>
          /\ \E f \in Seq(Steps) :
               /\ Elems(f) = {<<"passOn", x, b, a>> : x \in Elems(RcptRewritten[a])}
               /\ DoneThen(f)
    BY <2>2
  <2>4. PICK f \in Seq(Steps) :
               /\ Elems(f) = {<<"passOn", x, b, a>> : x \in Elems(RcptRewritten[a])}
               /\ DoneThen(f)
    BY <2>3
  <2>5. CASE s \in Elems(f)
    <3>1. PICK x \in Elems(RcptRewritten[a]) : s = <<"passOn", x, b, a>>
      BY <2>4, <2>5
    <3>2. a \in Elems(Rewritten[cur])
      BY <1>c, <2>1, <2>3 DEF NamedStep
    <3>3. s[1] = "passOn" /\ s[2] = x
      BY <3>1
    <3>4. x \in Finals(cur)
      BY <3>1, <3>2 DEF Finals
    <3> QED BY <2>1, <3>3, <3>4 DEF NamedStep
  <2> QED BY <1>t, <2>1, <2>4, <2>5
<1>6. CASE PassOn
  <2>1. At("passOn") /\ phase = "adding" /\ cur' = cur
    BY <1>6, PassOnDoes
  <2>2. PICK x \in Addrs : \E b \in Blocks : \E a \in Addrs :
          /\ Step = <<"passOn", x, b, a>>
          /\ orig' = IF cur # x THEN [orig EXCEPT ![x] = cur] ELSE orig
          /\ \E f \in Seq(Steps) :
               /\ Elems(f) = {<<"pass", t, x, b, a>> : t \in Elems(TargetsOf[b])}
               /\ DoneThen(f)
    BY <1>6, PassOnDoes
  <2>3. PICK b \in Blocks, a \in Addrs :
          /\ Step = <<"passOn", x, b, a>>
          /\ \E f \in Seq(Steps) :
               /\ Elems(f) = {<<"pass", t, x, b, a>> : t \in Elems(TargetsOf[b])}
               /\ DoneThen(f)
    BY <2>2
  <2>4. PICK f \in Seq(Steps) :
               /\ Elems(f) = {<<"pass", t, x, b, a>> : t \in Elems(TargetsOf[b])}
               /\ DoneThen(f)
    BY <2>3
  <2>5. CASE s \in Elems(f)
    <3>1. PICK t : s = <<"pass", t, x, b, a>>
      BY <2>4, <2>5
    <3>2. x \in Finals(cur)
      BY <1>c, <2>1, <2>3 DEF NamedStep
    <3>3. s[1] = "pass" /\ s[3] = x
      BY <3>1
    <3>4. cur \in Rcpts /\ orig \in [Addrs -> Rcpts \cup {NoAddr}]
      BY <1>m, <2>1 DEF MethodTypes, TypeInv, DeliveryTypes
    <3>5. x = cur \/ orig'[x] # NoAddr
      BY <2>2, <3>4, RcptsAreAddrs
    <3> QED BY <2>1, <3>2, <3>3, <3>5 DEF NamedStep, Named
  <2> QED BY <1>t, <2>1, <2>4, <2>5
<1>7. CASE PassTo
  <2>1. At("pass") /\ phase = "adding" /\ cur' = cur
    BY <1>7, PassToDoes
  <2>2. Done
    BY <1>f, <1>7, <2>1, PassToDoes
  <2>3. s \in Elems(todo)
    BY <1>m, <2>1, <2>2, DoneList
  <2> QED BY <1>k, <2>1, <2>3
<1> QED BY <1>1, <1>2, <1>3, <1>4, <1>5, <1>6, <1>7, AddingCases

LEMMA NameNext ==
    ASSUME NamesApart, TypeInv, TypeInv', EarlyInv, NameInv, [Next]_vars
    PROVE  NameInv'
<1>1. CASE UNCHANGED vars
  BY <1>1 DEF NameInv, Named, vars, itsVars, deliveryVars, histVars
<1> SUFFICES ASSUME Next PROVE NameInv'
  BY <1>1
<1>m. MethodTypes
  BY DEF TypeInv
<1>o. \A x \in Addrs : orig[x] # NoAddr => orig'[x] # NoAddr
  BY OrigKept
<1>w. ways \subseteq Ways
  BY DEF TypeInv, HistTypes
<1>r. \A t \in Targets : recips[t] \subseteq recips'[t]
  BY HeldKept
<1>n. \A r : \A x \in Addrs : Named(r, x) => Named(r, x)'
  BY <1>o DEF Named
<1>s. ASSUME NEW op, At(op), phase = "adding" PROVE NamedStep(Step)
  <2>1. Step \in Elems(todo)
    BY <1>m, <1>s, AtStep
  <2> QED BY <1>s, <2>1 DEF NameInv, NamedStep
<1>2. ASSUME NEW x \in Addrs, orig'[x] # NoAddr PROVE x \in Finals(orig'[x])
  <2>1. CASE orig'[x] = orig[x]
    BY <1>2, <2>1 DEF NameInv
  <2>2. CASE orig'[x] # orig[x]
    <3>1. PassOn
      BY <2>2, Frames DEF Frame
    <3>2. At("passOn") /\ phase = "adding"
      BY <3>1, PassOnDoes
    <3>3. PICK y \in Addrs : \E b \in Blocks : \E a \in Addrs :
            /\ Step = <<"passOn", y, b, a>>
            /\ orig' = IF cur # y THEN [orig EXCEPT ![y] = cur] ELSE orig
      BY <3>1, PassOnDoes
    <3>4. orig \in [Addrs -> Rcpts \cup {NoAddr}]
      BY DEF TypeInv, DeliveryTypes
    <3>5. y = x /\ orig'[x] = cur
      BY <2>2, <3>3, <3>4
    <3>6. Step[1] = "passOn" /\ Step[2] = x
      BY <3>3, <3>5
    <3>7. x \in Finals(cur)
      BY <1>s, <3>2, <3>6 DEF NamedStep
    <3> QED BY <3>5, <3>7
  <2> QED BY <2>1, <2>2
<1>3. ASSUME NEW w \in ways'
      PROVE  /\ Named(w.to, w.final)'
             /\ w.to \in recips'[w.target]
             /\ <<w.target, w.final>> \in failedAt' => w.to \in told'
  <2>1. CASE w \in ways
    <3>1. w.to \in Rcpts /\ w.final \in Addrs /\ w.target \in Targets
      BY <1>w, <2>1 DEF Ways
    <3>2. Named(w.to, w.final) /\ w.to \in recips[w.target]
      BY <2>1 DEF NameInv
    <3>3. Named(w.to, w.final)' /\ w.to \in recips'[w.target]
      BY <1>n, <1>r, <3>1, <3>2
    <3>4. ASSUME <<w.target, w.final>> \in failedAt' PROVE w.to \in told'
      <4>1. CASE SendBody
        <5>1. PICK t \in Targets :
                \/ UNCHANGED <<failedAt, told>>
                \/ \E f \in Failed(t) :
                     failedAt' = failedAt \cup ({t} \X f.bad) /\ told' = StatusFor(t, f)
          BY <4>1, SendBodyDoes
        <5>2. CASE UNCHANGED <<failedAt, told>>
          BY <2>1, <3>4, <5>2 DEF NameInv
        <5>3. ASSUME NEW f \in Failed(t),
                     failedAt' = failedAt \cup ({t} \X f.bad), told' = StatusFor(t, f)
              PROVE  w.to \in told'
          <6>1. told \subseteq told'
            BY <5>3 DEF StatusFor
          <6>2. CASE <<w.target, w.final>> \in failedAt
            BY <2>1, <6>1, <6>2 DEF NameInv
          <6>3. CASE <<w.target, w.final>> \notin failedAt
            <7>1. w.target = t /\ w.final \in f.bad
              BY <3>4, <5>3, <6>3
            <7>2. CASE t \in Partials
              <8>1. Original(w.final) = w.to
                BY <3>1, <3>2, OriginalIs
              <8> QED BY <5>3, <7>1, <7>2, <8>1 DEF StatusFor
            <7>3. CASE t \notin Partials
              <8>1. ~f.ok
                BY <5>3, <7>1, <7>3 DEF Failed
              <8> QED BY <3>2, <5>3, <7>1, <7>3, <8>1 DEF StatusFor
            <7> QED BY <7>2, <7>3
          <6> QED BY <6>2, <6>3
        <5> QED BY <5>1, <5>2, <5>3
      <4>2. CASE ~SendBody
        <5>1. failedAt' = failedAt /\ told \subseteq told'
          BY <4>2, Frames DEF Frame, TellAll
        <5> QED BY <2>1, <3>4, <5>1 DEF NameInv
      <4> QED BY <4>1, <4>2
    <3> QED BY <3>3, <3>4
  <2>2. CASE w \notin ways
    <3>1. PassTo
      BY <2>2, Frames DEF Frame
    <3>2. At("pass") /\ phase = "adding" /\ cur' = cur /\ failedAt' = failedAt
      BY <3>1, PassToDoes
    <3>3. PICK t \in Targets : \E x \in Addrs : \E b \in Blocks : \E a \in Addrs :
            /\ Step = <<"pass", t, x, b, a>>
            /\ recips' = [recips EXCEPT ![t] = @ \cup {cur}]
            /\ ways' = ways \cup {[to |-> cur, routed |-> a, block |-> b,
                                   final |-> x, target |-> t]}
      BY <2>2, <3>1, PassToDoes
    <3>4. PICK x \in Addrs : \E b \in Blocks : \E a \in Addrs :
            /\ Step = <<"pass", t, x, b, a>>
            /\ recips' = [recips EXCEPT ![t] = @ \cup {cur}]
            /\ ways' = ways \cup {[to |-> cur, routed |-> a, block |-> b,
                                   final |-> x, target |-> t]}
      BY <3>3
    <3>5. w.to = cur /\ w.final = x /\ w.target = t /\ Step[1] = "pass" /\ Step[3] = x
      BY <2>2, <3>4
    <3>6. Named(cur, x)
      BY <1>s, <3>2, <3>5 DEF NamedStep
    <3>7. cur \in recips'[t]
      BY <3>4 DEF TypeInv, DeliveryTypes
    <3>8. failedAt' = {}
      BY <3>2 DEF EarlyInv, Early
    <3> QED BY <1>n, <3>5, <3>6, <3>7, <3>8
  <2> QED BY <2>1, <2>2
<1>4. phase' = "adding" => \A s \in Elems(todo') : NamedStep(s)'
  BY NamedSteps
<1> QED BY <1>2, <1>3, <1>4 DEF NameInv, NamedStep

(***************************************************************************)
(* FailuresTold: when BodyNonAtomic returns, a recipient one of whose      *)
(* addresses failed at a target was told, under the name the source knows, *)
(* provided no two recipients of the configuration are rewritten to the    *)
(* same address (OriginalRcpts holds one name for an address).             *)
(***************************************************************************)
THEOREM FailuresReported ==
    ASSUME NamesApart
    PROVE  Spec => []FailuresTold
<1> DEFINE Inv == TypeInv /\ EarlyInv /\ NameInv
<1>1. Init => Inv
  BY TypeInit, EarlyInit, NameInit
<1>2. Inv /\ [Next]_vars => Inv'
  BY TypeNext, EarlyNext, NameNext
<1>3. Inv => FailuresTold
  BY DEF NameInv, FailuresTold
<1> QED BY <1>1, <1>2, <1>3, PTL DEF Spec

-----------------------------------------------------------------------------
(***************************************************************************)
(* How far the targets are                                                 *)
(***************************************************************************)

\* Who moves a target where.
LEMMA DlvMoves ==
    ASSUME TypeInv, Next, NEW t \in Targets
    PROVE  \/ dlv'[t] = dlv[t]
           \/ PassTo /\ phase = "adding" /\ dlv'[t] = "open"
           \/ /\ SendBody /\ Step = <<"send", t>> /\ phase \in {"body", "nonatomic"}
              /\ dlv'[t] = "body" \/ (dlv'[t] = "bodyFailed" /\ (Fail \/ recips[t] \subseteq told'))
           \/ /\ CommitTarget /\ Step = <<"commit", t>> /\ phase = "committing"
              /\ dlv'[t] = "committed" \/ (dlv'[t] = "commitFailed" /\ Fail)
           \/ /\ AbortTarget /\ Step = <<"abort", t>> /\ phase = "aborting"
              /\ dlv'[t] = "aborted"
<1>m. MethodTypes /\ DOMAIN dlv = Targets
  BY DEF TypeInv, DeliveryTypes
<1>1. CASE PassTo
  <2>1. phase = "adding"
    BY <1>1, PassToDoes
  <2>2. PICK u \in Targets : dlv' = [dlv EXCEPT ![u] = "open"] \/ dlv' = dlv
    BY <1>1, PassToDoes
  <2> QED BY <1>m, <1>1, <2>1, <2>2
<1>2. CASE SendBody
  <2>1. phase \in {"body", "nonatomic"}
    BY <1>2, SendBodyDoes
  <2>2. PICK u \in Targets :
                /\ Step = <<"send", u>>
                /\ \/ dlv' = [dlv EXCEPT ![u] = "body"]
                   \/ dlv' = [dlv EXCEPT ![u] = "bodyFailed"] /\ Fail
                   \/ \E f \in Failed(u) :
                        /\ told' = StatusFor(u, f)
                        /\ dlv' = [dlv EXCEPT ![u] = IF f.ok THEN "body" ELSE "bodyFailed"]
    BY <1>2, SendBodyDoes
  <2>3. CASE dlv' = [dlv EXCEPT ![u] = "body"]
    BY <1>m, <1>2, <2>1, <2>2, <2>3
  <2>4. CASE dlv' = [dlv EXCEPT ![u] = "bodyFailed"] /\ Fail
    BY <1>m, <1>2, <2>1, <2>2, <2>4
  <2>5. ASSUME NEW f \in Failed(u), told' = StatusFor(u, f),
               dlv' = [dlv EXCEPT ![u] = IF f.ok THEN "body" ELSE "bodyFailed"]
        PROVE  \/ dlv'[t] = dlv[t]
               \/ /\ Step = <<"send", t>>
                  /\ dlv'[t] = "body" \/ (dlv'[t] = "bodyFailed" /\ recips[t] \subseteq told')
    <3>1. CASE ~f.ok
      <4>1. recips[u] \subseteq told'
        BY <2>5, <3>1 DEF StatusFor, Failed
      <4>2. dlv' = [dlv EXCEPT ![u] = "bodyFailed"]
        BY <2>5, <3>1
      <4> QED BY <1>m, <2>2, <4>1, <4>2
    <3>2. CASE f.ok
      <4>1. dlv' = [dlv EXCEPT ![u] = "body"]
        BY <2>5, <3>2
      <4> QED BY <1>m, <2>2, <4>1
    <3> QED BY <3>1, <3>2
  <2> QED BY <1>2, <2>1, <2>2, <2>3, <2>4, <2>5
<1>3. CASE CommitTarget
  <2>1. At("commit")
    BY <1>3 DEF CommitTarget
  <2>2. PICK u \in Targets : Step = <<"commit", u>>
    BY <1>m, <2>1, AtStep, StepShape
  <2>3. Step[2] = u /\ phase = "committing"
    BY <1>m, <2>1, <2>2, PhaseOf
  <2>4. \/ dlv' = [dlv EXCEPT ![u] = "committed"]
        \/ dlv' = [dlv EXCEPT ![u] = "commitFailed"] /\ Fail
    BY <1>3, <2>3 DEF CommitTarget
  <2> QED BY <1>m, <1>3, <2>2, <2>3, <2>4
<1>4. CASE AbortTarget
  <2>1. At("abort")
    BY <1>4 DEF AbortTarget
  <2>2. PICK u \in Targets : Step = <<"abort", u>>
    BY <1>m, <2>1, AtStep, StepShape
  <2>3. Step[2] = u /\ phase = "aborting"
    BY <1>m, <2>1, <2>2, PhaseOf
  <2>4. dlv' = [dlv EXCEPT ![u] = "aborted"]
    BY <1>4, <2>3 DEF AbortTarget
  <2> QED BY <1>m, <1>4, <2>2, <2>3, <2>4
<1> QED BY <1>1, <1>2, <1>3, <1>4, Frames DEF Frame

\* A method that goes on keeps all its steps but the one that is done.
LEMMA StepsKept ==
    ASSUME TypeInv, Next, phase' = phase, ~Fail
    PROVE  \E op : /\ At(op)
                   /\ \A s \in Elems(todo) : s = Step \/ s \in Elems(todo')
                   /\ SendBody \/ op # "send"
                   /\ CommitTarget \/ op # "commit"
                   /\ AbortTarget \/ op # "abort"
                   /\ TellAll \/ op # "tell"
<1>m. MethodTypes
  BY DEF TypeInv
<1>d. ASSUME NEW op, At(op), Done PROVE \A s \in Elems(todo) : s = Step \/ s \in Elems(todo')
  BY <1>m, <1>d, DoneList
<1>t. ASSUME NEW op, At(op), NEW f \in Seq(Steps), DoneThen(f)
      PROVE  \A s \in Elems(todo) : s = Step \/ s \in Elems(todo')
  BY <1>m, <1>t, ThenList
<1>1. ~Source /\ ~Return /\ ~Refuse
  <2>1. ~Source
    BY DEF Source, Start, AddRcpt, Body, BodyNonAtomic, Commit, Abort, Finish
  <2>2. ~Return
    BY DEF Return, Methods
  <2>3. ASSUME Refuse PROVE FALSE
    <3>1. At("refuse") /\ phase' = "refused"
      BY <2>3 DEF Refuse
    <3> QED BY <1>m, <3>1, PhaseOf
  <2> QED BY <2>1, <2>2, <2>3
<1>2. CASE CheckStates
  <2>1. At("states")
    BY <1>2, CheckStatesDoes
  <2>2. PICK l \in Lists : StatesWith(l)
    BY <1>2, CheckStatesDoes
  <2>3. PICK f \in Seq(Steps) : DoneThen(f)
    BY <2>2 DEF StatesWith
  <2> QED BY <1>t, <2>1, <2>3
<1>3. CASE \/ StoreStates \/ RunChecks \/ GlobalModifiers \/ SourceModifiers \/ CloseAll
           \/ RcptModifiers \/ PassTo \/ ApplyResults \/ RewriteBody
  <2>1. PICK op \in {"store", "run", "globalMods", "sourceMods", "close", "mods", "pass",
                     "apply", "rewriteBody"} : At(op) /\ Done
    BY <1>3 DEF StoreStates, RunChecks, GlobalModifiers, SourceModifiers, CloseAll,
       RcptModifiers, PassTo, ApplyResults, RewriteBody
  <2> QED BY <1>d, <2>1
<1>4. CASE TellAll \/ SendBody \/ CommitTarget \/ AbortTarget
  <2>1. /\ TellAll => At("tell") /\ Done
        /\ SendBody => At("send") /\ Done
        /\ CommitTarget => At("commit") /\ Done
        /\ AbortTarget => At("abort") /\ Done
    BY DEF TellAll, SendBody, CommitTarget, AbortTarget
  <2> QED BY <1>4, <1>d, <2>1
<1>5. CASE RewriteRcpt
  <2>1. PICK f \in Seq(Steps) : At("rewrite") /\ DoneThen(f)
    BY <1>5, RewriteRcptDoes
  <2> QED BY <1>t, <2>1
<1>6. CASE Route
  <2>1. PICK a \in Addrs : \E b \in Blocks : At("route") /\ DoneThen(RouteSteps(b, a))
    BY <1>6, RouteDoes
  <2>2. PICK b \in Blocks : At("route") /\ DoneThen(RouteSteps(b, a))
    BY <2>1
  <2>3. RouteSteps(b, a) \in Seq(Steps)
    BY RouteStepsOrder
  <2> QED BY <1>t, <2>2, <2>3
<1>7. CASE RewriteInBlock
  <2>1. PICK f \in Seq(Steps) : At("rewriteIn") /\ DoneThen(f)
    BY <1>7, RewriteInBlockDoes
  <2> QED BY <1>t, <2>1
<1>8. CASE PassOn
  <2>1. PICK f \in Seq(Steps) : At("passOn") /\ DoneThen(f)
    BY <1>8, PassOnDoes
  <2> QED BY <1>t, <2>1
<1>9. CASE CheckBodyIn
  <2>1. PICK b \in Blocks : At("bodyIn") /\ DoneThen(CheckBody(BlockChecks[b]))
    BY <1>9, CheckBodyInDoes
  <2>2. CheckBody(BlockChecks[b]) \in Seq(Steps)
    BY ConfLists, CheckSteps
  <2> QED BY <1>t, <2>1, <2>2
<1> QED BY <1>1, <1>2, <1>3, <1>4, <1>5, <1>6, <1>7, <1>8, <1>9 DEF Next, Pipeline

LEMMA OutcomeInit == Init => OutcomeInv
  BY DEF Init, OutcomeInv

\* What is told stays told.
LEMMA ToldGrows ==
    ASSUME Next
    PROVE  told \subseteq told'
<1>1. ASSUME NEW t, NEW f, told' = StatusFor(t, f) PROVE told \subseteq told'
  BY <1>1 DEF StatusFor
<1>2. CASE SendBody
  BY <1>1, <1>2 DEF SendBody
<1>3. CASE TellAll
  BY <1>3 DEF TellAll
<1> QED BY <1>2, <1>3, Frames DEF Frame

\* Who has a delivery is settled when the body comes.
LEMMA RecipsKept ==
    ASSUME TypeInv, Next, phase # "adding"
    PROVE  recips' = recips
<1>1. ASSUME PassTo PROVE FALSE
  BY <1>1, PassToDoes
<1> QED BY <1>1, Frames DEF Frame

\* Body gives every target the body, or fails.
LEMMA BodyReaches ==
    ASSUME TypeInv, OutcomeInv, Next, phase' = "body", NEW t \in UsedTargets'
    PROVE  dlv'[t] = "body" \/ <<"send", t>> \in Elems(todo')
<1>t. t \in Targets /\ dlv'[t] # "none"
  BY DEF UsedTargets
<1>1. CASE Body
  <2>1. PICK order \in Orders(UsedBlocks) : \E again \in Orders(UsedBlocks) :
          \E out \in Orders(UsedTargets) : todo' = BodySteps(order, again, out)
    BY <1>1 DEF Body, BodySteps
  <2>2. PICK again \in Orders(UsedBlocks) :
          \E out \in Orders(UsedTargets) : todo' = BodySteps(order, again, out)
    BY <2>1
  <2>3. PICK out \in Orders(UsedTargets) : todo' = BodySteps(order, again, out)
    BY <2>2
  <2>4. {<<"send", u>> : u \in UsedTargets} \subseteq Elems(todo')
    BY <2>3, UsedTypes, BodyOrder
  <2>5. t \in UsedTargets
    BY <1>1, <1>t DEF Body, UsedTargets, itsVars, deliveryVars
  <2> QED BY <2>4, <2>5
<1>2. CASE phase = "body" /\ ~Fail
  <2>1. PICK op : /\ At(op)
                  /\ \A s \in Elems(todo) : s = Step \/ s \in Elems(todo')
                  /\ SendBody \/ op # "send"
    BY <1>2, StepsKept
  <2>2. \/ dlv'[t] = dlv[t]
        \/ SendBody /\ Step = <<"send", t>> /\ (dlv'[t] = "body" \/ dlv'[t] = "bodyFailed")
    BY <1>2, <1>t, DlvMoves
  <2>3. CASE SendBody /\ Step = <<"send", t>>
    <3>1. PICK u \in Targets : /\ Step = <<"send", u>>
                               /\ dlv' = [dlv EXCEPT ![u] = "body"]
      BY <1>2, <2>3, SendBodyDoes
    <3>2. u = t
      BY <2>3, <3>1
    <3> QED BY <1>t, <3>1, <3>2 DEF TypeInv, DeliveryTypes
  <2>4. CASE dlv'[t] = dlv[t] /\ ~(SendBody /\ Step = <<"send", t>>)
    <3>1. dlv[t] = "body" \/ <<"send", t>> \in Elems(todo)
      BY <1>2, <1>t, <2>4 DEF OutcomeInv, UsedTargets
    <3>2. ASSUME <<"send", t>> = Step PROVE FALSE
      <4>1. op = "send"
        BY <2>1, <3>2, AtStep DEF TypeInv
      <4> QED BY <2>1, <2>4, <3>2, <4>1
    <3> QED BY <2>1, <2>4, <3>1, <3>2
  <2> QED BY <2>2, <2>3, <2>4
<1> QED BY <1>1, <1>2, BodyCases

\* BodyNonAtomic gives every target the body, or its recipients are told.
LEMMA NonAtomicReaches ==
    ASSUME TypeInv, OutcomeInv, Next, phase' = "nonatomic", NEW t \in UsedTargets'
    PROVE  \/ dlv'[t] = "body"
           \/ recips'[t] \subseteq told'
           \/ <<"send", t>> \in Elems(todo')
           \/ <<"tell">> \in Elems(todo')
<1>t. t \in Targets /\ dlv'[t] # "none"
  BY DEF UsedTargets
<1>1. CASE phase # "nonatomic"
  <2>0. BodyNonAtomic
    BY <1>1, Moves DEF FailTo
  <2>1. PICK order \in Orders(UsedBlocks) :
          \E out \in Orders(UsedTargets) : todo' = NonAtomicSteps(order, out)
    BY <2>0 DEF BodyNonAtomic, NonAtomicSteps
  <2>2. PICK out \in Orders(UsedTargets) : todo' = NonAtomicSteps(order, out)
    BY <2>1
  <2>3. {<<"send", u>> : u \in UsedTargets} \subseteq Elems(todo')
    BY <2>2, UsedTypes, NonAtomicOrder
  <2>4. t \in UsedTargets
    BY <2>0, <1>t DEF BodyNonAtomic, UsedTargets, itsVars, deliveryVars
  <2> QED BY <2>3, <2>4
<1>2. CASE phase = "nonatomic" /\ Fail
  <2>1. todo' = <<<<"tell">>>>
    BY <1>2, FailMeans DEF Methods
  <2> QED BY <2>1, FailLists
<1>3. CASE phase = "nonatomic" /\ ~Fail
  <2>1. PICK op : /\ At(op)
                  /\ \A s \in Elems(todo) : s = Step \/ s \in Elems(todo')
                  /\ SendBody \/ op # "send"
                  /\ TellAll \/ op # "tell"
    BY <1>3, StepsKept
  <2>2. Step[1] = op
    BY <2>1, AtStep DEF TypeInv
  <2>k. recips' = recips
    BY <1>3, RecipsKept
  <2>3. \/ dlv'[t] = dlv[t]
        \/ dlv'[t] = "body" \/ recips[t] \subseteq told'
    BY <1>3, <1>t, DlvMoves
  <2>4. CASE TellAll
    <3>1. recips[t] \subseteq told'
      BY <1>t, <2>4 DEF TellAll
    <3> QED BY <2>k, <3>1
  <2>5. CASE dlv'[t] = dlv[t] /\ ~TellAll
    <3>1. \/ dlv[t] = "body"
          \/ recips[t] \subseteq told
          \/ <<"send", t>> \in Elems(todo)
          \/ <<"tell">> \in Elems(todo)
      BY <1>3, <1>t, <2>5 DEF OutcomeInv, UsedTargets
    <3>2. CASE recips[t] \subseteq told
      BY <2>k, <3>2, ToldGrows
    <3>3. CASE <<"send", t>> \in Elems(todo)
      <4>1. CASE Step = <<"send", t>>
        <5>1. SendBody
          BY <2>1, <2>2, <4>1
        <5>2. PICK u \in Targets :
                /\ Step = <<"send", u>>
                /\ \E f \in Failed(u) :
                     /\ told' = StatusFor(u, f)
                     /\ dlv' = [dlv EXCEPT ![u] = IF f.ok THEN "body" ELSE "bodyFailed"]
          BY <1>3, <5>1, SendBodyDoes
        <5>3. u = t
          BY <4>1, <5>2
        <5>4. PICK f \in Failed(t) :
                     /\ told' = StatusFor(t, f)
                     /\ dlv' = [dlv EXCEPT ![t] = IF f.ok THEN "body" ELSE "bodyFailed"]
          BY <5>2, <5>3
        <5>5. CASE ~f.ok
          <6>1. recips[t] \subseteq told'
            BY <5>4, <5>5 DEF StatusFor, Failed
          <6> QED BY <2>k, <6>1
        <5>6. CASE f.ok
          <6>1. dlv' = [dlv EXCEPT ![t] = "body"]
            BY <5>4, <5>6
          <6> QED BY <1>t, <6>1 DEF TypeInv, DeliveryTypes
        <5> QED BY <5>5, <5>6
      <4>2. CASE Step # <<"send", t>>
        BY <2>1, <3>3, <4>2
      <4> QED BY <4>1, <4>2
    <3>4. CASE <<"tell">> \in Elems(todo)
      <4>1. Step # <<"tell">>
        BY <2>1, <2>2, <2>5
      <4> QED BY <2>1, <3>4, <4>1
    <3> QED BY <2>5, <3>1, <3>2, <3>3, <3>4
  <2> QED BY <2>k, <2>3, <2>4, <2>5
<1> QED BY <1>1, <1>2, <1>3

\* Commit and Abort reach every target, unless Commit fails.
LEMMA FinishReaches ==
    ASSUME TypeInv, OutcomeInv, Next, NEW t \in UsedTargets',
           NEW m \in {"committing", "aborting"}, phase' = m,
           NEW op, op = (IF m = "committing" THEN "commit" ELSE "abort"),
           NEW done, done = (IF m = "committing" THEN "committed" ELSE "aborted")
    PROVE  dlv'[t] = done \/ <<op, t>> \in Elems(todo')
<1>t. t \in Targets /\ dlv'[t] # "none"
  BY DEF UsedTargets
<1>1. CASE phase # m
  <2>1. Finish(m, op)
    BY <1>1, Moves DEF FailTo, Commit, Abort
  <2>2. PICK out \in Orders(UsedTargets) : todo' = FinishSteps(op, out)
    BY <2>1 DEF Finish, FinishSteps
  <2>3. t \in UsedTargets
    BY <1>t, <2>1 DEF Finish, UsedTargets, itsVars, deliveryVars
  <2> QED BY <2>2, <2>3, UsedTypes, FinishOrder
<1>2. CASE phase = m
  <2>1. ~Fail
    BY <1>2, FailMeans DEF Methods
  <2>2. PICK o : /\ At(o)
                 /\ \A s \in Elems(todo) : s = Step \/ s \in Elems(todo')
                 /\ CommitTarget \/ o # "commit"
                 /\ AbortTarget \/ o # "abort"
    BY <1>2, <2>1, StepsKept
  <2>3. Step[1] = o
    BY <2>2, AtStep DEF TypeInv
  <2>4. dlv'[t] = dlv[t] \/ dlv'[t] = done
    BY <1>2, <1>t, <2>1, DlvMoves
  <2>5. CASE dlv'[t] = dlv[t]
    <3>1. dlv[t] = done \/ <<op, t>> \in Elems(todo)
      BY <1>2, <1>t, <2>5 DEF OutcomeInv, UsedTargets
    <3>2. CASE Step = <<op, t>>
      <4>0. Step[2] = t /\ DOMAIN dlv = Targets
        BY <3>2 DEF TypeInv, DeliveryTypes
      <4>1. CASE m = "committing"
        <5>1. CommitTarget
          BY <2>2, <2>3, <3>2, <4>1
        <5>2. dlv' = [dlv EXCEPT ![t] = "committed"]
          BY <2>1, <4>0, <5>1 DEF CommitTarget
        <5> QED BY <1>t, <4>0, <4>1, <5>2
      <4>2. CASE m = "aborting"
        <5>1. AbortTarget
          BY <2>2, <2>3, <3>2, <4>2
        <5>2. dlv' = [dlv EXCEPT ![t] = "aborted"]
          BY <4>0, <5>1 DEF AbortTarget
        <5> QED BY <1>t, <4>0, <4>2, <5>2
      <4> QED BY <4>1, <4>2
    <3>3. CASE Step # <<op, t>>
      BY <2>2, <2>5, <3>1, <3>3
    <3> QED BY <3>2, <3>3
  <2> QED BY <2>4, <2>5
<1> QED BY <1>1, <1>2

\* When the source may commit, every target has the body or its recipients
\* are told.
LEMMA SentNext ==
    ASSUME TypeInv, OutcomeInv, Next, phase' = "sent", NEW t \in UsedTargets'
    PROVE  dlv'[t] = "body" \/ recips'[t] \subseteq told'
<1>1. phase' # phase
  <2>1. ASSUME phase' = phase, ~Fail PROVE phase \in Methods
    BY <2>1, StepsKept DEF At
  <2>2. ASSUME Fail PROVE phase \in Methods
    BY <2>2 DEF Fail, Methods
  <2> QED BY <2>1, <2>2 DEF Methods
<1>2. phase \in {"body", "nonatomic"} /\ Return
  BY <1>1, Moves DEF FailTo
<1>3. UNCHANGED <<dlv, recips, told>> /\ Elems(todo) = {}
  BY <1>2, EmptyList DEF Return, deliveryVars
<1>4. t \in UsedTargets
  BY <1>3 DEF UsedTargets
<1> QED BY <1>2, <1>3, <1>4 DEF OutcomeInv

LEMMA OutcomeNext ==
    ASSUME TypeInv, OutcomeInv, [Next]_vars
    PROVE  OutcomeInv'
<1>1. CASE UNCHANGED vars
  BY <1>1 DEF OutcomeInv, UsedTargets, vars, itsVars, deliveryVars, histVars
<1> SUFFICES ASSUME Next PROVE OutcomeInv'
  BY <1>1
<1>4. phase' = "body" => \A t \in UsedTargets' :
        dlv'[t] = "body" \/ <<"send", t>> \in Elems(todo')
  BY BodyReaches
<1>5. phase' = "nonatomic" => \A t \in UsedTargets' :
         \/ dlv'[t] = "body"
         \/ recips'[t] \subseteq told'
         \/ <<"send", t>> \in Elems(todo')
         \/ <<"tell">> \in Elems(todo')
  BY NonAtomicReaches
<1>6. phase' = "sent" => \A t \in UsedTargets' :
         dlv'[t] = "body" \/ recips'[t] \subseteq told'
  BY SentNext
<1>7. /\ phase' = "committing" => \A t \in UsedTargets' :
           dlv'[t] = "committed" \/ <<"commit", t>> \in Elems(todo')
      /\ phase' = "aborting" => \A t \in UsedTargets' :
           dlv'[t] = "aborted" \/ <<"abort", t>> \in Elems(todo')
  BY FinishReaches
<1>8. /\ phase' = "committed" => \A t \in UsedTargets' : dlv'[t] = "committed"
      /\ phase' = "aborted" => \A t \in UsedTargets' : dlv'[t] = "aborted"
  <2>1. ASSUME phase' \in {"committed", "aborted"}
        PROVE  /\ Return /\ phase' # phase
               /\ phase = (IF phase' = "committed" THEN "committing" ELSE "aborting")
    <3>1. phase' # phase
      BY <2>1, EndCases DEF Over
    <3> QED BY <2>1, <3>1, Moves DEF FailTo
  <2>2. ASSUME phase' \in {"committed", "aborted"}
        PROVE  /\ dlv' = dlv /\ Elems(todo) = {} /\ UsedTargets' = UsedTargets
    BY <2>1, <2>2, EmptyList DEF Return, deliveryVars, UsedTargets
  <2> QED BY <2>1, <2>2 DEF OutcomeInv
<1> QED BY <1>4, <1>5, <1>6, <1>7, <1>8 DEF OutcomeInv

(***************************************************************************)
(* AllOrNone: a Commit or an Abort that returned nil left no delivery      *)
(* behind, and when the source may commit, every target has the body or    *)
(* has told all the recipients it has, whichever target failed and for     *)
(* whatever reason.                                                        *)
(***************************************************************************)
THEOREM AllOrNoneHolds == Spec => []AllOrNone
<1> DEFINE Inv == TypeInv /\ OutcomeInv
<1>1. Init => Inv
  BY TypeInit, OutcomeInit
<1>2. Inv /\ [Next]_vars => Inv'
  BY TypeNext, OutcomeNext
<1>3. Inv => AllOrNone
  BY DEF OutcomeInv, AllOrNone
<1> QED BY <1>1, <1>2, <1>3, PTL DEF Spec
=============================================================================
