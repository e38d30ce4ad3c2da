--------------------------- MODULE ProcessProofs ---------------------------
(***************************************************************************)
(* Proofs about Process, for any configurations, any number of signals and *)
(* any changes of the table's file.                                        *)
(***************************************************************************)
EXTENDS Process, WellFoundedInduction, TLAPS

Names(c) == {u.name : u \in Units(c)}
InlineNames(c) == {u.name : u \in Config[c].inline}
BlockNames(c) == {b.name : b \in Range(Config[c].blocks)}

\* What the k-th reference of a module leads to.
Target(n, k) == Resolve(Block(n).refs[k].name)

(***************************************************************************)
(* No module refers to itself, not through others either.                  *)
(***************************************************************************)
Downhill(c, rank) ==
    \A u, v \in Units(c) : \A i \in DOMAIN u.refs :
        u.refs[i].name \in {v.name} \union v.aliases
            => rank[v.name] < rank[u.name]
Acyclic == \A c \in Configs : \E rank \in [Names(c) -> Nat] : Downhill(c, rank)

Rank(c) == CHOOSE rank \in [Names(c) -> Nat] : Downhill(c, rank)

-----------------------------------------------------------------------------
(***************************************************************************)
(* The inductive invariant behind the order of Close.  Calls of Init in    *)
(* progress lead downhill, so none of them is called again; what a call    *)
(* has already asked for has returned, and its hook comes before that of   *)
(* the caller.                                                             *)
(***************************************************************************)
Early == {"globals", "dirs", "register"}

StackNames == {stack[i].name : i \in DOMAIN stack}

ShapeInv ==
    /\ conf \in Configs
    /\ main \in Early \union {"init", "serve", "hooks", "exited"}
    /\ main # "exited" => status = "running"
    /\ cursor \in Nat \ {0}
    /\ endpoints \in Seq(BlockNames(conf))
    /\ stack \in Seq([name : Names(conf), ref : Nat \ {0}])
    /\ shutdown \in Seq(Names(conf))
    /\ closing \in Seq(Names(conf)) /\ closed \in Seq(Names(conf))

\* The registry: names of blocks, and aliases that some block has.
RegistryInv ==
    /\ \A n \in instances : n \in BlockNames(conf) /\ Block(n).kind = "module"
    /\ \A i \in DOMAIN endpoints : Block(endpoints[i]).kind = "endpoint"
    /\ \A n \in DOMAIN aliases : \E b \in Range(Config[conf].blocks) :
          n \in b.aliases /\ aliases[n] = b.name

\* Where the main goroutine is tells what has not happened yet.
PhaseInv ==
    /\ main \in Early =>
          stack = <<>> /\ shutdown = <<>> /\ DOMAIN stored = {}
            /\ initialized = {}
    /\ main \in {"serve", "hooks"} => stack = <<>>
    /\ main \in Early \union {"init", "serve"} => closed = <<>>

\* Which calls of Init there have been.
CalledInv ==
    /\ DOMAIN stored = StackNames \union Range(shutdown)
    /\ StackNames \intersect Range(shutdown) = {}
    /\ DOMAIN stored \subseteq
          initialized \union Range(endpoints) \union InlineNames(conf)
    /\ initialized \subseteq DOMAIN stored \/ status = "failed"
    /\ initialized \subseteq instances

\* A call that has come to its k-th reference has dealt with the ones before.
Passed(i, k) ==
    k < stack[i].ref \/ (k = stack[i].ref /\ i < Len(stack))

\* An inline module that was called is behind the place of its definition.
InlineInv ==
    \A n \in Names(conf) : \A k \in DOMAIN Block(n).refs :
        /\ Block(n).refs[k].inline
        /\ Block(n).refs[k].name \in DOMAIN stored
        => \/ n \in Range(shutdown)
           \/ \E i \in DOMAIN stack : stack[i].name = n /\ Passed(i, k)

\* The calls in progress.
StackInv ==
    \A i \in DOMAIN stack :
        /\ stack[i].ref <= Len(Block(stack[i].name).refs) + 1
        /\ \A k \in 1 .. (stack[i].ref - 1) :
              Target(stack[i].name, k) \in Range(shutdown)
        /\ i < Len(stack) =>
              /\ stack[i].ref <= Len(Block(stack[i].name).refs)
              /\ stack[i + 1].name = Target(stack[i].name, stack[i].ref)
        /\ \A j \in 1 .. (i - 1) :
              Rank(conf)[stack[i].name] < Rank(conf)[stack[j].name]

\* The hooks: each module once, and after what it uses.
OrderInv ==
    /\ IsInjective(shutdown)
    /\ \A j \in DOMAIN shutdown : \A k \in DOMAIN Block(shutdown[j]).refs :
          \E i \in 1 .. (j - 1) : shutdown[i] = Target(shutdown[j], k)

\* RunHooks has closed the last modules of the list, from its end.
Halfway ==
    /\ Len(closing) + Len(closed) = Len(shutdown)
    /\ \A i \in DOMAIN closing : closing[i] = shutdown[i]
    /\ \A i \in DOMAIN closed : closed[i] = shutdown[Len(shutdown) + 1 - i]

CloseInv ==
    /\ main = "hooks" \/ closed # <<>> => Halfway
    /\ status = "ok" => Halfway /\ closing = <<>> /\ stack = <<>>

LifeInv ==
    /\ ShapeInv /\ RegistryInv /\ PhaseInv /\ CalledInv /\ InlineInv
    /\ StackInv /\ OrderInv /\ CloseInv

-----------------------------------------------------------------------------
(***************************************************************************)
(* Facts about configurations.                                             *)
(***************************************************************************)

\* BlockOf finds the unit that has the name, and its references are a list.
LEMMA BlockIs ==
    ASSUME NEW c \in Configs, NEW n \in Names(c)
    PROVE  /\ BlockOf[c][n] \in Units(c) /\ BlockOf[c][n].name = n
           /\ BlockOf[c][n].refs \in Seq(Range(BlockOf[c][n].refs))
<1>1. \E u \in Units(c) : u.name = n
  BY DEF Names
<1>2. BlockOf[c][n] = CHOOSE u \in Units(c) : u.name = n
  BY DEF BlockOf, Names
<1>3. BlockOf[c][n] \in Units(c) /\ BlockOf[c][n].name = n
  BY <1>1, <1>2
<1> QED
  BY <1>3, ConfigAssumption DEF ConfigAssumption

\* It is the only one.
LEMMA BlockOnly ==
    ASSUME NEW c \in Configs, NEW u \in Units(c)
    PROVE  u.name \in Names(c) /\ BlockOf[c][u.name] = u
<1>1. u.name \in Names(c)
  BY DEF Names
<1> QED
  BY <1>1, BlockIs, ConfigAssumption DEF ConfigAssumption

\* Inline modules and blocks have different names.
LEMMA NamesApart ==
    ASSUME NEW c \in Configs
    PROVE  /\ BlockNames(c) \subseteq Names(c)
           /\ InlineNames(c) \subseteq Names(c)
           /\ BlockNames(c) \intersect InlineNames(c) = {}
  BY ConfigAssumption
  DEF ConfigAssumption, BlockNames, InlineNames, Names, Units

\* A definition in place is where the module's name comes from.
LEMMA InlineOnce ==
    ASSUME NEW c \in Configs, NEW m \in Names(c), NEW n \in Names(c),
           NEW i \in DOMAIN BlockOf[c][m].refs,
           NEW j \in DOMAIN BlockOf[c][n].refs,
           BlockOf[c][m].refs[i].inline
    PROVE  /\ BlockOf[c][m].refs[i].name \in InlineNames(c)
           /\ /\ BlockOf[c][n].refs[j].inline
              /\ BlockOf[c][n].refs[j].name = BlockOf[c][m].refs[i].name
              => m = n /\ i = j
<1> DEFINE u == BlockOf[c][m]
           v == BlockOf[c][n]
<1>1. u \in Units(c) /\ v \in Units(c) /\ u.name = m /\ v.name = n
  BY BlockIs
<1> HIDE DEF u, v
<1>2. /\ \E w \in Config[c].inline : w.name = u.refs[i].name
      /\ v.refs[j].inline /\ v.refs[j].name = u.refs[i].name
                        => u = v /\ i = j
  <2>1. i \in DOMAIN u.refs /\ j \in DOMAIN v.refs /\ u.refs[i].inline
    BY DEF u, v
  <2> QED
    BY <1>1, <2>1, ConfigAssumption DEF ConfigAssumption
<1> QED
  BY <1>1, <1>2 DEF InlineNames, u, v

\* Where nothing refers to itself, references lead downhill.
LEMMA RankIs ==
    ASSUME Acyclic, NEW c \in Configs
    PROVE  Rank(c) \in [Names(c) -> Nat] /\ Downhill(c, Rank(c))
<1>1. \E rank \in [Names(c) -> Nat] : Downhill(c, rank)
  BY DEF Acyclic
<1> QED
  BY <1>1 DEF Rank

LEMMA TargetDown ==
    ASSUME Acyclic, ShapeInv, RegistryInv, NEW n \in Names(conf),
           NEW k \in DOMAIN Block(n).refs, Target(n, k) \in Names(conf)
    PROVE  Rank(conf)[Target(n, k)] < Rank(conf)[n]
<1> DEFINE u == Block(n)
           x == u.refs[k].name
<1>0. conf \in Configs /\ u \in Units(conf) /\ u.name = n
  BY BlockIs DEF Block, ShapeInv
<1>1. Downhill(conf, Rank(conf))
  BY <1>0, RankIs
<1>2. ASSUME NEW v \in Units(conf), x \in {v.name} \union v.aliases
      PROVE  Rank(conf)[v.name] < Rank(conf)[n]
  <2> HIDE DEF u
  <2> QED
  BY <1>0, <1>1, <1>2 DEF Downhill, u
<1>3. CASE x \in DOMAIN aliases
  <2> PICK b \in Range(Config[conf].blocks) : x \in b.aliases /\ aliases[x] = b.name
    BY <1>3 DEF RegistryInv
  <2>1. b \in Units(conf)
    BY DEF Units
  <2> QED
    BY <1>2, <1>3, <2>1 DEF Target, Resolve
<1>4. CASE x \notin DOMAIN aliases
  <2>1. Target(n, k) = x
    BY <1>4 DEF Target, Resolve
  <2>2. PICK v \in Units(conf) : v.name = x
    BY <2>1 DEF Names
  <2> QED
    BY <1>2, <2>1, <2>2
<1> QED
  BY <1>3, <1>4

-----------------------------------------------------------------------------
(***************************************************************************)
(* The steps.                                                              *)
(***************************************************************************)
lifeVars == <<conf, instances, aliases, endpoints, stored, stack, shutdown>>

\* While no module is initialized, most of the invariant stays.
LEMMA Still ==
    ASSUME LifeInv, UNCHANGED lifeVars
    PROVE  /\ RegistryInv' /\ InlineInv' /\ StackInv' /\ OrderInv'
           /\ StackNames' = StackNames
<1> USE DEF lifeVars
<1>1. Block(0)' = Block(0) /\ \A n : Block(n)' = Block(n)
  BY DEF Block
<1>2. \A n, k : Target(n, k)' = Target(n, k)
  BY DEF Target, Resolve, Block
<1>3. RegistryInv'
  BY <1>1 DEF LifeInv, RegistryInv
<1>4. InlineInv'
  BY <1>1 DEF LifeInv, InlineInv, Passed
<1>5. StackInv'
  BY <1>1, <1>2 DEF LifeInv, StackInv
<1>6. OrderInv'
  BY <1>1, <1>2 DEF LifeInv, OrderInv
<1> QED
  BY <1>3, <1>4, <1>5, <1>6 DEF StackNames

\* The same, for steps that neither initialize nor close modules.
LEMMA QuietStep ==
    ASSUME LifeInv, UNCHANGED lifeVars, cursor' \in Nat \ {0},
           UNCHANGED <<initialized, closing, closed>>,
           \/ UNCHANGED <<main, status>>
           \/ main # "exited" /\ main' = "exited" /\ status' # "ok"
           \/ main \in Early /\ main' \in Early \union {"init"} /\ status' = status
           \/ main = "init" /\ stack = <<>> /\ main' = "serve" /\ status' = status
    PROVE  LifeInv'
<1> USE DEF lifeVars
<1>1. RegistryInv' /\ InlineInv' /\ StackInv' /\ OrderInv'
  BY Still
<1>2. ShapeInv'
  BY DEF LifeInv, ShapeInv, Early
<1>3. PhaseInv'
  BY DEF LifeInv, PhaseInv, ShapeInv, Early
<1>4. CalledInv'
  <2>1. StackNames' = StackNames
    BY Still
  <2>2. initialized \subseteq DOMAIN stored \/ status' = "failed"
    BY DEF LifeInv, ShapeInv, CalledInv, Early
  <2> QED
    BY <2>1, <2>2 DEF LifeInv, CalledInv
<1>5. CloseInv'
  <2>1. Halfway' = Halfway
    BY DEF Halfway
  <2>2. main' = "hooks" => main = "hooks"
    BY DEF Early
  <2>3. status' = "ok" => status = "ok"
    BY DEF LifeInv, ShapeInv
  <2> QED
    BY <2>1, <2>2, <2>3 DEF LifeInv, CloseInv
<1> QED
  BY <1>1, <1>2, <1>3, <1>4, <1>5 DEF LifeInv

\* RegisterModules: nothing has been called yet.
LEMMA RegisterStep ==
    ASSUME LifeInv, RegisterModule
    PROVE  LifeInv'
<1> DEFINE b == Config[conf].blocks[cursor]
<1>0. conf' = conf /\ UNCHANGED <<initialized, stored, stack, shutdown, closing, closed>>
  BY DEF RegisterModule, endVars
<1>1. main = "register" /\ cursor' = cursor + 1 /\ cursor <= Len(Config[conf].blocks)
  BY DEF RegisterModule
<1>2. main' \in {"register", "exited"} /\ (main' = "exited" => status' = "failed")
      /\ (main' = "register" => status' = status)
  BY DEF RegisterModule, Goes, Exits
<1>3. conf \in Configs /\ cursor \in Nat \ {0}
  BY DEF LifeInv, ShapeInv
<1>4. b \in Range(Config[conf].blocks) /\ b \in Units(conf)
  <2>1. Config[conf].blocks \in Seq(Range(Config[conf].blocks))
    BY <1>3, ConfigAssumption DEF ConfigAssumption
  <2>2. cursor \in DOMAIN Config[conf].blocks
    BY <1>1, <1>3, <2>1
  <2> QED
    BY <2>2 DEF Range, Units
<1>5. Block(b.name) = b /\ b.name \in BlockNames(conf)
  BY <1>3, <1>4, BlockOnly DEF Block, BlockNames
<1> HIDE DEF b
<1>6. \/ /\ b.kind = "endpoint" /\ endpoints' = Append(endpoints, b.name)
         /\ UNCHANGED <<instances, aliases>>
      \/ /\ b.kind = "module" /\ instances' = instances \union {b.name}
         /\ aliases' = [n \in DOMAIN aliases \union b.aliases |->
                           IF n \in b.aliases THEN b.name ELSE aliases[n]]
         /\ UNCHANGED endpoints
      \/ UNCHANGED <<instances, aliases, endpoints>>
  BY DEF RegisterModule, b
<1>7. stack = <<>> /\ shutdown = <<>> /\ DOMAIN stored = {} /\ initialized = {} /\ closed = <<>>
  BY <1>1 DEF LifeInv, PhaseInv, Early
<1>8. status = "running"
  BY <1>1 DEF LifeInv, ShapeInv
<1>9. endpoints \in Seq(BlockNames(conf))
  BY DEF LifeInv, ShapeInv
<1>10. ShapeInv'
  <2>1. endpoints' \in Seq(BlockNames(conf))
    BY <1>5, <1>6, <1>9
  <2> QED
    BY <1>0, <1>1, <1>2, <1>3, <1>8, <2>1 DEF LifeInv, ShapeInv, Early
<1>11. RegistryInv'
  <2>0. \A n : Block(n)' = Block(n)
    BY <1>0 DEF Block
  <2>1. \A n \in instances' : n \in BlockNames(conf) /\ Block(n).kind = "module"
    BY <1>5, <1>6 DEF LifeInv, RegistryInv
  <2>2. \A i \in DOMAIN endpoints' : Block(endpoints'[i]).kind = "endpoint"
    <3>1. CASE b.kind = "endpoint" /\ endpoints' = Append(endpoints, b.name)
      <4>1. \A i \in DOMAIN endpoints' :
               (i \in DOMAIN endpoints /\ endpoints'[i] = endpoints[i]) \/ endpoints'[i] = b.name
        BY <3>1, <1>9, <1>5
      <4> QED
        BY <4>1, <3>1, <1>5 DEF LifeInv, RegistryInv
    <3>2. CASE UNCHANGED endpoints
      BY <3>2 DEF LifeInv, RegistryInv
    <3> QED
      BY <3>1, <3>2, <1>6
  <2>3. \A n \in DOMAIN aliases' : \E d \in Range(Config[conf].blocks) :
            n \in d.aliases /\ aliases'[n] = d.name
    BY <1>4, <1>6 DEF LifeInv, RegistryInv
  <2> QED
    BY <2>0, <2>1, <2>2, <2>3, <1>0 DEF RegistryInv
<1>12. PhaseInv'
  BY <1>0, <1>2, <1>7 DEF PhaseInv, Early
<1>13. StackNames' = {} /\ Range(shutdown') = {}
  BY <1>0, <1>7 DEF StackNames, Range
<1>14. CalledInv'
  BY <1>0, <1>13, <1>7 DEF CalledInv
<1>15. InlineInv'
  BY <1>0, <1>7 DEF InlineInv
<1>16. StackInv'
  BY <1>0, <1>7 DEF StackInv
<1>17. OrderInv'
  BY <1>0, <1>7 DEF OrderInv, IsInjective
<1>18. CloseInv'
  BY <1>0, <1>2, <1>7, <1>8 DEF CloseInv
<1> QED
  BY <1>10, <1>11, <1>12, <1>14, <1>15, <1>16, <1>17, <1>18 DEF LifeInv

\* A call of Init that its caller, if there is one, has come to.
LEMMA CallStep ==
    ASSUME Acyclic, LifeInv, main = "init",
           UNCHANGED <<conf, cursor, instances, aliases, endpoints, shutdown,
                       closing, closed>>,
           NEW n \in Names(conf), n \notin DOMAIN stored,
           initialized \subseteq initialized',
           initialized' \subseteq initialized \union {n},
           initialized' \subseteq instances,
           n \in initialized' \union Range(endpoints) \union InlineNames(conf),
           stack # <<>> => /\ Top.ref \in DOMAIN Block(Top.name).refs
                           /\ n = Target(Top.name, Top.ref),
           \A m \in Names(conf) : \A k \in DOMAIN Block(m).refs :
               Block(m).refs[k].inline /\ Block(m).refs[k].name = n
                   => stack # <<>> /\ m = Top.name /\ k = Top.ref,
           Call(n)
    PROVE  LifeInv'
<1>0. conf \in Configs /\ status = "running" /\ closed = <<>>
      /\ stack \in Seq([name : Names(conf), ref : Nat \ {0}])
      /\ initialized \subseteq DOMAIN stored
  BY DEF LifeInv, ShapeInv, PhaseInv, CalledInv
<1>1. CASE /\ main' = "exited" /\ status' = "failed" /\ UNCHANGED <<stored, stack>>
  <2>1. RegistryInv' /\ InlineInv' /\ StackInv' /\ OrderInv' /\ StackNames' = StackNames
    BY <1>1, Still DEF lifeVars
  <2>2. ShapeInv'
    BY <1>1 DEF LifeInv, ShapeInv
  <2>3. PhaseInv'
    BY <1>1 DEF PhaseInv, Early
  <2>4. CalledInv'
    BY <1>1, <2>1 DEF LifeInv, CalledInv
  <2>5. CloseInv'
    BY <1>0, <1>1 DEF CloseInv
  <2> QED
    BY <2>1, <2>2, <2>3, <2>4, <2>5 DEF LifeInv
<1>2. CASE /\ main' = "init" /\ status' = status
           /\ \E v : stored' = With(stored, n, v)
           /\ stack' = Append(stack, Frame(n))
  <2> DEFINE L == Len(stack)
  <2>1. /\ L \in Nat /\ Len(stack') = L + 1 /\ DOMAIN stack = 1 .. L /\ DOMAIN stack' = 1 .. (L + 1)
        /\ \A i \in 1 .. L : stack'[i] = stack[i]
        /\ stack'[L + 1] = Frame(n)
    BY <1>0, <1>2 DEF Frame
  <2>2. Frame(n).name = n /\ Frame(n).ref = 1 /\ Frame(n) \in [name : Names(conf), ref : Nat \ {0}]
    BY DEF Frame
  <2>3. DOMAIN stored' = DOMAIN stored \union {n}
    BY <1>2 DEF With
  <2>4. StackNames' = StackNames \union {n}
    BY <2>1, <2>2 DEF StackNames
  <2>5. L # 0 => Top = stack[L]
    BY <2>1 DEF Top
  <2>6. \A m : Block(m)' = Block(m)
    BY DEF Block
  <2>7. \A m, k : Target(m, k)' = Target(m, k)
    BY DEF Target, Resolve, Block
  <2>8. stack = <<>> <=> L = 0
    BY <1>0
  <2>9. \A i \in 1 .. L : stack[i].name \in Names(conf) /\ stack[i].ref \in Nat \ {0}
    <3> DEFINE S == [name : Names(conf), ref : Nat \ {0}]
    <3>0. stack \in Seq(S)
      BY <1>0
    <3> HIDE DEF S
    <3>2. \A i \in 1 .. L : stack[i] \in S
      BY <3>0
    <3>1. \A i \in 1 .. L : stack[i] \in [name : Names(conf), ref : Nat \ {0}]
      BY <3>2 DEF S
    <3> QED
      BY <3>1
  <2> HIDE DEF L
  <2>10. ShapeInv'
    <3>1. stack' \in Seq([name : Names(conf), ref : Nat \ {0}])
      BY <1>0, <1>2, <2>2
    <3> QED
      BY <1>2, <3>1 DEF LifeInv, ShapeInv
  <2>11. RegistryInv'
    BY <2>6 DEF LifeInv, RegistryInv
  <2>12. PhaseInv'
    BY <1>0, <1>2 DEF PhaseInv, Early
  <2>13. CalledInv'
    BY <1>0, <2>3, <2>4 DEF LifeInv, CalledInv
  <2>14. InlineInv'
    <3> SUFFICES ASSUME NEW m \in Names(conf), NEW k \in DOMAIN Block(m).refs,
                        Block(m).refs[k].inline,
                        Block(m).refs[k].name \in DOMAIN stored'
                 PROVE  \/ m \in Range(shutdown)
                        \/ \E i \in DOMAIN stack' : stack'[i].name = m /\ Passed(i, k)'
      BY <2>6 DEF InlineInv
    <3>1. CASE Block(m).refs[k].name \in DOMAIN stored
      <4>1. CASE m \in Range(shutdown)
        BY <4>1
      <4>2. CASE \E i \in DOMAIN stack : stack[i].name = m /\ Passed(i, k)
        <5> PICK i \in DOMAIN stack : stack[i].name = m /\ Passed(i, k)
          BY <4>2
        <5>1. Passed(i, k)' /\ i \in DOMAIN stack' /\ stack'[i].name = m
          BY <2>1 DEF Passed, L
        <5> QED
          BY <5>1
      <4> QED
        BY <3>1, <4>1, <4>2 DEF LifeInv, InlineInv
    <3>2. CASE Block(m).refs[k].name = n
      <4>1. stack # <<>> /\ m = Top.name /\ k = Top.ref
        BY <3>2
      <4>2. PICK l \in Nat : l = L
        BY <2>1
      <4>3. l \in DOMAIN stack' /\ stack'[l].name = m /\ stack'[l].ref = k
        BY <4>1, <4>2, <2>1, <2>5, <2>8
      <4>4. Passed(l, k)'
        BY <4>2, <4>3, <2>1 DEF Passed
      <4> QED
        BY <4>3, <4>4
    <3> QED
      BY <3>1, <3>2, <2>3
  <2>15. StackInv'
    <3> SUFFICES ASSUME NEW i \in 1 .. (L + 1)
                 PROVE
        /\ stack'[i].ref <= Len(Block(stack'[i].name).refs) + 1
        /\ \A k \in 1 .. (stack'[i].ref - 1) :
              Target(stack'[i].name, k) \in Range(shutdown)
        /\ i < L + 1 =>
              /\ stack'[i].ref <= Len(Block(stack'[i].name).refs)
              /\ stack'[i + 1].name = Target(stack'[i].name, stack'[i].ref)
        /\ \A j \in 1 .. (i - 1) :
              Rank(conf)[stack'[i].name] < Rank(conf)[stack'[j].name]
      BY <2>1, <2>6, <2>7 DEF StackInv
    <3>1. CASE i \in 1 .. (L - 1)
      <4>1. i \in DOMAIN stack /\ i < Len(stack) /\ stack'[i] = stack[i] /\ stack'[i + 1] = stack[i + 1]
            /\ \A j \in 1 .. (i - 1) : stack'[j] = stack[j]
        BY <3>1, <2>1 DEF L
      <4> QED
        BY <4>1 DEF LifeInv, StackInv
    <3>2. CASE i = L
      <4>1. i \in DOMAIN stack /\ stack'[i] = stack[i] /\ stack'[i + 1] = Frame(n) /\ stack[i] = Top
            /\ \A j \in 1 .. (i - 1) : stack'[j] = stack[j]
        BY <3>2, <2>1, <2>5, <2>8 DEF L
      <4>2. Top.ref \in DOMAIN Block(Top.name).refs /\ n = Target(Top.name, Top.ref)
        BY <3>2, <2>1, <2>8
      <4>3. Block(Top.name).refs \in Seq(Range(Block(Top.name).refs))
        BY <4>1, <1>0, <2>9, <2>1, BlockIs DEF Block
      <4>4. Top.ref <= Len(Block(Top.name).refs)
        BY <4>2, <4>3
      <4> QED
        BY <4>1, <4>2, <4>4, <2>2 DEF LifeInv, StackInv
    <3>3. CASE i = L + 1
      <4>1. stack'[i] = Frame(n) /\ \A j \in 1 .. (i - 1) : stack'[j] = stack[j]
        BY <3>3, <2>1
      <4>2. Block(n).refs \in Seq(Range(Block(n).refs))
        BY <1>0, BlockIs DEF Block
      <4>3. ASSUME NEW j \in 1 .. L
            PROVE  Rank(conf)[n] < Rank(conf)[stack[j].name]
        <5>1. L # 0 /\ Top = stack[L] /\ Top.ref \in DOMAIN Block(Top.name).refs /\ n = Target(Top.name, Top.ref)
          BY <2>5, <2>8, <2>1
        <5>2. Rank(conf)[n] < Rank(conf)[Top.name]
          BY <5>1, <2>9, <2>1, TargetDown DEF LifeInv
        <5>3. j # L => Rank(conf)[Top.name] < Rank(conf)[stack[j].name]
          BY <5>1, <2>1 DEF LifeInv, StackInv
        <5>4. Rank(conf)[n] \in Nat /\ Rank(conf)[Top.name] \in Nat /\ Rank(conf)[stack[j].name] \in Nat
          BY <5>1, <2>9, <2>1, <1>0, RankIs
        <5> QED
          BY <5>1, <5>2, <5>3, <5>4
      <4> QED
        BY <3>3, <4>1, <4>2, <4>3, <2>1, <2>2
    <3> QED
      BY <3>1, <3>2, <3>3, <2>1
  <2>16. OrderInv'
    BY <2>6, <2>7 DEF LifeInv, OrderInv
  <2>17. CloseInv'
    BY <1>0, <1>2 DEF CloseInv
  <2> QED
    BY <2>10, <2>11, <2>12, <2>13, <2>14, <2>15, <2>16, <2>17 DEF LifeInv
<1> QED
  BY <1>1, <1>2 DEF Call, Goes, Exits

\* The calls in progress are calls of units, each at one of its references.
LEMMA Calls ==
    ASSUME LifeInv
    PROVE  /\ conf \in Configs
           /\ stack \in Seq([name : Names(conf), ref : Nat \ {0}])
           /\ Len(stack) \in Nat /\ DOMAIN stack = 1 .. Len(stack)
           /\ \A i \in DOMAIN stack :
                 stack[i].name \in Names(conf) /\ stack[i].ref \in Nat \ {0}
           /\ stack # <<>> => Len(stack) \in DOMAIN stack
<1> DEFINE S == [name : Names(conf), ref : Nat \ {0}]
<1>1. stack \in Seq(S) /\ conf \in Configs
  BY DEF LifeInv, ShapeInv
<1> HIDE DEF S
<1>2. /\ Len(stack) \in Nat /\ DOMAIN stack = 1 .. Len(stack)
      /\ \A i \in DOMAIN stack : stack[i] \in S
      /\ stack # <<>> => Len(stack) \in DOMAIN stack
  BY <1>1
<1>3. \A i \in DOMAIN stack :
                 stack[i].name \in Names(conf) /\ stack[i].ref \in Nat \ {0}
  BY <1>2 DEF S
<1> QED
  BY <1>1, <1>2, <1>3 DEF S

\* Where the call on top of the stack is: past its references, or at one.
LEMMA TopIs ==
    ASSUME LifeInv, stack # <<>>
    PROVE  /\ Top.name \in Names(conf) /\ Top.ref \in Nat \ {0}
           /\ Top.name \in StackNames /\ Len(stack) \in Nat \ {0}
           /\ Top = stack[Len(stack)]
           /\ Block(Top.name).refs \in Seq(Range(Block(Top.name).refs))
           /\ Len(Block(Top.name).refs) \in Nat
           /\ DOMAIN Block(Top.name).refs = 1 .. Len(Block(Top.name).refs)
<1>1. Top.name \in Names(conf) /\ Top.ref \in Nat \ {0} /\ Top.name \in StackNames
      /\ Len(stack) \in Nat \ {0} /\ conf \in Configs
  BY Calls DEF Top, StackNames
<1> DEFINE r == Block(Top.name).refs
<1>2. r \in Seq(Range(r))
  BY <1>1, BlockIs DEF Block
<1> HIDE DEF r
<1>3. Len(r) \in Nat /\ DOMAIN r = 1 .. Len(r)
  BY <1>2
<1> QED
  BY <1>1, <1>2, <1>3 DEF r, Top

\* They go downhill.
LEMMA Falls ==
    ASSUME LifeInv, NEW i \in DOMAIN stack, NEW j \in DOMAIN stack, j < i
    PROVE  Rank(conf)[stack[i].name] < Rank(conf)[stack[j].name]
<1>1. j \in 1 .. (i - 1)
  BY Calls
<1> QED
  BY <1>1 DEF LifeInv, StackInv

\* The calls have different names.
LEMMA CallsApart ==
    ASSUME Acyclic, LifeInv, NEW i \in DOMAIN stack, NEW j \in DOMAIN stack,
           stack[i].name = stack[j].name
    PROVE  i = j
<1>1. \A k \in DOMAIN stack : Rank(conf)[stack[k].name] \in Nat
  BY Calls, RankIs
<1>2. i < j => Rank(conf)[stack[j].name] < Rank(conf)[stack[i].name]
  BY Falls
<1>3. j < i => Rank(conf)[stack[i].name] < Rank(conf)[stack[j].name]
  BY Falls
<1>4. i \in Nat /\ j \in Nat
  BY Calls
<1> QED
  BY <1>1, <1>2, <1>3, <1>4

\* What the call on top refers to is not being called.
LEMMA NotCalling ==
    ASSUME Acyclic, LifeInv, stack # <<>>,
           Top.ref \in DOMAIN Block(Top.name).refs,
           Target(Top.name, Top.ref) \in Names(conf)
    PROVE  Target(Top.name, Top.ref) \notin StackNames
<1> DEFINE n == Target(Top.name, Top.ref)
<1>1. Rank(conf)[n] < Rank(conf)[Top.name]
  BY TopIs, TargetDown DEF LifeInv
<1>2. \A k \in DOMAIN stack : Rank(conf)[stack[k].name] \in Nat
  BY Calls, RankIs
<1>3. Rank(conf)[n] \in Nat
  BY Calls, RankIs
<1>4. ASSUME NEW j \in DOMAIN stack PROVE stack[j].name # n
  <2>0. Len(stack) \in DOMAIN stack /\ (j # Len(stack) => j < Len(stack))
    BY Calls
  <2>1. j # Len(stack) => Rank(conf)[Top.name] < Rank(conf)[stack[j].name]
    BY <2>0, Falls DEF Top
  <2>2. j = Len(stack) => Rank(conf)[Top.name] = Rank(conf)[stack[j].name]
    BY DEF Top
  <2>3. Rank(conf)[Top.name] \in Nat
    BY <1>2, Calls DEF Top
  <2> QED
    BY <1>1, <1>2, <1>3, <2>1, <2>2, <2>3
<1> QED
  BY <1>4 DEF StackNames

\* The caller goes on to its next reference.
LEMMA NextRefIs ==
    ASSUME NEW N, NEW s \in Seq([name : N, ref : Nat \ {0}]), s # <<>>
    PROVE  /\ NextRef(s) \in Seq([name : N, ref : Nat \ {0}])
           /\ Len(NextRef(s)) = Len(s) /\ DOMAIN NextRef(s) = DOMAIN s
           /\ \A i \in DOMAIN s : NextRef(s)[i].name = s[i].name
           /\ \A i \in DOMAIN s : i # Len(s) => NextRef(s)[i] = s[i]
           /\ NextRef(s)[Len(s)].ref = s[Len(s)].ref + 1
<1> DEFINE S == [name : N, ref : Nat \ {0}]
           e == [s[Len(s)] EXCEPT !.ref = @ + 1]
<1> HIDE DEF S
<1>1. /\ Len(s) \in Nat /\ DOMAIN s = 1 .. Len(s) /\ Len(s) \in DOMAIN s
      /\ s[Len(s)] \in S /\ \A i \in DOMAIN s : s[i] \in S
  <2>1. s \in Seq(S)
    BY DEF S
  <2> QED
    BY <2>1
<1>2. e \in S /\ e.name = s[Len(s)].name /\ e.ref = s[Len(s)].ref + 1
  BY <1>1 DEF S
<1> HIDE DEF e
<1>3. NextRef(s) = [s EXCEPT ![Len(s)] = e]
  BY DEF NextRef, e
<1>4. NextRef(s) \in Seq(S)
  BY <1>1, <1>2, <1>3 DEF S
<1> QED
  BY <1>1, <1>2, <1>3, <1>4 DEF S

\* initModules: an endpoint has no caller, and no other name leads to it.
LEMMA EndpointStep ==
    ASSUME Acyclic, LifeInv, InitEndpoint
    PROVE  LifeInv'
<1>1. PICK i \in DOMAIN endpoints : endpoints[i] \notin DOMAIN stored /\ Call(endpoints[i])
  BY DEF InitEndpoint
<1>2. conf \in Configs /\ endpoints \in Seq(BlockNames(conf))
  BY DEF LifeInv, ShapeInv
<1>3. endpoints[i] \in BlockNames(conf) /\ endpoints[i] \in Range(endpoints)
  BY <1>2 DEF Range
<1>4. endpoints[i] \in Names(conf) /\ endpoints[i] \notin InlineNames(conf)
  BY <1>2, <1>3, NamesApart
<1>5. \A m \in Names(conf) : \A k \in DOMAIN Block(m).refs :
         Block(m).refs[k].inline => Block(m).refs[k].name # endpoints[i]
  BY <1>2, <1>4, InlineOnce DEF Block
<1>6. main = "init" /\ stack = <<>>
      /\ UNCHANGED <<conf, cursor, instances, aliases, endpoints, shutdown,
                     closing, closed, initialized>>
  BY DEF InitEndpoint, InitStep, endVars
<1>7. initialized \subseteq instances
  BY DEF LifeInv, CalledInv
<1> QED
  BY <1>1, <1>3, <1>4, <1>5, <1>6, <1>7, CallStep

\* GetInstance of a module whose Init has begun: it has returned.
LEMMA FoundStep ==
    ASSUME Acyclic, LifeInv, main = "init", stack # <<>>,
           UNCHANGED <<conf, cursor, instances, aliases, endpoints, shutdown,
                       closing, closed, stored, initialized, main, status>>,
           Top.ref \in DOMAIN Block(Top.name).refs,
           Target(Top.name, Top.ref) \in initialized,
           stack' = NextRef(stack)
    PROVE  LifeInv'
<1> DEFINE n == Target(Top.name, Top.ref)
<1>0. status = "running" /\ closed = <<>> /\ initialized \subseteq DOMAIN stored
      /\ initialized \subseteq instances /\ instances \subseteq Names(conf)
  BY NamesApart DEF LifeInv, ShapeInv, PhaseInv, CalledInv, RegistryInv
<1>1. n \in Range(shutdown)
  BY <1>0, NotCalling DEF LifeInv, CalledInv
<1>2. /\ stack' \in Seq([name : Names(conf), ref : Nat \ {0}])
      /\ Len(stack') = Len(stack) /\ DOMAIN stack' = DOMAIN stack
      /\ \A i \in DOMAIN stack : stack'[i].name = stack[i].name
      /\ \A i \in DOMAIN stack : i # Len(stack) => stack'[i] = stack[i]
      /\ stack'[Len(stack)].ref = Top.ref + 1
  BY Calls, NextRefIs DEF Top
<1>3. StackNames' = StackNames
  BY <1>2 DEF StackNames
<1>4. \A m : Block(m)' = Block(m)
  BY DEF Block
<1>5. \A m, k : Target(m, k)' = Target(m, k)
  BY DEF Target, Resolve, Block
<1>6. \A i \in DOMAIN stack : stack[i].ref <= stack'[i].ref
  BY <1>2, Calls DEF Top
<1> HIDE DEF n
<1>7. ShapeInv'
  BY <1>2 DEF LifeInv, ShapeInv
<1>8. RegistryInv'
  BY <1>4 DEF LifeInv, RegistryInv
<1>9. PhaseInv'
  BY <1>0 DEF PhaseInv, Early
<1>10. CalledInv'
  BY <1>3 DEF LifeInv, CalledInv
<1>11. InlineInv'
  <2>1. ASSUME NEW i \in DOMAIN stack, NEW k \in Int, Passed(i, k)
        PROVE  Passed(i, k)'
    <3>1. stack[i].ref \in Int /\ stack'[i].ref \in Int
      BY <1>2, Calls, TopIs
    <3>2. CASE k < stack[i].ref
      BY <3>1, <3>2, <1>6 DEF Passed
    <3>3. CASE k = stack[i].ref /\ i < Len(stack)
      BY <3>3, <1>2, Calls DEF Passed
    <3> QED
      BY <2>1, <3>2, <3>3 DEF Passed
  <2>2. \A m \in Names(conf) : DOMAIN Block(m).refs \subseteq Int
    <3> SUFFICES ASSUME NEW m \in Names(conf) PROVE DOMAIN Block(m).refs \subseteq Int
      OBVIOUS
    <3>1. Block(m).refs \in Seq(Range(Block(m).refs))
      BY BlockIs, Calls DEF Block
    <3> QED
      BY <3>1
  <2>3. SUFFICES ASSUME NEW m \in Names(conf), NEW k \in DOMAIN Block(m).refs,
                        Block(m).refs[k].inline,
                        Block(m).refs[k].name \in DOMAIN stored
                 PROVE  \/ m \in Range(shutdown)
                        \/ \E i \in DOMAIN stack' : stack'[i].name = m /\ Passed(i, k)'
    BY <1>4 DEF InlineInv
  <2>4. CASE m \in Range(shutdown)
    BY <2>4
  <2>5. CASE \E i \in DOMAIN stack : stack[i].name = m /\ Passed(i, k)
    <3> PICK i \in DOMAIN stack : stack[i].name = m /\ Passed(i, k)
      BY <2>5
    <3>1. Passed(i, k)' /\ stack'[i].name = m /\ i \in DOMAIN stack'
      BY <2>1, <2>2, <1>2
    <3> QED
      BY <3>1
  <2> QED
    BY <2>3, <2>4, <2>5 DEF LifeInv, InlineInv
<1>12. StackInv'
  <2> SUFFICES ASSUME NEW i \in DOMAIN stack
               PROVE
        /\ stack'[i].ref <= Len(Block(stack'[i].name).refs) + 1
        /\ \A k \in 1 .. (stack'[i].ref - 1) :
              Target(stack'[i].name, k) \in Range(shutdown)
        /\ i < Len(stack) =>
              /\ stack'[i].ref <= Len(Block(stack'[i].name).refs)
              /\ stack'[i + 1].name = Target(stack'[i].name, stack'[i].ref)
        /\ \A j \in 1 .. (i - 1) :
              Rank(conf)[stack'[i].name] < Rank(conf)[stack'[j].name]
    BY <1>2, <1>4, <1>5 DEF StackInv
  <2>1. \A j \in 1 .. (i - 1) :
              Rank(conf)[stack'[i].name] < Rank(conf)[stack'[j].name]
    <3> TAKE j \in 1 .. (i - 1)
    <3>1. j \in DOMAIN stack /\ j < i
      BY Calls
    <3>2. stack'[i].name = stack[i].name /\ stack'[j].name = stack[j].name
      BY <3>1, <1>2
    <3>3. Rank(conf)[stack[i].name] < Rank(conf)[stack[j].name]
      BY <3>1, Falls
    <3> QED
      BY <3>2, <3>3
  <2>2. CASE i # Len(stack)
    <3>1. stack'[i] = stack[i] /\ i < Len(stack) /\ stack'[i + 1].name = stack[i + 1].name
      BY <2>2, <1>2, Calls
    <3> QED
      BY <2>1, <3>1 DEF LifeInv, StackInv
  <2>3. CASE i = Len(stack)
    <3>1. stack'[i].name = Top.name /\ stack'[i].ref = Top.ref + 1 /\ ~ (i < Len(stack))
      BY <2>3, <1>2, Calls DEF Top
    <3>2. Top.ref + 1 <= Len(Block(Top.name).refs) + 1
      BY TopIs
    <3>3. \A k \in 1 .. (Top.ref - 1) : Target(Top.name, k) \in Range(shutdown)
      BY <2>3 DEF LifeInv, StackInv, Top
    <3>4. \A k \in 1 .. (Top.ref + 1 - 1) : k \in 1 .. (Top.ref - 1) \/ k = Top.ref
      BY TopIs
    <3>5. \A k \in 1 .. (Top.ref + 1 - 1) : Target(Top.name, k) \in Range(shutdown)
      BY <3>3, <3>4, <1>1 DEF n
    <3>6. /\ stack'[i].ref <= Len(Block(stack'[i].name).refs) + 1
          /\ \A k \in 1 .. (stack'[i].ref - 1) :
                Target(stack'[i].name, k) \in Range(shutdown)
      <4>0. Top.ref \in Nat
        BY TopIs
      <4>1. stack'[i].ref - 1 = Top.ref + 1 - 1
        BY ONLY <3>1, <4>0
      <4>2. \A k \in 1 .. (stack'[i].ref - 1) : Target(Top.name, k) \in Range(shutdown)
        BY ONLY <4>1, <3>5
      <4>3. \A k \in 1 .. (stack'[i].ref - 1) :
               Target(stack'[i].name, k) \in Range(shutdown)
        BY ONLY <4>2, <3>1
      <4>4. stack'[i].ref <= Len(Block(stack'[i].name).refs) + 1
        BY ONLY <3>1, <3>2
      <4> QED
        BY ONLY <4>3, <4>4
    <3> QED
      BY <2>1, <3>1, <3>6
  <2> QED
    BY <2>2, <2>3
<1>13. OrderInv'
  BY <1>4, <1>5 DEF LifeInv, OrderInv
<1>14. CloseInv'
  BY <1>0 DEF CloseInv
<1> QED
  BY <1>7, <1>8, <1>9, <1>10, <1>11, <1>12, <1>13, <1>14 DEF LifeInv

\* GetInstance.
LEMMA GetStep ==
    ASSUME Acyclic, LifeInv, GetInstance
    PROVE  LifeInv'
<1> DEFINE n == Target(Top.name, Top.ref)
<1>0. /\ main = "init" /\ stack # <<>>
      /\ UNCHANGED <<conf, cursor, instances, aliases, endpoints, shutdown,
                     closing, closed>>
      /\ Top.ref <= Len(Block(Top.name).refs)
  BY DEF GetInstance, InitStep, endVars
<1>1. Top.ref \in DOMAIN Block(Top.name).refs /\ ~ Block(Top.name).refs[Top.ref].inline
  BY <1>0, TopIs DEF GetInstance
<1>2. \/ /\ n \notin instances
         /\ Exits("failed") /\ UNCHANGED <<stored, stack, initialized>>
      \/ /\ n \in instances \intersect initialized
         /\ Goes("init")
         /\ stack' = NextRef(stack) /\ UNCHANGED <<stored, initialized>>
      \/ /\ n \in instances \ initialized
         /\ initialized' = initialized \union {n}
         /\ Call(n)
  BY DEF GetInstance, Target
<1> HIDE DEF n
<1>3. CASE Exits("failed") /\ UNCHANGED <<stored, stack, initialized>>
  <2>1. cursor \in Nat \ {0}
    BY DEF LifeInv, ShapeInv
  <2> QED
    BY <1>0, <1>3, <2>1, QuietStep DEF Exits, lifeVars
<1>4. CASE /\ n \in instances \intersect initialized
           /\ Goes("init")
           /\ stack' = NextRef(stack) /\ UNCHANGED <<stored, initialized>>
  BY <1>0, <1>1, <1>4, FoundStep DEF Goes, n
<1>5. CASE /\ n \in instances \ initialized
           /\ initialized' = initialized \union {n}
           /\ Call(n)
  <2>1. n \in BlockNames(conf) /\ Block(n).kind = "module" /\ conf \in Configs
    BY <1>5 DEF LifeInv, RegistryInv, ShapeInv
  <2>2. n \in Names(conf) /\ n \notin InlineNames(conf)
    BY <2>1, NamesApart
  <2>3. n \notin Range(endpoints)
    BY <2>1 DEF LifeInv, RegistryInv, Range
  <2>4. n \notin DOMAIN stored
    BY <1>5, <2>2, <2>3 DEF LifeInv, CalledInv
  <2>5. \A m \in Names(conf) : \A k \in DOMAIN Block(m).refs :
           Block(m).refs[k].inline => Block(m).refs[k].name # n
    BY <2>1, <2>2, InlineOnce DEF Block
  <2>6. initialized \subseteq instances
    BY DEF LifeInv, CalledInv
  <2>7. n = Target(Top.name, Top.ref)
    BY DEF n
  <2>8. /\ initialized \subseteq initialized'
        /\ initialized' \subseteq initialized \union {n}
        /\ initialized' \subseteq instances
        /\ n \in initialized' \union Range(endpoints) \union InlineNames(conf)
    BY <1>5, <2>6
  <2> QED
    BY <1>0, <1>1, <1>5, <2>2, <2>4, <2>5, <2>7, <2>8, CallStep
<1> QED
  BY <1>2, <1>3, <1>4, <1>5

\* An inline module: its definition has not been passed, so nobody called it.
LEMMA InlineStep ==
    ASSUME Acyclic, LifeInv, InlineModule
    PROVE  LifeInv'
<1> DEFINE r == Block(Top.name).refs[Top.ref]
           n == r.name
<1>0. /\ main = "init" /\ stack # <<>>
      /\ UNCHANGED <<conf, cursor, instances, aliases, endpoints, shutdown,
                     closing, closed, initialized>>
      /\ Top.ref <= Len(Block(Top.name).refs)
      /\ r.inline /\ Call(n)
  BY DEF InlineModule, InitStep, endVars
<1>1. Top.ref \in DOMAIN Block(Top.name).refs /\ Top.name \in Names(conf) /\ conf \in Configs
  BY <1>0, TopIs, Calls
<1>2. n \in InlineNames(conf)
  BY <1>0, <1>1, InlineOnce DEF Block
<1>3. n \in Names(conf)
  BY <1>1, <1>2, NamesApart
<1>4. n \notin DOMAIN aliases
  BY <1>1, <1>2, ConfigAssumption
  DEF ConfigAssumption, InlineNames, LifeInv, RegistryInv
<1>5. n = Target(Top.name, Top.ref)
  BY <1>4 DEF Target, Resolve
<1>6. \A m \in Names(conf) : \A k \in DOMAIN Block(m).refs :
         Block(m).refs[k].inline /\ Block(m).refs[k].name = n
            => m = Top.name /\ k = Top.ref
  BY <1>0, <1>1, InlineOnce DEF Block
<1>7. n \notin DOMAIN stored
  <2> SUFFICES ASSUME n \in DOMAIN stored PROVE FALSE
    OBVIOUS
  <2>1. Top.name \notin Range(shutdown)
    BY <1>0, TopIs DEF LifeInv, CalledInv
  <2>2. PICK i \in DOMAIN stack : stack[i].name = Top.name /\ Passed(i, Top.ref)
    BY <1>0, <1>1, <2>1 DEF LifeInv, InlineInv
  <2>3. i = Len(stack)
    BY <1>0, <2>2, Calls, CallsApart DEF Top
  <2> QED
    BY <1>0, <2>2, <2>3, TopIs DEF Passed
<1>8. initialized \subseteq instances
  BY DEF LifeInv, CalledInv
<1> HIDE DEF n
<1> QED
  BY <1>0, <1>1, <1>2, <1>3, <1>5, <1>6, <1>7, <1>8, CallStep

\* What is left of the stack when the call on top returns.
LEMMA PopIs ==
    ASSUME NEW N, NEW s \in Seq([name : N, ref : Nat \ {0}]), s # <<>>,
           NEW t, t = IF Front(s) = <<>> THEN Front(s) ELSE NextRef(Front(s))
    PROVE  /\ t \in Seq([name : N, ref : Nat \ {0}])
           /\ Len(t) = Len(s) - 1 /\ DOMAIN t = 1 .. (Len(s) - 1)
           /\ \A i \in 1 .. (Len(s) - 1) : t[i].name = s[i].name
           /\ \A i \in 1 .. (Len(s) - 2) : t[i] = s[i]
           /\ Len(s) # 1 => t[Len(s) - 1].ref = s[Len(s) - 1].ref + 1
<1> DEFINE S == [name : N, ref : Nat \ {0}]
           f == Front(s)
<1>0. s \in Seq(S)
  OBVIOUS
<1> HIDE DEF S
<1>1. /\ f \in Seq(S) /\ Len(f) = Len(s) - 1 /\ DOMAIN f = 1 .. (Len(s) - 1)
      /\ \A i \in 1 .. (Len(s) - 1) : f[i] = s[i]
      /\ Len(s) \in Nat \ {0}
  <2>1. Len(s) \in Nat \ {0} /\ Len(s) - 1 \in 0 .. Len(s)
        /\ DOMAIN s = 1 .. Len(s) /\ \A i \in 1 .. Len(s) : s[i] \in S
    BY <1>0
  <2>2. f = [i \in 1 .. (Len(s) - 1) |-> s[i]]
    BY <1>0, <2>1 DEF Front
  <2> HIDE DEF f
  <2> QED
    BY <2>1, <2>2
<1> HIDE DEF f
<1>2. CASE f = <<>>
  BY <1>1, <1>2 DEF S, f
<1>3. CASE f # <<>>
  <2>1. t = NextRef(f)
    BY <1>3 DEF f
  <2>2. /\ t \in Seq(S)
        /\ Len(t) = Len(f) /\ DOMAIN t = DOMAIN f
        /\ \A i \in DOMAIN f : t[i].name = f[i].name
        /\ \A i \in DOMAIN f : i # Len(f) => t[i] = f[i]
        /\ t[Len(f)].ref = f[Len(f)].ref + 1
    BY <2>1, <1>1, <1>3, NextRefIs DEF S
  <2>3. \A i \in 1 .. (Len(s) - 1) : t[i].name = s[i].name
    BY <2>2, <1>1
  <2>4. \A i \in 1 .. (Len(s) - 2) : t[i] = s[i]
    <3> TAKE i \in 1 .. (Len(s) - 2)
    <3>1. i \in DOMAIN f /\ i # Len(f) /\ i \in 1 .. (Len(s) - 1)
      BY <1>1
    <3> QED
      BY <3>1, <2>2, <1>1
  <2>5. t[Len(s) - 1].ref = s[Len(s) - 1].ref + 1
    BY <2>2, <1>1, <1>3
  <2> QED
    BY <2>2, <2>3, <2>4, <2>5, <1>1 DEF S
<1> QED
  BY <1>2, <1>3

\* Init returns: all its references have hooks, and now it has one.
LEMMA ReturnStep ==
    ASSUME Acyclic, LifeInv, InitReturns
    PROVE  LifeInv'
<1> DEFINE n == Top.name
           L == Len(stack)
<1>0. /\ main = "init" /\ stack # <<>>
      /\ UNCHANGED <<conf, cursor, instances, aliases, endpoints, closing,
                     closed, initialized, stored>>
      /\ Top.ref > Len(Block(n).refs)
  BY DEF InitReturns, InitStep, endVars
<1>1. \/ Goes("init") /\ shutdown' = Append(shutdown, n)
         /\ stack' = IF Front(stack) = <<>> THEN Front(stack) ELSE NextRef(Front(stack))
      \/ Exits("failed") /\ UNCHANGED <<stack, shutdown>>
  BY DEF InitReturns
<1>2. CASE Exits("failed") /\ UNCHANGED <<stack, shutdown>>
  <2>1. cursor \in Nat \ {0}
    BY DEF LifeInv, ShapeInv
  <2> QED
    BY <1>0, <1>2, <2>1, QuietStep DEF Exits, lifeVars
<1>3. CASE /\ Goes("init") /\ shutdown' = Append(shutdown, n)
           /\ stack' = IF Front(stack) = <<>> THEN Front(stack) ELSE NextRef(Front(stack))
  <2>0. status = "running" /\ closed = <<>> /\ L \in Nat \ {0} /\ DOMAIN stack = 1 .. L
        /\ n \in Names(conf) /\ n \in StackNames /\ n = stack[L].name /\ Top = stack[L]
        /\ shutdown \in Seq(Names(conf)) /\ n \notin Range(shutdown)
    BY <1>0, TopIs, Calls DEF LifeInv, ShapeInv, PhaseInv, CalledInv
  <2>1. /\ stack' \in Seq([name : Names(conf), ref : Nat \ {0}])
        /\ Len(stack') = L - 1 /\ DOMAIN stack' = 1 .. (L - 1)
        /\ \A i \in 1 .. (L - 1) : stack'[i].name = stack[i].name
        /\ \A i \in 1 .. (L - 2) : stack'[i] = stack[i]
        /\ L # 1 => stack'[L - 1].ref = stack[L - 1].ref + 1
    <3>1. stack \in Seq([name : Names(conf), ref : Nat \ {0}])
      BY Calls
    <3> DEFINE N == Names(conf)
    <3> HIDE DEF N
    <3>2. stack \in Seq([name : N, ref : Nat \ {0}])
      BY <3>1 DEF N
    <3>3. \A t : t = (IF Front(stack) = <<>> THEN Front(stack) ELSE NextRef(Front(stack)))
           => /\ t \in Seq([name : N, ref : Nat \ {0}])
              /\ Len(t) = Len(stack) - 1 /\ DOMAIN t = 1 .. (Len(stack) - 1)
              /\ \A i \in 1 .. (Len(stack) - 1) : t[i].name = stack[i].name
              /\ \A i \in 1 .. (Len(stack) - 2) : t[i] = stack[i]
              /\ Len(stack) # 1 => t[Len(stack) - 1].ref = stack[Len(stack) - 1].ref + 1
      BY <1>0, <3>2, PopIs
    <3> QED
      BY <1>3, <3>3 DEF N
  <2> DEFINE M == Len(shutdown)
  <2>2. /\ M \in Nat /\ DOMAIN shutdown = 1 .. M /\ DOMAIN shutdown' = 1 .. (M + 1)
        /\ \A i \in 1 .. M : shutdown'[i] = shutdown[i]
        /\ shutdown'[M + 1] = n /\ shutdown' \in Seq(Names(conf))
        /\ Len(shutdown') = M + 1
    BY <1>3, <2>0
  <2>3. Range(shutdown') = Range(shutdown) \union {n}
    BY <2>2 DEF Range
  <2>4. \A i \in 1 .. (L - 1) : stack[i].name # n
    BY <1>0, <2>0, CallsApart
  <2>5. StackNames' = StackNames \ {n}
    <3>1. StackNames' = {stack[i].name : i \in 1 .. (L - 1)}
      BY <2>1 DEF StackNames
    <3>2. StackNames = {stack[i].name : i \in 1 .. L}
      BY <2>0 DEF StackNames
    <3>5. L \in Nat \ {0}
      BY <2>0
    <3> HIDE DEF L, n
    <3>3. \A i \in 1 .. L : i \in 1 .. (L - 1) \/ i = L
      BY ONLY <3>5
    <3>4. \A i \in 1 .. (L - 1) : i \in 1 .. L
      BY ONLY <3>5
    <3> QED
      BY ONLY <3>1, <3>2, <3>3, <3>4, <2>0, <2>4
  <2>6. \A m : Block(m)' = Block(m)
    BY <1>0 DEF Block
  <2>7. \A m, k : Target(m, k)' = Target(m, k)
    BY <1>0 DEF Target, Resolve, Block
  <2>8. main' = "init" /\ status' = status
    BY <1>3 DEF Goes
  <2>9. \A k \in DOMAIN Block(n).refs : Target(n, k) \in Range(shutdown)
    <3> TAKE k \in DOMAIN Block(n).refs
    <3>1. k \in 1 .. (Top.ref - 1)
      BY <1>0, TopIs
    <3> QED
      BY <3>1, <2>0 DEF LifeInv, StackInv
  <2> HIDE DEF L, M, n
  <2>10. ShapeInv'
    BY <1>0, <2>1, <2>2, <2>8 DEF LifeInv, ShapeInv
  <2>11. RegistryInv'
    BY <1>0, <2>6 DEF LifeInv, RegistryInv
  <2>12. PhaseInv'
    BY <1>0, <2>0, <2>8 DEF PhaseInv, Early
  <2>13. CalledInv'
    <3>1. DOMAIN stored' = StackNames' \union Range(shutdown')
      BY <1>0, <2>3, <2>5, <2>0 DEF LifeInv, CalledInv
    <3>2. StackNames' \intersect Range(shutdown') = {}
      BY <2>3, <2>5 DEF LifeInv, CalledInv
    <3> QED
      BY <1>0, <2>8, <3>1, <3>2 DEF LifeInv, CalledInv
  <2>14. InlineInv'
    <3> SUFFICES ASSUME NEW m \in Names(conf), NEW k \in DOMAIN Block(m).refs,
                        Block(m).refs[k].inline,
                        Block(m).refs[k].name \in DOMAIN stored
                 PROVE  \/ m \in Range(shutdown')
                        \/ \E i \in DOMAIN stack' : stack'[i].name = m /\ Passed(i, k)'
      BY <1>0, <2>6 DEF InlineInv
    <3>0. k \in Int
      <4>1. Block(m).refs \in Seq(Range(Block(m).refs))
        BY BlockIs, Calls DEF Block
      <4> QED
        BY <4>1
    <3>1. CASE m \in Range(shutdown)
      BY <3>1, <2>3
    <3>2. CASE \E i \in DOMAIN stack : stack[i].name = m /\ Passed(i, k)
      <4> PICK i \in DOMAIN stack : stack[i].name = m /\ Passed(i, k)
        BY <3>2
      <4>1. CASE i = L
        BY <4>1, <2>0, <2>3
      <4>2. CASE i \in 1 .. (L - 2)
        <5>1. i \in DOMAIN stack' /\ stack'[i] = stack[i] /\ i < Len(stack')
          BY <4>2, <2>0, <2>1
        <5>2. Passed(i, k)'
          BY <5>1 DEF Passed
        <5> QED
          BY <5>1, <5>2
      <4>3. CASE i = L - 1 /\ L # 1
        <5>1. i \in DOMAIN stack' /\ stack'[i].name = m /\ stack'[i].ref = stack[i].ref + 1
          BY <4>3, <2>0, <2>1
        <5>2. stack[i].ref \in Int /\ (k < stack[i].ref \/ k = stack[i].ref)
          BY Calls DEF Passed
        <5>3. k < stack'[i].ref
          BY <5>1, <5>2, <3>0
        <5>4. Passed(i, k)'
          BY <5>3 DEF Passed
        <5> QED
          BY <5>1, <5>4
      <4> QED
        BY <4>1, <4>2, <4>3, <2>0
    <3> QED
      BY <3>1, <3>2 DEF LifeInv, InlineInv
  <2>15. StackInv'
    <3> SUFFICES ASSUME NEW i \in 1 .. (L - 1)
                 PROVE
        /\ stack'[i].ref <= Len(Block(stack'[i].name).refs) + 1
        /\ \A k \in 1 .. (stack'[i].ref - 1) :
              Target(stack'[i].name, k) \in Range(shutdown')
        /\ i < L - 1 =>
              /\ stack'[i].ref <= Len(Block(stack'[i].name).refs)
              /\ stack'[i + 1].name = Target(stack'[i].name, stack'[i].ref)
        /\ \A j \in 1 .. (i - 1) :
              Rank(conf)[stack'[i].name] < Rank(conf)[stack'[j].name]
      BY <1>0, <2>1, <2>6, <2>7 DEF StackInv
    <3>0. i \in DOMAIN stack /\ i < Len(stack) /\ L = Len(stack) /\ i \in Nat
      BY <2>0 DEF L
    <3>1. \A j \in 1 .. (i - 1) :
              Rank(conf)[stack'[i].name] < Rank(conf)[stack'[j].name]
      <4> TAKE j \in 1 .. (i - 1)
      <4>1. j \in DOMAIN stack /\ j < i /\ j \in 1 .. (L - 1)
        BY <2>0
      <4>2. stack'[i].name = stack[i].name /\ stack'[j].name = stack[j].name
        BY <4>1, <2>1
      <4>3. Rank(conf)[stack[i].name] < Rank(conf)[stack[j].name]
        BY <4>1, <3>0, Falls
      <4> QED
        BY <4>2, <4>3
    <3>2. /\ stack[i].ref <= Len(Block(stack[i].name).refs) + 1
          /\ \A k \in 1 .. (stack[i].ref - 1) :
                Target(stack[i].name, k) \in Range(shutdown)
          /\ stack[i].ref <= Len(Block(stack[i].name).refs)
          /\ stack[i + 1].name = Target(stack[i].name, stack[i].ref)
      BY <3>0 DEF LifeInv, StackInv
    <3>3. CASE i # L - 1
      <4>0. i \in 1 .. (L - 2) /\ i + 1 \in 1 .. (L - 1)
        BY <3>3, <3>0, <2>0
      <4>1. stack'[i] = stack[i] /\ stack'[i + 1].name = stack[i + 1].name
        BY ONLY <4>0, <2>1
      <4> QED
        BY <3>1, <3>2, <4>1, <2>3
    <3>4. CASE i = L - 1
      <4>1. stack'[i].name = stack[i].name /\ stack'[i].ref = stack[i].ref + 1
        BY <3>4, <2>1, <2>0
      <4>2. stack[i + 1].name = n /\ ~ (i < L - 1)
        BY <3>4, <2>0
      <4>3. stack[i].ref \in Nat
        BY <3>0, Calls
      <4>4. stack'[i].ref - 1 = stack[i].ref
        BY ONLY <4>1, <4>3
      <4>5. \A k \in 1 .. stack[i].ref : k \in 1 .. (stack[i].ref - 1) \/ k = stack[i].ref
        BY <4>3
      <4>6. \A k \in 1 .. stack[i].ref : Target(stack[i].name, k) \in Range(shutdown')
        BY <3>2, <4>2, <4>5, <2>3
      <4>7. \A k \in 1 .. (stack'[i].ref - 1) : Target(stack'[i].name, k) \in Range(shutdown')
        BY ONLY <4>1, <4>4, <4>6
      <4>8. Len(Block(stack[i].name).refs) \in Nat
        <5>1. Block(stack[i].name).refs \in Seq(Range(Block(stack[i].name).refs))
          BY <3>0, BlockIs, Calls DEF Block
        <5> QED
          BY <5>1
      <4>9. stack'[i].ref <= Len(Block(stack'[i].name).refs) + 1
        BY ONLY <4>1, <4>3, <4>8, <3>2
      <4> QED
        BY <3>1, <4>2, <4>7, <4>9
    <3> QED
      BY <3>3, <3>4
  <2>16. OrderInv'
    <3>1. IsInjective(shutdown')
      <4>1. IsInjective(shutdown) /\ \A i \in 1 .. M : shutdown[i] # n
        BY <2>0, <2>2 DEF LifeInv, OrderInv, Range
      <4> QED
        BY <4>1, <2>2 DEF IsInjective
    <3>2. ASSUME NEW j \in 1 .. (M + 1), NEW k \in DOMAIN Block(shutdown'[j]).refs
          PROVE  \E i \in 1 .. (j - 1) : shutdown'[i] = Target(shutdown'[j], k)
      <4>1. CASE j \in 1 .. M
        <5>1. shutdown'[j] = shutdown[j] /\ j \in DOMAIN shutdown
          BY <4>1, <2>2
        <5>2. PICK i \in 1 .. (j - 1) : shutdown[i] = Target(shutdown[j], k)
          BY <5>1, <3>2 DEF LifeInv, OrderInv
        <5>3. shutdown'[i] = shutdown[i]
          BY <4>1, <2>2
        <5> QED
          BY <5>1, <5>2, <5>3
      <4>2. CASE j = M + 1
        <5>1. shutdown'[j] = n /\ Target(n, k) \in Range(shutdown)
          BY <4>2, <3>2, <2>2, <2>9
        <5>2. PICK i \in 1 .. M : shutdown[i] = Target(n, k)
          BY <5>1, <2>2 DEF Range
        <5>3. i \in 1 .. (j - 1) /\ shutdown'[i] = shutdown[i]
          BY <4>2, <2>2
        <5> QED
          BY <5>1, <5>2, <5>3
      <4> QED
        BY <4>1, <4>2, <2>2
    <3> QED
      BY <3>1, <3>2, <2>2, <2>6, <2>7 DEF OrderInv
  <2>17. CloseInv'
    BY <1>0, <2>0, <2>8 DEF CloseInv
  <2> QED
    BY <2>10, <2>11, <2>12, <2>13, <2>14, <2>15, <2>16, <2>17 DEF LifeInv
<1> QED
  BY <1>1, <1>2, <1>3

\* RunHooks(EventShutdown) starts with all hooks and runs the last one left.
LEMMA HookStep ==
    ASSUME LifeInv, WaitGroup \/ RunHook \/ HooksDone
    PROVE  LifeInv'
<1>0. UNCHANGED <<lifeVars, cursor, initialized>> /\ stack = <<>>
      /\ main \in {"serve", "hooks"} /\ status = "running"
  BY DEF WaitGroup, RunHook, HooksDone, MainStep, startVars, lifeVars, LifeInv,
         PhaseInv, ShapeInv
<1>1. RegistryInv' /\ InlineInv' /\ StackInv' /\ OrderInv' /\ StackNames' = StackNames
  BY <1>0, Still
<1>2. shutdown \in Seq(Names(conf)) /\ closing \in Seq(Names(conf)) /\ closed \in Seq(Names(conf))
  BY DEF LifeInv, ShapeInv
<1>3. initialized \subseteq DOMAIN stored
  BY <1>0 DEF LifeInv, CalledInv
<1>4. CalledInv'
  BY <1>0, <1>1, <1>3 DEF LifeInv, CalledInv, lifeVars
<1>5. CASE WaitGroup
  <2>1. main' = "hooks" /\ status' = status /\ closing' = shutdown /\ closed' = closed
        /\ closed = <<>>
    BY <1>5 DEF WaitGroup, Goes, LifeInv, PhaseInv
  <2>2. ShapeInv'
    BY <1>0, <1>2, <2>1 DEF LifeInv, ShapeInv, lifeVars
  <2>3. PhaseInv'
    BY <1>0, <2>1 DEF PhaseInv, Early, lifeVars
  <2>4. Halfway'
    BY <1>0, <1>2, <2>1 DEF Halfway, lifeVars
  <2>5. CloseInv'
    BY <1>0, <2>1, <2>4 DEF CloseInv
  <2> QED
    BY <1>1, <1>4, <2>2, <2>3, <2>5 DEF LifeInv
<1>6. CASE HooksDone
  <2>1. main' = "exited" /\ status' = "ok" /\ UNCHANGED <<closing, closed>> /\ closing = <<>>
        /\ main = "hooks"
    BY <1>6 DEF HooksDone, Exits
  <2>2. ShapeInv'
    BY <1>0, <1>2, <2>1 DEF LifeInv, ShapeInv, lifeVars
  <2>3. PhaseInv'
    BY <1>0, <2>1 DEF PhaseInv, Early, lifeVars
  <2>4. Halfway' /\ stack' = <<>> /\ closing' = <<>>
    BY <1>0, <2>1 DEF LifeInv, CloseInv, Halfway, lifeVars
  <2>5. CloseInv'
    BY <2>4 DEF CloseInv
  <2> QED
    BY <1>1, <1>4, <2>2, <2>3, <2>5 DEF LifeInv
<1>7. CASE RunHook
  <2> DEFINE C == Len(closing)
             D == Len(closed)
             S == Len(shutdown)
  <2>1. main' = "hooks" /\ status' = status /\ main = "hooks" /\ closing # <<>>
        /\ closing' = Front(closing) /\ closed' = Append(closed, closing[C])
    BY <1>7 DEF RunHook, Goes
  <2>2. Halfway
    BY <2>1 DEF LifeInv, CloseInv
  <2>3. C \in Nat \ {0} /\ D \in Nat /\ S \in Nat /\ C + D = S /\ DOMAIN closing = 1 .. C
        /\ DOMAIN closed = 1 .. D /\ closing[C] \in Names(conf)
    BY <1>2, <2>1, <2>2 DEF Halfway
  <2>4. closing' = [i \in 1 .. (C - 1) |-> closing[i]]
    BY <1>2, <2>1, <2>3 DEF Front
  <2>5. closing' \in Seq(Names(conf)) /\ Len(closing') = C - 1 /\ DOMAIN closing' = 1 .. (C - 1)
        /\ \A i \in 1 .. (C - 1) : closing'[i] = closing[i]
    <3>1. \A i \in 1 .. (C - 1) : closing[i] \in Names(conf)
      BY <1>2, <2>3
    <3> HIDE DEF C
    <3> QED
      BY <2>3, <2>4, <3>1
  <2>6. closed' \in Seq(Names(conf)) /\ Len(closed') = D + 1 /\ DOMAIN closed' = 1 .. (D + 1)
        /\ (\A i \in 1 .. D : closed'[i] = closed[i]) /\ closed'[D + 1] = closing[C]
    BY <1>2, <2>1, <2>3
  <2> HIDE DEF C, D
  <2>7. Halfway'
    <3>0. shutdown' = shutdown
      BY <1>0 DEF lifeVars
    <3>1. Len(closing') + Len(closed') = S
      BY <2>3, <2>5, <2>6
    <3>2. \A i \in 1 .. (C - 1) : closing'[i] = shutdown[i]
      BY <2>2, <2>3, <2>5 DEF Halfway
    <3>3. ASSUME NEW i \in 1 .. (D + 1) PROVE closed'[i] = shutdown[S + 1 - i]
      <4>1. CASE i \in 1 .. D
        BY <4>1, <2>2, <2>3, <2>6 DEF Halfway
      <4>2. CASE i = D + 1
        <5>1. S + 1 - i = C
          BY <4>2, <2>3
        <5>2. closed'[i] = closing[C] /\ closing[C] = shutdown[C]
          BY <4>2, <2>2, <2>3, <2>6 DEF Halfway
        <5> QED
          BY <5>1, <5>2
      <4> QED
        BY <4>1, <4>2, <2>3
    <3> QED
      BY <3>0, <3>1, <3>2, <3>3, <2>5, <2>6 DEF Halfway
  <2>8. ShapeInv'
    BY <1>0, <1>2, <2>1, <2>5, <2>6 DEF LifeInv, ShapeInv, lifeVars
  <2>9. PhaseInv'
    BY <1>0, <2>1 DEF PhaseInv, Early, lifeVars
  <2>10. CloseInv'
    BY <1>0, <2>1, <2>7 DEF CloseInv
  <2> QED
    BY <1>1, <1>4, <2>8, <2>9, <2>10 DEF LifeInv
<1> QED
  BY <1>5, <1>6, <1>7

LEMMA LifeInit ==
    ASSUME Init
    PROVE  LifeInv
<1> USE DEF Init
<1>1. ShapeInv
  BY DEF ShapeInv, Early
<1>2. RegistryInv
  BY DEF RegistryInv
<1>3. PhaseInv
  BY DEF PhaseInv, Early
<1>4. CalledInv
  BY DEF CalledInv, StackNames, Range
<1>5. InlineInv
  BY DEF InlineInv
<1>6. StackInv
  BY DEF StackInv
<1>7. OrderInv
  BY DEF OrderInv, IsInjective
<1>8. CloseInv
  BY DEF CloseInv
<1> QED
  BY <1>1, <1>2, <1>3, <1>4, <1>5, <1>6, <1>7, <1>8 DEF LifeInv

\* Signals, the API, the handlers and the table leave the modules alone.
LEMMA OtherStep ==
    ASSUME LifeInv,
           \/ ReadGlobals \/ InitDirs \/ Registered \/ Initialized
           \/ ApiGoes \/ ReloaderNext \/ Tick
           \/ \E h \in Handlers : HandlerNext(h)
           \/ \E s \in Signals : Signal(s)
           \/ RemoveFile \/ ChangeFile \/ FileGetsOld
           \/ UNCHANGED vars
    PROVE  LifeInv'
<1> USE DEF Exits, Goes, startVars, lifeVars, endVars, Running
<1>0. cursor \in Nat \ {0}
  BY DEF LifeInv, ShapeInv
<1>1. CASE ReadGlobals \/ InitDirs \/ Registered
  BY <1>0, <1>1, QuietStep DEF ReadGlobals, InitDirs, Registered, Early
<1>2. CASE Initialized
  BY <1>0, <1>2, QuietStep DEF Initialized
<1>3. CASE ApiGoes
  BY <1>0, <1>3, QuietStep DEF ApiGoes, ApiStart, ApiShutdown, ApiStep
<1>4. CASE ReloaderNext \/ Tick \/ RemoveFile \/ ChangeFile \/ FileGetsOld
  BY <1>0, <1>4, QuietStep
  DEF ReloaderNext, ReloadStat, ReloadRead, ReloadCheck, ReloadSwap, Tick, RemoveFile,
      ChangeFile, FileGetsOld, TableStep
<1>5. ASSUME NEW h \in Handlers, HandlerNext(h) PROVE LifeInv'
  BY <1>0, <1>5, QuietStep
  DEF HandlerNext, Notify, HandleSignal, ReloadHook, HandlerStep
<1>6. ASSUME NEW s \in Signals, Signal(s) PROVE LifeInv'
  BY <1>0, <1>6, QuietStep DEF Signal
<1>7. CASE UNCHANGED vars
  BY <1>0, <1>7, QuietStep DEF vars
<1> QED
  BY <1>1, <1>2, <1>3, <1>4, <1>5, <1>6, <1>7

LEMMA LifeStep ==
    ASSUME Acyclic, LifeInv, [Next]_vars
    PROVE  LifeInv'
<1>1. CASE RegisterModule
  BY <1>1, RegisterStep
<1>2. CASE InitEndpoint
  BY <1>2, EndpointStep
<1>3. CASE GetInstance
  BY <1>3, GetStep
<1>4. CASE InlineModule
  BY <1>4, InlineStep
<1>5. CASE InitReturns
  BY <1>5, ReturnStep
<1>6. CASE WaitGroup \/ RunHook \/ HooksDone
  BY <1>6, HookStep
<1>7. CASE \/ ReadGlobals \/ InitDirs \/ Registered \/ Initialized
           \/ ApiGoes \/ ReloaderNext \/ Tick
           \/ \E h \in Handlers : HandlerNext(h)
           \/ \E s \in Signals : Signal(s)
           \/ RemoveFile \/ ChangeFile \/ FileGetsOld
           \/ UNCHANGED vars
  BY <1>7, OtherStep
<1> QED
  BY <1>1, <1>2, <1>3, <1>4, <1>5, <1>6, <1>7 DEF Next, MainNext, Ended

\* The invariant says that modules are closed in order.
LEMMA LifeCloses ==
    ASSUME LifeInv
    PROVE  ClosedInOrder
<1> DEFINE S == Len(shutdown)
<1>0. shutdown \in Seq(Names(conf)) /\ closed \in Seq(Names(conf)) /\ conf \in Configs
  BY DEF LifeInv, ShapeInv
<1>1. CASE closed = <<>>
  <2>1. IsInjective(closed) /\ DOMAIN closed = {} /\ Range(closed) = {}
    BY <1>1 DEF IsInjective, Range
  <2>2. status = "ok" => Range(closed) = initialized \union DOMAIN stored
    <3> SUFFICES ASSUME status = "ok" PROVE initialized = {} /\ DOMAIN stored = {}
      BY <2>1
    <3>1. Halfway /\ closing = <<>> /\ stack = <<>>
      BY DEF LifeInv, CloseInv
    <3>2. shutdown = <<>>
      BY <1>0, <1>1, <3>1 DEF Halfway
    <3>3. StackNames = {} /\ Range(shutdown) = {}
      BY <3>1, <3>2 DEF StackNames, Range
    <3> QED
      BY <3>3 DEF LifeInv, CalledInv
  <2> QED
    BY <2>1, <2>2 DEF ClosedInOrder
<1>2. CASE closed # <<>>
  <2>1. Halfway
    BY <1>2 DEF LifeInv, CloseInv
  <2> DEFINE D == Len(closed)
  <2>2. S \in Nat /\ D \in Nat /\ D <= S /\ DOMAIN closed = 1 .. D
        /\ DOMAIN shutdown = 1 .. S
    <3>1. Len(closing) \in Nat
      BY DEF LifeInv, ShapeInv
    <3> QED
      BY <1>0, <2>1, <3>1 DEF Halfway
  <2>3. \A i \in 1 .. D : closed[i] = shutdown[S + 1 - i]
    BY <2>1, <2>2 DEF Halfway
  <2> HIDE DEF S, D
  <2>4. \A i \in 1 .. D : S + 1 - i \in 1 .. S
    BY ONLY <2>2
  <2>5. IsInjective(shutdown)
    BY DEF LifeInv, OrderInv
  <2>6. IsInjective(closed)
    <3> SUFFICES ASSUME NEW i \in 1 .. D, NEW j \in 1 .. D, closed[i] = closed[j]
                 PROVE  i = j
      BY <2>2 DEF IsInjective
    <3>1. shutdown[S + 1 - i] = shutdown[S + 1 - j]
      BY <2>3
    <3>2. S + 1 - i = S + 1 - j
      BY <3>1, <2>2, <2>4, <2>5 DEF IsInjective
    <3> QED
      BY <3>2, <2>2
  <2>7. ASSUME NEW i \in 1 .. D, NEW j \in 1 .. D, closed[i] \in Uses(closed[j])
        PROVE  j < i
    <3>1. PICK k \in DOMAIN Block(closed[j]).refs : closed[i] = Target(closed[j], k)
      BY <2>7 DEF Uses, Target
    <3>2. PICK p \in 1 .. (S + 1 - j - 1) : shutdown[p] = closed[i]
      BY <3>1, <2>2, <2>3, <2>4 DEF LifeInv, OrderInv
    <3>3. p \in 1 .. S /\ p < S + 1 - j
      BY <3>2, <2>2
    <3>4. p = S + 1 - i
      BY <3>2, <3>3, <2>2, <2>3, <2>4, <2>5 DEF IsInjective
    <3> QED
      BY <3>3, <3>4, <2>2
  <2>8. ASSUME status = "ok"
        PROVE  Range(closed) = initialized \union DOMAIN stored
    <3>1. Halfway /\ closing = <<>> /\ stack = <<>>
      BY <2>8 DEF LifeInv, CloseInv
    <3>2. D = S
      BY <3>1, <2>2 DEF Halfway, D, S
    <3>3. StackNames = {}
      BY <3>1 DEF StackNames
    <3>4. initialized \union DOMAIN stored = Range(shutdown)
      BY <3>3, <2>8 DEF LifeInv, CalledInv
    <3>5. ASSUME NEW x \in Range(shutdown) PROVE x \in Range(closed)
      <4>1. PICK p \in 1 .. S : shutdown[p] = x
        BY <2>2 DEF Range
      <4>2. S + 1 - p \in 1 .. D /\ S + 1 - (S + 1 - p) = p
        BY <3>2, <2>2
      <4>3. closed[S + 1 - p] = x
        BY <4>1, <4>2, <2>3
      <4> QED
        BY <4>2, <4>3, <2>2 DEF Range
    <3>6. ASSUME NEW x \in Range(closed) PROVE x \in Range(shutdown)
      BY <2>2, <2>3, <2>4 DEF Range
    <3> QED
      BY <3>4, <3>5, <3>6
  <2> QED
    BY <2>2, <2>6, <2>7, <2>8 DEF ClosedInOrder
<1> QED
  BY <1>1, <1>2

(***************************************************************************)
(* Modules are closed after those that use them and each once, and an      *)
(* orderly end leaves none open: initModules asks for what a module refers *)
(* to while it initializes that module, and RunHooks goes back through the *)
(* list.  Nothing may refer to itself: GetInstance returns a module whose  *)
(* Init has only begun.                                                    *)
(***************************************************************************)
THEOREM ClosedHolds ==
    ASSUME Acyclic
    PROVE  Spec => []ClosedInOrder
<1>1. Init => LifeInv
  BY LifeInit
<1>2. LifeInv /\ [Next]_vars => LifeInv'
  BY LifeStep
<1>3. LifeInv => ClosedInOrder
  BY LifeCloses
<1> QED
  BY <1>1, <1>2, <1>3, PTL DEF Spec

-----------------------------------------------------------------------------
(***************************************************************************)
(* The reloader of table.file.                                             *)
(***************************************************************************)

\* The change that gave the file this time.
Change(t) == IF t < MaxChanges + 1 THEN MaxChanges + 1 - t ELSE t - (MaxChanges + 1)

\* No version comes back: what was seen before the read is the file still, or
\* from an earlier change.  So it was read, if it is the file after the read.
VersionInv ==
    /\ file \in Int /\ seen \in Int /\ content \in Int /\ changes \in Nat
    /\ Change(file) = changes
    /\ reloader \in {"read", "check"} => file = seen \/ Change(seen) < changes
    /\ reloader = "check" => content = seen \/ Change(seen) < changes
    /\ reloader = "swap" => content = seen

LEMMA VersionStep ==
    ASSUME VersionInv, [Next]_vars
    PROVE  VersionInv'
<1> USE ChangesAssumption DEF tableVars, fileVars, Change, ReloadReturns
<1>1. CASE UNCHANGED tableVars
  BY <1>1 DEF VersionInv
<1>2. CASE InitReturns
  BY <1>2 DEF InitReturns, VersionInv
<1>3. CASE \E h \in Handlers : ReloadHook(h)
  BY <1>3 DEF ReloadHook, VersionInv
<1>4. CASE RunHook
  BY <1>4 DEF RunHook, VersionInv
<1>5. CASE RemoveFile \/ ChangeFile \/ FileGetsOld \/ Tick
  BY <1>5 DEF RemoveFile, ChangeFile, FileGetsOld, Tick, VersionInv
<1>6. CASE ReloadStat
  BY <1>6 DEF ReloadStat, VersionInv
<1>7. CASE ReloadRead
  BY <1>7 DEF ReloadRead, VersionInv
<1>8. CASE ReloadCheck \/ ReloadSwap
  BY <1>8 DEF ReloadCheck, ReloadSwap, UnchangedFile, VersionInv
<1>9. CASE \/ ReadGlobals \/ InitDirs \/ RegisterModule \/ Registered
           \/ InitEndpoint \/ GetInstance \/ InlineModule \/ Initialized
  BY <1>9, <1>1
  DEF ReadGlobals, InitDirs, RegisterModule, Registered, InitEndpoint,
      GetInstance, InlineModule, Initialized
<1>10. CASE WaitGroup \/ HooksDone \/ ApiGoes
  BY <1>10, <1>1 DEF WaitGroup, HooksDone, ApiGoes, ApiStart, ApiShutdown, ApiStep
<1>11. CASE \E h \in Handlers : Notify(h) \/ HandleSignal(h)
  BY <1>11, <1>1 DEF Notify, HandleSignal
<1>12. CASE \E s \in Signals : Signal(s)
  BY <1>12, <1>1 DEF Signal
<1>13. CASE UNCHANGED vars
  BY <1>13, <1>1 DEF vars
<1> QED
  BY <1>2, <1>3, <1>4, <1>5, <1>6, <1>7, <1>8, <1>9, <1>10, <1>11, <1>12, <1>13
  DEF Next, MainNext, Ended, HandlerNext, ReloaderNext

\* Only Init and the reloader change the table.
LEMMA LoadedStep ==
    ASSUME VersionInv, [Next]_vars
    PROVE  loaded' # loaded =>
              \/ loaded' = IF missing THEN 0 ELSE file
              \/ loaded' = stamp'
<1> USE DEF tableVars, fileVars
<1>2. CASE InitReturns
  BY <1>2 DEF InitReturns
<1>3. CASE \E h \in Handlers : ReloadHook(h)
  BY <1>3 DEF ReloadHook
<1>4. CASE RunHook
  BY <1>4 DEF RunHook
<1>5. CASE \/ RemoveFile \/ ChangeFile \/ FileGetsOld \/ Tick
           \/ ReloadRead \/ ReloadCheck
  BY <1>5 DEF RemoveFile, ChangeFile, FileGetsOld, Tick, ReloadRead, ReloadCheck
<1>6. CASE ReloadStat
  BY <1>6 DEF ReloadStat
<1>7. CASE ReloadSwap
  BY <1>7 DEF ReloadSwap, VersionInv
<1>9. CASE \/ ReadGlobals \/ InitDirs \/ RegisterModule \/ Registered
           \/ InitEndpoint \/ GetInstance \/ InlineModule \/ Initialized
  BY <1>9
  DEF ReadGlobals, InitDirs, RegisterModule, Registered, InitEndpoint,
      GetInstance, InlineModule, Initialized
<1>10. CASE WaitGroup \/ HooksDone \/ ApiGoes
  BY <1>10 DEF WaitGroup, HooksDone, ApiGoes, ApiStart, ApiShutdown, ApiStep
<1>11. CASE \E h \in Handlers : Notify(h) \/ HandleSignal(h)
  BY <1>11 DEF Notify, HandleSignal
<1>12. CASE \E s \in Signals : Signal(s)
  BY <1>12 DEF Signal
<1>13. CASE UNCHANGED vars
  BY <1>13 DEF vars
<1> QED
  BY <1>2, <1>3, <1>4, <1>5, <1>6, <1>7, <1>9, <1>10, <1>11, <1>12, <1>13
  DEF Next, MainNext, Ended, HandlerNext, ReloaderNext

(***************************************************************************)
(* The table never becomes what was read from a file that changed          *)
(* meanwhile: the second os.Stat finds the time that the first one found,  *)
(* between them lies the read, and no two versions have the same time.     *)
(***************************************************************************)
THEOREM TableHolds == Spec => TableConsistent
<1>1. Init => VersionInv
  BY ChangesAssumption DEF Init, VersionInv, Change
<1>2. VersionInv /\ [Next]_vars => VersionInv'
  BY VersionStep
<1>3. VersionInv /\ [Next]_vars
        => [loaded' # loaded =>
              \/ loaded' = IF missing THEN 0 ELSE file
              \/ loaded' = stamp']_vars
  BY LoadedStep
<1> QED
  BY <1>1, <1>2, <1>3, PTL DEF Spec, TableConsistent

-----------------------------------------------------------------------------
(***************************************************************************)
(* What ProcessWith computes.  The directives are taken by a recursive     *)
(* function, so this needs induction: a set of numbers that is not all of  *)
(* Nat leaves out a least one.                                             *)
(***************************************************************************)
LEMMA SetInduction ==
    ASSUME NEW S, 0 \in S, \A n \in Nat : n \in S => n + 1 \in S
    PROVE  \A n \in Nat : n \in S
<1> DEFINE T == Nat \ S
           R == OpToRel(<, Nat)
<1> SUFFICES ASSUME T # {} PROVE FALSE
  OBVIOUS
<1>1. IsWellFoundedOn(R, Nat)
  BY NatLessThanWellFounded
<1> HIDE DEF R
<1>2. PICK x \in T : \A y \in T : ~ (<<y, x>> \in R)
  BY <1>1, WFMin
<1>3. x # 0 /\ x - 1 \in Nat
  BY <1>2
<1>4. <<x - 1, x>> \in R
  BY <1>3, <1>2 DEF R, OpToRel
<1>5. x - 1 \in S
  BY <1>2, <1>3, <1>4
<1> QED
  BY <1>5, <1>3, <1>2

\* The recursive definition of Taken has a solution.
LEMMA TakenIs ==
    ASSUME NEW M, NEW U, NEW nodes, Len(nodes) \in Nat
    PROVE  LET t == Taken(M, U, nodes)
           IN  /\ t[0] = NothingYet
               /\ \A i \in 1 .. Len(nodes) :
                     t[i] = TakeDirective(M, U, t[i - 1], nodes[i])
<1> DEFINE Eq(f, n) ==
      f = [i \in 0 .. n |-> IF i = 0 THEN NothingYet
             ELSE TakeDirective(M, U, f[i - 1], nodes[i])]
           S == {n \in Nat : \E f : Eq(f, n)}
<1>1. 0 \in S
  <2> DEFINE g == [i \in 0 .. 0 |-> NothingYet]
  <2>1. Eq(g, 0)
    OBVIOUS
  <2> HIDE DEF g
  <2> QED
    BY <2>1
<1>2. ASSUME NEW n \in Nat, n \in S PROVE n + 1 \in S
  <2>1. PICK f : Eq(f, n)
    BY <1>2
  <2> DEFINE g == [i \in 0 .. (n + 1) |->
                     IF i = n + 1 THEN TakeDirective(M, U, f[n], nodes[n + 1])
                     ELSE f[i]]
             h == [i \in 0 .. (n + 1) |-> IF i = 0 THEN NothingYet
                     ELSE TakeDirective(M, U, g[i - 1], nodes[i])]
  <2>2. ASSUME NEW i \in 0 .. (n + 1) PROVE g[i] = h[i]
    <3>1. CASE i = n + 1
      <4>1. i # 0 /\ i - 1 = n /\ n \in 0 .. (n + 1) /\ n # n + 1
        BY <3>1
      <4>2. g[n] = f[n]
        BY <4>1
      <4> QED
        BY <3>1, <4>1, <4>2
    <3>2. CASE i = 0
      <4>1. f[0] = NothingYet /\ 0 \in 0 .. (n + 1) /\ 0 # n + 1
        BY <2>1
      <4> QED
        BY <3>2, <4>1
    <3>3. CASE i \in 1 .. n
      <4>1. i \in 0 .. n /\ i # 0 /\ i - 1 \in 0 .. (n + 1) /\ i - 1 # n + 1 /\ i # n + 1
        BY <3>3
      <4>2. f[i] = TakeDirective(M, U, f[i - 1], nodes[i])
        BY <2>1, <4>1
      <4>3. g[i - 1] = f[i - 1] /\ g[i] = f[i]
        BY <4>1
      <4> QED
        BY <4>1, <4>2, <4>3
    <3> QED
      BY <3>1, <3>2, <3>3
  <2>3. g = h
    BY <2>2
  <2>4. Eq(g, n + 1)
    BY <2>3
  <2> HIDE DEF g
  <2> QED
    BY <2>4
<1>3. \A n \in Nat : n \in S
  <2> HIDE DEF S
  <2> QED
    BY <1>1, <1>2, SetInduction
<1>4. \E f : Eq(f, Len(nodes))
  BY <1>3
<1> DEFINE t == Taken(M, U, nodes)
<1>5. t = CHOOSE f : Eq(f, Len(nodes))
  BY DEF Taken
<1> HIDE DEF t
<1>6. Eq(t, Len(nodes))
  <2> HIDE DEF Eq
  <2> QED
    BY <1>4, <1>5
<1>7. t[0] = NothingYet
  BY <1>6
<1>8. ASSUME NEW i \in 1 .. Len(nodes)
      PROVE  t[i] = TakeDirective(M, U, t[i - 1], nodes[i])
  BY <1>6
<1> QED
  BY <1>7, <1>8 DEF t

\* What the first i directives gave, if none of them is wrong: the value of
\* each directive that has a variable, once.
Gave(M, nodes, acc, i) ==
    /\ DOMAIN acc = {"ok", "values", "stored", "called", "unknown"}
    /\ acc.ok \in BOOLEAN
    /\ acc.ok =>
          /\ DOMAIN acc.stored = DOMAIN acc.values
          /\ DOMAIN acc.values \subseteq {m.name : m \in Variables(M)}
          /\ \A m \in Variables(M) : m.name \in DOMAIN acc.values
                <=> \E j \in 1 .. i : nodes[j].name = m.name
          /\ \A m \in Variables(M) : \A j \in 1 .. i : nodes[j].name = m.name =>
                /\ acc.values[m.name] = Mapper(m, nodes[j]).val
                /\ acc.stored[m.name] = Mapper(m, nodes[j]).val

\* No two matchers have the same name.
Apart(M) == \A m, e \in M : m.name = e.name => m = e

LEMMA TakeGave ==
    ASSUME NEW M, NEW U, NEW nodes, NEW acc, NEW i \in Nat,
           Apart(M), Gave(M, nodes, acc, i)
    PROVE  Gave(M, nodes, TakeDirective(M, U, acc, nodes[i + 1]), i + 1)
<1> DEFINE d == nodes[i + 1]
           r == TakeDirective(M, U, acc, d)
           e == CHOOSE m \in M : m.name = d.name
           v == Mapper(e, d).val
           F == {"ok", "values", "stored", "called", "unknown"}
           V == Variables(M)
<1>0. DOMAIN acc = F /\ acc.ok \in BOOLEAN
  BY DEF Gave
<1>1. CASE ~ acc.ok
  <2>1. r = acc
    BY <1>1 DEF TakeDirective
  <2> HIDE DEF r
  <2> QED
    BY <1>1, <2>1, <1>0 DEF Gave, r
<1>2. CASE acc.ok /\ \A m \in M : m.name # d.name
  <2>1. CASE U
    <3>1. r = [acc EXCEPT !.unknown = Append(@, d)]
      BY <1>2, <2>1 DEF TakeDirective
    <3>2. DOMAIN r = F /\ r.ok = acc.ok /\ r.values = acc.values /\ r.stored = acc.stored
      BY <3>1, <1>0
    <3>3. \A m \in V : (\E j \in 1 .. (i + 1) : nodes[j].name = m.name)
                          <=> \E j \in 1 .. i : nodes[j].name = m.name
      BY <1>2 DEF Variables
    <3>4. \A m \in V : \A j \in 1 .. (i + 1) : nodes[j].name = m.name => j \in 1 .. i
      BY <1>2 DEF Variables
    <3> HIDE DEF r
    <3> QED
      BY <1>0, <1>2, <3>2, <3>3, <3>4 DEF Gave, r
  <2>2. CASE ~ U
    <3>1. r = [acc EXCEPT !.ok = FALSE]
      BY <1>2, <2>2 DEF TakeDirective
    <3>2. DOMAIN r = F /\ r.ok = FALSE
      BY <3>1, <1>0
    <3> HIDE DEF r
    <3> QED
      BY <3>2 DEF Gave, r
  <2> QED
    BY <2>1, <2>2
<1>5. CASE /\ acc.ok /\ \E m \in M : m.name = d.name
           /\ e.kind = "callback"
  <2>1. r = [acc EXCEPT !.ok = Mapper(e, d).ok, !.called = Append(@, d)]
    BY <1>5 DEF TakeDirective
  <2>2. /\ DOMAIN r = F /\ r.ok = Mapper(e, d).ok
        /\ r.values = acc.values /\ r.stored = acc.stored
    BY <2>1, <1>0
  <2>3. Mapper(e, d).ok \in BOOLEAN
    BY <1>5 DEF Mapper, EnumListOf, StringListOf, Value, Failure
  <2>4. e \in M /\ e.name = d.name
    BY <1>5
  <2>5. \A m \in V : m.name # d.name
    BY <1>5, <2>4 DEF Apart, Variables
  <2>6. \A m \in V : (\E j \in 1 .. (i + 1) : nodes[j].name = m.name)
                        <=> \E j \in 1 .. i : nodes[j].name = m.name
    BY <2>5
  <2>7. \A m \in V : \A j \in 1 .. (i + 1) : nodes[j].name = m.name => j \in 1 .. i
    BY <2>5
  <2> HIDE DEF r, e
  <2> QED
    BY <1>0, <1>5, <2>2, <2>3, <2>6, <2>7 DEF Gave, r
<1>3. CASE /\ acc.ok /\ \E m \in M : m.name = d.name
           /\ e.kind # "callback"
           /\ d.name \in DOMAIN acc.values \/ ~ Mapper(e, d).ok
  <2>1. r = [acc EXCEPT !.ok = FALSE]
    BY <1>3 DEF TakeDirective
  <2>2. DOMAIN r = F /\ r.ok = FALSE
    BY <2>1, <1>0
  <2> HIDE DEF r
  <2> QED
    BY <2>2 DEF Gave, r
<1>4. CASE /\ acc.ok /\ \E m \in M : m.name = d.name
           /\ e.kind # "callback"
           /\ ~ (d.name \in DOMAIN acc.values \/ ~ Mapper(e, d).ok)
  <2>1. r = [acc EXCEPT !.values = With(@, d.name, v), !.stored = With(@, d.name, v)]
    BY <1>4 DEF TakeDirective
  <2>2. DOMAIN r = F /\ r.ok = acc.ok /\ r.values = With(acc.values, d.name, v)
        /\ r.stored = With(acc.stored, d.name, v)
    BY <2>1, <1>0
  <2>3. e \in M /\ e.name = d.name
    BY <1>4
  <2>13. e \in V
    BY <1>4, <2>3 DEF Variables
  <2>4. \A m \in V : m.name = d.name => m = e
    BY <2>3 DEF Apart, Variables
  <2>5. DOMAIN acc.stored = DOMAIN acc.values
    BY <1>4 DEF Gave
  <2>12. d.name \in {m.name : m \in V} /\ DOMAIN acc.values \subseteq {m.name : m \in V}
    BY <1>4, <2>3, <2>13 DEF Gave
  <2> HIDE DEF r, e, v
  <2>6. /\ DOMAIN r.values = DOMAIN acc.values \union {d.name}
        /\ DOMAIN r.stored = DOMAIN acc.stored \union {d.name}
        /\ r.values[d.name] = v /\ r.stored[d.name] = v
        /\ \A y \in DOMAIN acc.values : y # d.name => r.values[y] = acc.values[y]
        /\ \A y \in DOMAIN acc.stored : y # d.name => r.stored[y] = acc.stored[y]
    <3> HIDE DEF d
    <3>1. ASSUME NEW f, NEW w, w = With(f, d.name, v)
          PROVE  /\ DOMAIN w = DOMAIN f \union {d.name}
                 /\ w[d.name] = v
                 /\ \A y \in DOMAIN f : y # d.name => w[y] = f[y]
      BY ONLY <3>1 DEF With
    <3> QED
      BY ONLY <3>1, <2>2
  <2>7. \A j \in 1 .. (i + 1) : j \in 1 .. i \/ j = i + 1
    OBVIOUS
  <2>8. i + 1 \in 1 .. (i + 1) /\ \A j \in 1 .. i : j \in 1 .. (i + 1)
    OBVIOUS
  <2>9. ASSUME NEW m \in V
        PROVE  m.name \in DOMAIN r.values
                  <=> \E j \in 1 .. (i + 1) : nodes[j].name = m.name
    <3>1. m.name \in DOMAIN acc.values <=> \E j \in 1 .. i : nodes[j].name = m.name
      BY <1>4 DEF Gave
    <3> QED
      BY <3>1, <2>6, <2>7, <2>8
  <2>10. ASSUME NEW m \in V, NEW j \in 1 .. (i + 1), nodes[j].name = m.name
         PROVE  /\ r.values[m.name] = Mapper(m, nodes[j]).val
                /\ r.stored[m.name] = Mapper(m, nodes[j]).val
    <3>1. CASE j = i + 1
      <4>1. m = e /\ nodes[j] = d /\ m.name = d.name
        BY <2>10, <3>1, <2>4
      <4> QED
        BY <4>1, <2>6 DEF v
    <3>2. CASE j \in 1 .. i
      <4>1. m.name \in DOMAIN acc.values
        BY <1>4, <2>10, <3>2 DEF Gave
      <4>2. m.name # d.name
        BY <4>1, <1>4
      <4>3. acc.values[m.name] = Mapper(m, nodes[j]).val
            /\ acc.stored[m.name] = Mapper(m, nodes[j]).val
        BY <1>4, <2>10, <3>2 DEF Gave
      <4> QED
        BY <4>1, <4>2, <4>3, <2>5, <2>6
    <3> QED
      BY <3>1, <3>2, <2>7
  <2>11. Gave(M, nodes, r, i + 1)
    <3>1. DOMAIN r.values \subseteq {m.name : m \in V}
      BY <2>6, <2>12
    <3> QED
      BY <1>0, <2>2, <2>5, <2>6, <2>9, <2>10, <3>1 DEF Gave
  <2> QED
    BY <2>11 DEF r
<1> QED
  BY <1>0, <1>1, <1>2, <1>3, <1>4, <1>5

\* The directives of a block, all taken.
LEMMA TakenGave ==
    ASSUME NEW M, NEW U, NEW nodes, Len(nodes) \in Nat, Apart(M)
    PROVE  Gave(M, nodes, Taken(M, U, nodes)[Len(nodes)], Len(nodes))
<1> DEFINE t == Taken(M, U, nodes)
           L == Len(nodes)
           S == {n \in Nat : n <= L => Gave(M, nodes, t[n], n)}
<1>0. t[0] = NothingYet /\ \A i \in 1 .. L : t[i] = TakeDirective(M, U, t[i - 1], nodes[i])
  BY TakenIs
<1> HIDE DEF t, L
<1>1. 0 \in S
  <2>1. Gave(M, nodes, NothingYet, 0)
    BY DEF Gave, NothingYet
  <2> QED
    BY <2>1, <1>0
<1>2. ASSUME NEW n \in Nat, n \in S PROVE n + 1 \in S
  <2> SUFFICES ASSUME n + 1 <= L PROVE Gave(M, nodes, t[n + 1], n + 1)
    OBVIOUS
  <2>0. L \in Nat
    BY DEF L
  <2>1. Gave(M, nodes, t[n], n)
    BY <1>2, <2>0
  <2>2. t[n + 1] = TakeDirective(M, U, t[n], nodes[n + 1])
    <3>1. n + 1 \in 1 .. L /\ n + 1 - 1 = n
      BY <2>0
    <3> QED
      BY <3>1, <1>0
  <2> QED
    BY <2>1, <2>2, TakeGave
<1>3. \A n \in Nat : n \in S
  <2> HIDE DEF S
  <2> QED
    BY <1>1, <1>2, SetInduction
<1>4. L \in Nat
  BY DEF L
<1>5. Gave(M, nodes, t[L], L)
  BY <1>3, <1>4
<1> QED
  BY <1>5 DEF t, L

\* ProcessWith: a matcher stores the value of its directive, and without one
\* what is inherited or the default, if there is one; what is zero then, nobody
\* inherits.
Outcome(M, G, nodes, p) ==
    /\ DOMAIN p.values \subseteq {e.name : e \in Variables(M)}
    /\ \A m \in Variables(M) : \A j \in DOMAIN nodes :
          nodes[j].name = m.name =>
             /\ m.name \in DOMAIN p.values
             /\ p.values[m.name] = Mapper(m, nodes[j]).val
             /\ p.stored[m.name] = Mapper(m, nodes[j]).val
    /\ \A m \in Variables(M) :
          (\A j \in DOMAIN nodes : nodes[j].name # m.name) =>
             /\ m.required => Inherits(m, G)
             /\ Inherits(m, G) => p.stored[m.name] = Absent(m, G)
             /\ m.name \in DOMAIN p.values =>
                   /\ Saved(m, G)
                   /\ Inherits(m, G) \/ m.defaultVal \notin {"nil", "error"}

LEMMA ProcessedIs ==
    ASSUME NEW M, NEW U, NEW G, NEW nodes, nodes \in Seq(Range(nodes)),
           Apart(M), NEW p, p = Processed(M, U, G, nodes), p.ok
    PROVE  Outcome(M, G, nodes, p)
<1> DEFINE own == Taken(M, U, nodes)[Len(nodes)]
           V == Variables(M)
           rest == {e \in V : e.name \notin DOMAIN own.values}
           given == {e \in rest : ~ Leaves(e, G)}
           pick(n) == CHOOSE e \in given : e.name = n
           val(n) == Absent(pick(n), G)
           named(T) == {e.name : e \in T}
           saved == named({e \in given : Saved(e, G)})
           st == [n \in DOMAIN own.stored \union named(given) |->
                    IF n \in DOMAIN own.stored THEN own.stored[n] ELSE val(n)]
           vs == [n \in DOMAIN own.values \union saved |->
                    IF n \in DOMAIN own.values THEN own.values[n] ELSE val(n)]
           bad == ~ own.ok \/ \E e \in rest : Lacks(e, G)
<1>0. Len(nodes) \in Nat /\ DOMAIN nodes = 1 .. Len(nodes)
  OBVIOUS
<1>1. Gave(M, nodes, own, Len(nodes))
  BY <1>0, TakenGave
<1>2. p = IF bad THEN [own EXCEPT !.ok = FALSE]
          ELSE [own EXCEPT !.stored = st, !.values = vs]
  BY DEF Processed
<1> HIDE DEF own, st, vs, bad
<1>3. DOMAIN own = {"ok", "values", "stored", "called", "unknown"}
  BY <1>1 DEF Gave
<1>4. ~ bad
  BY <1>2, <1>3
<1>5. p.stored = st /\ p.values = vs
  BY <1>2, <1>3, <1>4
<1>6. /\ own.ok
      /\ DOMAIN own.stored = DOMAIN own.values
      /\ \A m \in V : m.name \in DOMAIN own.values
            <=> \E j \in 1 .. Len(nodes) : nodes[j].name = m.name
      /\ \A m \in V : \A j \in 1 .. Len(nodes) : nodes[j].name = m.name =>
            /\ own.values[m.name] = Mapper(m, nodes[j]).val
            /\ own.stored[m.name] = Mapper(m, nodes[j]).val
  BY <1>1, <1>4 DEF Gave, bad
<1>7. ASSUME NEW m \in V, NEW j \in DOMAIN nodes, nodes[j].name = m.name
      PROVE  /\ m.name \in DOMAIN p.values
             /\ p.values[m.name] = Mapper(m, nodes[j]).val
             /\ p.stored[m.name] = Mapper(m, nodes[j]).val
  <2>1. m.name \in DOMAIN own.values /\ m.name \in DOMAIN own.stored
    BY <1>0, <1>6, <1>7
  <2>2. vs[m.name] = own.values[m.name] /\ m.name \in DOMAIN vs
    BY <2>1 DEF vs
  <2>3. st[m.name] = own.stored[m.name]
    BY <2>1 DEF st
  <2> QED
    BY <2>2, <2>3, <1>0, <1>5, <1>6, <1>7
<1>8. ASSUME NEW m \in V, \A j \in DOMAIN nodes : nodes[j].name # m.name
      PROVE  /\ m.required => Inherits(m, G)
             /\ Inherits(m, G) => p.stored[m.name] = Absent(m, G)
             /\ m.name \in DOMAIN p.values =>
                   /\ Saved(m, G)
                   /\ Inherits(m, G) \/ m.defaultVal \notin {"nil", "error"}
  <2>1. m.name \notin DOMAIN own.values /\ m.name \notin DOMAIN own.stored
    BY <1>0, <1>6, <1>8
  <2>2. m \in rest
    BY <2>1
  <2>3. m.required \/ m.defaultVal = "error" => Inherits(m, G)
    BY <2>2, <1>4 DEF bad, Lacks
  <2>4. \A e \in rest : e.name = m.name => e = m
    BY DEF Apart, Variables
  <2> HIDE DEF rest
  <2>6. ASSUME Inherits(m, G) PROVE st[m.name] = Absent(m, G)
    <3>1. m \in given
      BY <2>2, <2>6 DEF Leaves
    <3>2. pick(m.name) = m
      BY <3>1, <2>4
    <3>3. m.name \in named(given)
      BY <3>1
    <3> HIDE DEF given
    <3> QED
      BY <2>1, <3>2, <3>3 DEF st
  <2>7. ASSUME m.name \in DOMAIN vs
        PROVE  Saved(m, G) /\ (Inherits(m, G) \/ m.defaultVal # "nil")
    <3>1. m.name \in saved
      BY <2>1, <2>7 DEF vs
    <3>2. PICK e \in given : Saved(e, G) /\ e.name = m.name
      BY <3>1
    <3>3. e = m
      BY <3>2, <2>4
    <3> QED
      BY <3>2, <3>3 DEF Leaves
  <2> QED
    BY <2>3, <2>6, <2>7, <1>5
<1>9. DOMAIN p.values \subseteq {e.name : e \in V}
  <2>1. DOMAIN own.values \subseteq {e.name : e \in V}
    BY <1>1, <1>6 DEF Gave
  <2>2. saved \subseteq {e.name : e \in V}
    OBVIOUS
  <2> QED
    BY <2>1, <2>2, <1>5 DEF vs
<1> QED
  BY <1>7, <1>8, <1>9 DEF Outcome

LEMMA MapperAgrees ==
    ASSUME NEW m, NEW g, NEW node, g.kind = m.kind, g.allowed = m.allowed
    PROVE  Mapper(g, node) = Mapper(m, node)
  BY DEF Mapper

\* What a module stores, of the configurations that ReadGlobals and the module
\* accept.
LEMMA StoredIs ==
    ASSUME NEW c \in Configs, NEW n \in Names(c), NEW m \in Variables(Matchers[n]),
           GlobalsOf[c].ok, StoredOf[c][n].ok
    PROVE  LET own == Written(BlockOf[c][n].nodes, m.name)
               global == Written(Config[c].nodes, m.name)
               s == StoredOf[c][n].stored
           IN  /\ m.required => own # {} \/ (m.inherit /\ global # {})
               /\ \A i \in own : s[m.name] = Mapper(m, BlockOf[c][n].nodes[i]).val
               /\ own = {} /\ m.inherit => \A i \in global :
                     s[m.name] = Mapper(m, Config[c].nodes[i]).val
<1> DEFINE nodes == BlockOf[c][n].nodes
           gnodes == Config[c].nodes
           G == GlobalsOf[c]
           P == StoredOf[c][n]
           own == Written(nodes, m.name)
           global == Written(gnodes, m.name)
<1>0. BlockOf[c][n] \in Units(c) /\ BlockOf[c][n].name = n
  BY BlockIs
<1>1. nodes \in Seq(Range(nodes)) /\ Apart(Matchers[n])
  BY <1>0, MatcherAssumption DEF MatcherAssumption, Apart
<1>2. gnodes \in Seq(Range(gnodes)) /\ Apart(GlobalMatchers)
  BY MatcherAssumption DEF MatcherAssumption, Apart
<1>3. G = Processed(GlobalMatchers, TRUE, <<>>, gnodes)
  BY DEF GlobalsOf
<1>4. P = Processed(Matchers[n], FALSE, G.values, nodes)
  <2>1. n \in DOMAIN BlockOf[c]
    BY DEF BlockOf, Names
  <2> QED
    BY <2>1 DEF StoredOf
<1>5. \A g \in GlobalMatchers : m.inherit /\ g.name = m.name =>
         /\ g.kind = m.kind /\ g.allowed = m.allowed
         /\ m.required => g.defaultVal \in {"nil", "error"} \/ g.default = Zero(g)
  BY <1>0, MatcherAssumption DEF MatcherAssumption, Variables
<1>6. G.ok /\ P.ok
  OBVIOUS
<1>61. \A i \in DOMAIN gnodes : \E g \in GlobalMatchers : g.name = gnodes[i].name
  BY MatcherAssumption DEF MatcherAssumption
<1> HIDE DEF nodes, gnodes, G, P
<1>7. /\ \A j \in DOMAIN nodes : nodes[j].name = m.name =>
            P.stored[m.name] = Mapper(m, nodes[j]).val
      /\ (\A j \in DOMAIN nodes : nodes[j].name # m.name) =>
            /\ m.required => Inherits(m, G.values)
            /\ Inherits(m, G.values) => P.stored[m.name] = Absent(m, G.values)
  <2>1. Outcome(Matchers[n], G.values, nodes, P)
    BY <1>1, <1>4, <1>6, ProcessedIs
  <2> QED
    BY <2>1 DEF Outcome
<1>8. /\ DOMAIN G.values \subseteq {e.name : e \in Variables(GlobalMatchers)}
      /\ \A g \in Variables(GlobalMatchers) : \A j \in DOMAIN gnodes :
            gnodes[j].name = g.name =>
               /\ g.name \in DOMAIN G.values
               /\ G.values[g.name] = Mapper(g, gnodes[j]).val
      /\ \A g \in Variables(GlobalMatchers) :
            (\A j \in DOMAIN gnodes : gnodes[j].name # g.name)
               /\ g.name \in DOMAIN G.values
            => Saved(g, <<>>) /\ g.defaultVal \notin {"nil", "error"}
  <2>1. Outcome(GlobalMatchers, <<>>, gnodes, G)
    BY <1>2, <1>3, <1>6, ProcessedIs
  <2>2. \A g : ~ Inherits(g, <<>>)
    BY DEF Inherits
  <2> QED
    BY <2>1, <2>2 DEF Outcome
<1>9. \A i \in own : P.stored[m.name] = Mapper(m, nodes[i]).val
  BY <1>7 DEF Written
<1>10. ASSUME own = {}, m.inherit, NEW i \in global
       PROVE  P.stored[m.name] = Mapper(m, gnodes[i]).val
  <2>1. i \in DOMAIN gnodes /\ gnodes[i].name = m.name
    BY DEF Written
  <2>2. PICK g \in GlobalMatchers : g.name = m.name
    BY <2>1, <1>61
  <2>6. g \in Variables(GlobalMatchers)
    BY <1>5, <1>10, <2>2 DEF Variables
  <2>3. m.name \in DOMAIN G.values /\ G.values[m.name] = Mapper(g, gnodes[i]).val
    BY <1>8, <2>1, <2>2, <2>6
  <2>4. Mapper(g, gnodes[i]) = Mapper(m, gnodes[i])
    BY <1>5, <1>10, <2>2, MapperAgrees
  <2>5. P.stored[m.name] = Absent(m, G.values)
    BY <1>7, <1>10, <2>3 DEF Written, Inherits
  <2> QED
    BY <1>10, <2>3, <2>4, <2>5 DEF Absent, Inherits
<1>11. ASSUME m.required, own = {} PROVE m.inherit /\ global # {}
  <2>1. m.inherit /\ m.name \in DOMAIN G.values
    BY <1>7, <1>11 DEF Written, Inherits
  <2>2. SUFFICES ASSUME global = {} PROVE FALSE
    BY <2>1
  <2>3. PICK g \in Variables(GlobalMatchers) : g.name = m.name
    BY <2>1, <1>8
  <2>4. Saved(g, <<>>) /\ g.defaultVal \notin {"nil", "error"}
    BY <1>8, <2>1, <2>2, <2>3 DEF Written
  <2>5. Absent(g, <<>>) = g.default
    BY DEF Absent, Inherits
  <2>6. g.default = Zero(g)
    BY <1>5, <1>11, <2>1, <2>3, <2>4 DEF Variables
  <2> QED
    BY <2>4, <2>5, <2>6 DEF Saved
<1> QED
  BY <1>9, <1>10, <1>11 DEF nodes, gnodes, P

-----------------------------------------------------------------------------
(***************************************************************************)
(* Modules run with what ProcessWith made of their blocks.                 *)
(***************************************************************************)
StoredInv ==
    /\ conf \in Configs /\ cursor \in Nat \ {0}
    /\ endpoints \in Seq(BlockNames(conf)) /\ instances \subseteq BlockNames(conf)
    /\ stack \in Seq([name : Names(conf), ref : Nat \ {0}])
    /\ main \notin {"globals", "exited"} => GlobalsOf[conf].ok
    /\ \A n \in DOMAIN stored :
          /\ n \in Names(conf) /\ GlobalsOf[conf].ok
          /\ StoredOf[conf][n].ok /\ stored[n] = StoredOf[conf][n].stored

LEMMA StoredCall ==
    ASSUME StoredInv, main = "init", NEW n \in Names(conf), Call(n),
           UNCHANGED <<conf, cursor, endpoints, instances>>
    PROVE  StoredInv'
<1> DEFINE F == [name : Names(conf), ref : Nat \ {0}]
<1>0. stack \in Seq(F) /\ GlobalsOf[conf].ok
  BY DEF StoredInv
<1>1. CASE /\ main' = "exited" /\ UNCHANGED <<stored, stack>>
  BY <1>1 DEF StoredInv
<1>2. CASE /\ StoredOf[conf][n].ok /\ main' = "init"
           /\ stored' = With(stored, n, StoredOf[conf][n].stored)
           /\ stack' = Append(stack, Frame(n))
  <2>1. Frame(n) \in F
    BY DEF Frame
  <2> HIDE DEF F
  <2>2. stack' \in Seq(F)
    BY <1>0, <1>2, <2>1
  <2>3. DOMAIN stored' = DOMAIN stored \union {n}
        /\ stored'[n] = StoredOf[conf][n].stored
        /\ \A m \in DOMAIN stored : m # n => stored'[m] = stored[m]
    BY <1>2 DEF With
  <2>4. \A m \in DOMAIN stored' :
          /\ m \in Names(conf) /\ GlobalsOf[conf].ok
          /\ StoredOf[conf][m].ok /\ stored'[m] = StoredOf[conf][m].stored
    BY <1>0, <1>2, <2>3 DEF StoredInv
  <2> QED
    BY <1>0, <1>2, <2>2, <2>4 DEF StoredInv, F
<1> QED
  BY <1>1, <1>2 DEF Call, Goes, Exits

LEMMA StoredStep ==
    ASSUME StoredInv, [Next]_vars
    PROVE  StoredInv'
<1> USE DEF startVars, Goes, Exits
<1>0. /\ conf \in Configs /\ cursor \in Nat \ {0}
      /\ endpoints \in Seq(BlockNames(conf)) /\ instances \subseteq BlockNames(conf)
      /\ stack \in Seq([name : Names(conf), ref : Nat \ {0}])
  BY DEF StoredInv
<1>1. ASSUME UNCHANGED startVars,
             main' = "exited" \/ (main # "exited" /\ main # "globals") \/ main' = main
      PROVE  StoredInv'
  BY <1>1 DEF StoredInv
<1>2. ASSUME stack # <<>>
      PROVE  /\ Top.name \in Names(conf) /\ Top.ref \in Nat \ {0}
             /\ Top.ref <= Len(Block(Top.name).refs)
                   => Top.ref \in DOMAIN Block(Top.name).refs
  <2> DEFINE F == [name : Names(conf), ref : Nat \ {0}]
  <2>1. stack \in Seq(F)
    BY <1>0
  <2> HIDE DEF F
  <2>2. Top \in F
    BY <1>2, <2>1 DEF Top
  <2>3. Top.name \in Names(conf) /\ Top.ref \in Nat \ {0}
    BY <2>2 DEF F
  <2>4. Block(Top.name).refs \in Seq(Range(Block(Top.name).refs))
    BY <1>0, <2>3, BlockIs DEF Block
  <2>5. Top.ref <= Len(Block(Top.name).refs)
                   => Top.ref \in DOMAIN Block(Top.name).refs
    BY <2>3, <2>4
  <2> QED
    BY <2>3, <2>5
<1>3. CASE ReadGlobals
  BY <1>3 DEF ReadGlobals, StoredInv
<1>4. CASE RegisterModule
  <2> DEFINE b == Config[conf].blocks[cursor]
  <2>0. main = "register" /\ cursor' = cursor + 1 /\ cursor <= Len(Config[conf].blocks)
        /\ UNCHANGED <<conf, stored, stack>>
    BY <1>4 DEF RegisterModule
  <2>1. b.name \in BlockNames(conf)
    <3>1. Config[conf].blocks \in Seq(Range(Config[conf].blocks))
      BY <1>0, ConfigAssumption DEF ConfigAssumption
    <3>2. cursor \in DOMAIN Config[conf].blocks
      BY <1>0, <2>0, <3>1
    <3> QED
      BY <3>2 DEF Range, BlockNames
  <2>2. endpoints' \in {endpoints, Append(endpoints, b.name)}
        /\ instances' \in {instances, instances \union {b.name}}
        /\ main' \in {"register", "exited"}
    BY <1>4 DEF RegisterModule
  <2> HIDE DEF b
  <2>3. endpoints' \in Seq(BlockNames(conf)) /\ instances' \subseteq BlockNames(conf)
        /\ cursor' \in Nat \ {0}
    <3>1. Append(endpoints, b.name) \in Seq(BlockNames(conf))
      BY <1>0, <2>1
    <3>2. endpoints' = endpoints \/ endpoints' = Append(endpoints, b.name)
      BY <2>2
    <3>3. endpoints' \in Seq(BlockNames(conf))
      BY ONLY <1>0, <3>1, <3>2
    <3>4. instances' \subseteq BlockNames(conf)
      BY ONLY <1>0, <2>1, <2>2
    <3> QED
      BY ONLY <1>0, <2>0, <3>3, <3>4
  <2> QED
    BY <2>0, <2>2, <2>3 DEF StoredInv
<1>5. CASE InitEndpoint
  <2>1. PICK i \in DOMAIN endpoints : Call(endpoints[i])
    BY <1>5 DEF InitEndpoint
  <2>2. endpoints[i] \in Names(conf)
    BY <1>0, NamesApart
  <2> QED
    BY <1>5, <2>1, <2>2, StoredCall DEF InitEndpoint, InitStep
<1>6. CASE GetInstance
  <2> DEFINE n == Resolve(Block(Top.name).refs[Top.ref].name)
  <2>0. main = "init" /\ UNCHANGED <<conf, cursor, endpoints, instances>> /\ stack # <<>>
    BY <1>6 DEF GetInstance, InitStep
  <2>1. \/ main' = "exited" /\ UNCHANGED <<stored, stack>>
        \/ main' = "init" /\ stack' = NextRef(stack) /\ UNCHANGED stored
        \/ n \in instances /\ Call(n)
    BY <1>6 DEF GetInstance
  <2> HIDE DEF n
  <2>2. CASE main' = "exited" /\ UNCHANGED <<stored, stack>>
    BY <2>0, <2>2 DEF StoredInv
  <2>3. CASE main' = "init" /\ stack' = NextRef(stack) /\ UNCHANGED stored
    <3>1. stack' \in Seq([name : Names(conf), ref : Nat \ {0}])
      BY <1>0, <2>0, <2>3, NextRefIs
    <3> QED
      BY <2>0, <2>3, <3>1 DEF StoredInv
  <2>4. CASE n \in instances /\ Call(n)
    BY <1>0, <2>0, <2>4, NamesApart, StoredCall
  <2> QED
    BY <2>1, <2>2, <2>3, <2>4
<1>7. CASE InlineModule
  <2> DEFINE r == Block(Top.name).refs[Top.ref]
  <2>0. main = "init" /\ UNCHANGED <<conf, cursor, endpoints, instances>> /\ stack # <<>>
        /\ Top.ref <= Len(Block(Top.name).refs) /\ r.inline /\ Call(r.name)
    BY <1>7 DEF InlineModule, InitStep
  <2>1. r.name \in InlineNames(conf)
    BY <1>0, <1>2, <2>0, InlineOnce DEF Block
  <2> QED
    BY <1>0, <2>0, <2>1, NamesApart, StoredCall
<1>8. CASE InitReturns
  <2>0. main = "init" /\ UNCHANGED <<conf, cursor, endpoints, instances, stored>>
        /\ stack # <<>> /\ main' \in {"init", "exited"}
    BY <1>8 DEF InitReturns, InitStep
  <2>1. stack' \in Seq([name : Names(conf), ref : Nat \ {0}])
    <3>1. CASE UNCHANGED stack
      BY <1>0, <3>1
    <3>2. CASE stack' = IF Front(stack) = <<>> THEN Front(stack) ELSE NextRef(Front(stack))
      <4>1. \A t : t = (IF Front(stack) = <<>> THEN Front(stack) ELSE NextRef(Front(stack)))
               => t \in Seq([name : Names(conf), ref : Nat \ {0}])
        BY <1>0, <2>0, PopIs
      <4> QED
        BY <3>2, <4>1
    <3> QED
      BY <1>8, <3>1, <3>2 DEF InitReturns
  <2> QED
    BY <2>0, <2>1 DEF StoredInv
<1>9. CASE InitDirs \/ Registered \/ Initialized
  BY <1>9, <1>1 DEF InitDirs, Registered, Initialized
<1>10. CASE WaitGroup \/ RunHook \/ HooksDone
  BY <1>10, <1>1 DEF WaitGroup, RunHook, HooksDone, MainStep
<1>11. CASE ApiGoes
  BY <1>11, <1>1 DEF ApiGoes, ApiStart, ApiShutdown, ApiStep
<1>12. CASE ReloaderNext \/ Tick \/ RemoveFile \/ ChangeFile \/ FileGetsOld
  BY <1>12, <1>1
  DEF ReloaderNext, ReloadStat, ReloadRead, ReloadCheck, ReloadSwap, Tick, RemoveFile,
      ChangeFile, FileGetsOld, TableStep
<1>13. ASSUME NEW h \in Handlers, HandlerNext(h) PROVE StoredInv'
  BY <1>13, <1>1 DEF HandlerNext, Notify, HandleSignal, ReloadHook, HandlerStep
<1>14. ASSUME NEW s \in Signals, Signal(s) PROVE StoredInv'
  BY <1>14, <1>1 DEF Signal
<1>15. CASE UNCHANGED vars
  BY <1>15, <1>1 DEF vars
<1> QED
  BY <1>3, <1>4, <1>5, <1>6, <1>7, <1>8, <1>9, <1>10, <1>11, <1>12, <1>13,
     <1>14, <1>15
  DEF Next, MainNext, Ended

(***************************************************************************)
(* A module runs with the value of its own directive, else with that of    *)
(* the global one, and a required one was given: ProcessWith with the      *)
(* values of ReadGlobals, which leave out what is zero.                    *)
(***************************************************************************)
THEOREM DirectivesHold == Spec => []DirectivesResolve
<1>1. Init => StoredInv
  BY DEF Init, StoredInv
<1>2. StoredInv /\ [Next]_vars => StoredInv'
  BY StoredStep
<1>3. StoredInv => DirectivesResolve
  <2> SUFFICES ASSUME StoredInv, NEW n \in DOMAIN stored,
                      NEW m \in Variables(Matchers[n])
               PROVE
        LET own == Written(Block(n).nodes, m.name)
            global == Written(Config[conf].nodes, m.name)
        IN  /\ m.required => own # {} \/ (m.inherit /\ global # {})
            /\ \A i \in own :
                  stored[n][m.name] = Mapper(m, Block(n).nodes[i]).val
            /\ own = {} /\ m.inherit => \A i \in global :
                  stored[n][m.name] = Mapper(m, Config[conf].nodes[i]).val
    BY DEF DirectivesResolve
  <2>1. conf \in Configs /\ n \in Names(conf) /\ GlobalsOf[conf].ok
        /\ StoredOf[conf][n].ok /\ stored[n] = StoredOf[conf][n].stored
    BY DEF StoredInv
  <2> QED
    BY <2>1, StoredIs DEF Block
<1> QED
  BY <1>1, <1>2, <1>3, PTL DEF Spec
=============================================================================
