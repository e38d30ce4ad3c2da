------------------------------- MODULE Limits -------------------------------
(***************************************************************************)
(* internal/limits: message flow restrictions.  A Group has three lists of *)
(* limiters a message must pass, one for all messages, one for each remote *)
(* address and one for each sender domain; each list is a MultiLimit, the  *)
(* keyed ones are kept in a BucketSet that makes a list per key on first   *)
(* use.  A concurrency limiter is a channel that holds one element per     *)
(* message in progress, a rate limiter a channel of tokens refilled by a   *)
(* goroutine.  TakeMsg takes them one by one and may wait at each of them, *)
(* for 5 seconds altogether.                                               *)
(***************************************************************************)
EXTENDS Integers, Sequences, FiniteSets

CONSTANTS
    Callers,    \* goroutines that take limits
    IPs,        \* remote addresses
    Domains,    \* sender domains
    NoKey,      \* the key of the limiters for all messages
    AllL,       \* limiters of scope "all"
    IpL,        \* limiters of scope "ip"
    SourceL,    \* limiters of scope "source"
    MaxBuckets  \* BucketSet.MaxBuckets

\* A limiter: its kind, and max or burst.
Descriptor == [kind : {"concurrency", "rate"}, size : Nat]

ASSUME LimitersAssumption ==
    /\ AllL \in Seq(Descriptor)
    /\ IpL \in Seq(Descriptor)
    /\ SourceL \in Seq(Descriptor)
ASSUME MaxBucketsAssumption == MaxBuckets \in Nat
ASSUME KeysAssumption ==
    IsFiniteSet(Callers) /\ IsFiniteSet(IPs) /\ IsFiniteSet(Domains)

VARIABLES
    tokens,     \* elements in the channel of each limiter
    buckets,    \* the keys of the two BucketSets
    calls       \* the TakeMsg call of each caller

limitVars == <<tokens, buckets, calls>>

-----------------------------------------------------------------------------
Scopes == {"all", "ip", "source"}

\* The lists Init builds.
Wrapped == [all |-> AllL, ip |-> IpL, source |-> SourceL]

Keys == [all |-> {NoKey}, ip |-> IPs, source |-> Domains]

\* Every limiter there can be: its scope, key and place in the list.
Limiters == UNION {{sc} \X Keys[sc] \X DOMAIN Wrapped[sc] : sc \in Scopes}

Kind(l) == Wrapped[l[1]][l[3]].kind
Size(l) == Wrapped[l[1]][l[3]].size

\* What TakeMsg does, in order: <<scope, 0>> looks the key up, <<scope, i>>
\* takes the i-th limiter.  A scope without limiters has no BucketSet.
Walk(sc) ==
    LET list == Wrapped[sc]
        take == [i \in 1 .. Len(list) |-> <<sc, i>>]
    IN  IF sc = "all" \/ list = <<>> THEN take ELSE <<<<sc, 0>>>> \o take

MsgSteps == Walk("all") \o Walk("ip") \o Walk("source")

Steps == {MsgSteps[i] : i \in DOMAIN MsgSteps}

Call == [ip : IPs \cup {NoKey}, dom : Domains \cup {NoKey}, todo : Seq(Steps)]

NoCall == [ip |-> NoKey, dom |-> NoKey, todo |-> <<>>]

LimitsTypeOK ==
    /\ tokens \in [Limiters -> Nat]
    /\ \A l \in Limiters : Size(l) > 0 => tokens[l] <= Size(l)
    /\ buckets \subseteq {"ip"} \X IPs \cup {"source"} \X Domains
    /\ calls \in [Callers -> Call]

\* A rate limiter starts full, a concurrency limiter empty.
LimitsInit ==
    /\ tokens = [l \in Limiters |-> IF Kind(l) = "rate" THEN Size(l) ELSE 0]
    /\ buckets = {}
    /\ calls = [c \in Callers |-> NoCall]

-----------------------------------------------------------------------------
\* The key a call uses in scope sc.
KeyIn(sc, ip, dom) ==
    IF sc = "all" THEN NoKey ELSE IF sc = "ip" THEN ip ELSE dom

\* The limiter a step of c's call is about.
LimiterAt(c, step) ==
    <<step[1], KeyIn(step[1], calls[c].ip, calls[c].dom), step[2]>>

NextStep(c) == Head(calls[c].todo)

\* TakeContext need not wait.  A limiter of size 0 is a no-op.
HasRoom(l) ==
    \/ Size(l) = 0
    \/ Kind(l) = "concurrency" /\ tokens[l] < Size(l)
    \/ Kind(l) = "rate" /\ tokens[l] > 0

\* Release of every limiter in S; it does nothing to a rate limiter.
Released(S) ==
    [l \in Limiters |->
        IF l \in S /\ Kind(l) = "concurrency" /\ Size(l) > 0
        THEN tokens[l] - 1 ELSE tokens[l]]

\* TakeMsg is called.
TakeMsg(c, ip, dom) ==
    /\ calls' = [calls EXCEPT ![c] = [ip |-> ip, dom |-> dom,
                                      todo |-> MsgSteps]]
    /\ UNCHANGED <<tokens, buckets>>

TakeDone(c) == calls[c].todo = <<>>

InSet(sc) == {b \in buckets : b[1] = sc}

\* BucketSet.take: nothing is stale (lastUse is not in the future), so a set
\* that is over MaxBuckets stays so and there is no bucket, for a known key
\* either.
BucketsFull(c) ==
    /\ ~TakeDone(c)
    /\ NextStep(c)[2] = 0
    /\ Cardinality(InSet(NextStep(c)[1])) > MaxBuckets

\* BucketSet.take: the bucket is made unless it is there.
TakeBucket(c) ==
    LET l == LimiterAt(c, NextStep(c))
    IN
    /\ ~TakeDone(c)
    /\ l[3] = 0
    /\ ~BucketsFull(c)
    /\ buckets' = buckets \cup {<<l[1], l[2]>>}
    /\ calls' = [calls EXCEPT ![c].todo = Tail(@)]
    /\ UNCHANGED tokens

\* MultiLimit.TakeContext: the next limiter of the list.
TakeOne(c) ==
    LET l == LimiterAt(c, NextStep(c))
    IN
    /\ ~TakeDone(c)
    /\ l[3] > 0
    /\ HasRoom(l)
    /\ tokens' = IF Size(l) = 0 THEN tokens
                 ELSE [tokens EXCEPT ![l] =
                          IF Kind(l) = "rate" THEN @ - 1 ELSE @ + 1]
    /\ calls' = [calls EXCEPT ![c].todo = Tail(@)]
    /\ UNCHANGED buckets

\* Mutant: the limiters of the remote address are kept.
GivesBackSome == [all |-> {}, ip |-> {"all"}, source |-> {"all"}]

\* The scopes TakeMsg releases when the take in a scope fails.
GivesBack == [all |-> {}, ip |-> {"all"}, source |-> {"all", "ip"}]

\* The context is done while c waits: MultiLimit returns what it took of its
\* own list, TakeMsg what it took before.
TakeTimeout(c) ==
    LET at == LimiterAt(c, NextStep(c))
        own == {l \in Limiters : l[1] = at[1] /\ l[2] = at[2] /\ l[3] < at[3]}
        before == {l \in Limiters :
                     /\ l[1] \in GivesBack[at[1]]
                     /\ l[2] = KeyIn(l[1], calls[c].ip, calls[c].dom)}
    IN
    /\ ~TakeDone(c)
    /\ at[3] > 0
    /\ Size(at) > 0
    /\ tokens' = Released(own \cup before)
    /\ calls' = [calls EXCEPT ![c] = NoCall]
    /\ UNCHANGED buckets

\* TakeMsg calls ip.Release although the ip scope has no BucketSet.
NilBucketSet(c) == NextStep(c)[1] = "source" /\ IpL = <<>>

\* ReleaseMsg: a BucketSet ignores a key it does not have.
ReleaseMsg(ip, dom) ==
    /\ tokens' = Released(
           {l \in Limiters : /\ l[2] = KeyIn(l[1], ip, dom)
                             /\ l[1] # "all" => <<l[1], l[2]>> \in buckets})
    /\ UNCHANGED buckets

\* Rate.fill puts a token back.
Fill(l) ==
    /\ Kind(l) = "rate"
    /\ tokens[l] < Size(l)
    /\ tokens' = [tokens EXCEPT ![l] = @ + 1]
    /\ UNCHANGED <<buckets, calls>>

\* What c has taken in a call that has not returned.
Taking(c) ==
    {LimiterAt(c, step) :
        step \in {p \in Steps : /\ ~TakeDone(c)
                                /\ p[2] > 0
                                /\ \A i \in DOMAIN calls[c].todo :
                                        calls[c].todo[i] # p}}
=============================================================================
