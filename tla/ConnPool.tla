------------------------------ MODULE ConnPool ------------------------------
(***************************************************************************)
(* internal/smtpconn/pool: idle connections, a bounded channel of them for *)
(* each key.  keysLock protects the map of channels, not the channels: a   *)
(* caller of Get that has looked up a channel goes on reading it while     *)
(* others drop it.  The clock is left out: a channel grows old at any time *)
(* (its lastUse is set once, when it is made: Return assigns to a copy).   *)
(***************************************************************************)
EXTENDS Naturals, Sequences, FiniteSets

CONSTANTS
    Keys,           \* keys: the recipients' domains
    Conns,          \* connections, as many as are ever open at a time
    Chans,          \* channels, as many as are ever referred to at a time
    NoChan,         \* no channel
    MaxKeys,        \* Config.MaxKeys
    MaxConnsPerKey  \* Config.MaxConnsPerKey

ASSUME PoolAssumption ==
    /\ NoChan \notin Chans
    /\ MaxKeys \in Nat /\ MaxConnsPerKey \in Nat \ {0}
    /\ IsFiniteSet(Conns) /\ IsFiniteSet(Chans) /\ IsFiniteSet(Keys)

VARIABLES
    keys,       \* p.keys: the channel of each key
    chan,       \* the connections in each channel
    aged,       \* channels older than MaxConnLifetimeSec
    poolClosed, \* Close was called: p.keys is nil
    live,       \* connections that are open and that somebody refers to
    dropped     \* connections that are open and that nobody refers to

poolVars == <<keys, chan, aged, poolClosed, dropped>>

PoolTypeOK ==
    /\ keys \in [Keys -> Chans \cup {NoChan}]
    /\ chan \in [Chans -> Seq(Conns)]
    /\ aged \subseteq Chans
    /\ poolClosed \in BOOLEAN
    /\ live \subseteq Conns
    /\ dropped \subseteq Conns

PoolInit ==
    /\ keys = [k \in Keys |-> NoChan]
    /\ chan = [b \in Chans |-> <<>>]
    /\ aged = {}
    /\ poolClosed = FALSE
    /\ live = {}
    /\ dropped = {}

InChan(b) == {chan[b][i] : i \in DOMAIN chan[b]}
Pooled == UNION {InChan(b) : b \in Chans}

\* Keys with a channel.
Used == {k \in Keys : keys[k] # NoChan}

\* Keys whose channel may be dropped as stale.
Stale == {k \in Used : keys[k] \in aged}

-----------------------------------------------------------------------------
\* Time passes.
Age(b) ==
    /\ b \in {keys[k] : k \in Used} \ aged
    /\ aged' = aged \cup {b}
    /\ UNCHANGED <<keys, chan, poolClosed, live, dropped>>

\* The channels of some keys are closed, with the connections in them.
DropKeys(K) ==
    /\ keys' = [k \in Keys |-> IF k \in K THEN NoChan ELSE keys[k]]
    /\ chan' = [b \in Chans |-> IF \E k \in K : keys[k] = b
                                THEN <<>> ELSE chan[b]]
    /\ aged' = aged \ {keys[k] : k \in K}
    /\ live' = live \ UNION {InChan(keys[k]) : k \in K}

\* CleanUp, called every minute: StaleKeyLifetimeSec is the longer time, so
\* that not every aged channel is dropped.
CleanUp ==
    /\ ~poolClosed
    /\ \E K \in SUBSET Stale : K # {} /\ DropKeys(K)
    /\ UNCHANGED <<poolClosed, dropped>>

\* Close.
ClosePool ==
    /\ ~poolClosed
    /\ poolClosed' = TRUE
    /\ DropKeys(Used)
    /\ UNCHANGED dropped

\* Get under the lock: the channel to read, and whether it was dropped, in
\* which case the caller closes the connections in it, after the unlock.
LookUp(k) == keys[k]
Expired(k) == keys[k] # NoChan /\ keys[k] \in aged
Forget(k) ==
    /\ keys' = [keys EXCEPT ![k] = NoChan]
    /\ aged' = aged \ {keys[k]}
    /\ UNCHANGED <<chan, poolClosed, dropped>>

\* Mutant: the connection is looked at and stays in the channel.
ReceiveKeeps(b) == UNCHANGED chan

\* A receive from a channel that has a connection.
Receive(b) == chan' = [chan EXCEPT ![b] = Tail(@)]

\* The last reference to a connection goes, and nobody has closed it.
Drop(c) ==
    /\ live' = live \ {c}
    /\ dropped' = dropped \cup {c}

\* Go's garbage collector finds it: the finalizer of its socket closes it.
Collect(c) ==
    /\ c \in dropped
    /\ dropped' = dropped \ {c}
    /\ UNCHANGED <<keys, chan, aged, poolClosed, live>>

\* Return, of a connection that is usable: it is kept, closed because the
\* channel is full, or (after Close) dropped.  A new key when there are MaxKeys
\* of them has stale ones closed first.  refs: the channels callers of Get
\* still read.
ReturnTo(b, c) ==
    IF Len(chan[b]) < MaxConnsPerKey
    THEN chan' = [chan EXCEPT ![b] = Append(@, c)] /\ UNCHANGED live
    ELSE live' = live \ {c} /\ UNCHANGED chan

Return(k, c, refs) ==
    \/ /\ poolClosed
       /\ Drop(c)
       /\ UNCHANGED <<keys, chan, aged, poolClosed>>
    \/ /\ ~poolClosed
       /\ keys[k] # NoChan
       /\ ReturnTo(keys[k], c)
       /\ UNCHANGED <<keys, aged, poolClosed, dropped>>
    \/ /\ ~poolClosed
       /\ keys[k] = NoChan
       /\ \E b \in Chans \ (refs \cup {keys[j] : j \in Used}) :
          \E K \in IF Cardinality(Used) = MaxKeys THEN SUBSET Stale ELSE {{}} :
             /\ chan[b] = <<>>
             /\ keys' = [j \in Keys |-> IF j = k THEN b
                                        ELSE IF j \in K THEN NoChan
                                        ELSE keys[j]]
             /\ chan' = [x \in Chans |->
                            IF x = b THEN <<c>>
                            ELSE IF \E j \in K : keys[j] = x THEN <<>>
                            ELSE chan[x]]
             /\ live' = live \ UNION {InChan(keys[j]) : j \in K}
             /\ aged' = aged \ {keys[j] : j \in K}
             /\ UNCHANGED <<poolClosed, dropped>>
=============================================================================
