# maddy: a TLA+ verification project

maddy is a mail server: it accepts messages over SMTP, LMTP and submission,
runs checks and modifiers on them, routes them through a configurable pipeline,
stores them in an SQL-backed IMAP store or sends them to other servers, and
keeps what cannot be delivered at once in an on-disk queue.

This directory holds TLA+ modules translated from the Go source, TLC
configurations that check them on small instances, and TLAPS proofs of the
properties that matter most. `PROJECT.json` maps each definition to the lines
it models, lists the runs, the mutants (plausible bugs that each property must
detect), the findings, the hazards and the theorems.

    tlc -config QueueFaults.cfg MCQueue      # a run: config, module
    tlapm QueueProofs.tla                    # a proof module

## 1. Inventory

### The parts and how they interact

    client -> SMTP endpoint -> limits
                    |
                    v
            message pipeline -> checks, modifiers, tables, DMARC
                    |
        +-----------+--------------+------------------+
        v           v              v                  v
     queue      IMAP storage   remote target   SMTP/LMTP downstream
     | time wheel   | update      | MX policies, connection pool, limits
     | files        |   pipe      v
     v              v          other servers
    remote target  IMAP endpoint

A delivery target is anything with `Start`, and a delivery anything with
`AddRcpt`, `Body` (or `BodyNonAtomic`), `Commit` and `Abort`
(framework/module/delivery_target.go). The pipeline is one itself, and so is the
queue, so these calls are the interface between most parts.

| Part | State | Operations | What is hard | What makes it correct |
|---|---|---|---|---|
| Time wheel | list of slots, `stopped`, two unbuffered channels, the goroutine `tick` | `Add`, `Close`, dispatch callback | Add, tick and Close interleave; the channel is closed under senders | a slot is dispatched once, in order, not after Close; nobody blocks for ever |
| Queue | three files per message, slots, delivery goroutines, semaphore, wait group | `Start` ... `Commit`/`Abort`, `dispatch`, `tryDelivery`, `emitDSN`, `Close`, `readDiskQueue` | crashes between file operations, partial results, panics, shutdown against requeueing | no accepted recipient is lost, retried without end, or settled twice |
| SMTP session | delivery, sender, stored error, `msgLock`, session count | `NewSession`, `AuthPlain`, `Mail`, `Rcpt`, `Data`, `Reset`, `Logout` | deferred rejects, Logout from another goroutine, panics | limits taken are released once, no delivery without authentication, a delivery is ended, errors belong to their transaction |
| Limits | semaphores, token buckets, bucket sets per key | `TakeMsg`, `ReleaseMsg`, `TakeDest`, `ReleaseDest` | partial rollback, waits with a time-out, bucket sets at their size | balance, the bound holds, no wait for ever |
| Message pipeline | states of checks and modifiers, recipient blocks, deliveries | `Start`, `AddRcpt`, `Body`, `Commit`, `Abort` | checks run concurrently and merge results; several targets, one of which fails | every check sees every recipient once, states are closed once, all or no target commits |
| Remote target | a connection per domain, limits held, errors | `AddRcpt`, `BodyNonAtomic`, `Close` | TLS fall-back, policies, pooled connections, concurrency per domain | security level never below the policy, limits and connections returned |
| Connection pool | map of channels of connections | `Get`, `Return`, `CleanUp`, `Close` | races of the three | a connection has one owner or is closed |
| Downstream target | one connection, the answers so far | as the remote target | several endpoints, LMTP's answer per recipient, lost answers, retries of the queue | what is told as delivered is held; no copy without need; require_tls holds for the endpoint that is used |
| IMAP storage | accounts, mailboxes, copies, quotas; one transaction per delivery | `AddRcpt`, `Body`, `Commit`, `Abort`; IMAP sessions; maddy commands; REST requests | quota read before the transaction; several addresses per account; accounts that come and go | one copy per account, all at once; over quota only when raced |
| Update pipe | sockets or NOTIFY, own identity, channels | `Push`, `Listen`, `Subscribe`, `Close` | two processes, restart, full channels, own updates | updates are applied once, on their way, or lost to a fault; they arrive |
| Checks, DMARC | a state per check and message, background look-ups | `CheckConnection`, `CheckSender`, `CheckRcpt`, `CheckBody`; `FetchRecord`, `Apply` | run concurrently, merge results, wait for background results | objections are heeded; SPF and DMARC do not each leave it to the other; no stage waits for ever |
| Configuration, process | registry of modules, hooks, signal channels, the reloader of table.file | start, initialisation on reference, signals, reload, shutdown | order of initialisation and shutdown; signal against shutdown | users are closed before what they use; the process ends; a reload installs the file as it is |
| Modifiers, authentication, TLS, other tables | mostly a request and an answer | | time-outs | see section 6 |

The `components` list of `PROJECT.json` names the files of each part and says
whether it is modelled. The `hazards` list gives, line by line, what can go
wrong there that a test would hardly reach, and the property that would notice.

## 2. Plan

The order was: queue and wheel (what must not lose mail), SMTP session and
limits, message pipeline, remote target, then storage with the update pipe,
process and configuration, checks with DMARC, and the downstream target. All of
them are modelled. What composes what:

    WheelContract <-(refines)- TimeWheel        Queue uses the contract
    Limits        <- SmtpSession
    MxAuth, ConnPool <- Remote
    UpdatePipe    <- Storage
    ConfigMap     <- Process
    CheckResult   <- Checks

What is left, in order of importance:

1. **A Delivery contract** (Start, AddRcpt, Body, Commit/Abort) as an abstract
   specification that the pipeline, the queue's source side, the storage's
   delivery and the downstream target implement.
2. **The rest of partly modelled parts**: the MTA-STS cache and its updater,
   submission's header preparation, block matching of the pipeline's
   configuration, LDAP's shared connection, certificate reload.

## 3. Modules

### TimeWheel, WheelContract (internal/target/queue/timewheel.go)

Callers of `Add`, the goroutine `tick` and the caller of `Close` are three kinds
of processes with program counters `adder`, `tick` and `closer`. Each action is
one atomic step of the code: the load of `stopped` (`AddCheck`), the push under
the lock (`AddPush`), the send on `updateNotify` together with the receive in
one of tick's selects (`AddNotify`) or the panic of a send on the closed channel
(`AddPanic`); the scan (`TickScan`) and the timer (`TickFire`); the four steps of
`Close`. The clock is a bounded number; time 0 is `time.Time{}`, which is due
always. `order` is the position in the list.

`WheelContract` is what the queue relies on: accept, fire at most once, stop.
`TimeWheel` implements it (`ContractSpec`).

### Queue (internal/target/queue/queue.go)

Sources (`src`, `to`) hand messages in; the directory (`headers`, `bodies`,
`metas`, `metaOf`, `broken`) outlives the process; `proc` is the process with
the steps of `Close`; `slots` is the wheel by its contract; `pc` and `job` are
the delivery goroutines with the local variables of `tryDelivery` and `deliver`.
`attempts`, `delivered`, `gaveUp` and `dsn` are history.

| Actions | Code |
|---|---|
| `Start`, `AddRcpt`, `StoreHeader`, `StoreBody`, `StoreMeta`, `StoreSync`, `Abort`, `AbortRemove`, `Commit`, `CommitPush`, `CommitNotify` | queueDelivery, storeNewMessage, removeFromDisk |
| `Dispatch`, `Acquire`, `Open`, `Release`, `Recover`, `DiscardBroken` | dispatch, openMessage, discardBroken |
| `Attempt`, `RcptTo`, `Body`, `TargetCommit`, `TargetPanics` | deliver, and the target's answers |
| `Settle`, `EmitDSN`, `UpdateMeta`, `Requeue`, `RemoveFromDisk` | tryDelivery, emitDSN, updateMetadataOnDisk |
| `Close`, `Exit`, `Crash`, `Restart`, `ReadEntry`, `Started` | Close, start, readDiskQueue, the supervisor |

Each file operation is a step that may fail; a crash may come between any two.
A fault is counted in `faults`, so that properties can say how much each fault
may cost. Headers and bodies are present or absent; a DSN is the fact that it
was sent.

### Limits, SmtpSession (internal/limits, internal/endpoint/smtp)

`Limits` keeps the number of elements in the channel of each limiter, the keys of
the bucket sets, and how far each `TakeMsg` call has come. A call takes one
limiter at a time (`TakeOne`), creates buckets (`TakeBucket`), and may time out
at any of them (`TakeTimeout`), which releases what `MultiLimit` and `TakeMsg`
release. `Fill` is the refill goroutine of a rate limiter.

`SmtpSession` extends it with the sessions of one or more endpoints that share
the limits: NewSession, AUTH, MAIL, RCPT, DATA (with LMTP's variant), RSET,
Logout, panics. Which command may come when, the call of Reset after DATA and of
Logout after a panic are go-smtp's, modelled from how the endpoint relies on it.
`Logout` may run while a command waits for `msgLock`. The message pipeline is
represented by the results its methods may return. An address is its domain, as
spelt by the client; `CleanDomain` is the normalisation. The constant
`Deferred` is `defer_sender_reject`, `AuthRequired` `authAlwaysRequired`, per
session, so that two differently configured endpoints meet in one run.

### MsgPipeline (internal/msgpipeline, internal/modify/group.go)

One message from `Start` to `Commit` or `Abort`, called by a source that keeps
to the order module.Delivery prescribes. `phase` is the method that runs, or
what came of the last one; `todo` is the list of steps the method still has to
take. A step may put others in front of the list (`CheckStates` adds the replay,
`Route` the steps of the recipient block), and `Fail` drops the rest of it. One
step of the list is one call or one loop of the code; an address that goes to
a target (`PassOn`) and the body checks of a block (`CheckBodyIn`) are steps of
their own, since each may fail with the ones before it done.

| Variables | Code |
|---|---|
| `stored`, `closes`, `seen`, `checked`, `quarantine` | checkRunner: `states`, Close calls on them, `checkedRcptsPerCheck`, `checkedRcpts`, `mergedRes.Quarantine` |
| `mods`, `modCloses`, `dropped` | the modifier states of the delivery, Close calls on them, those lost without one |
| `dlv`, `got`, `recips`, `orig`, `metaQ` | `deliveries` and how far each is, the addresses a target accepted, `recipients`, `OriginalRcpts`, `msgMeta.Quarantine` |

The checks of a list run in parallel goroutines that the caller waits for; each
touches only the entries of its own check, so a parallel run is one step with
any combination of results. "pass" stands for no action, for an action that is
only logged and for a check that panics, which have the same effect. Which block
an address matches and what the modifiers make of it are constants; a failed
look-up in a `destination_in` table, which the code skips, is a choice among
several blocks. Go's random order of maps is a choice of an order (`Orders`).
Authentication results and header fields are left out; DMARC is its verdict.

### MxAuth, ConnPool, Remote (internal/target/remote, internal/smtpconn)

`MxAuth` has no state. Its first half is the code: `Connect` (STARTTLS with
verification, without, plain text), `DiscoverTLSA` and `VerifyDANE`, the
`CheckMX` and `CheckConn` of each policy, one after the other (`Consider` merges
one verdict into those before it), and `Attempt`, which is attemptMX. Its
second half says what docs/seclevels.md promises: `ServerAuthenticated`,
`MXAuthenticated`, `Meets` (what the configured policies ask of a connection) and
`Strong` (what REQUIRETLS asks). `Outcomes` evaluates `Attempt` for every
combination of answers of the DNS, the policy and the server, and keeps of each
what the code concludes (`secure`) next to what is true (`meets`, `strong`).

`ConnPool` is the pool: `keys` maps a domain to a channel, `chan` is what is in
each. The lock protects the map only, so a Get that has looked up a channel
(`ref`) goes on reading it after others have dropped it.

`Remote` extends both with deliveries that handle one message after another:
`pc` is the place in AddRcpt, BodyNonAtomic or Close, `conns` the connections per
domain, `hand` the one that connectionForDomain has not yet stored, `dest` the
destination limits. A connection is what `mxConn` and `smtpconn.C` remember of
it; C may have a client although it is closed, since Close keeps it when QUIT
fails, and newConn then returns it. `tagged` is what the sender asked for and
`requireTLS` what msgMeta says by now; `lifted` are the domains that had no
connection yet when a server without the extension turned it off. A message
waives the policies (`Waives`) with "TLS-Required: No", and `waived` marks the
connections opened for such a message. `destLost` counts the limits that a failed
MAIL leaves taken, and `dropped` are the connections that the code forgets while
they are open (Return to a closed pool, a pooled connection that a message with
REQUIRETLS does not use); `Collect` is their end at the garbage collector's or the
server's hands.

| Actions | Code |
|---|---|
| `Start`, `AddRcpt`, `Rcpt` | Start, AddRcpt, C.Rcpt |
| `PoolGet`, `PoolDrain`, `PoolPop`, `CleanUp`, `ClosePool`, `Age` | the pool, and time |
| `LookupMX`, `AttemptMX` | newConn, lookupMX, attemptMX |
| `CheckLevels`, `TakeDest`, `TakeDestTimeout`, `Mail` | the rest of connectionForDomain |
| `Body`, `Send`, `BodyDone` | BodyNonAtomic and its goroutines |
| `Close`, `CloseConn`, `Closed` | Commit, Abort, Close |

### UpdatePipe, Storage (internal/updatepipe, internal/storage/imapsql, internal/cli/ctl, REST API, IMAP endpoint)

`UpdatePipe` has two processes, the server and a run of the maddy command. A
change of a mailbox goes from the UpdateManager into the channel `outbound`, is
taken by the goroutine of EnableUpdatePipe (`pushing`), written to the socket or
to NOTIFY (`wire`), read by the server into `inbound` and applied. `driver`
chooses between UnixSockPipe and PubSubPipe; `sock` is the socket file, which a
crash leaves behind. `owed` counts the command's updates that the server has not
applied, and `lost` those that a fault (a server that has gone, a broken
connection, a mailbox nobody listens for) has dropped.

`Storage` extends it with the database and everything that works on it. A
delivery is AddRcpt (with deduplication by account), the quota check and the
store as separate steps of Body, and Commit or Abort; the subcommands of
imap-mboxes, imap-msgs and imap-acct open the storage, look up, change and close;
a REST request for a user is the steps the handler takes one after another.
go-imap-sql is external: an account has mailboxes, a mailbox has copies, and a
delivery is one transaction. The server may stop, crash and start again.

| Actions | Code |
|---|---|
| `Start`, `AddRcpt`, `Body`, `BodyCheckQuota`, `BodyStore`, `Commit`, `Abort` | imapsql/delivery.go, quota.go |
| `CliOpen`, `CliLookup`, `Mboxes...`, `Msgs...`, `ImapAcct...`, `CliClose` | cli/ctl/imap.go, imapacct.go, moduleinit.go |
| `ApiCall`, `ApiAddKey`, `ApiCreateAccount`, `ApiCreateMailboxes`, `ApiDelete`, `ApiSetUserQuota` | users.go, imapAccounts.go, quota.go, api.go |
| `Login`, `Select`, `ClientChange`, `Logout`, `ServerStart`, `ServerStop` | endpoint/imap/imap.go, Storage.Init and Close, go-imap |
| `PipeGoes`, `PipeApplies`, `PipeReconnects` | EnableUpdatePipe and the pipes |

### ConfigMap, Process (framework/config/map.go, maddy.go, hooks, signals, table.file)

`ConfigMap` has no state: it says what the variables of a module become when its
block and the global directives are processed, with a conversion per kind of
directive (`IntOf` with the range of a signed or an unsigned number; a size or a
duration is not negative). A callback (`Callback` in map.go) may be given more
than once and keeps no value, so it is counted and not resolved (`Variables`). A
default is a value, nil or a function that fails. Sizes wrap around at the width
of an int, which is scaled down (`Kilo`, `IntMax`).

`Process` is one life of the server: `ReadGlobals`, `InitDirs`, `RegisterModule`
for each block, `InitEndpoint` (`cursor` is the place in the list of either
loop), and Init of modules as calls (`stack`) that call
Init of what they refer to by name (`GetInstance`) or define in place
(`InlineModule`); then the wait group, two generations of handleSignals
(`handler`, `chan`), the goroutine of the REST API, the hooks for reload and
shutdown, and the reloader of table.file, which stats, reads, stats again and
swaps (`ReloadStat`, `ReloadRead`, `ReloadCheck`, `ReloadSwap`). A version of the
file is its time of modification, and `stamp` is that of the version loaded
(`mStamp`); the administrator removes the file, writes it, or puts an older one
in its place at any time. Opening and reading the file is one step. The shutdown
hooks are a list that `RunHook` takes from its end.

`ConfigAssumption` says what the parser delivers (lists of blocks, one block to a
name, an inline block for each place that defines one) and `MatcherAssumption`
what the calls of `Custom` look like: one matcher to a name, and a directive that
modules inherit has the same form in ReadGlobals, without a default there if some
module requires it.

### CheckResult, Checks (internal/check, internal/dmarc, check_runner.go)

`CheckResult` has the verdicts, the fail actions and DMARC: the look-up of the
record, alignment, the policy. `Checks` runs one message through two groups of
checks (global, source block). `pending` are the checks of the group that have
not returned; each returns in a step of its own and merges its result
(`Merge`), so every order of answers occurs. DNS blocklists are asked in
parallel when the client connects; SPF, the reverse name and the DMARC record are
goroutines with a channel each. The answers of DNS, milter, rspamd, the command
and tables are chosen freely; a panic is recovered as in runAndMergeResults.
`objections` and `authentic` remember what the checks really found, next to what
became of it. `ConfAssumption` and `MessageAssumption` type the configurations
and the messages: finite sets of lists with integer scores, fail actions, From
fields and signatures.

`MsgPipeline` and `Checks` both have the check runner: the first for how states
are kept, shared and replayed over blocks and recipients, with checks that are
only results; the second for what the checks do in a group.

### Downstream (internal/target/smtp, internal/smtpconn, and the queue's attempt)

`pc` walks through connect (each endpoint: dial, greeting, STARTTLS, the
require_tls test), SASL, MAIL, RCPT, Body or BodyNonAtomic, Commit or Abort, and
through the parts of Queue.tryDelivery that call them, for up to `MaxTries`
attempts. `link` is what smtpconn.C knows of its connection: with TLS, with
SMTPUTF8, lost, or in the middle of the data. `errs` is the queue's partialError,
by the name the error was set for, and `told` what it concludes. Servers answer
each command or lose the connection before or after they have taken the message
(`copies`, `cut` for half a message). A lost connection is a temporary error, or
a permanent one over TLS, whose errors say so (`LostClasses`). `lmtpError` has
one entry per name on the wire, so recipients sent under one name share it. `clear` is what went over a connection
without TLS, `repeats` who was sent a copy again for a known reason.

## 4. Runs

| Run | Shows |
|---|---|
| TimeWheel | three Add calls against tick and Close: `Accounted`, `NoOvertaking`, `SilentAfterClose`, `ContractSpec`, and the liveness properties `EventuallyDispatched`, `WheelCloseReturns` |
| QueueFaults | `NoLoss`, `AttemptsBounded`, `OneOutcome`, `AbortedNotDelivered` through any two faults and a shutdown |
| QueueLiveness | `EventuallySettled`, `CloseReturns` under fairness, with the null sender and a target without partial results |
| SmtpSession | `LimitsBalanced`, `AuthBeforeDelivery`, `CommandAnswered` for two sessions |
| Pipeline | `CheckedBeforePassed` (recipients and bodies), `AcceptedIsHeld`, `NothingLeftOpen`, `AllOrNone`, `FailuresTold` with a failure possible at every step |
| Remote | `PoliciesHold`, `REQUIRETLSHonoured`, `OneOwner`, `DestBalanced`, `EachIsTold`, `CallGoesOn` for two deliveries that share pool and limits |
| Storage | `UpdatesConserved`, `UpdatesArrive`, `OneCopyEach`, `QuotaOnlyRaced` for two deliveries and any two things that users and administrators do |
| Process | `ClosedInOrder`, `DirectivesResolve`, `ShutdownEnds`, `TableConsistent` for sixteen configurations and two signals |
| Checks | `ObjectionsHeeded`, `UnalignedHeld`, `StagesEnd` for nine configurations and nine messages |
| Downstream | `ToldIsHeld`, `NoNeedlessCopy`, `TLSRequired` for nine configurations and two attempts |
| QueueRequeue, ChecksTwice | counterexamples, one per finding (section 7) |

`TypeOK` says what the variables of a module hold; for the wheel, the queue, the
pipeline, the remote and the downstream target it is proved. Each property has a
mutant: a definition of the model changed the way a bug in that code might change
it, for which TLC finds the property violated. The inductive invariants of
section 5 were model-checked on the instances of these runs before they were
proved.

### Bounds and why they are enough

- TimeWheel: three Add calls, times 0..2. One slot tick waits for, one that
  arrives, one to be overtaken; three times allow earlier, equal and later.
- QueueFaults: one message, two recipients (so that an attempt can have mixed
  results), two goroutines and `max_parallelism` 1 (so that one waits on the
  semaphore while the other holds it), `max_tries` 3 (a first, a middle and a
  last try), two faults (a fault during the recovery from another), one orderly
  shutdown. Messages share only the semaphore, the wheel and the wait group; the
  proof of `NoLoss` covers any number of them. Recipients, goroutines and
  messages are interchangeable, which the symmetry set uses.
- QueueLiveness: `max_tries` 2, one fault, one shutdown, no symmetry. The
  unspecified error, which counts as temporary, and the permanent one.
- SmtpSession: two sessions from one remote address, so that they compete in all
  three scopes; s1 defers and requires authentication, s2 does neither. Sizes
  are 2 (all), 2 plus a rate of 1 (ip) and 1 (source): the inner scope is the
  tight one, so that the outer ones have to be rolled back. `MaxBuckets` 1 with
  two sender domains makes a bucket set exceed its limit. The sender of s2 spells
  its domain canonically; section 7 says what happens otherwise.
- Pipeline: three checks, one of the pipeline, one of the source block that a
  recipient block uses too, and one of both recipient blocks, so that states are
  old, new and shared; two recipients, one of them an alias for two addresses
  that go to different blocks, one of which rewrites again; two targets, one with
  partial results, both behind one block; a block that rejects. Three AddRcpt
  calls are the least for an address to be repeated after another one was
  replayed. No two recipients are rewritten to one address (section 7 says what
  happens then).

- Remote: two deliveries, each of any number of messages, two domains with a
  recipient each, two connections, one place per channel and per destination, two
  MX records: enough for a channel to be dropped while it is read, for a full
  channel, for a connection to be reused once and then retired, and for two
  deliveries to hold one destination each and want the other. All four policies
  are configured, with the default levels. Domains (with their recipients),
  connections, channels and deliveries are interchangeable. All addresses are
  ASCII; section 7 says what happens otherwise. Both
  relaxed_requiretls and requiretls_override are off: they make connections differ
  in what they were accepted under, which takes more states than two deliveries
  leave room for. With both on, as they are by default, `PoliciesHold` and
  `REQUIRETLSHonoured` were checked for one delivery, whose messages meet in the
  pool (196235 states), and they are proved for either value of both options and
  any number of deliveries.
- Storage: two accounts in two domains, one with two addresses, and a recipient
  that does not exist; two deliveries that meet in one account with a quota of
  one message; two events of users and administrators besides (a login, a
  command, a request, a stop or crash), with room for two updates in a channel
  and one on the wire, so that senders have to wait. Both databases.
- Process: two endpoints, a pipeline with an inline check, a table and a storage
  that both endpoints share; a configuration that is right, a smaller one with
  the REST API, and ones with a missing, repeated, malformed or unknown directive, a
  missing, unused or unknown block, a clashing alias, a default that is nil or
  fails, a negative number, a callback repeated or refused. Two signals: one to
  stop and one more, or a reload and a stop. The table's file is changed once, to a
  newer or to an older version, and removed at any time (`MaxChanges` 1; the proof
  covers any number).
- Checks: configurations that between them use every check, in one group and in
  two, with and without early enforcement, DMARC, fail_open; messages with
  aligned, unaligned, unparsable and missing senders (one for which the HELO name
  stands in), over TCP, a Unix socket and from the server itself; up to two recipients.
- Downstream: an endpoint with implicit TLS before one without; ASCII recipients,
  one that can be converted and one that cannot; up to three recipients, the
  least for an LMTP server to accept one, refuse one and lose the third. Two
  attempts: a retry, and what came of it. The configurations in which a converted
  recipient has an answer of its own, or shares one, are left out (section 7).

No run checks for deadlock: in each of them everything can be finished - all Add
calls returned and the wheel closed, all messages settled and no fault or
shutdown left, all sessions closed, the message committed or aborted, the process
exited - and none of these
states is an error. That nobody is stuck earlier is what the liveness properties
and `CallGoesOn` say.

### Fairness

Weak fairness, but for one place. Go's scheduler runs every goroutine that can run; a `select`
with a ready case takes it; time passes. In the queue: delivery goroutines and
tick make progress (the target's methods and the bounce pipeline return: their
connections have time-outs), a Commit that was begun continues, a Close that was
begun continues, and the supervisor restarts a process that is gone. In the
sessions: the goroutine that serves a command goes on, and the context of
TakeMsg ends after 5 seconds. In the storage: the goroutines of the pipe run. In
the checks: look-ups and services answer or time out. In the process: every
goroutine runs, and a hook that waits to send to the reloader of table.file is
served in the end although ticks compete with it (strong fairness of `RunHook`
and `ReloadHook`): Go's select chooses at random among its ready cases, and
ticks come 15 seconds apart. Nothing is assumed of clients, of the
administrator, of faults or of the refill of tokens.

## 5. Proofs

For every value of the constants, from the assumptions stated with them (finite
sets, natural bounds, well-typed tables).

There are eight proof modules.

**QueueProofs, the wheel.** `WheelInvariance` proves the inductive invariant:
types; a slot is in the list or dispatched exactly when its Add call has pushed it,
one slot per call, never both (`WheelSlotsInv`); while tick waits, the slot it
waits for is in the list, is the first of those with its time, and no slot whose
Add has returned is due earlier (`WheelWaitInv`); tick is gone once it has answered
Close (`WheelCloseInv`). From it follow `WheelTypeCorrect`, `WheelAccounted`,
`WheelNoOvertaking`, `WheelSilentAfterClose` and `WheelImplements`, the refinement
of `WheelContract`. NoOvertaking needs WheelWaitInv: the timer's slot was closest
at the time of the scan, and the property speaks about the time it fires. The
module extends both specifications, so the names that both have begin with Wheel
in `TimeWheel`.

**QueueProofs, nothing is lost.** `TypeCorrect`, `Invariance` and `NoLossHolds`. NoLoss is not
inductive as it stands: when a goroutine rewrites the meta-data or removes the
files, what it leaves out must have been settled, and only its local variables
tell. The invariant is `TypeOK /\ OwnInv /\ MetaInv /\ FileInv /\ WorkInv`:
a message whose source has not committed it is in no slot, no goroutine and not
in the boot list (`OwnInv`); the meta-data file names every recipient that is not
settled (`MetaInv`); which files exist at each place of the source, and that they
are complete until everything is settled (`FileInv`); and, for each place in
tryDelivery and deliver, that every recipient of the message is settled or still
in one of the goroutine's lists, and that one without an error was given to the
target (`WorkInv`). It holds for any number of faults, shutdowns, messages and
goroutines.

**QueueProofs, outcomes.** `AttemptsHold`, `OneOutcomeHolds` and `AbortedHolds`. How
often a recipient was tried is known to the meta-data file, to the slot in memory
and to the goroutine that works on it, and they differ between the attempt and
the rewriting of the file. `OInv` says where the message is (`PlaceInv`: one slot,
one goroutine or the boot list, and no two of them), what the meta-data file
records of a recipient next to its history (`RecordInv`), that a message whose
source has not committed, or that the wheel has in memory, is untouched
(`FreshInv`), what a goroutine has spent of a recipient's tries and outcomes at
each place of tryDelivery and deliver (`SpentInv`), and the bounds themselves
(`CountInv`): what nobody has recorded is paid for by a fault. The first two theorems assume a source that
passes an address once (`~Repeats`) and AttemptsHold a limit that is not 0;
section 7 says what happens otherwise. `AbortedHolds` assumes nothing: an aborted
message is in no slot and no goroutine, and in the directory only if a removal
failed (`AbortInv`).

**SmtpSessionProofs.** `AuthBeforeDeliveryHolds`. The property is about an open
delivery; the invariant `AuthInv` adds that a session which is past an accepted
MAIL (`Engaged`: an open transaction, a command that is taking limits, or a
delivery) has authenticated, and that nothing takes the authentication back
while it is. `LimitsBalancedHolds` is about numbers: each limiter holds one place
for each session that has taken it, so the invariant says what a session holds at
each place of TakeMsg. What is left of a call is an end of the list of its steps
(`WalkOf`), a session that takes limits has no delivery yet, and one with a
delivery knows the address it took them for (`StageOf`), and the buckets of what
is held exist (`BucketOf`); a step moves exactly one session across one limiter, and the number
of sessions that hold it changes by one. The hypothesis `SpeltClean` is that where
MAIL starts the delivery, senders spell their domain canonically (session.go:299,
section 7).

**MsgPipelineProofs.** `TypeCorrect`, and the five properties of the run for any
configuration of checks, blocks, modifiers and targets, with failures at every
step. `todo` is data, so the invariants say what the rest of a list still
contains: every step has the checks it relies on in front of it or behind it
(`OrderInv`), no target has the body before the source passes it (`EarlyInv`),
bodies are checked, marked and then passed in this order (`BodyInv`), a method
that ends the delivery closes the states first, whatever fails after (`CloseInv`),
an address that was accepted has reached the
targets of its block or they are still in the list (`HoldInv`), original names
survive both rewritings (`NameInv`), and each target that was started gets the
body, or the recipients it has a status, and is then committed or aborted
(`OutcomeInv`). Only `FailuresReported` has a hypothesis: no two recipients are
rewritten to one address (`NamesApart`; OriginalRcpts holds one name for each,
section 7).

**RemoteProofs.** `TypeCorrect`, `OneOwnerHolds`, `PoliciesHeld`,
`REQUIRETLSHolds`, `EachIsToldHolds` and `DestBalancedHolds`. The invariant
`OwnInv` follows a connection through the places it can be: in a channel of the
pool, also one that was dropped from the map while a Get reads it, in the map of a
delivery, in the hand of connectionForDomain (`PlaceInv` says when), and in no two
of them (`PoolApart`, `HeldApart`); one that is open is in one of them or was
dropped (`LiveInv`), and a dropped one comes into nobody's hands again (`DropInv`).
`PolicyInv` and `RequireInv` carry what was true of a connection when it was
opened to the messages that use it later, from the lemma `OutcomesMean`: whatever
DNS, policies and servers answer, the level that attemptMX computes is one that
the connection has. `ToldInv` is about the recipients a goroutine of
BodyNonAtomic has still to report, and `Balance` about the destinations' limits,
one per connection in use and one per failed MAIL. All hold for every setting of
requiretls_override and relaxed_requiretls; `PoliciesHeld` and `REQUIRETLSHolds`
name the connections that the two let through (`waived`, `lifted`), and everything
else meets the policies or is strong. The one hypothesis is that of
`EachIsToldHolds`: addresses are sent as they were given (section 7).

**StorageProofs.** `UpdatesConservedHolds`: an update of the maddy command is
counted when it is reported and moved from place to place, so `PipeInv` adds to
the equation that the channels hold keys and that a command which runs is about an
account; the lemmas on `Count` say what appending, taking and joining do to it.
That the command closes only a flushed pipe, and that the server skips its own
updates, are what the proof needs of CliClose and Read. `OneCopyHolds` is an
action property: `CopyInv` says that a delivery has an account once or not at all
and that nobody has a copy of a message before its delivery has committed. The
commands, the sessions and the API copy and move only messages that are there, and
only `Commit` adds one. `QuotaHolds` is about numbers again. What an account uses
is the number of its copies (`Held` gives each one of its own), and `HeldOneMore`
says that Commit adds exactly one to it; for that a mailbox that does not exist
must be empty (`NoMail`), since Commit makes Junk when it has to. `QuotaInv` says
of every account that Body has looked at that it had room then (`HadRoom`), that
one that does not exist has no mailboxes, for CheckQuota lets it pass unlooked
(`NoBoxes`), and that the accounts of a transaction that is under way exist, since
DeleteAccount waits for it (`Kept`).

**DownstreamProofs.** `TypeCorrect`, `TLSKept`, `ToldHolds` and
`CopiesHaveReasons`. `Inv` links the connection to the place in the dialogue
(`LinkInv`: one that has been let through with require_tls has TLS), keeps the
recipients that were accepted apart from each other and from those to come
(`ListInv`) and bounds the copies by the attempts (`BoundInv`). What a caller is told is
known only after the answers have been matched with the recipients: `ToldInv`
says at each place of Body and BodyNonAtomic whose answer is out (`RcptInv`,
`CleanInv`), that one without an error is held by a server (`HeldInv`) and what a
further copy was caused by (`CopyInv`). The hypothesis `AnswersNamed` of the last
two is that LMTP answers come under the name the caller used, and that no two
recipients have one name on the wire (section 7).

**ProcessProofs.** `ClosedHolds`, `TableHolds` and `DirectivesHold`. The order of
Close is the order in which Init returned, backwards, so `LifeInv` follows the
calls of Init that are in progress: each was made by the one below it (`StackInv`),
what a call has already asked for has returned and stands before it in the list of
hooks (`OrderInv`), an inline module is called from one place only (`InlineInv`),
and the hooks that have run and those to come make up the list (`CloseInv`). The
hypothesis `Acyclic`, a rank that every reference lowers, is what excludes a call
of a module whose Init is in progress; without it GetInstance returns the module
unfinished (instances.go:82, section 7). `VersionInv` orders what the reloader has
seen, what it has read and what there is by the change that made them (`Change`),
for times may go back: no two versions have the same time, so two equal stats
enclose an unchanged file. `StoredInv` says that a running module has what
`ProcessWith` computes, and the rest is about that computation: `Processed` folds
the nodes of a block into the values, and what it holds for a directive after the
last node is an induction over the nodes.

**ChecksProofs.** `ObjectionsHold` and `UnalignedHold`. The verdict on a client is
a sum of scores in the order in which the lists answered, the property's a sum over
the lists that name it. The module begins with the sum of a function over a finite
set: the library's recursion has a solution, solutions agree, any element may be
taken out first (`SumSolves`, `SumAgrees`, `SumTake`), each by induction over the
size of the set. `BaseInv` then says that the score is the sum of the answers so far
(`ListInv`), that an objection is in what was merged, in the errors of the group
that runs, or ended the message (`HeedInv`), and what the channel of SPF holds
(`SpfShape`). `AuthInv` says when the results that DMARC looks at are there: those
of DKIM and of SPF after their call at the body (`Late`), that of an early SPF
after its call at the connection (`Early`), for either group of checks, and that a
result that passes is a real one and the record one that the domain publishes
(`FoundInv`). `NotAligned` and `AppliedPolicy` are the evaluation itself.

Induction over data. The library states induction with a predicate as parameter,
which the installed provers cannot instantiate. `SetInduction`, in both modules,
states it for a set instead, and is proved from the theorem that every non-empty
set of numbers has a least element (`WFMin`); a predicate becomes the set of the
numbers that satisfy it.

Only model-checked, since they are beyond the prover:

- liveness: `EventuallyDispatched`, `WheelCloseReturns`, `EventuallySettled`,
  `CloseReturns`, `CommandAnswered`, `UpdatesArrive`, `ShutdownEnds` and
  `StagesEnd` rest on fairness;
- `CallGoesOn` is about ENABLED.

Every other property of the passing runs has a theorem.

## 6. What is not modelled

- Power loss: a crash in `Queue` keeps what was written. The code syncs files,
  not the directory, and renames the meta-data before it syncs header and body;
  a model of the page cache would be needed to say what survives.
- Text: header fields, DSN and log wording, address syntax and Unicode, the
  lexer and parser of the configuration language, wire formats.
- Libraries: go-smtp, go-imap-sql, go-message, DNS, TLS, SQL and LDAP clients.
  What the code relies on is stated where it is used.
- Password verification (tables of hashes, LDAP, PAM, Dovecot, helpers): a request
  and an answer, which is an input of `SmtpSession`. LDAP's shared connection has
  state, and is left out.
- Modifiers: DKIM signing is cryptography on text; what address rewriting makes
  of an address is a constant of `MsgPipeline`.
- The tree of blocks that the pipeline's configuration builds at start: it is a
  constant of `MsgPipeline`.
- Blob stores, buffers, certificate loading, metrics, log rotation: I/O that no
  other part waits for.
- Delays: a slot may fire at any time in `Queue`; `TimeWheel` has the clock.
- Submission's header preparation, the listeners, the MTA-STS cache.

## 7. Findings

With a run:

- **QueueRequeue** `wheel.Add` can panic on its closed channel during an orderly
  shutdown, and the message is set aside as broken.
- **ChecksTwice** One check.spf used by two groups of checks is asked twice for
  the body, and the second call waits for ever.

Met while modelling, without a run of their own. In the sessions: the error of a
deferred start survives RSET and the next MAIL (session.go:346); a bucket set over
its limit makes TakeMsg panic, for known keys too (bucket.go:89); the limits of a sender domain
that is not spelt canonically are not released when rejects are not deferred
(session.go:299; `LimitsBalanced` fails in `SmtpSession` once `Senders` of such a
session has that spelling); the destination scope is built from the limiters of
the source scope (limits.go:122); a time-out in the source scope dereferences the
missing bucket set of the ip scope (limits.go:191); a session refused by the
early checks is subtracted from the session count without having been added
(smtp.go:408). A delivery whose Body failed is forgotten without Abort (session.go:475). In
the queue: a failing Sync makes Body fail but leaves the files, and the message
is delivered after the next start (queue.go:757); an address passed twice to the queue is tried and counted twice
per attempt and can exceed `max_tries` (queue.go:562; `AttemptsBounded` fails in
`Queue` with `Repeats = TRUE`); the scale factor of the retry delay is truncated
to an integer, so that the first four delays are equal (queue.go:443). In the
pipeline: an address that a check rejected counts as checked, so that a second
RCPT for it is accepted (check_runner.go:258); LMTPData commits also when no
target was given the body (session.go:545); a target that has accepted no address
gets the body too, its error is told to nobody, and it is committed
(msgpipeline.go:496); BodyNonAtomic copies no quarantine mark, applies no DMARC verdict and skips the
body checks of recipient blocks, which Body runs and the documentation says are
ignored (msgpipeline.go:385, 469); states of checks and of a block's modifiers
are closed while they stay in use, and those of the source's modifiers are
forgotten when RewriteSender fails (check_runner.go:75, msgpipeline.go:172, 336);
two recipients rewritten to one address share one original name
(msgpipeline.go:349).

In the remote target: with relaxed_requiretls, which is the default, one server
without the extension turns REQUIRETLS off for the domains that follow
(connect.go:273; `REQUIRETLSHonoured` has this exception); with
requiretls_override, which is the default, a connection that a message with
"TLS-Required: No" opened without policies is pooled and taken by others
(connect.go:219; `PoliciesHold` has this exception); an open connection is forgotten instead of closed when it
is returned to a closed pool, and when Get gives it to a message with REQUIRETLS
(pool.go:160, connect.go:219; `dropped`); the status of a recipient whose address was
converted to ASCII is reported for the converted address, so that the queue takes
a failed recipient for delivered (smtpconn.go:367; `EachIsTold` fails with
`Sent <- MCSentASCII` and `SYMMETRY PoolSymmetry`); a pooled connection reports the
recipients of earlier messages too (smtpconn.go:385); a failed MAIL keeps the
destination's limits (connect.go:276); a connection is used one time more than
conn_reuse_limit says (connect.go:60); the pool's time stamps are never renewed
and its number of keys is not bounded by MaxKeys (pool.go:167, 190).

In the checks: a check that panics counts as passed (check_runner.go:181); a
result that both quarantines and rejects only quarantines (211); fail_open does
not cover the opening of a milter session (milter.go:116); a panic in the DMARC
look-up does not reach Apply as its comment says, and pct is compared one off
(verifier.go:83, 164); defaults and directives of check.spf, authorize_sender and
dnsbl differ from the documentation; SMTPEnchCode makes every code permanent
(exterrors/smtp.go:144).

In the storage: the REST API reports the domain's quota for a user whose own quota
is 0, which the delivery takes for no limit (quota.go:85); a new domain gets no
DKIM key, since the new user is already in the list that is searched
(users.go:84).

In the process: with the REST API on, SIGTERM does not end the server
(server.go:96); the signal after the first does not always force the end
(signal.go:67); an error of os.Stat ends the reloader of table.file, and Close and
reload then wait for it for ever, and a file with an older time than the one that
was loaded last is never loaded, also when the table is empty by now (file.go:147); a module in a cycle of references
is handed out before its Init has ended (instances.go:82).

In the downstream target: there is no retry without STARTTLS although the
documentation promises one (smtp_downstream.go:213); the LMTP status of a
converted recipient is reported for the name on the wire, and the queue takes a
refused recipient for delivered, while two recipients with one such name share one
status (287; `ToldIsHeld` fails with `Confs <- MCConfsNames`); Commit reports a failing QUIT as a failed delivery
(312); QUIT is sent in the middle of the data, which may complete half a message
(smtpconn.go:465).
