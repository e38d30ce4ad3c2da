------------------------------- MODULE Queue -------------------------------
(***************************************************************************)
(* internal/target/queue/queue.go: the on-disk queue.  A source (an SMTP   *)
(* session, through the message pipeline) hands a message in with Start,   *)
(* AddRcpt, Body and Commit or Abort; Body stores it as three files.  The  *)
(* time wheel passes its slot to dispatch, which starts a delivery         *)
(* goroutine: a semaphore bounds how many run at once.  The goroutine      *)
(* attempts delivery, splits the recipients into delivered, failed and to  *)
(* be retried, sends a bounce for the failed ones, and either removes the  *)
(* files or rewrites the meta-data and hands the slot back to the wheel.   *)
(* Close stops the wheel and waits for the goroutines; at start-up         *)
(* readDiskQueue gives every stored message a slot again.                  *)
(*                                                                         *)
(* The wheel appears here by its contract (WheelContract, implemented by   *)
(* TimeWheel): a set of slots, each dispatched at most once while tick     *)
(* runs, and an Add that ignores the slot, returns or panics depending on  *)
(* how far Close has come.  Delays are left out: a slot may fire any time. *)
(***************************************************************************)
EXTENDS Naturals, Sequences, FiniteSets

CONSTANTS
    Msgs,           \* message IDs
    NoMsg,          \* the message of a goroutine that is not running
    Rcpts,          \* recipient addresses
    Workers,        \* delivery goroutines that can exist at once
    MaxRcpts,       \* bound on AddRcpt calls per message
    Repeats,        \* TRUE: a source may pass the same address twice
    MaxTries,       \* max_tries
    MaxParallelism, \* max_parallelism
    HasBounce,      \* TRUE: a bounce block is configured
    NullSender,     \* messages with an empty return path
    Partial,        \* TRUE: the target implements PartialDelivery
    Errors,         \* the kinds of errors the target may return
    FaultKinds,     \* the kinds of faults that may happen
    MaxFaults,      \* bound on the number of faults
    MaxStops        \* bound on the number of orderly shutdowns

ASSUME NoMsgAssumption == NoMsg \notin Msgs
ASSUME FiniteAssumption ==
    IsFiniteSet(Msgs) /\ IsFiniteSet(Rcpts) /\ IsFiniteSet(Workers)
ASSUME BoundsAssumption ==
    /\ MaxRcpts \in Nat
    /\ MaxTries \in Nat
    /\ MaxParallelism \in Nat
    /\ MaxFaults \in Nat
    /\ MaxStops \in Nat
ASSUME SwitchesAssumption ==
    /\ Repeats \in BOOLEAN
    /\ HasBounce \in BOOLEAN
    /\ Partial \in BOOLEAN
    /\ NullSender \subseteq Msgs
ASSUME ErrorsAssumption ==
    Errors \subseteq {"temporary", "unspecified", "permanent"}
ASSUME FaultKindsAssumption ==
    FaultKinds \subseteq {"crash",   \* the process is killed
                          "io",      \* a file operation fails
                          "panic",   \* the target panics
                          "commit",  \* the target delivers, reports an error
                          "bounce"}  \* the bounce pipeline refuses the DSN

VARIABLES
    \* the sources
    src,        \* where each source is in its delivery to the queue
    to,         \* the recipients it passed to AddRcpt
    \* the queue directory
    headers,    \* messages with a .header file
    bodies,     \* messages with a .body file
    metas,      \* messages with a .meta file
    metaOf,     \* the contents of that file
    broken,     \* messages with a .meta_broken file
    \* the process
    proc,       \* its life cycle, with the steps of Close
    boot,       \* directory entries readDiskQueue has yet to look at
    slots,      \* the slots in the time wheel
    pc,         \* program counter of each delivery goroutine
    job,        \* its local variables
    \* history
    attempts,   \* delivery attempts per message and recipient
    delivered,  \* deliveries per message and recipient
    gaveUp,     \* recipients emitDSN was called for
    dsn,        \* bounces sent per message and recipient
    faults,     \* faults so far
    stops       \* orderly shutdowns so far

srcVars == <<src, to>>
diskVars == <<headers, bodies, metas, metaOf, broken>>
procVars == <<proc, boot>>
workVars == <<pc, job>>
histVars == <<attempts, delivered, gaveUp, dsn>>
faultVars == <<faults, stops>>
vars == <<srcVars, diskVars, procVars, slots, workVars, histVars, faultVars>>

-----------------------------------------------------------------------------
(***************************************************************************)
(* State                                                                   *)
(***************************************************************************)

\* The members of a list of recipients.
Elems(s) == {s[i] : i \in DOMAIN s}

\* The part of QueueMetadata that decides what happens next: To, and
\* TriesCount with 0 for an absent key.
Meta == [to : Seq(Rcpts), tries : [Rcpts -> Nat]]

NoTries == [r \in Rcpts |-> 0]

\* queueSlot: mem is Meta # nil, i.e. the message was just accepted.
Slot == [id : Msgs, mem : BOOLEAN]

\* The variables of one run of the goroutine started by dispatch.
Job == [id     : Msgs \cup {NoMsg},
        mem    : BOOLEAN,                           \* slot.Meta # nil
        to     : Seq(Rcpts),                        \* meta.To
        tries  : [Rcpts -> Nat],                    \* meta.TriesCount
        errs   : [Rcpts -> Errors \cup {"none"}],   \* partialErr.Errs
        acc    : SUBSET Rcpts,                      \* acceptedRcpts
        sent   : SUBSET Rcpts,                      \* body taken for these
        rest   : Seq(Rcpts),                        \* not yet looked at
        retry  : Seq(Rcpts),                        \* newRcpts
        failed : Seq(Rcpts)]                        \* failedRcpts

NoErrs == [r \in Rcpts |-> "none"]

NoJob == [id |-> NoMsg, mem |-> FALSE, to |-> <<>>, tries |-> NoTries,
          errs |-> NoErrs, acc |-> {}, sent |-> {}, rest |-> <<>>,
          retry |-> <<>>, failed |-> <<>>]

SrcStates == {"new", "rcpt",                    \* Start, AddRcpt
              "header", "body", "meta",         \* files written by Body
              "stored",                         \* Body returned nil
              "failed",                         \* Body returned an error
              "adding", "pushed", "committed",  \* wheel.Add in Commit
              "panicked",                       \* it panicked
              "abortHeader", "abortBody", "abortMeta", "aborted",
              "lost"}                           \* the process died first

WorkerStates == {"idle", "queued", "open", "attempt", "rcpt", "body",
                 "commit", "settle", "dsn", "update", "add", "push", "notify",
                 "rmHeader", "rmBody", "rmMeta", "release",
                 "panicking", "discard"}

ProcStates == {"booting", "up", "closing", "acked", "waiting", "down"}

SrcTypeOK ==
    /\ src \in [Msgs -> SrcStates]
    /\ to \in [Msgs -> Seq(Rcpts)]

DiskTypeOK ==
    /\ headers \subseteq Msgs
    /\ bodies \subseteq Msgs
    /\ metas \subseteq Msgs
    /\ metaOf \in [Msgs -> Meta]
    /\ broken \subseteq Msgs

ProcTypeOK ==
    /\ proc \in ProcStates
    /\ boot \subseteq Msgs
    /\ slots \subseteq Slot

WorkTypeOK ==
    /\ pc \in [Workers -> WorkerStates]
    /\ job \in [Workers -> Job]
    /\ \A w \in Workers : pc[w] # "idle" => job[w].id \in Msgs

HistTypeOK ==
    /\ attempts \in [Msgs -> [Rcpts -> Nat]]
    /\ delivered \in [Msgs -> [Rcpts -> Nat]]
    /\ gaveUp \in [Msgs -> SUBSET Rcpts]
    /\ dsn \in [Msgs -> [Rcpts -> Nat]]
    /\ faults \in 0 .. MaxFaults
    /\ stops \in 0 .. MaxStops

TypeOK ==
    SrcTypeOK /\ DiskTypeOK /\ ProcTypeOK /\ WorkTypeOK /\ HistTypeOK

Init ==
    /\ src = [m \in Msgs |-> "new"]
    /\ to = [m \in Msgs |-> <<>>]
    /\ headers = {}
    /\ bodies = {}
    /\ metas = {}
    /\ metaOf = [m \in Msgs |-> [to |-> <<>>, tries |-> NoTries]]
    /\ broken = {}
    /\ proc = "up"
    /\ boot = {}
    /\ slots = {}
    /\ pc = [w \in Workers |-> "idle"]
    /\ job = [w \in Workers |-> NoJob]
    /\ attempts = [m \in Msgs |-> NoTries]
    /\ delivered = [m \in Msgs |-> NoTries]
    /\ gaveUp = [m \in Msgs |-> {}]
    /\ dsn = [m \in Msgs |-> NoTries]
    /\ faults = 0
    /\ stops = 0

\* A fault of kind k happens now.
Fault(k) ==
    /\ k \in FaultKinds
    /\ faults < MaxFaults
    /\ faults' = faults + 1
    /\ UNCHANGED stops

NoFault == UNCHANGED faultVars

\* exterrors.IsTemporaryOrUnspec
IsTemporaryOrUnspec(e) == e \in {"temporary", "unspecified"}

\* One more for each of the recipients in S.
Count(f, m, S) ==
    [f EXCEPT ![m] = [r \in Rcpts |-> IF r \in S THEN f[m][r] + 1
                                                ELSE f[m][r]]]

-----------------------------------------------------------------------------
(***************************************************************************)
(* The sources: queueDelivery                                              *)
(***************************************************************************)

\* A source runs while the process does, during and after Close too.
Running == proc \notin {"down", "booting"}

Goto(m, s) == src' = [src EXCEPT ![m] = s]

\* Start
Start(m) ==
    /\ Running
    /\ src[m] = "new"
    /\ Goto(m, "rcpt")
    /\ UNCHANGED <<to, diskVars, procVars, slots, workVars, histVars,
                   faultVars>>

\* queueDelivery.AddRcpt: appended as it is.
AddRcpt(m, r) ==
    /\ Running
    /\ src[m] = "rcpt"
    /\ Len(to[m]) < MaxRcpts
    /\ Repeats \/ r \notin Elems(to[m])
    /\ to' = [to EXCEPT ![m] = Append(@, r)]
    /\ UNCHANGED <<src, diskVars, procVars, slots, workVars, histVars,
                   faultVars>>

\* storeNewMessage: os.Create and textproto.WriteHeader; the file is removed
\* when the second one fails.
StoreHeader(m) ==
    /\ Running
    /\ src[m] = "rcpt"
    /\ to[m] # <<>>
    /\ \/ Goto(m, "header") /\ headers' = headers \cup {m} /\ NoFault
       \/ Goto(m, "failed") /\ UNCHANGED headers /\ Fault("io")
    /\ UNCHANGED <<to, bodies, metas, metaOf, broken, procVars, slots,
                   workVars, histVars>>

\* storeNewMessage: body.Open, os.Create and io.Copy.  When os.Create fails
\* the header stays, when one of the others fails no file does.
StoreBody(m) ==
    /\ Running
    /\ src[m] = "header"
    /\ \/ Goto(m, "body") /\ bodies' = bodies \cup {m} /\ NoFault
          /\ UNCHANGED headers
       \/ Goto(m, "failed") /\ UNCHANGED bodies /\ Fault("io")
          /\ headers' \in {headers, headers \ {m}}
    /\ UNCHANGED <<to, metas, metaOf, broken, procVars, slots, workVars,
                   histVars>>

\* storeNewMessage: updateMetadataOnDisk writes a new file and renames it.
StoreMeta(m) ==
    /\ Running
    /\ src[m] = "body"
    /\ \/ /\ Goto(m, "meta")
          /\ metas' = metas \cup {m}
          /\ metaOf' = [metaOf EXCEPT ![m] =
                            [to |-> to[m], tries |-> NoTries]]
          /\ NoFault
          /\ UNCHANGED <<headers, bodies>>
       \/ /\ Goto(m, "failed")
          /\ Fault("io")
          /\ bodies' = bodies \ {m}
          /\ headers' = headers \ {m}
          /\ UNCHANGED <<metas, metaOf>>
    /\ UNCHANGED <<to, broken, procVars, slots, workVars, histVars>>

\* storeNewMessage: the two Sync calls.  An error is returned to the source,
\* the files stay.
StoreSync(m) ==
    /\ Running
    /\ src[m] = "meta"
    /\ \/ Goto(m, "stored") /\ NoFault
       \/ Goto(m, "failed") /\ Fault("io")
    /\ UNCHANGED <<to, diskVars, procVars, slots, workVars, histVars>>

\* removeFromDisk: one os.Remove each; an error is logged.
RemoveHeader(m) ==
    \/ headers' = headers \ {m} /\ NoFault
    \/ m \in headers /\ UNCHANGED headers /\ Fault("io")

RemoveBody(m) ==
    \/ bodies' = bodies \ {m} /\ NoFault
    \/ m \in bodies /\ UNCHANGED bodies /\ Fault("io")

RemoveMeta(m) ==
    \/ metas' = metas \ {m} /\ NoFault
    \/ m \in metas /\ UNCHANGED metas /\ Fault("io")

\* Mutant: Abort leaves the files.
AbortForgets(m) ==
    /\ Running
    /\ src[m] \in {"rcpt", "stored"}
    /\ Goto(m, "aborted")
    /\ UNCHANGED <<to, diskVars, procVars, slots, workVars, histVars,
                   faultVars>>

\* queueDelivery.Abort: qd.body is set only when Body returned nil, so there
\* is nothing to do before Body or after it failed.
Abort(m) ==
    /\ Running
    /\ \/ src[m] = "rcpt" /\ Goto(m, "aborted")
       \/ src[m] = "stored" /\ Goto(m, "abortHeader")
    /\ UNCHANGED <<to, diskVars, procVars, slots, workVars, histVars,
                   faultVars>>

\* removeFromDisk, called by Abort.
AbortRemove(m) ==
    /\ Running
    /\ \/ /\ src[m] = "abortHeader"
          /\ RemoveHeader(m)
          /\ Goto(m, "abortBody")
          /\ UNCHANGED <<bodies, metas>>
       \/ /\ src[m] = "abortBody"
          /\ RemoveBody(m)
          /\ Goto(m, "abortMeta")
          /\ UNCHANGED <<headers, metas>>
       \/ /\ src[m] = "abortMeta"
          /\ RemoveMeta(m)
          /\ Goto(m, "aborted")
          /\ UNCHANGED <<headers, bodies>>
    /\ UNCHANGED <<to, metaOf, broken, procVars, slots, workVars, histVars>>

-----------------------------------------------------------------------------
(***************************************************************************)
(* wheel.Add, as seen by its callers                                       *)
(***************************************************************************)

\* The load of tw.stopped.
WheelStopped == proc \in {"closing", "acked", "waiting"}

\* tick is running: it dispatches slots and receives from updateNotify.
TickRunning == proc \in {"booting", "up", "closing"}

\* Mutant: Close leaves updateNotify open.
NotifyClosedNever == FALSE

\* updateNotify is closed.
NotifyClosed == proc = "waiting"

\* queueDelivery.Commit: a stopped wheel ignores the slot and Commit returns.
Commit(m) ==
    /\ Running
    /\ src[m] = "stored"
    /\ Goto(m, IF WheelStopped THEN "committed" ELSE "adding")
    /\ UNCHANGED <<to, diskVars, procVars, slots, workVars, histVars,
                   faultVars>>

CommitPush(m) ==
    /\ Running
    /\ src[m] = "adding"
    /\ slots' = slots \cup {[id |-> m, mem |-> TRUE]}
    /\ Goto(m, "pushed")
    /\ UNCHANGED <<to, diskVars, procVars, workVars, histVars, faultVars>>

\* The send on updateNotify: received by tick, or a panic in the source.
CommitNotify(m) ==
    /\ src[m] = "pushed"
    /\ \/ TickRunning /\ Goto(m, "committed")
       \/ NotifyClosed /\ Goto(m, "panicked")
    /\ UNCHANGED <<to, diskVars, procVars, slots, workVars, histVars,
                   faultVars>>

-----------------------------------------------------------------------------
(***************************************************************************)
(* The delivery goroutine                                                  *)
(***************************************************************************)

Move(w, s) == pc' = [pc EXCEPT ![w] = s]

\* tick removes a slot and calls dispatch: deliveryWg.Add and a goroutine.
Dispatch(w, s) ==
    /\ TickRunning
    /\ pc[w] = "idle"
    /\ s \in slots
    /\ slots' = slots \ {s}
    /\ Move(w, "queued")
    /\ job' = [job EXCEPT ![w] = [NoJob EXCEPT !.id = s.id, !.mem = s.mem]]
    /\ UNCHANGED <<srcVars, diskVars, procVars, histVars, faultVars>>

\* Goroutines between the send on deliverySemaphore and the receive.
Holders == {w \in Workers : pc[w] \notin {"idle", "queued", "discard"}}

Acquire(w) ==
    /\ pc[w] = "queued"
    /\ Cardinality(Holders) < MaxParallelism
    /\ Move(w, "open")
    /\ UNCHANGED <<srcVars, diskVars, procVars, slots, job, histVars,
                   faultVars>>

\* Start delivering with the given meta-data.
Begin(w, meta) ==
    /\ Move(w, "attempt")
    /\ job' = [job EXCEPT ![w] = [@ EXCEPT !.to = meta.to,
                                             !.tries = meta.tries]]

\* The message in the slot, or openMessage: readMessageMeta, then the body,
\* then the header; dangling files are removed.  An error ends the goroutine.
Open(w) ==
    LET m == job[w].id
        fresh == [to |-> to[m], tries |-> NoTries]
    IN
    /\ pc[w] = "open"
    /\ \/ /\ job[w].mem
          /\ Begin(w, fresh)
          /\ NoFault
          /\ UNCHANGED <<bodies, metas>>
       \/ /\ ~job[w].mem
          /\ m \in metas \cap bodies \cap headers
          /\ Begin(w, metaOf[m])
          /\ NoFault
          /\ UNCHANGED <<bodies, metas>>
       \/ /\ ~job[w].mem
          /\ m \notin metas \cap bodies \cap headers
          /\ metas' = metas \ {m}
          /\ bodies' = IF m \in metas THEN bodies \ {m} ELSE bodies
          /\ Move(w, "release")
          /\ NoFault
          /\ UNCHANGED job
       \/ /\ ~job[w].mem
          /\ Fault("io")
          /\ Move(w, "release")
          /\ UNCHANGED <<job, bodies, metas>>
    /\ UNCHANGED <<srcVars, headers, metaOf, broken, procVars, slots,
                   histVars>>

\* deliver is done: go through meta.To with the errors found.
Examine(w, errs) ==
    [job[w] EXCEPT !.errs = errs, !.acc = {}, !.sent = {},
                   !.rest = job[w].to]

\* deliver: target.Start, which fails for all recipients or for none.
Attempt(w) ==
    LET list == Elems(job[w].to)
    IN
    /\ pc[w] = "attempt"
    /\ attempts' = Count(attempts, job[w].id, list)
    /\ \/ /\ Move(w, "rcpt")
          /\ job' = [job EXCEPT ![w].rest = job[w].to]
       \/ \E e \in Errors :
            /\ Move(w, "settle")
            /\ job' = [job EXCEPT ![w] = Examine(w,
                          [r \in Rcpts |-> IF r \in list THEN e ELSE "none"])]
    /\ UNCHANGED <<srcVars, diskVars, procVars, slots, delivered, gaveUp, dsn,
                   faultVars>>

\* AddRcpt accepted or refused r, the first of the remaining recipients.
RcptOK(j, r) == [j EXCEPT !.rest = Tail(@), !.acc = @ \cup {r}]

RcptFails(j, r, e) == [j EXCEPT !.rest = Tail(@), !.errs[r] = e]

\* deliver: AddRcpt for one recipient, or the end of that loop: without an
\* accepted recipient the delivery is aborted.
RcptTo(w) ==
    LET r == Head(job[w].rest)
    IN
    /\ pc[w] = "rcpt"
    /\ \/ /\ job[w].rest # <<>>
          /\ \/ job' = [job EXCEPT ![w] = RcptOK(@, r)]
             \/ \E e \in Errors :
                  job' = [job EXCEPT ![w] = RcptFails(@, r, e)]
          /\ UNCHANGED pc
       \/ /\ job[w].rest = <<>>
          /\ job[w].acc = {}
          /\ Move(w, "settle")
          /\ job' = [job EXCEPT ![w] = Examine(w, job[w].errs)]
       \/ /\ job[w].rest = <<>>
          /\ job[w].acc # {}
          /\ Move(w, "body")
          /\ UNCHANGED job
    /\ UNCHANGED <<srcVars, diskVars, procVars, slots, histVars, faultVars>>

\* deliver: BodyNonAtomic sets a status per recipient, Body fails for all
\* accepted recipients or for none; when all failed the delivery is aborted.
Body(w) ==
    LET acc == job[w].acc
    IN
    /\ pc[w] = "body"
    /\ \E status \in [acc -> Errors \cup {"none"}] :
         LET errs == [r \in Rcpts |-> IF r \in acc /\ status[r] # "none"
                                      THEN status[r] ELSE job[w].errs[r]]
             sent == {r \in acc : status[r] = "none"}
         IN  /\ Partial \/ \A r, q \in acc : status[r] = status[q]
             /\ IF \A r \in acc : errs[r] # "none"
                THEN /\ Move(w, "settle")
                     /\ job' = [job EXCEPT ![w] = Examine(w, errs)]
                ELSE /\ Move(w, "commit")
                     /\ job' = [job EXCEPT ![w] = [@ EXCEPT !.errs = errs,
                                                          !.sent = sent]]
    /\ UNCHANGED <<srcVars, diskVars, procVars, slots, histVars, faultVars>>

\* deliver: Commit.  Its error is recorded for every accepted recipient, also
\* when the target has delivered the message to some of them all the same.
TargetCommit(w) ==
    LET m == job[w].id
        failAll(e) == [r \in Rcpts |-> IF r \in job[w].acc
                                       THEN e ELSE job[w].errs[r]]
    IN
    /\ pc[w] = "commit"
    /\ Move(w, "settle")
    /\ \/ /\ delivered' = Count(delivered, m, job[w].sent)
          /\ job' = [job EXCEPT ![w] = Examine(w, job[w].errs)]
          /\ NoFault
       \/ \E e \in Errors :
            /\ job' = [job EXCEPT ![w] = Examine(w, failAll(e))]
            /\ \/ UNCHANGED delivered /\ NoFault
               \/ \E some \in SUBSET job[w].sent :
                    /\ delivered' = Count(delivered, m, some)
                    /\ Fault("commit")
    /\ UNCHANGED <<srcVars, diskVars, procVars, slots, attempts, gaveUp, dsn>>

\* Mutant: one attempt too many.
GiveUpLate(w, r) ==
    \/ ~IsTemporaryOrUnspec(job[w].errs[r])
    \/ job[w].tries[r] >= MaxTries

\* Is r not tried again?
GiveUp(w, r) ==
    \/ ~IsTemporaryOrUnspec(job[w].errs[r])
    \/ job[w].tries[r] + 1 >= MaxTries

\* Where tryDelivery goes once the bounce is out of the way.
Conclude(w) == IF job[w].retry = <<>> THEN "rmHeader" ELSE "update"

\* What the loop does with r, the first of the remaining recipients: nothing
\* (delivered), delete(TriesCount) and failedRcpts, or one more try counted
\* and newRcpts.
Done(j) == [j EXCEPT !.rest = Tail(@)]

Failed(j, r) ==
    [j EXCEPT !.rest = Tail(@), !.tries[r] = 0, !.failed = Append(@, r)]

\* Mutant: r is not appended to newRcpts.
AgainForgets(j, r) == [j EXCEPT !.rest = Tail(@), !.tries[r] = @ + 1]

Again(j, r) ==
    [j EXCEPT !.rest = Tail(@), !.tries[r] = @ + 1, !.retry = Append(@, r)]

\* tryDelivery: one round of the loop over meta.To, or its end.
Settle(w) ==
    LET r == Head(job[w].rest)
    IN
    /\ pc[w] = "settle"
    /\ \/ /\ job[w].rest = <<>>
          /\ Move(w, IF job[w].failed = <<>> THEN Conclude(w) ELSE "dsn")
          /\ UNCHANGED job
       \/ /\ job[w].rest # <<>>
          /\ job[w].errs[r] = "none"
          /\ job' = [job EXCEPT ![w] = Done(@)]
          /\ UNCHANGED pc
       \/ /\ job[w].rest # <<>>
          /\ job[w].errs[r] # "none"
          /\ GiveUp(w, r)
          /\ job' = [job EXCEPT ![w] = Failed(@, r)]
          /\ UNCHANGED pc
       \/ /\ job[w].rest # <<>>
          /\ job[w].errs[r] # "none"
          /\ ~GiveUp(w, r)
          /\ job' = [job EXCEPT ![w] = Again(@, r)]
          /\ UNCHANGED pc
    /\ UNCHANGED <<srcVars, diskVars, procVars, slots, histVars, faultVars>>

\* emitDSN: nothing without a bounce pipeline or for a null return path; an
\* error of the pipeline is logged.
EmitDSN(w) ==
    LET m == job[w].id
        failed == Elems(job[w].failed)
    IN
    /\ pc[w] = "dsn"
    /\ gaveUp' = [gaveUp EXCEPT ![m] = @ \cup failed]
    /\ \/ /\ HasBounce /\ m \notin NullSender
          /\ dsn' = Count(dsn, m, failed)
          /\ NoFault
       \/ /\ ~HasBounce \/ m \in NullSender
          /\ UNCHANGED dsn
          /\ NoFault
       \/ /\ HasBounce /\ m \notin NullSender
          /\ UNCHANGED dsn
          /\ Fault("bounce")
    /\ Move(w, Conclude(w))
    /\ UNCHANGED <<srcVars, diskVars, procVars, slots, job, attempts,
                   delivered>>

\* Mutant: meta.To is not replaced by newRcpts.
UpdateMetaStale(w) ==
    /\ pc[w] = "update"
    /\ metas' = metas \cup {job[w].id}
    /\ metaOf' = [metaOf EXCEPT ![job[w].id] = [to |-> job[w].to,
                                                tries |-> job[w].tries]]
    /\ NoFault
    /\ Move(w, "add")
    /\ UNCHANGED <<srcVars, headers, bodies, broken, procVars, slots, job,
                   histVars>>

\* tryDelivery: updateMetadataOnDisk; an error is logged and the old file
\* stays.
UpdateMeta(w) ==
    LET m == job[w].id
    IN
    /\ pc[w] = "update"
    /\ \/ /\ metas' = metas \cup {m}
          /\ metaOf' = [metaOf EXCEPT ![m] = [to |-> job[w].retry,
                                              tries |-> job[w].tries]]
          /\ NoFault
       \/ Fault("io") /\ UNCHANGED <<metas, metaOf>>
    /\ Move(w, "add")
    /\ UNCHANGED <<srcVars, headers, bodies, broken, procVars, slots, job,
                   histVars>>

\* tryDelivery: wheel.Add of a slot that holds only the ID.
Requeue(w) ==
    /\ \/ /\ pc[w] = "add"
          /\ Move(w, IF WheelStopped THEN "release" ELSE "push")
          /\ UNCHANGED slots
       \/ /\ pc[w] = "push"
          /\ slots' = slots \cup {[id |-> job[w].id, mem |-> FALSE]}
          /\ Move(w, "notify")
       \/ /\ pc[w] = "notify"
          /\ TickRunning
          /\ Move(w, "release")
          /\ UNCHANGED slots
       \/ /\ pc[w] = "notify"
          /\ NotifyClosed
          /\ Move(w, "panicking")
          /\ UNCHANGED slots
    /\ UNCHANGED <<srcVars, diskVars, procVars, job, histVars, faultVars>>

\* removeFromDisk, called by tryDelivery.
RemoveFromDisk(w) ==
    LET m == job[w].id
    IN
    /\ \/ /\ pc[w] = "rmHeader"
          /\ RemoveHeader(m)
          /\ Move(w, "rmBody")
          /\ UNCHANGED <<bodies, metas>>
       \/ /\ pc[w] = "rmBody"
          /\ RemoveBody(m)
          /\ Move(w, "rmMeta")
          /\ UNCHANGED <<headers, metas>>
       \/ /\ pc[w] = "rmMeta"
          /\ RemoveMeta(m)
          /\ Move(w, "release")
          /\ UNCHANGED <<headers, bodies>>
    /\ UNCHANGED <<srcVars, metaOf, broken, procVars, slots, job, histVars>>

\* The deferred function without a panic: release the semaphore, Done.
Release(w) ==
    /\ pc[w] = "release"
    /\ Move(w, "idle")
    /\ job' = [job EXCEPT ![w] = NoJob]
    /\ UNCHANGED <<srcVars, diskVars, procVars, slots, histVars, faultVars>>

\* The target panics in deliver.
TargetPanics(w) ==
    /\ pc[w] \in {"attempt", "rcpt", "body", "commit"}
    /\ Move(w, "panicking")
    /\ Fault("panic")
    /\ UNCHANGED <<srcVars, diskVars, procVars, slots, job, histVars>>

\* The deferred function with a panic: the semaphore and the wait group are
\* released first, the panic is recovered after that.
Recover(w) ==
    /\ pc[w] = "panicking"
    /\ Move(w, "discard")
    /\ UNCHANGED <<srcVars, diskVars, procVars, slots, job, histVars,
                   faultVars>>

\* discardBroken: rename .meta to .meta_broken.
DiscardBroken(w) ==
    LET m == job[w].id
    IN
    /\ pc[w] = "discard"
    /\ metas' = metas \ {m}
    /\ broken' = IF m \in metas THEN broken \cup {m} ELSE broken
    /\ Move(w, "idle")
    /\ job' = [job EXCEPT ![w] = NoJob]
    /\ UNCHANGED <<srcVars, headers, bodies, metaOf, procVars, slots,
                   histVars, faultVars>>

-----------------------------------------------------------------------------
(***************************************************************************)
(* The process: Close, exit or crash, restart                              *)
(***************************************************************************)

\* Close: the wheel is marked as stopped, tick returns, updateNotify is
\* closed (the steps of TimeWheel.Close), then deliveryWg.Wait.
Close ==
    /\ \/ proc = "up" /\ stops < MaxStops
          /\ proc' = "closing" /\ stops' = stops + 1
       \/ proc = "closing" /\ proc' = "acked" /\ UNCHANGED stops
       \/ proc = "acked" /\ proc' = "waiting" /\ UNCHANGED stops
    /\ UNCHANGED <<srcVars, diskVars, boot, slots, workVars, histVars, faults>>

\* deliveryWg counts the goroutines that have not called Done.
WaitGroup == {w \in Workers : pc[w] \notin {"idle", "discard"}}

\* A source whose outcome is known keeps it.
Ends == {"new", "failed", "committed", "aborted", "panicked", "lost"}

\* The memory of the process is gone, the directory stays.
Die ==
    /\ proc' = "down"
    /\ boot' = {}
    /\ slots' = {}
    /\ pc' = [w \in Workers |-> "idle"]
    /\ job' = [w \in Workers |-> NoJob]
    /\ src' = [m \in Msgs |-> IF src[m] \in Ends THEN src[m] ELSE "lost"]
    /\ UNCHANGED <<to, diskVars, histVars>>

\* Close has returned and the process exits.
Exit ==
    /\ proc = "waiting"
    /\ WaitGroup = {}
    /\ Die
    /\ NoFault

Crash ==
    /\ proc # "down"
    /\ Die
    /\ Fault("crash")

\* start: a new wheel and semaphore; readDiskQueue lists the directory.
Restart ==
    /\ proc = "down"
    /\ proc' = "booting"
    /\ boot' = metas
    /\ UNCHANGED <<srcVars, diskVars, slots, workVars, histVars, faultVars>>

\* Mutant: the message gets no slot.
ReadEntryForgets(m) ==
    /\ m \in boot
    /\ boot' = boot \ {m}
    /\ NoFault
    /\ UNCHANGED <<srcVars, diskVars, proc, slots, workVars, histVars>>

\* readDiskQueue: one .meta entry.  A message with a missing file is removed,
\* one whose meta-data cannot be read is skipped.
ReadEntry(m) ==
    /\ m \in boot
    /\ boot' = boot \ {m}
    /\ \/ /\ m \in headers \cap bodies
          /\ slots' = slots \cup {[id |-> m, mem |-> FALSE]}
          /\ NoFault
          /\ UNCHANGED <<headers, bodies, metas>>
       \/ /\ m \notin headers \cap bodies
          /\ metas' = metas \ {m}
          /\ headers' = headers \ {m}
          /\ bodies' = bodies \ {m}
          /\ NoFault
          /\ UNCHANGED slots
       \/ /\ Fault("io")
          /\ UNCHANGED <<slots, headers, bodies, metas>>
    /\ UNCHANGED <<srcVars, metaOf, broken, proc, workVars, histVars>>

Started ==
    /\ proc = "booting"
    /\ boot = {}
    /\ proc' = "up"
    /\ UNCHANGED <<srcVars, diskVars, boot, slots, workVars, histVars,
                   faultVars>>

-----------------------------------------------------------------------------
Source(m) ==
    \/ Start(m)
    \/ \E r \in Rcpts : AddRcpt(m, r)
    \/ StoreHeader(m) \/ StoreBody(m) \/ StoreMeta(m) \/ StoreSync(m)
    \/ Abort(m) \/ AbortRemove(m)
    \/ Commit(m) \/ CommitPush(m) \/ CommitNotify(m)

Tick(w) == \E s \in slots : Dispatch(w, s)

Worker(w) ==
    \/ Acquire(w) \/ Open(w) \/ Attempt(w) \/ RcptTo(w) \/ Body(w)
    \/ TargetCommit(w) \/ Settle(w) \/ EmitDSN(w) \/ UpdateMeta(w)
    \/ Requeue(w) \/ RemoveFromDisk(w) \/ Release(w) \/ TargetPanics(w)
    \/ Recover(w) \/ DiscardBroken(w)

Process ==
    \/ Close \/ Exit \/ Crash \/ Restart \/ Started
    \/ \E m \in Msgs : ReadEntry(m)

Next ==
    \/ \E m \in Msgs : Source(m)
    \/ \E w \in Workers : Tick(w) \/ Worker(w)
    \/ Process

Spec == Init /\ [][Next]_vars

(***************************************************************************)
(* Goroutines are scheduled, calls to the target and to the bounce         *)
(* pipeline return, a Close that was begun continues, and the supervisor   *)
(* starts a process that is gone.  Nothing obliges a source to act, the    *)
(* administrator to call Close, or a fault to happen.                      *)
(***************************************************************************)
Fairness ==
    /\ \A m \in Msgs : WF_vars(CommitPush(m) \/ CommitNotify(m))
    /\ \A w \in Workers : WF_vars(Tick(w)) /\ WF_vars(Worker(w))
    /\ WF_vars(Close /\ proc # "up")
    /\ WF_vars(Exit)
    /\ WF_vars(Restart \/ Started \/ \E m \in Msgs : ReadEntry(m))

FairSpec == Spec /\ Fairness

-----------------------------------------------------------------------------
(***************************************************************************)
(* Properties                                                              *)
(***************************************************************************)

\* The queue has taken responsibility: Body returned nil, Commit was called.
Accepted(m) == src[m] \in {"adding", "pushed", "committed", "panicked"}

\* r has had its outcome: a delivery, or emitDSN was called for it.
Settled(m, r) == delivered[m][r] > 0 \/ r \in gaveUp[m]

\* Every file the next start needs is there, and r is in it.
Recoverable(m, r) ==
    /\ m \in headers \cap bodies \cap metas
    /\ r \in Elems(metaOf[m].to)

(* No recipient of an accepted message disappears: it has been delivered   *)
(* to, the sender's bounce has been attempted, or the files from which the *)
(* next start resumes are complete and still name it - whatever crashes,   *)
(* failing file operations, lost meta-data updates and shutdowns do, and   *)
(* with the only exception of a message set aside after a panic.           *)
NoLoss ==
    \A m \in Msgs : Accepted(m) /\ m \notin broken =>
        \A r \in Elems(to[m]) : Settled(m, r) \/ Recoverable(m, r)

(* max_tries: "Attempt delivery up to integer times".  Each fault may cost *)
(* one attempt that was made and not recorded.                             *)
AttemptsBounded ==
    \A m \in Msgs, r \in Rcpts : attempts[m][r] <= MaxTries + faults

(* A recipient has one outcome: never delivered twice, never delivered and *)
(* bounced, never bounced twice, unless a fault intervened; shutdowns and  *)
(* restarts are not faults.                                                *)
OneOutcome ==
    \A m \in Msgs, r \in Rcpts : delivered[m][r] + dsn[m][r] <= 1 + faults

(* Nothing of an aborted message is delivered, after a restart either,     *)
(* unless the removal of all three files failed.                           *)
AbortedNotDelivered ==
    \A m \in Msgs :
        src[m] = "aborted" /\ faults < 3 =>
            \A r \in Rcpts : attempts[m][r] = 0

(* "At this point, it is safe on disk and next try will reread it."        *)
(* (tryDelivery): without a fault no accepted message leaves the queue     *)
(* before its recipients are settled.                                      *)
SafeOnDisk == faults = 0 => broken = {}

(* Every recipient of an accepted message is settled sooner or later,      *)
(* whatever the target answers, through shutdowns and crashes, unless a    *)
(* panic set the message aside.                                            *)
EventuallySettled ==
    \A m \in Msgs :
        src[m] = "committed" ~>
            m \in broken \/ \A r \in Elems(to[m]) : Settled(m, r)

(* Close returns and the process exits: no goroutine waits for ever on the *)
(* semaphore or on the stopped wheel.                                      *)
CloseReturns == proc = "closing" ~> proc = "down"

=============================================================================
