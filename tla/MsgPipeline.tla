---------------------------- MODULE MsgPipeline ----------------------------
(***************************************************************************)
(* internal/msgpipeline: one message on its way through the pipeline.  The *)
(* source (an SMTP session, the queue) calls Start, AddRcpt for each       *)
(* recipient, Body or BodyNonAtomic, and Commit or Abort, in the order     *)
(* module.Delivery prescribes.  The pipeline runs the checks of the global,*)
(* source and recipient blocks, rewrites addresses, selects the recipient  *)
(* block and passes the message to the targets of the block.               *)
(*                                                                         *)
(* A method is a list of steps, todo, worked off one by one: a step may    *)
(* put others in front of the list, and an error drops the rest of it.     *)
(* checkRunner runs the checks of a list in parallel and waits for all of  *)
(* them; each of the goroutines reads and writes the entries of its own    *)
(* check only, so a parallel run is one step.                              *)
(***************************************************************************)
EXTENDS Naturals, Sequences, FiniteSets

CONSTANTS
    Checks,         \* the checks of the configuration
    GlobalChecks,   \* list of checks of the pipeline
    SourceChecks,   \* list of checks of the source block that matches
    Blocks,         \* its recipient blocks
    BlockChecks,    \* the list of checks of each
    Rejects,        \* the ones with a reject directive
    Targets,        \* delivery targets
    TargetsOf,      \* the list of targets of each recipient block
    Partials,       \* targets whose deliveries implement PartialDelivery
    Addrs,          \* addresses, before and after rewriting
    NoAddr,         \* no address
    Rcpts,          \* the ones the source may pass to AddRcpt
    Rewritten,      \* what the global and source modifiers make of each
    BlocksFor,      \* the blocks that may match: a failed look-up in a
                    \* destination_in table is skipped
    RcptRewritten,  \* what the modifiers of the recipient block make of it
    DoDMARC,        \* dmarc is on
    MaxRcpts,       \* bound on AddRcpt calls
    Repeats         \* TRUE: the source may pass an address again

Lists == UNION {[1 .. n -> Checks] : n \in 0 .. Cardinality(Checks)}

ASSUME ChecksAssumption ==
    /\ IsFiniteSet(Checks)
    /\ GlobalChecks \in Lists
    /\ SourceChecks \in Lists
    /\ BlockChecks \in [Blocks -> Lists]
ASSUME TargetsAssumption ==
    /\ IsFiniteSet(Targets)
    /\ Partials \subseteq Targets
    /\ TargetsOf \in [Blocks -> Seq(Targets)]
    /\ IsFiniteSet(Blocks)
    /\ Rejects \subseteq Blocks
ASSUME AddrsAssumption ==
    /\ NoAddr \notin Addrs
    /\ Rcpts \subseteq Addrs
    /\ Rewritten \in [Rcpts -> Seq(Addrs)]
    /\ RcptRewritten \in [Addrs -> Seq(Addrs)]
    /\ BlocksFor \in [Addrs -> SUBSET Blocks]
ASSUME BoundsAssumption ==
    MaxRcpts \in Nat /\ Repeats \in BOOLEAN /\ DoDMARC \in BOOLEAN

VARIABLES
    phase,      \* the method that is running, or what came of the last one
    todo,       \* what the running method has yet to do
    cur,        \* the recipient AddRcpt was called for
    \* checkRunner
    stored,     \* checks with a state in cr.states
    closes,     \* Close calls on the state of each
    seen,       \* cr.checkedRcptsPerCheck
    checked,    \* cr.checkedRcpts
    quarantine, \* cr.mergedRes.Quarantine
    \* msgpipelineDelivery
    mods,       \* groups of modifiers with a state
    modCloses,  \* Close calls on the state of each
    dropped,    \* groups whose state was lost without Close
    dlv,        \* dd.deliveries: how far the delivery at each target is
    got,        \* the addresses the target accepted
    recips,     \* delivery.recipients
    orig,       \* msgMeta.OriginalRcpts
    metaQ,      \* msgMeta.Quarantine
    \* history
    calls,      \* AddRcpt calls
    accepted,   \* recipients AddRcpt returned nil for
    ways,       \* how each of them reached a target
    bodySeen,   \* checks that were given the body
    failedAt,   \* <<target, address>>: BodyNonAtomic failed for it
    told        \* recipients SetStatus was called for with an error

runnerVars == <<stored, closes, seen, checked, quarantine>>
deliveryVars == <<dlv, got, recips, orig, metaQ>>
histVars == <<calls, accepted, ways, bodySeen, failedAt, told>>
modVars == <<mods, modCloses, dropped>>
itsVars == <<cur, runnerVars, modVars, deliveryVars, histVars>>
vars == <<phase, todo, itsVars>>

\* The methods, and the states between them.
Methods == {"starting", "adding", "body", "nonatomic", "committing",
            "aborting"}
Phases == {"new", "ready", "sent", "failed",
           "refused", "committed", "brokenCommit", "aborted"} \cup Methods

Over == {"refused", "committed", "brokenCommit", "aborted"}

\* The owners of modifier groups.
Groups == {"global", "source"} \cup Blocks

TypeOK ==
    /\ phase \in Phases
    /\ cur \in Rcpts \cup {NoAddr}
    /\ stored \subseteq Checks
    /\ closes \in [Checks -> Nat]
    /\ seen \in [Checks -> SUBSET Addrs]
    /\ checked \in Seq(Addrs)
    /\ quarantine \in BOOLEAN
    /\ mods \subseteq Groups
    /\ modCloses \in [Groups -> Nat]
    /\ dropped \subseteq Groups
    /\ dlv \in [Targets -> {"none", "open", "body", "bodyFailed",
                            "committed", "commitFailed", "aborted"}]
    /\ got \in [Targets -> SUBSET Addrs]
    /\ recips \in [Targets -> SUBSET Rcpts]
    /\ orig \in [Addrs -> Rcpts \cup {NoAddr}]
    /\ metaQ \in BOOLEAN
    /\ accepted \subseteq Rcpts
    /\ told \subseteq Rcpts

Init ==
    /\ phase = "new"
    /\ todo = <<>>
    /\ cur = NoAddr
    /\ stored = {}
    /\ closes = [c \in Checks |-> 0]
    /\ seen = [c \in Checks |-> {}]
    /\ checked = <<>>
    /\ quarantine = FALSE
    /\ mods = {}
    /\ modCloses = [g \in Groups |-> 0]
    /\ dropped = {}
    /\ dlv = [t \in Targets |-> "none"]
    /\ got = [t \in Targets |-> {}]
    /\ recips = [t \in Targets |-> {}]
    /\ orig = [a \in Addrs |-> NoAddr]
    /\ metaQ = FALSE
    /\ calls = 0
    /\ accepted = {}
    /\ ways = {}
    /\ bodySeen = {}
    /\ failedAt = {}
    /\ told = {}

-----------------------------------------------------------------------------
(***************************************************************************)
(* Steps                                                                   *)
(***************************************************************************)

Elems(s) == {s[i] : i \in DOMAIN s}

\* The orders in which Go may range over a map with the keys S.
Orders(S) ==
    {f \in [1 .. Cardinality(S) -> S] :
        \A i, j \in DOMAIN f : f[i] = f[j] => i = j}

\* One step for each member of a list.
Each(list, Step(_)) == [i \in DOMAIN list |-> Step(list[i])]

\* The next step of a running method is op.
At(op) ==
    /\ phase \in Methods
    /\ todo # <<>>
    /\ Head(todo)[1] = op

Step == Head(todo)

\* It is done.
Done == todo' = Tail(todo) /\ UNCHANGED phase

\* It is done; these are next.
DoneThen(steps) == todo' = steps \o Tail(todo) /\ UNCHANGED phase

\* It failed: the method returns an error.  A failed Start closes what it
\* opened, BodyNonAtomic reports the error for every recipient.
Fail ==
    \/ /\ phase = "starting"
       /\ todo' = <<<<"close">>, <<"refuse">>>>
       /\ UNCHANGED phase
    \/ /\ phase = "nonatomic"
       /\ todo' = <<<<"tell">>>>
       /\ UNCHANGED phase
    \/ /\ phase \in {"adding", "body", "committing"}
       /\ todo' = <<>>
       /\ phase' = [adding     |-> "ready",
                    body       |-> "failed",
                    committing |-> "brokenCommit"][phase]

\* checkStates, CheckRcpt and CheckBody for a list of checks.
CheckRcpt(list, a) == <<<<"states", list>>, <<"run", "rcpt", a, list>>>>
CheckBody(list) == <<<<"states", list>>, <<"run", "body", NoAddr, list>>>>

-----------------------------------------------------------------------------
(***************************************************************************)
(* checkRunner                                                             *)
(***************************************************************************)

\* closeStates closes the states of all of these checks, the ones that stay
\* in cr.states too; a new one is forgotten.
CloseStates(S) ==
    closes' = [c \in Checks |->
                  IF c \in S \cap stored THEN closes[c] + 1 ELSE closes[c]]

\* What checkStates does when some checks of the list are new: they are shown
\* the connection and the sender, then the list the recipients so far.
Replay(list, new) ==
    <<<<"run", "conn", NoAddr, list>>, <<"run", "sender", NoAddr, list>>>>
    \o Each(checked, LAMBDA a : <<"run", "again", a, list>>)
    \o <<<<"store", new>>>>

\* checkStates: a state for each check that has none.
CheckStates ==
    LET list == Step[2]
        new == Elems(list) \ stored
    IN
    /\ At("states")
    /\ \/ /\ seen' = [c \in Checks |-> IF c \in new THEN {} ELSE seen[c]]
          /\ DoneThen(IF new = {} THEN <<>> ELSE Replay(list, new))
          /\ UNCHANGED closes
       \/ \E k \in DOMAIN list :
            /\ list[k] \in new
            /\ CloseStates({list[i] : i \in 1 .. k - 1})
            /\ Fail
            /\ UNCHANGED seen
    /\ UNCHANGED <<cur, stored, checked, quarantine, modVars,
                   deliveryVars, histVars>>

\* "This is done after all actions that can fail".
StoreStates ==
    /\ At("store")
    /\ stored' = stored \cup Step[2]
    /\ Done
    /\ UNCHANGED <<cur, closes, seen, checked, quarantine, modVars,
                   deliveryVars, histVars>>

\* Mutant: a check that has a state is not asked again.
CalledNew(kind, a, list) ==
    IF kind = "body" THEN Elems(list) ELSE Elems(list) \ stored

\* The checks a run calls: a connection and a sender are shown to new states
\* only, an address to no state twice.
Called(kind, a, list) ==
    IF kind = "body" THEN Elems(list)
    ELSE IF kind \in {"rcpt", "again"} THEN {c \in Elems(list) : a \notin seen[c]}
    ELSE Elems(list) \ stored

\* The checks that make runAndMergeResults return an error.
RejectedBy(res) == {c \in DOMAIN res : res[c] = "reject"}

\* runAndMergeResults.  "pass" stands for no action, for an error that is
\* only logged and for a check that panics.
RunChecks ==
    LET kind == Step[2]
        a == Step[3]
        list == Step[4]
        called == Called(kind, a, list)
        address == kind \in {"rcpt", "again"}
    IN
    /\ At("run")
    /\ seen' = [c \in Checks |-> IF address /\ c \in called
                                 THEN seen[c] \cup {a} ELSE seen[c]]
    /\ bodySeen' = IF kind = "body" THEN bodySeen \cup called ELSE bodySeen
    /\ checked' = IF kind = "rcpt" THEN Append(checked, a) ELSE checked
    /\ \E res \in [called -> {"pass", "quarantine", "reject"}] :
         /\ \/ /\ RejectedBy(res) # {}
               /\ CloseStates(IF kind \in {"rcpt", "body"} THEN {}
                                                           ELSE Elems(list))
               /\ Fail
               /\ UNCHANGED quarantine
            \/ /\ RejectedBy(res) = {}
               /\ quarantine' = (quarantine \/
                                   \E c \in called : res[c] = "quarantine")
               /\ Done
               /\ UNCHANGED closes
    /\ UNCHANGED <<cur, stored, modVars, deliveryVars, calls, accepted, ways,
                   failedAt, told>>

-----------------------------------------------------------------------------
(***************************************************************************)
(* Start                                                                   *)
(***************************************************************************)

Start ==
    /\ phase = "new"
    /\ phase' = "starting"
    /\ todo' = <<<<"states", GlobalChecks>>, <<"globalMods">>,
                 <<"states", SourceChecks>>, <<"sourceMods">>>>
    /\ UNCHANGED itsVars

\* initRunGlobalModifiers, then srcBlockForAddr: an error of the former
\* leaves no state, an error or a reject directive of the latter does.
GlobalModifiers ==
    /\ At("globalMods")
    /\ \/ mods' = mods \cup {"global"} /\ Done
       \/ mods' = mods \cup {"global"} /\ Fail
       \/ UNCHANGED mods /\ Fail
    /\ UNCHANGED <<cur, runnerVars, modCloses, dropped, deliveryVars,
                   histVars>>

\* The modifiers of the source block: no state, a state whose RewriteSender
\* fails and which nobody closes, or a state.
SourceModifiers ==
    /\ At("sourceMods")
    /\ \/ mods' = mods \cup {"source"} /\ Done /\ UNCHANGED dropped
       \/ UNCHANGED mods /\ dropped' = {"source"} /\ Fail
       \/ UNCHANGED <<mods, dropped>> /\ Fail
    /\ UNCHANGED <<cur, runnerVars, modCloses, deliveryVars, histVars>>

\* Mutant: the states of recipient blocks are forgotten.
ClosedGroupsSome == mods \cap {"global", "source"}

\* The groups whose state close closes.
ClosedGroups == mods

\* close, and checkRunner.close.
CloseAll ==
    /\ At("close")
    /\ CloseStates(stored)
    /\ modCloses' = [g \in Groups |-> IF g \in ClosedGroups
                                      THEN modCloses[g] + 1 ELSE modCloses[g]]
    /\ Done
    /\ UNCHANGED <<cur, stored, seen, checked, quarantine, mods, dropped,
                   deliveryVars, histVars>>

\* Start returns the error.
Refuse ==
    /\ At("refuse")
    /\ phase' = "refused"
    /\ todo' = <<>>
    /\ UNCHANGED itsVars

-----------------------------------------------------------------------------
(***************************************************************************)
(* AddRcpt                                                                 *)
(***************************************************************************)

AddRcpt(r) ==
    /\ phase = "ready"
    /\ calls < MaxRcpts
    /\ Repeats \/ r \notin Elems(checked)
    /\ calls' = calls + 1
    /\ phase' = "adding"
    /\ cur' = r
    /\ todo' = CheckRcpt(GlobalChecks, r) \o CheckRcpt(SourceChecks, r)
               \o <<<<"rewrite">>>>
    /\ UNCHANGED <<runnerVars, modVars, deliveryVars, accepted, ways,
                   bodySeen, failedAt, told>>

\* RewriteRcpt of the global and the source modifiers.
RewriteRcpt ==
    /\ At("rewrite")
    /\ \/ DoneThen(Each(Rewritten[cur], LAMBDA a : <<"route", a>>))
       \/ Fail
    /\ UNCHANGED itsVars

\* rcptBlockForAddr: the block, an address it cannot parse, or a block that
\* rejects.
Route ==
    LET a == Step[2]
    IN
    /\ At("route")
    /\ \/ \E b \in BlocksFor[a] \ Rejects :
            DoneThen(CheckRcpt(BlockChecks[b], a)
                     \o <<<<"mods", b>>, <<"rewriteIn", b, a>>>>)
       \/ Fail
    /\ UNCHANGED itsVars

\* getRcptModifiers.
RcptModifiers ==
    LET b == Step[2]
    IN
    /\ At("mods")
    /\ \/ mods' = mods \cup {b} /\ Done
       \/ b \notin mods /\ Fail /\ UNCHANGED mods
    /\ UNCHANGED <<cur, runnerVars, modCloses, dropped, deliveryVars,
                   histVars>>

\* RewriteRcpt of the recipient block.  After an error its state is closed
\* and stays in the map.
RewriteInBlock ==
    LET b == Step[2]
        a == Step[3]
    IN
    /\ At("rewriteIn")
    /\ \/ /\ DoneThen(Each(RcptRewritten[a], LAMBDA x : <<"passOn", x, b, a>>))
          /\ UNCHANGED modCloses
       \/ /\ modCloses' = [modCloses EXCEPT ![b] = @ + 1]
          /\ Fail
    /\ UNCHANGED <<cur, runnerVars, mods, dropped, deliveryVars, histVars>>

\* An address on its way to the targets of the block: OriginalRcpts is
\* written before they see it.
PassOn ==
    LET x == Step[2]
        b == Step[3]
        a == Step[4]
    IN
    /\ At("passOn")
    /\ orig' = IF cur # x THEN [orig EXCEPT ![x] = cur] ELSE orig
    /\ DoneThen(Each(TargetsOf[b], LAMBDA t : <<"pass", t, x, b, a>>))
    /\ UNCHANGED <<cur, runnerVars, modVars, dlv, got, recips, metaQ, histVars>>

\* Mutant: the targets after the first are only started.
PassToStarts ==
    LET t == Step[2]
        x == Step[3]
    IN
    /\ At("pass")
    /\ dlv' = [dlv EXCEPT ![t] = "open"]
    /\ got' = IF dlv[t] = "none" THEN got
              ELSE [got EXCEPT ![t] = @ \cup {x}]
    /\ Done
    /\ UNCHANGED <<cur, runnerVars, modVars, recips, orig, metaQ, histVars>>

\* getDelivery, then AddRcpt of the target; what other targets have accepted
\* before an error stays with them.
PassTo ==
    LET t == Step[2]
        x == Step[3]
    IN
    /\ At("pass")
    /\ \/ /\ dlv' = [dlv EXCEPT ![t] = "open"]
          /\ got' = [got EXCEPT ![t] = @ \cup {x}]
          /\ recips' = [recips EXCEPT ![t] = @ \cup {cur}]
          /\ ways' = ways \cup {[to |-> cur, routed |-> Step[5],
                                 block |-> Step[4], final |-> x,
                                 target |-> t]}
          /\ Done
       \/ /\ dlv' = [dlv EXCEPT ![t] = "open"]
          /\ Fail
          /\ UNCHANGED <<got, recips, ways>>
       \/ /\ dlv[t] = "none"
          /\ Fail
          /\ UNCHANGED <<dlv, got, recips, ways>>
    /\ UNCHANGED <<cur, runnerVars, modVars, orig, metaQ, calls, accepted,
                   bodySeen, failedAt, told>>

-----------------------------------------------------------------------------
(***************************************************************************)
(* Body, BodyNonAtomic                                                     *)
(***************************************************************************)

UsedBlocks == mods \cap Blocks
UsedTargets == {t \in Targets : dlv[t] # "none"}

RewriteBodies(blocks) ==
    <<<<"rewriteBody", "global">>, <<"rewriteBody", "source">>>>
    \o Each(blocks, LAMBDA b : <<"rewriteBody", b>>)

\* The checks Body runs.
BodyChecks(order) ==
    CheckBody(GlobalChecks) \o CheckBody(SourceChecks)
    \o Each(order, LAMBDA b : <<"bodyIn", b>>)

Body ==
    /\ phase = "ready"
    /\ accepted # {}
    /\ phase' = "body"
    /\ \E order, again \in Orders(UsedBlocks), out \in Orders(UsedTargets) :
          todo' = BodyChecks(order) \o <<<<"apply">>>> \o RewriteBodies(again)
                  \o Each(out, LAMBDA t : <<"send", t>>)
    /\ UNCHANGED itsVars

\* The checks of a recipient block.
CheckBodyIn ==
    /\ At("bodyIn")
    /\ DoneThen(CheckBody(BlockChecks[Step[2]]))
    /\ UNCHANGED itsVars

\* The checks of recipient blocks and applyResults have no part in it.
BodyNonAtomic ==
    /\ phase = "ready"
    /\ accepted # {}
    /\ phase' = "nonatomic"
    /\ \E order \in Orders(UsedBlocks), out \in Orders(UsedTargets) :
          todo' = CheckBody(GlobalChecks) \o CheckBody(SourceChecks)
                  \o RewriteBodies(order)
                  \o Each(out, LAMBDA t : <<"send", t>>)
    /\ UNCHANGED itsVars

\* setStatusAll.
TellAll ==
    /\ At("tell")
    /\ told' = told \cup UNION {recips[t] : t \in Targets}
    /\ Done
    /\ UNCHANGED <<cur, runnerVars, modVars, deliveryVars, calls, accepted,
                   ways, bodySeen, failedAt>>

\* GenerateReceived, which may fail, and applyResults: DMARC may quarantine
\* or reject.
ApplyResults ==
    /\ At("apply")
    /\ \/ metaQ' = (metaQ \/ quarantine) /\ Done
       \/ DoDMARC /\ metaQ' = TRUE /\ Done
       \/ metaQ' \in {metaQ, metaQ \/ quarantine} /\ Fail
    /\ UNCHANGED <<cur, runnerVars, modVars, dlv, got, recips, orig, histVars>>

RewriteBody ==
    /\ At("rewriteBody")
    /\ Done \/ Fail
    /\ UNCHANGED itsVars

\* statusCollector: the address the source knows.
Original(x) == IF orig[x] = NoAddr THEN x ELSE orig[x]

\* Mutant: the status is set for the address the target knows.
StatusForTarget(t, f) == told \cup (f.bad \cap Rcpts)

\* The recipients that learn of a failure at a target: those of the addresses
\* it names, or all the delivery has when its Body fails.
StatusFor(t, f) ==
    IF t \in Partials THEN told \cup {Original(x) : x \in f.bad}
    ELSE IF f.ok THEN told ELSE told \cup recips[t]

\* What a target may do with the body in BodyNonAtomic: fail for some of its
\* addresses, or, when it has Body alone, as a whole.  Body is called on every
\* delivery, also on one that accepted no address.
Failures(t) ==
    IF t \in Partials THEN [ok : {TRUE}, bad : SUBSET got[t]]
    ELSE {[ok |-> TRUE, bad |-> {}], [ok |-> FALSE, bad |-> got[t]]}

\* Body or BodyNonAtomic of a target.
SendBody ==
    LET t == Step[2]
    IN
    /\ At("send")
    /\ \/ /\ phase = "body"
          /\ dlv' = [dlv EXCEPT ![t] = "body"]
          /\ Done
          /\ UNCHANGED <<failedAt, told>>
       \/ /\ phase = "body"
          /\ dlv' = [dlv EXCEPT ![t] = "bodyFailed"]
          /\ Fail
          /\ UNCHANGED <<failedAt, told>>
       \/ /\ phase = "nonatomic"
          /\ \E f \in Failures(t) :
                /\ failedAt' = failedAt \cup ({t} \X f.bad)
                /\ told' = StatusFor(t, f)
                /\ dlv' = [dlv EXCEPT ![t] =
                             IF f.ok THEN "body" ELSE "bodyFailed"]
          /\ Done
    /\ UNCHANGED <<cur, runnerVars, modVars, got, recips, orig, metaQ, calls,
                   accepted, ways, bodySeen>>

-----------------------------------------------------------------------------
(***************************************************************************)
(* Commit, Abort, and the end of a method                                  *)
(***************************************************************************)

\* close comes first, then the targets in any order.
Finish(method, op) ==
    /\ phase' = method
    /\ \E out \in Orders(UsedTargets) :
          todo' = <<<<"close">>>> \o Each(out, LAMBDA t : <<op, t>>)
    /\ UNCHANGED itsVars

Commit == phase = "sent" /\ Finish("committing", "commit")

\* A source whose Body failed must not commit.
Abort == phase \in {"ready", "sent", "failed"} /\ Finish("aborting", "abort")

\* The first error ends Commit.
CommitTarget ==
    LET t == Step[2]
    IN
    /\ At("commit")
    /\ \/ dlv' = [dlv EXCEPT ![t] = "committed"] /\ Done
       \/ dlv' = [dlv EXCEPT ![t] = "commitFailed"] /\ Fail
    /\ UNCHANGED <<cur, runnerVars, modVars, got, recips, orig, metaQ,
                   histVars>>

\* Mutant: an error ends Abort as well.
AbortTargetStops ==
    /\ At("abort")
    /\ todo' \in {Tail(todo), <<>>}
    /\ dlv' = [dlv EXCEPT ![Step[2]] = "aborted"]
    /\ UNCHANGED <<phase, cur, runnerVars, modVars, got, recips, orig, metaQ,
                   histVars>>

\* Abort goes on after an error.
AbortTarget ==
    /\ At("abort")
    /\ dlv' = [dlv EXCEPT ![Step[2]] = "aborted"]
    /\ Done
    /\ UNCHANGED <<cur, runnerVars, modVars, got, recips, orig, metaQ,
                   histVars>>

\* The method has nothing left to do.
Return ==
    /\ phase \in Methods
    /\ todo = <<>>
    /\ phase' = [starting   |-> "ready",
                 adding     |-> "ready",
                 body       |-> "sent",
                 nonatomic  |-> "sent",
                 committing |-> "committed",
                 aborting   |-> "aborted"][phase]
    /\ accepted' = IF phase = "adding" THEN accepted \cup {cur} ELSE accepted
    /\ UNCHANGED <<todo, cur, runnerVars, modVars, deliveryVars, calls, ways, bodySeen, failedAt, told>>

-----------------------------------------------------------------------------
Source ==
    \/ Start
    \/ \E r \in Rcpts : AddRcpt(r)
    \/ Body \/ BodyNonAtomic \/ Commit \/ Abort

Pipeline ==
    \/ CheckStates \/ StoreStates \/ RunChecks
    \/ GlobalModifiers \/ SourceModifiers \/ CloseAll \/ Refuse
    \/ RewriteRcpt \/ Route \/ RcptModifiers \/ RewriteInBlock
    \/ PassOn \/ PassTo \/ CheckBodyIn
    \/ ApplyResults \/ RewriteBody \/ TellAll \/ SendBody
    \/ CommitTarget \/ AbortTarget \/ Return

Next == Source \/ Pipeline

Spec == Init /\ [][Next]_vars

-----------------------------------------------------------------------------
(***************************************************************************)
(* Properties                                                              *)
(***************************************************************************)

\* The global and the source checks have seen the recipient as the source
\* named it, those of its block the address that was routed, whether their
\* states are new, old or shared between blocks.
RcptsChecked ==
    \A w \in ways :
        /\ \A c \in Elems(GlobalChecks) \cup Elems(SourceChecks) :
              c \in stored /\ w.to \in seen[c]
        /\ \A c \in Elems(BlockChecks[w.block]) :
              c \in stored /\ w.routed \in seen[c]

\* Every check of the blocks in use was shown the body, and the message has
\* the quarantine mark if any check asked for it at any time.
BodyChecked ==
    /\ Elems(GlobalChecks) \cup Elems(SourceChecks) \subseteq bodySeen
    /\ \A b \in UsedBlocks : Elems(BlockChecks[b]) \subseteq bodySeen
    /\ quarantine => metaQ

(* Nothing reaches a target before every check has had its say on it:      *)
(* no address, and in an atomic delivery no body.                          *)
CheckedBeforePassed ==
    /\ RcptsChecked
    /\ phase = "body" /\ (\E t \in Targets : dlv[t] \notin {"none", "open"})
        => BodyChecked

(* A recipient AddRcpt returned nil for is with every target it has to     *)
(* reach: rewriting and routing lost none of its addresses.                *)
AcceptedIsHeld ==
    \A r \in accepted : \A a \in Elems(Rewritten[r]) :
        \E b \in BlocksFor[a] \ Rejects :
            \A x \in Elems(RcptRewritten[a]), t \in Elems(TargetsOf[b]) :
                x \in got[t] /\ r \in recips[t]

(* When the message is done with, no state of a check or a modifier is     *)
(* left open, whichever step of which method failed, but for the modifiers *)
(* of the source block whose RewriteSender failed (dropped).               *)
NothingLeftOpen ==
    phase \in Over =>
        /\ \A c \in stored : closes[c] > 0
        /\ \A g \in mods : modCloses[g] > 0

(* All targets or none: a Commit or an Abort that returned nil left no     *)
(* delivery behind, and when the source may commit, every target has the   *)
(* body or has told all the recipients it has that it has not.  (A target  *)
(* that accepted no address has nobody to tell.)                           *)
AllOrNone ==
    /\ phase = "committed" => \A t \in UsedTargets : dlv[t] = "committed"
    /\ phase = "aborted" => \A t \in UsedTargets : dlv[t] = "aborted"
    /\ phase = "sent" => \A t \in UsedTargets :
          dlv[t] = "body" \/ recips[t] \subseteq told

(* A recipient that is not reported as failed is with its targets: the     *)
(* failure of one of its addresses is reported under the name the source   *)
(* knows, through both rewritings.  (OriginalRcpts holds one name for an   *)
(* address, so no two recipients may be rewritten to the same one.)        *)
FailuresTold ==
    phase = "sent" =>
        \A w \in ways : <<w.target, w.final>> \in failedAt => w.to \in told

=============================================================================
