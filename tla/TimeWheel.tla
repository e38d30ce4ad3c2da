----------------------------- MODULE TimeWheel -----------------------------
(***************************************************************************)
(* internal/target/queue/timewheel.go: a list of slots, each with a target *)
(* time, and one goroutine (tick) that sleeps until the closest of them is *)
(* due and passes it to the dispatch callback.                             *)
(*                                                                         *)
(* Three kinds of goroutines interleave: the callers of Add (delivery      *)
(* goroutines and SMTP sessions), tick, and the caller of Close.  Both     *)
(* channels are unbuffered, so a send and its receive are one joint step.  *)
(* (Names that Queue has too begin with Wheel, so that both modules can be *)
(* extended by one.)                                                       *)
(***************************************************************************)
EXTENDS Naturals, FiniteSets

CONSTANTS
    Adders,     \* the Add calls; the name of the call stands for its value
    MaxTime     \* bound on the clock

ASSUME AddersAssumption == IsFiniteSet(Adders)
ASSUME MaxTimeAssumption == MaxTime \in Nat

(***************************************************************************)
(* Target times.  0 stands for time.Time{}, the target of a newly accepted *)
(* message: it lies in the past at every value of the clock.               *)
(***************************************************************************)
Times == 0 .. MaxTime

VARIABLES
    now,        \* time.Now()
    stopped,    \* tw.stopped
    list,       \* tw.slots; "order" is the position given by PushBack
    pushes,     \* number of PushBack calls so far
    adder,      \* program counter of each Add call
    target,     \* its argument
    tick,       \* program counter of the tick goroutine
    closest,    \* tick's closestSlot: {} (closestEl == nil) or one slot
    closer,     \* program counter of the Close call
    dispatched  \* history: values passed to tw.dispatch

wheelVars == <<now, stopped, list, pushes, adder, target, tick, closest,
               closer, dispatched>>

TimeSlot == [time : Times, value : Adders, order : Nat]

WheelTypeOK ==
    /\ now \in Times
    /\ stopped \in BOOLEAN
    /\ list \subseteq TimeSlot
    /\ pushes \in Nat
    /\ adder \in [Adders -> {"new", "checked", "pushed", "done", "ignored",
                             "panicked"}]
    /\ target \in [Adders -> Times]
    /\ tick \in {"scan", "empty", "wait", "stopping", "done"}
    /\ closest \subseteq TimeSlot
    /\ closer \in {"open", "stopping", "waiting", "acked", "closed"}
    /\ dispatched \subseteq Adders

WheelInit ==
    /\ now = 0
    /\ stopped = FALSE
    /\ list = {}
    /\ pushes = 0
    /\ adder = [a \in Adders |-> "new"]
    /\ target = [a \in Adders |-> 0]
    /\ tick = "scan"
    /\ closest = {}
    /\ closer = "open"
    /\ dispatched = {}

-----------------------------------------------------------------------------
(***************************************************************************)
(* Add                                                                     *)
(***************************************************************************)

\* The atomic load of tw.stopped: a stopped wheel ignores the call.
AddCheck(a) ==
    /\ adder[a] = "new"
    /\ \E t \in Times : target' = [target EXCEPT ![a] = t]
    /\ adder' = [adder EXCEPT ![a] = IF stopped THEN "ignored" ELSE "checked"]
    /\ UNCHANGED <<now, stopped, list, pushes, tick, closest, closer,
                   dispatched>>

\* PushBack under slotsLock.
AddPush(a) ==
    /\ adder[a] = "checked"
    /\ list' = list \cup {[time |-> target[a], value |-> a,
                           order |-> pushes + 1]}
    /\ pushes' = pushes + 1
    /\ adder' = [adder EXCEPT ![a] = "pushed"]
    /\ UNCHANGED <<now, stopped, target, tick, closest, closer, dispatched>>

\* Mutant: the comparison is turned round.
AffectsWaitTurned(t) == \A s \in closest : s.time < t

\* Does a new slot with target time t make tick recompute its wait?
AffectsWait(t) == \A s \in closest : ~(s.time <= t)

\* Mutant: with an empty list the notification does not wake the scan.
AddNotifyLost(a) ==
    /\ adder[a] = "pushed"
    /\ \/ /\ tick = "empty"
          /\ UNCHANGED <<tick, closest>>
       \/ /\ tick = "wait"
          /\ AffectsWait(target[a])
          /\ tick' = "scan" /\ closest' = {}
       \/ /\ tick = "wait"
          /\ ~AffectsWait(target[a])
          /\ UNCHANGED <<tick, closest>>
    /\ adder' = [adder EXCEPT ![a] = "done"]
    /\ UNCHANGED <<now, stopped, list, pushes, target, closer, dispatched>>

\* updateNotify: the send of Add meets the receive in one of tick's selects.
AddNotify(a) ==
    /\ adder[a] = "pushed"
    /\ \/ /\ tick = "empty"
          /\ tick' = "scan"
          /\ UNCHANGED closest
       \/ /\ tick = "wait"
          /\ IF AffectsWait(target[a])
             THEN tick' = "scan" /\ closest' = {}
             ELSE UNCHANGED <<tick, closest>>
    /\ adder' = [adder EXCEPT ![a] = "done"]
    /\ UNCHANGED <<now, stopped, list, pushes, target, closer, dispatched>>

\* A send on a closed channel panics in the goroutine that called Add.
AddPanic(a) ==
    /\ adder[a] = "pushed"
    /\ closer = "closed"
    /\ adder' = [adder EXCEPT ![a] = "panicked"]
    /\ UNCHANGED <<now, stopped, list, pushes, target, tick, closest, closer,
                   dispatched>>

-----------------------------------------------------------------------------
(***************************************************************************)
(* tick                                                                    *)
(***************************************************************************)

\* The scan keeps the first of the elements with the smallest target time.
Earlier(s, t) == s.time < t.time \/ (s.time = t.time /\ s.order < t.order)

IsClosest(s) == \A t \in list : t = s \/ Earlier(s, t)

\* Mutant: an empty list is taken for the end of the goroutine.
TickScanReturns ==
    /\ tick = "scan"
    /\ \/ /\ list = {}
          /\ tick' = "done"
          /\ closest' = {}
       \/ \E s \in list :
            /\ IsClosest(s)
            /\ tick' = "wait"
            /\ closest' = {s}
    /\ UNCHANGED <<now, stopped, list, pushes, adder, target, closer,
                   dispatched>>

\* The scan under slotsLock, and the timer it arms.
TickScan ==
    /\ tick = "scan"
    /\ \/ /\ list = {}
          /\ tick' = "empty"
          /\ closest' = {}
       \/ \E s \in list :
            /\ IsClosest(s)
            /\ tick' = "wait"
            /\ closest' = {s}
    /\ UNCHANGED <<now, stopped, list, pushes, adder, target, closer,
                   dispatched>>

\* Mutant: the element stays in the list.
TickFireKeeps ==
    /\ tick = "wait"
    /\ \A s \in closest : s.time <= now
    /\ dispatched' = dispatched \cup {s.value : s \in closest}
    /\ tick' = "scan"
    /\ closest' = {}
    /\ UNCHANGED <<now, stopped, list, pushes, adder, target, closer>>

\* The timer fires: remove the element, dispatch it, start over.
TickFire ==
    /\ tick = "wait"
    /\ \A s \in closest : s.time <= now
    /\ list' = list \ closest
    /\ dispatched' = dispatched \cup {s.value : s \in closest}
    /\ tick' = "scan"
    /\ closest' = {}
    /\ UNCHANGED <<now, stopped, pushes, adder, target, closer>>

-----------------------------------------------------------------------------
(***************************************************************************)
(* Close.  A later call finds stopNotify = nil and returns at once.        *)
(***************************************************************************)

CloseStore ==
    /\ closer = "open"
    /\ stopped' = TRUE
    /\ closer' = "stopping"
    /\ UNCHANGED <<now, list, pushes, adder, target, tick, closest,
                   dispatched>>

\* stopNotify: Close's request is received in one of tick's selects.
StopRequest ==
    /\ closer = "stopping"
    /\ tick \in {"empty", "wait"}
    /\ closer' = "waiting"
    /\ tick' = "stopping"
    /\ UNCHANGED <<now, stopped, list, pushes, adder, target, closest,
                   dispatched>>

\* Mutant: tick acknowledges the request and keeps serving.
StopReplyServes ==
    /\ closer = "waiting"
    /\ tick = "stopping"
    /\ closer' = "acked"
    /\ tick' = "scan"
    /\ UNCHANGED <<now, stopped, list, pushes, adder, target, closest,
                   dispatched>>

\* stopNotify: tick's answer, after which it returns.
StopReply ==
    /\ closer = "waiting"
    /\ tick = "stopping"
    /\ closer' = "acked"
    /\ tick' = "done"
    /\ UNCHANGED <<now, stopped, list, pushes, adder, target, closest,
                   dispatched>>

\* stopNotify = nil; close(updateNotify).
CloseChannel ==
    /\ closer = "acked"
    /\ closer' = "closed"
    /\ UNCHANGED <<now, stopped, list, pushes, adder, target, tick, closest,
                   dispatched>>

-----------------------------------------------------------------------------
TimePasses ==
    /\ now < MaxTime
    /\ now' = now + 1
    /\ UNCHANGED <<stopped, list, pushes, adder, target, tick, closest,
                   closer, dispatched>>

Add(a) == AddCheck(a) \/ AddPush(a) \/ AddNotify(a) \/ AddPanic(a)

WheelTick == TickScan \/ TickFire

WheelClose == CloseStore \/ StopRequest \/ StopReply \/ CloseChannel

WheelNext ==
    \/ \E a \in Adders : Add(a)
    \/ WheelTick
    \/ WheelClose
    \/ TimePasses

WheelSpec == WheelInit /\ [][WheelNext]_wheelVars

(***************************************************************************)
(* Every goroutine is scheduled eventually, the clock advances, and a      *)
(* select whose case stays ready takes it.  Close need never be called:    *)
(* only its later steps are fair.                                          *)
(***************************************************************************)
WheelFairness ==
    /\ \A a \in Adders : WF_wheelVars(Add(a))
    /\ WF_wheelVars(WheelTick)
    /\ WF_wheelVars(StopRequest \/ StopReply \/ CloseChannel)
    /\ WF_wheelVars(TimePasses)

WheelFairSpec == WheelSpec /\ WheelFairness

-----------------------------------------------------------------------------
(***************************************************************************)
(* Properties                                                              *)
(***************************************************************************)

(* What the queue relies on: a slot is dispatched at most once, only after *)
(* it was handed in, and never once tick has returned.  The Add calls, the *)
(* scan, the timer and the stop handshake together implement it.           *)
Contract == INSTANCE WheelContract
            WITH pending <- {s.value : s \in list},
                 fired   <- dispatched,
                 running <- tick # "done"

ContractSpec == Contract!Spec

(* Slots are dispatched in order of target time, and in the order of their *)
(* Add calls for equal times: when the timer fires for s, no slot whose    *)
(* Add has returned is ahead of s.  The shortcut in tick that ignores a    *)
(* notification "not going to affect our current wait time" and the race   *)
(* of the timer with a notification must not break it.                     *)
NoOvertaking ==
    [][\A s, t \in list :
          (/\ s.value \in dispatched' \ dispatched
           /\ t # s
           /\ adder[t.value] = "done") => Earlier(s, t)]_wheelVars

(* Nothing that passed the check of Add disappears: the slot is in the     *)
(* list or was dispatched, never both and never neither, whichever of the  *)
(* timer, the notification and Close wins.  A call the stopped wheel       *)
(* ignored leaves no slot behind.                                          *)
Accounted ==
    \A a \in Adders :
        LET listed == \E s \in list : s.value = a
        IN  /\ ~(listed /\ a \in dispatched)
            /\ (listed \/ a \in dispatched)
                 <=> adder[a] \in {"pushed", "done", "panicked"}

(* After Close has returned the callback is not called any more: the       *)
(* queue's deliveryWg.Wait relies on no delivery starting behind it.       *)
SilentAfterClose ==
    [][(closer \in {"acked", "closed"}) => (dispatched' = dispatched)]_wheelVars

(* A slot whose Add returned is dispatched, unless the wheel is stopped:   *)
(* no wake-up of tick is lost between the scan, the notification and the   *)
(* timer.                                                                  *)
EventuallyDispatched ==
    \A a \in Adders :
        adder[a] = "done" ~> (a \in dispatched \/ stopped)

(* Close returns: its two steps on stopNotify meet tick, whatever tick and *)
(* the Add calls are doing.                                                *)
WheelCloseReturns == closer = "stopping" ~> closer = "closed"
=============================================================================
