--------------------------- MODULE WheelContract ---------------------------
(***************************************************************************)
(* What the queue relies on when it hands a slot to the time wheel of      *)
(* internal/target/queue/timewheel.go, whatever its goroutines do:         *)
(*   - a slot that was handed in is passed to the dispatch callback at     *)
(*     most once, and never without having been handed in;                 *)
(*   - once the wheel has stopped nothing is passed to the callback.       *)
(* TimeWheel implements this specification.                                *)
(***************************************************************************)
CONSTANT Adders     \* one Add call each; an Add call is named by its caller

VARIABLES
    pending,        \* slots handed in and not yet dispatched
    fired,          \* slots passed to the dispatch callback
    running         \* FALSE once the wheel's goroutine has returned

contractVars == <<pending, fired, running>>

Init ==
    /\ pending = {}
    /\ fired = {}
    /\ running = TRUE

Accept(a) ==
    /\ a \notin pending \cup fired
    /\ pending' = pending \cup {a}
    /\ UNCHANGED <<fired, running>>

Fire(a) ==
    /\ running
    /\ a \in pending
    /\ pending' = pending \ {a}
    /\ fired' = fired \cup {a}
    /\ UNCHANGED running

Stop ==
    /\ running
    /\ running' = FALSE
    /\ UNCHANGED <<pending, fired>>

Next ==
    \/ \E a \in Adders : Accept(a) \/ Fire(a)
    \/ Stop

Spec == Init /\ [][Next]_contractVars
=============================================================================
