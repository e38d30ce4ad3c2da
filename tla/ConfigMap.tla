------------------------------ MODULE ConfigMap -----------------------------
(***************************************************************************)
(* framework/config/map.go: what a module's variables become when its      *)
(* block of the configuration and the global directives are processed.     *)
(*                                                                         *)
(* A directive is a record [name, args, block]: the arguments, and whether *)
(* it opens a block of its own.  An argument is a record [word, num, unit] *)
(* of its text and of the number it starts with and what follows that;     *)
(* unit is NaN when it is no number.  A matcher is a record [name, kind,   *)
(* required, inherit, defaultVal, default, allowed]: whether defaultVal is *)
(* nil or a function, and then whether it fails or what it returns.        *)
(***************************************************************************)
EXTENDS Integers, Sequences, FiniteSets

CONSTANTS
    Kilo,           \* 1024
    IntMax          \* the largest int

NaN == "NaN"
Failure == [ok |-> FALSE]
Value(v) == [ok |-> TRUE, val |-> v]

\* Arithmetic of the width of int: it wraps around.
Wrapped(n) == ((n + IntMax + 1) % (2 * IntMax + 2)) - (IntMax + 1)

-----------------------------------------------------------------------------
(***************************************************************************)
(* Conversion of arguments                                                 *)
(***************************************************************************)

StringOf(node) ==
    IF Len(node.args) = 1 /\ ~node.block THEN Value(node.args[1].word)
    ELSE Failure

StringListOf(node) ==
    IF Len(node.args) > 0 /\ ~node.block
    THEN Value([i \in DOMAIN node.args |-> node.args[i].word]) ELSE Failure

EnumOf(node, allowed) ==
    IF /\ Len(node.args) = 1 /\ ~node.block
       /\ node.args[1].word \in allowed
    THEN Value(node.args[1].word) ELSE Failure

EnumListOf(node, allowed) ==
    IF /\ Len(node.args) > 0 /\ ~node.block
       /\ \A i \in DOMAIN node.args : node.args[i].word \in allowed
    THEN StringListOf(node) ELSE Failure

Yes == {"1", "true", "on", "yes"}
No == {"0", "false", "off", "no"}
BoolOf(node) ==
    IF node.block \/ Len(node.args) > 1 THEN Failure
    ELSE IF node.args = <<>> \/ node.args[1].word \in Yes THEN Value(TRUE)
    ELSE IF node.args[1].word \in No THEN Value(FALSE)
    ELSE Failure

\* Int, UInt, Int32, UInt32, Int64, UInt64: min and max are the bounds of the
\* type.
IntOf(node, min, max) ==
    IF /\ Len(node.args) = 1 /\ ~node.block
       /\ node.args[1].num \in min .. max /\ node.args[1].unit = ""
    THEN Value(node.args[1].num) ELSE Failure

\* ParseDataSize of the arguments: their sum.  A number without a unit has to
\* be zero, none may be negative or more than an int, and nothing looks for an
\* overflow of products and sums.
Scale == [u \in {"G", "M", "K", "B", "b"} |->
            CASE u = "G" -> Kilo * Kilo * Kilo [] u = "M" -> Kilo * Kilo
              [] u = "K" -> Kilo [] OTHER -> 1]
DataSizeOf(node) ==
    IF /\ Len(node.args) > 0 /\ ~node.block
       /\ \A i \in DOMAIN node.args :
             /\ node.args[i].unit # NaN /\ node.args[i].num \in 0 .. IntMax
             /\ node.args[i].unit \in DOMAIN Scale \/ node.args[i].num = 0
    THEN Value(LET sum[i \in 0 .. Len(node.args)] ==
                     IF i = 0 THEN 0
                     ELSE IF node.args[i].num = 0 THEN sum[i - 1]
                     ELSE Wrapped(sum[i - 1] + Wrapped(node.args[i].num
                                                  * Scale[node.args[i].unit]))
               IN  sum[Len(node.args)])
    ELSE Failure

\* Duration: the arguments are one duration, in units of time.ParseDuration,
\* which may not be negative.
DurationUnit == [u \in {"h", "m", "s"} |->
                    CASE u = "h" -> 3600 [] u = "m" -> 60 [] u = "s" -> 1]
DurationOf(node) ==
    IF /\ Len(node.args) > 0 /\ ~node.block
       /\ \A i \in DOMAIN node.args :
             /\ node.args[i].unit # NaN /\ node.args[i].num >= 0
             /\ \/ node.args[i].unit \in DOMAIN DurationUnit
                \/ Len(node.args) = 1 /\ node.args[i].num = 0
    THEN Value(LET sum[i \in 0 .. Len(node.args)] ==
                     IF i = 0 THEN 0
                     ELSE IF node.args[i].num = 0 THEN sum[i - 1]
                     ELSE sum[i - 1] + node.args[i].num
                                          * DurationUnit[node.args[i].unit]
               IN  sum[Len(node.args)])
    ELSE Failure

\* The mapper of a matcher, or its callback, which refuses what it does not
\* know.
Mapper(m, node) ==
    CASE m.kind = "string" -> StringOf(node)
      [] m.kind = "list" -> StringListOf(node)
      [] m.kind = "enum" -> EnumOf(node, m.allowed)
      [] m.kind = "enumlist" -> EnumListOf(node, m.allowed)
      [] m.kind = "bool" -> BoolOf(node)
      [] m.kind = "int" -> IntOf(node, -(IntMax + 1), IntMax)
      [] m.kind = "uint" -> IntOf(node, 0, IntMax)
      [] m.kind = "size" -> DataSizeOf(node)
      [] m.kind = "duration" -> DurationOf(node)
      [] m.kind = "callback" -> EnumListOf(node, m.allowed)

\* The zero value of its type.
Zero(m) ==
    CASE m.kind \in {"string", "enum"} -> ""
      [] m.kind \in {"list", "enumlist"} -> <<>>
      [] m.kind = "bool" -> FALSE
      [] OTHER -> 0

-----------------------------------------------------------------------------
(***************************************************************************)
(* ProcessWith                                                             *)
(***************************************************************************)

\* Values saved, variables stored, directives that callbacks took, directives
\* nobody has asked for.
NothingYet == [ok |-> TRUE, values |-> <<>>, stored |-> <<>>, called |-> <<>>,
               unknown |-> <<>>]

With(f, x, v) == [y \in DOMAIN f \union {x} |-> IF y = x THEN v ELSE f[y]]

\* The matchers of Custom, which have a variable; those of Callback have none.
Variables(matchers) == {m \in matchers : m.kind # "callback"}

\* One directive of the block.  Those of a callback may be repeated.
TakeDirective(matchers, allowUnknown, acc, node) ==
    LET m == CHOOSE e \in matchers : e.name = node.name
    IN  IF ~acc.ok THEN acc
        ELSE IF \A e \in matchers : e.name # node.name
             THEN IF allowUnknown
                  THEN [acc EXCEPT !.unknown = Append(@, node)]
                  ELSE [acc EXCEPT !.ok = FALSE]
        ELSE IF m.kind = "callback"
             THEN [acc EXCEPT !.ok = Mapper(m, node).ok,
                              !.called = Append(@, node)]
        ELSE IF node.name \in DOMAIN acc.values \/ ~Mapper(m, node).ok
             THEN [acc EXCEPT !.ok = FALSE]
        ELSE [acc EXCEPT
                !.values = With(@, node.name, Mapper(m, node).val),
                !.stored = With(@, node.name, Mapper(m, node).val)]

\* A value that was not given is inherited or the default, if there is one and
\* it can be made.
Inherits(m, globals) == m.inherit /\ m.name \in DOMAIN globals
Lacks(m, globals) ==
    ~Inherits(m, globals) /\ (m.required \/ m.defaultVal = "error")
Leaves(m, globals) == ~Inherits(m, globals) /\ m.defaultVal = "nil"
Absent(m, globals) ==
    IF Inherits(m, globals) THEN globals[m.name] ELSE m.default

\* Mutant: whatever it is, it is saved.
SavedAlways(m, globals) == TRUE

\* It is saved among the values, where blocks may inherit it, unless it is
\* zero.
Saved(m, globals) == Absent(m, globals) # Zero(m)

\* The directives in their order: what the first i of them gave.
Taken(matchers, allowUnknown, nodes) ==
    LET upTo[i \in 0 .. Len(nodes)] ==
            IF i = 0 THEN NothingYet
            ELSE TakeDirective(matchers, allowUnknown, upTo[i - 1], nodes[i])
    IN  upTo

\* Process: the directives, then what they did not give.
Processed(matchers, allowUnknown, globals, nodes) ==
    LET own == Taken(matchers, allowUnknown, nodes)[Len(nodes)]
        rest == {m \in Variables(matchers) : m.name \notin DOMAIN own.values}
        given == {m \in rest : ~Leaves(m, globals)}
        val(n) == LET m == CHOOSE e \in given : e.name = n
                  IN  Absent(m, globals)
        named(S) == {m.name : m \in S}
    IN  IF ~own.ok \/ \E m \in rest : Lacks(m, globals)
        THEN [own EXCEPT !.ok = FALSE]
        ELSE [own EXCEPT
                !.stored = [n \in DOMAIN @ \union named(given) |->
                              IF n \in DOMAIN own.stored THEN own.stored[n]
                              ELSE val(n)],
                !.values = [n \in DOMAIN @ \union
                                named({m \in given : Saved(m, globals)}) |->
                              IF n \in DOMAIN own.values THEN own.values[n]
                              ELSE val(n)]]

=============================================================================
