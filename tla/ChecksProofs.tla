---------------------------- MODULE ChecksProofs ----------------------------
(***************************************************************************)
(* Proofs about Checks: objections of the checks are heeded, and mail that *)
(* is not aligned is held to the policy of its domain.  The score of the   *)
(* blocklists is a sum over a set, so the proofs begin with the theory of  *)
(* the library's SumFunctionOnSet, by induction on the size of the set.    *)
(***************************************************************************)
EXTENDS Checks, FiniteSetTheorems, WellFoundedInduction, TLAPS

(***************************************************************************)
(* Sums over finite sets.                                                  *)
(***************************************************************************)
\* Induction on the natural numbers, for a set instead of a predicate.
LEMMA SetInduction ==
    ASSUME NEW S, 0 \in S, \A n \in Nat : n \in S => n + 1 \in S
    PROVE  \A n \in Nat : n \in S
<1> DEFINE T == Nat \ S
           R == OpToRel(<, Nat)
<1> SUFFICES ASSUME T # {} PROVE FALSE
  OBVIOUS
<1>1. IsWellFoundedOn(R, Nat)
  BY NatLessThanWellFounded
<1> HIDE DEF R
<1>2. PICK x \in T : \A y \in T : ~ (<<y, x>> \in R)
  BY <1>1, WFMin
<1>3. x # 0 /\ x - 1 \in Nat
  BY <1>2
<1>4. <<x - 1, x>> \in R
  BY <1>3, <1>2 DEF R, OpToRel
<1>5. x - 1 \in S
  BY <1>2, <1>3, <1>4
<1> QED
  BY <1>5, <1>3, <1>2

\* The equation that the library's sum of f over a set solves.
Some(s) == CHOOSE x \in s : TRUE
Summed(f, s, g) == IF s = {} THEN 0 ELSE f[Some(s)] + g[s \ {Some(s)}]
Solves(f, S, g) == g = [s \in SUBSET S |-> Summed(f, s, g)]

LEMMA SumDef ==
    ASSUME NEW f, NEW S
    PROVE  SumFunctionOnSet(f, S) = (CHOOSE g : Solves(f, S, g))[S]
  BY DEF SumFunctionOnSet, FoldFunctionOnSet, MapThenFoldSet, Solves, Summed, Some

LEMMA SomeIs ==
    ASSUME NEW s, s # {}
    PROVE  Some(s) \in s
  BY DEF Some

\* Taking an element out makes a finite set smaller by one.
LEMMA Smaller ==
    ASSUME NEW s, IsFiniteSet(s), s # {}, NEW x \in s
    PROVE  /\ IsFiniteSet(s \ {x}) /\ Cardinality(s) \in Nat \ {0}
           /\ Cardinality(s \ {x}) = Cardinality(s) - 1
  BY FS_RemoveElement, FS_EmptySet, FS_CardinalityType

\* The equation has a solution: one for the subsets of at most n elements,
\* for every n.
LEMMA SumSolves ==
    ASSUME NEW f, NEW S, IsFiniteSet(S)
    PROVE  \E g : Solves(f, S, g)
<1> DEFINE Small(n) == {s \in SUBSET S : Cardinality(s) <= n}
           Upto(g, n) == g = [s \in Small(n) |-> Summed(f, s, g)]
           N == {n \in Nat : \E g : Upto(g, n)}
<1>0. \A s \in SUBSET S : IsFiniteSet(s) /\ Cardinality(s) \in Nat
        /\ Cardinality(s) <= Cardinality(S)
  BY FS_Subset, FS_CardinalityType
<1>1. 0 \in N
  <2> DEFINE g == [s \in Small(0) |-> 0]
  <2>1. \A s \in Small(0) : s = {}
    BY <1>0, FS_EmptySet
  <2>2. \A s \in Small(0) : Summed(f, s, g) = 0
    BY <2>1 DEF Summed
  <2>3. Upto(g, 0)
    BY <2>2
  <2> HIDE DEF g, Upto
  <2> QED
    BY <2>3
<1>2. ASSUME NEW n \in Nat, n \in N PROVE n + 1 \in N
  <2>1. PICK h : Upto(h, n)
    BY <1>2
  <2> DEFINE g == [s \in Small(n + 1) |-> Summed(f, s, h)]
  <2>2. \A s \in Small(n) : h[s] = Summed(f, s, h)
    BY <2>1
  <2>3. \A s \in Small(n) : s \in Small(n + 1)
    BY <1>0
  <2>4. \A s \in Small(n) : g[s] = h[s]
    BY <2>2, <2>3
  <2> HIDE DEF g, Small
  <2>5. ASSUME NEW s \in Small(n + 1) PROVE Summed(f, s, h) = Summed(f, s, g)
    <3>1. CASE s = {}
      BY <3>1 DEF Summed
    <3>2. CASE s # {}
      <4>1. Some(s) \in s /\ IsFiniteSet(s) /\ s \in SUBSET S
        BY <3>2, <1>0, SomeIs DEF Small
      <4>2. s \ {Some(s)} \in Small(n)
        BY <1>0, <4>1, <3>2, Smaller DEF Small
      <4> QED
        BY <2>4, <3>2, <4>2 DEF Summed
    <3> QED
      BY <3>1, <3>2
  <2>6. g = [s \in Small(n + 1) |-> Summed(f, s, g)]
    <3>1. g = [s \in Small(n + 1) |-> Summed(f, s, h)]
      BY DEF g
    <3> QED
      BY <2>5, <3>1
  <2>7. Upto(g, n + 1)
    BY <2>6
  <2> HIDE DEF Upto
  <2> QED
    BY <2>7
<1>3. \A n \in Nat : n \in N
  <2> HIDE DEF N
  <2> QED
    BY <1>1, <1>2, SetInduction
<1>4. Cardinality(S) \in Nat
  BY FS_CardinalityType
<1>5. PICK g : Upto(g, Cardinality(S))
  BY <1>3, <1>4
<1>6. Small(Cardinality(S)) = SUBSET S
  BY <1>0
<1> QED
  BY <1>5, <1>6 DEF Solves

\* Its solutions for two sets agree where both are defined.
LEMMA SumAgrees ==
    ASSUME NEW f, NEW S, NEW T, NEW g, NEW h, Solves(f, S, g), Solves(f, T, h)
    PROVE  \A s \in SUBSET S : s \in SUBSET T /\ IsFiniteSet(s) => g[s] = h[s]
<1> DEFINE N == {n \in Nat : \A s \in SUBSET S :
             s \in SUBSET T /\ IsFiniteSet(s) /\ Cardinality(s) = n => g[s] = h[s]}
<1>0. /\ \A s \in SUBSET S : g[s] = Summed(f, s, g)
      /\ \A s \in SUBSET T : h[s] = Summed(f, s, h)
  BY DEF Solves
<1>1. 0 \in N
  <2>1. {} \in SUBSET S /\ {} \in SUBSET T
    OBVIOUS
  <2>2. g[{}] = 0 /\ h[{}] = 0
    BY <1>0, <2>1 DEF Summed
  <2>3. \A s : IsFiniteSet(s) /\ Cardinality(s) = 0 => s = {}
    BY FS_EmptySet
  <2> QED
    BY <2>2, <2>3
<1>2. ASSUME NEW n \in Nat, n \in N PROVE n + 1 \in N
  <2> SUFFICES ASSUME NEW s \in SUBSET S, s \in SUBSET T, IsFiniteSet(s),
                      Cardinality(s) = n + 1
               PROVE  g[s] = h[s]
    OBVIOUS
  <2>1. s # {}
    BY FS_EmptySet
  <2> DEFINE x == Some(s)
  <2>2. x \in s
    BY <2>1, SomeIs
  <2> HIDE DEF x
  <2>3. IsFiniteSet(s \ {x}) /\ Cardinality(s \ {x}) = n
    <3>1. /\ IsFiniteSet(s \ {x}) /\ Cardinality(s \ {x}) = Cardinality(s) - 1
      BY ONLY IsFiniteSet(s), <2>1, <2>2, Smaller
    <3> QED
      BY <3>1
  <2>4. s \ {x} \in SUBSET S /\ s \ {x} \in SUBSET T
    OBVIOUS
  <2>5. g[s \ {x}] = h[s \ {x}]
    BY <1>2, <2>3, <2>4
  <2>6. Summed(f, s, g) = f[x] + g[s \ {x}] /\ Summed(f, s, h) = f[x] + h[s \ {x}]
    BY <2>1 DEF Summed, x
  <2> QED
    BY <1>0, <2>5, <2>6
<1>3. \A n \in Nat : n \in N
  <2> HIDE DEF N
  <2> QED
    BY <1>1, <1>2, SetInduction
<1> QED
  BY <1>3, FS_CardinalityType

\* The sum, one chosen element at a time.
LEMMA SumSome ==
    ASSUME NEW f, NEW S, IsFiniteSet(S)
    PROVE  SumFunctionOnSet(f, S) =
             IF S = {} THEN 0
             ELSE f[Some(S)] + SumFunctionOnSet(f, S \ {Some(S)})
<1> DEFINE Sol(T) == CHOOSE g : Solves(f, T, g)
<1>1. \A T : IsFiniteSet(T) => Solves(f, T, Sol(T))
  <2> TAKE T
  <2> HAVE IsFiniteSet(T)
  <2> QED
    BY SumSolves
<1>2. \A T : SumFunctionOnSet(f, T) = Sol(T)[T]
  BY SumDef
<1> HIDE DEF Sol
<1>3. Sol(S)[S] = Summed(f, S, Sol(S))
  <2>1. Solves(f, S, Sol(S))
    BY <1>1
  <2> QED
    BY <2>1 DEF Solves
<1>4. CASE S = {}
  BY <1>2, <1>3, <1>4 DEF Summed
<1>5. CASE S # {}
  <2> DEFINE x == Some(S)
             R == S \ {x}
  <2>1. x \in S
    BY <1>5, SomeIs
  <2>2. IsFiniteSet(R)
    BY <1>5, <2>1, Smaller
  <2>3. Sol(S)[R] = Sol(R)[R]
    <3>1. Solves(f, S, Sol(S)) /\ Solves(f, R, Sol(R))
      BY <1>1, <2>2
    <3> HIDE DEF R
    <3>2. \A s \in SUBSET S : s \in SUBSET R /\ IsFiniteSet(s) => Sol(S)[s] = Sol(R)[s]
      BY <3>1, SumAgrees
    <3>3. R \in SUBSET S /\ R \in SUBSET R
      BY DEF R
    <3> QED
      BY <2>2, <3>2, <3>3
  <2>4. Summed(f, S, Sol(S)) = f[x] + Sol(S)[R]
    BY <1>5 DEF Summed
  <2> QED
    BY <1>2, <1>3, <1>5, <2>3, <2>4
<1> QED
  BY <1>4, <1>5

LEMMA SumInt ==
    ASSUME NEW D, NEW f \in [D -> Int]
    PROVE  \A S \in SUBSET D : IsFiniteSet(S) => SumFunctionOnSet(f, S) \in Int
<1> DEFINE Sum(S) == SumFunctionOnSet(f, S)
           N == {n \in Nat : \A S \in SUBSET D :
                    IsFiniteSet(S) /\ Cardinality(S) = n => Sum(S) \in Int}
<1>0. \A S : IsFiniteSet(S) => Sum(S) = IF S = {} THEN 0 ELSE f[Some(S)] + Sum(S \ {Some(S)})
  BY SumSome
<1> HIDE DEF Sum
<1>1. 0 \in N
  <2>1. \A S : IsFiniteSet(S) /\ Cardinality(S) = 0 => S = {}
    BY FS_EmptySet
  <2>2. Sum({}) = 0
    BY <1>0, FS_EmptySet
  <2> QED
    BY <2>1, <2>2
<1>2. ASSUME NEW n \in Nat, n \in N PROVE n + 1 \in N
  <2> SUFFICES ASSUME NEW S \in SUBSET D, IsFiniteSet(S), Cardinality(S) = n + 1
               PROVE  Sum(S) \in Int
    OBVIOUS
  <2>1. S # {}
    BY FS_EmptySet
  <2> DEFINE x == Some(S)
  <2>2. x \in S
    BY <2>1, SomeIs
  <2>3. Sum(S) = f[x] + Sum(S \ {x})
    BY <1>0, <2>1
  <2> HIDE DEF x
  <2>4. IsFiniteSet(S \ {x}) /\ Cardinality(S \ {x}) = n
    BY <2>1, <2>2, Smaller
  <2>5. Sum(S \ {x}) \in Int /\ f[x] \in Int
    BY <1>2, <2>2, <2>4
  <2> QED
    BY <2>3, <2>5
<1>3. \A n \in Nat : n \in N
  <2> HIDE DEF N
  <2> QED
    BY <1>1, <1>2, SetInduction
<1> QED
  BY <1>3, FS_CardinalityType DEF Sum

\* The sum of numbers is a number, whichever element is taken first.
LEMMA SumTake ==
    ASSUME NEW D, NEW f \in [D -> Int]
    PROVE  \A S \in SUBSET D : IsFiniteSet(S) =>
             /\ SumFunctionOnSet(f, S) \in Int
             /\ \A z \in S : SumFunctionOnSet(f, S) =
                                f[z] + SumFunctionOnSet(f, S \ {z})
<1> DEFINE Sum(S) == SumFunctionOnSet(f, S)
           Good(S) == Sum(S) \in Int /\ \A z \in S : Sum(S) = f[z] + Sum(S \ {z})
           N == {n \in Nat : \A S \in SUBSET D :
                    IsFiniteSet(S) /\ Cardinality(S) = n => Good(S)}
<1>0. \A S : IsFiniteSet(S) => Sum(S) = IF S = {} THEN 0 ELSE f[Some(S)] + Sum(S \ {Some(S)})
  BY SumSome
<1> HIDE DEF Sum
<1>1. 0 \in N
  <2>1. \A S : IsFiniteSet(S) /\ Cardinality(S) = 0 => S = {}
    BY FS_EmptySet
  <2>2. Sum({}) = 0
    BY <1>0, FS_EmptySet
  <2>3. Good({})
    BY <2>2
  <2> HIDE DEF Good
  <2> QED
    BY <2>1, <2>3
<1>2. ASSUME NEW n \in Nat, n \in N PROVE n + 1 \in N
  <2> SUFFICES ASSUME NEW S \in SUBSET D, IsFiniteSet(S), Cardinality(S) = n + 1
               PROVE  Good(S)
    OBVIOUS
  <2>1. S # {}
    BY FS_EmptySet
  <2> DEFINE x == Some(S)
  <2>2. x \in S
    BY <2>1, SomeIs
  <2>3. Sum(S) = f[x] + Sum(S \ {x})
    BY <1>0, <2>1
  <2> HIDE DEF x
  <2>4. \A z \in S : IsFiniteSet(S \ {z}) /\ Cardinality(S \ {z}) = n
    BY <2>1, Smaller
  <2>5. \A z \in S : S \ {z} \in SUBSET D /\ f[z] \in Int
    OBVIOUS
  <2>6. \A z \in S : Good(S \ {z})
    BY <1>2, <2>4, <2>5
  <2>7. Sum(S) \in Int
    BY <2>2, <2>3, <2>5, <2>6
  <2>8. ASSUME NEW z \in S PROVE Sum(S) = f[z] + Sum(S \ {z})
    <3>1. CASE z = x
      BY <2>3, <3>1
    <3>2. CASE z # x
      <4> DEFINE R == (S \ {x}) \ {z}
      <4>1. Sum(S \ {x}) = f[z] + Sum(R)
        BY <2>2, <2>6, <3>2
      <4>2. Sum(S \ {z}) = f[x] + Sum((S \ {z}) \ {x})
        BY <2>2, <2>6, <3>2
      <4>3. (S \ {z}) \ {x} = R
        OBVIOUS
      <4>4. R = (S \ {x}) \ {z} /\ z \in S \ {x}
        BY <3>2
      <4>5. f[x] \in Int /\ f[z] \in Int /\ Sum(S \ {x}) \in Int /\ Sum(S \ {z}) \in Int
        BY <2>2, <2>5, <2>6
      <4>6. Sum(R) \in Int
        <5>1. R \in SUBSET D /\ IsFiniteSet(R)
          BY <2>4, <2>2, FS_Subset
        <5> QED
          BY <5>1, SumInt DEF Sum
      <4> QED
        BY <2>3, <4>1, <4>2, <4>3, <4>5, <4>6
    <3> QED
      BY <3>1, <3>2
  <2> QED
    BY <2>7, <2>8
<1>3. \A n \in Nat : n \in N
  <2> HIDE DEF N
  <2> QED
    BY <1>1, <1>2, SetInduction
<1>4. ASSUME NEW S \in SUBSET D, IsFiniteSet(S) PROVE Good(S)
  <2>1. Cardinality(S) \in Nat
    BY <1>4, FS_CardinalityType
  <2> QED
    BY <1>3, <1>4, <2>1
<1> QED
  BY <1>4 DEF Sum

(***************************************************************************)
(* The inductive invariant.                                                *)
(***************************************************************************)
Judging == {"conn", "sender", "rcpt", "body"}
Harmful(res) == res.reject \/ res.quarantine

\* A result that the runner can act on: what is to be rejected has a reason.
Good(res) ==
    /\ res.reject \in BOOLEAN /\ res.quarantine \in BOOLEAN
    /\ res.reject => res.reason # "none"

\* One that says nothing about who sent the message.
Plain(res) == Good(res) /\ res.auth = {}

SpfShape ==
    /\ DOMAIN spf = {"chan", "res", "skip"}
    /\ spf.res \in SpfValues /\ spf.skip \in BOOLEAN

ShapeInv ==
    /\ conf \in Confs /\ msg \in Messages
    /\ DOMAIN merged = {"quarantine", "auth"} /\ merged.quarantine \in BOOLEAN
    /\ DOMAIN bl = {"pending", "score", "err", "result"} /\ Plain(bl.result)
    /\ quarantineErr \in BOOLEAN /\ blk \in {1, 2}

\* A group is only judged while the message is alive, and an objection is
\* either merged, or about to be, or has led to a refusal.
HeedInv ==
    /\ outcome # "none" => pending = {}
    /\ stage = "early" => pending = {} /\ outcome \in {"none", "refused"}
    /\ objections # {} =>
        \/ merged.quarantine
        \/ outcome = "refused"
        \/ /\ outcome = "none" /\ stage \in Judging \ {"rcpt"}
           /\ quarantineErr \/ rejectErr # "none"

\* The lists that name the client, and what each list weighs.
Naming == {z \in DOMAIN C.lists : checkList(z, Null)}
Weights == [z \in DOMAIN C.lists |-> List(z).score]
Answered == SumFunctionOnSet(Weights, Naming \ bl.pending)
Verdict == ScoreVerdict(bl.score, bl.err)
Listing == "dnsbl" \in C.groups[1] /\ Tcp

\* The score is the weight of the lists that have answered; the early result
\* is kept until the first group takes it, and what it asks for is noted.
ListInv ==
    Listing =>
        /\ bl.pending \subseteq DOMAIN C.lists
        /\ bl.err = "none" => bl.score = Answered
        /\ stage # "early" /\ outcome # "refused" =>
            /\ bl.pending = {}
            /\ bl.result = Verdict
            /\ Harmful(bl.result) =>
                \/ "dnsbl" \in objections
                \/ stage = "conn" /\ blk = 1 /\ "dnsbl" \in pending

BaseInv == ShapeInv /\ SpfShape /\ HeedInv /\ ListInv

\* Mail whose sender SPF can be asked about.
Judged == Tcp /\ M.mail # Malformed
Has(method) == \E r \in merged.auth : r.method = method
Going == outcome \in {"none", "accepted"}

\* The call of c at the body by group b lies behind.
PastBody(c, b) ==
    \/ stage = "body" /\ ((blk = 2 /\ b = 1) \/ (blk = b /\ c \notin pending))
    \/ stage = "apply" \/ outcome = "accepted"
PastConn(c, b) ==
    /\ stage # "early"
    /\ ~(stage = "conn" /\ blk = b /\ c \in pending)
    /\ b = 2 => ~(stage \in {"conn", "sender"} /\ blk = 1)

\* A result of c is there once its calls at the body lie behind, or the
\* group is about to fail.
Late(c) ==
    \A b \in {1, 2} : c \in C.groups[b] /\ Going /\ PastBody(c, b) =>
        \/ Has(c)
        \/ outcome = "none" /\ stage = "body" /\ blk = b /\ rejectErr # "none"

\* One of SPF, when it is evaluated early, once its call at the connection
\* lies behind.
Early ==
    \A b \in {1, 2} :
        /\ "spf" \in C.groups[b] /\ (b = 2 => "spf" \notin C.groups[1])
        /\ Going /\ PastConn("spf", b)
        => Has("spf")

\* What DMARC will look at: results that are real, and the record.
FoundInv ==
    /\ \A r \in merged.auth : r.value = "pass" => r \in authentic
    /\ spf.chan = "sent" => SpfAuth(spf.res) \subseteq authentic
    /\ Judged => ~spf.skip
    /\ fetch.err = "none" => fetch \in Fetches(ExtractFromDomain)
    /\ outcome = "accepted" => stage \in {"apply", "done"}
    /\ outcome = "accepted" /\ C.dmarc => fetch.err # "running"

AuthInv ==
    /\ FoundInv /\ Late("dkim")
    /\ Judged /\ ~C.enforce_early => Late("spf")
    /\ Judged /\ C.enforce_early => Early
    /\ UnalignedHeld

(***************************************************************************)
(* What the checks return.                                                 *)
(***************************************************************************)
\* What the configuration's actions are.
LEMMA Actions ==
    ASSUME conf \in Confs
    PROVE  /\ \A n \in {"require_tls", "require_matching_rdns",
                        "require_mx_record", "no_sig", "broken_sig",
                        "io_error", "error_resp", "add_header", "rewrite_subj",
                        "unauth", "no_match", "err"} : C.act[n] \in FailAction
           /\ \A v \in SpfValues : C.spf[v] \in FailAction
           /\ C.spfResults \subseteq SpfValues
           /\ \A n \in DOMAIN C.codes : C.codes[n] \in FailAction
           /\ C.run_on \in Judging
<1>1. /\ DOMAIN StatelessDefaults = {"require_tls", "require_matching_rdns",
                                     "require_mx_record"}
      /\ DOMAIN DkimDefaults = {"no_sig", "broken_sig"}
      /\ DOMAIN RspamdDefaults = {"io_error", "error_resp", "add_header",
                                  "rewrite_subj"}
      /\ DOMAIN AuthzDefaults = {"unauth", "no_match", "err"}
  BY DEF StatelessDefaults, DkimDefaults, RspamdDefaults, AuthzDefaults
<1> QED
  BY <1>1, ConfAssumption DEF C, Judging

\* A fail action makes a good result of a good result.
LEMMA ApplyGood ==
    ASSUME NEW action \in FailAction, NEW res, Good(res)
    PROVE  Good(Apply(action, res)) /\ Apply(action, res).auth = res.auth
<1>1. CASE res.reason = "none"
  BY <1>1 DEF Apply
<1>2. CASE res.reason # "none"
  <2> DEFINE q == IF action.override = "none" THEN res.reason ELSE action.override
             r == action.reject \/ res.reject
             u == action.quarantine \/ res.quarantine
  <2>1. Apply(action, res) = Result(q, r, u, res.auth)
    BY <1>2 DEF Apply
  <2>2. q # "none"
    BY <1>2
  <2>3. r \in BOOLEAN /\ u \in BOOLEAN
    OBVIOUS
  <2> HIDE DEF q, r, u
  <2> QED
    BY <2>1, <2>2, <2>3 DEF Result, Good
<1> QED
  BY <1>1, <1>2

LEMMA PlainResults ==
    /\ Plain(Pass) /\ \A reason : Plain(Finding(reason))
    /\ \A reason : reason # "none" => Plain(Rejection(reason))
  BY DEF Plain, Good, Pass, Finding, Rejection, Result

LEMMA ApplyPlain ==
    ASSUME NEW action \in FailAction, NEW res, Plain(res)
    PROVE  Plain(Apply(action, res))
  BY ApplyGood DEF Plain

LEMMA HandlePlain ==
    ASSUME NEW a
    PROVE  Plain(handleAction(a).res)
<1>1. CASE a = "io"
  BY <1>1, PlainResults DEF handleAction, ioError
<1>2. CASE a = "accept"
  BY <1>2, PlainResults DEF handleAction
<1>3. CASE a \in {"discard", "tempfail"}
  BY <1>3, PlainResults DEF handleAction
<1>4. CASE a \in {"reply code", "reject"}
  BY <1>4, PlainResults DEF handleAction
<1>5. CASE a \notin {"io", "accept", "discard", "tempfail", "reply code", "reject"}
  BY <1>5, PlainResults DEF handleAction
<1> QED
  BY <1>1, <1>2, <1>3, <1>4, <1>5

LEMMA RspamdPlain ==
    ASSUME conf \in Confs, NEW a \in RspamdAnswers
    PROVE  Plain(RspamdVerdict(a))
<1>0. \A n \in {"io_error", "error_resp", "add_header", "rewrite_subj"} :
        Plain(Apply(C.act[n], Finding("temp")))
  BY Actions, ApplyPlain, PlainResults
<1>1. CASE a \in {"no response", "not json"}
  BY <1>0, <1>1 DEF RspamdVerdict
<1>2. CASE a = "http error"
  BY <1>0, <1>2 DEF RspamdVerdict
<1>3. CASE a = "add header"
  BY <1>0, <1>3 DEF RspamdVerdict
<1>4. CASE a = "rewrite subject"
  BY <1>0, <1>4 DEF RspamdVerdict
<1>5. CASE a \in {"body error", "reject"}
  BY PlainResults, <1>5 DEF RspamdVerdict
<1>6. CASE a = "soft reject"
  BY PlainResults, <1>6 DEF RspamdVerdict
<1>7. CASE a \in {"no action", "greylist", "other"}
  BY PlainResults, <1>7 DEF RspamdVerdict
<1> QED
  BY <1>1, <1>2, <1>3, <1>4, <1>5, <1>6, <1>7 DEF RspamdAnswers

LEMMA CommandPlain ==
    ASSUME conf \in Confs, NEW code
    PROVE  Plain(CommandVerdict(code))
  BY Actions, ApplyPlain, PlainResults DEF CommandVerdict

LEMMA AuthzPlain ==
    ASSUME conf \in Confs, NEW email, NEW fault
    PROVE  Plain(authzSender(email, fault))
<1>0. \A n \in {"unauth", "no_match", "err"} : \A r :
        Plain(Apply(C.act[n], Finding(r)))
  BY Actions, ApplyPlain, PlainResults
<1> QED
  BY <1>0, PlainResults DEF authzSender

LEMMA HeaderPlain ==
    ASSUME conf \in Confs, NEW f, NEW g
    PROVE  Plain(AuthzHeader(f, g))
<1>0. \A n \in {"no_match", "err"} : Plain(Apply(C.act[n], Finding("perm")))
  BY Actions, ApplyPlain, PlainResults
<1> QED
  BY <1>0, PlainResults DEF AuthzHeader

LEMMA SpfGood ==
    ASSUME conf \in Confs, NEW v \in SpfValues
    PROVE  Good(spfResult(v)) /\ spfResult(v).auth = SpfAuth(v)
<1> DEFINE reason == IF v = "pass" THEN "none"
                     ELSE IF v = "temperror" THEN "temp" ELSE "perm"
           res == Result(reason, FALSE, FALSE, SpfAuth(v))
<1>1. Good(res) /\ res.auth = SpfAuth(v)
  BY DEF Good, Result
<1>2. spfResult(v) = Apply(C.spf[v], res)
  BY DEF spfResult
<1>3. C.spf[v] \in FailAction
  BY Actions
<1> HIDE DEF res
<1> QED
  BY <1>1, <1>2, <1>3, ApplyGood

LEMMA DeferredGood ==
    ASSUME conf \in Confs, NEW v \in SpfValues
    PROVE  Good(Deferred(spfResult(v))) /\ Deferred(spfResult(v)).auth = SpfAuth(v)
<1> DEFINE r == spfResult(v)
<1>1. r.auth = SpfAuth(v)
  BY SpfGood
<1>2. DOMAIN r = {"reason", "reject", "quarantine", "auth"}
  BY DEF spfResult, Apply, Result
<1> HIDE DEF r
<1>3. /\ Deferred(r).reject = FALSE /\ Deferred(r).quarantine = FALSE
      /\ Deferred(r).auth = r.auth
  BY <1>2 DEF Deferred
<1> QED
  BY <1>1, <1>3 DEF Good, r

\* What came of the signatures; with no result there is a rejection.
LEMMA DkimGood ==
    ASSUME conf \in Confs, NEW outs
    PROVE  /\ Good(DkimVerdict(outs))
           /\ \/ DkimVerdict(outs).auth = DkimAuth(outs)
              \/ DkimVerdict(outs) = Rejection("temp")
<1>1. Good(Rejection("temp"))
  BY PlainResults DEF Plain
<1> DEFINE Res(r) == Result(r, FALSE, FALSE, DkimAuth(outs))
           act == C.act["broken_sig"]
<1>2. \A r : Good(Res(r)) /\ Res(r).auth = DkimAuth(outs)
  BY DEF Good, Result
<1>3. act \in FailAction
  BY Actions
<1>4. DkimVerdict(outs) \in {Rejection("temp"), Res("none"), Apply(act, Res("perm"))}
  BY DEF DkimVerdict
<1> HIDE DEF Res, act
<1>5. Good(Apply(act, Res("perm"))) /\ Apply(act, Res("perm")).auth = DkimAuth(outs)
  BY <1>2, <1>3, ApplyGood
<1> QED
  BY <1>1, <1>2, <1>4, <1>5

(***************************************************************************)
(* Objections are heeded.                                                  *)
(***************************************************************************)
\* What depends on the configuration and the message does not change.
LEMMA Same ==
    ASSUME UNCHANGED <<conf, msg>>
    PROVE  /\ C' = C /\ M' = M /\ Tcp' = Tcp /\ Local' = Local
           /\ Naming' = Naming /\ Weights' = Weights /\ Listing' = Listing
<1>1. C' = C /\ M' = M /\ Tcp' = Tcp /\ Local' = Local
  BY DEF C, M, Tcp, Local
<1>2. Weights' = Weights
  BY <1>1 DEF Weights, List
<1>3. Naming' = Naming
  BY <1>1 DEF Naming, checkList, List, checkIP, checkDomain
<1>4. Listing' = Listing
  BY <1>1 DEF Listing
<1> QED
  BY <1>1, <1>2, <1>3, <1>4

LEMMA SameVerdict ==
    ASSUME UNCHANGED <<conf, msg, bl>>
    PROVE  Answered' = Answered /\ Verdict' = Verdict
<1>1. C' = C /\ Naming' = Naming /\ Weights' = Weights
  BY Same
<1> QED
  BY <1>1 DEF Answered, Verdict, ScoreVerdict

\* A step that leaves the lists alone, forgets no objection, does not drop
\* the call of dnsbl and does not come out of a refusal keeps ListInv.
LEMMA ListKept ==
    ASSUME ListInv, UNCHANGED <<conf, msg, bl>>,
           stage' # "early" /\ outcome' # "refused" =>
                stage # "early" /\ outcome # "refused",
           "dnsbl" \in objections => "dnsbl" \in objections',
           stage' # "early" /\ outcome' # "refused" =>
             (Listing /\ Harmful(bl.result)
                      /\ stage = "conn" /\ blk = 1 /\ "dnsbl" \in pending =>
                \/ "dnsbl" \in objections'
                \/ stage' = "conn" /\ blk' = 1 /\ "dnsbl" \in pending')
    PROVE  ListInv'
<1>1. C' = C /\ Listing' = Listing
  BY Same
<1>2. Answered' = Answered /\ Verdict' = Verdict
  BY SameVerdict
<1>3. Harmful(bl.result)' = Harmful(bl.result)
  BY DEF Harmful
<1> QED
  BY <1>1, <1>2, <1>3 DEF ListInv

LEMMA BaseMerge ==
    ASSUME BaseInv, NEW c, NEW s \in Judging, NEW res,
           Calls(c, s), Merge(c, res), Good(res), SpfShape',
           c = "dnsbl" => s = "conn" /\ (~Local => res = bl.result)
    PROVE  BaseInv'
<1>1. /\ UNCHANGED <<conf, msg, bl, stage, blk, outcome>>
      /\ pending' = pending \ {c}
      /\ merged' = [merged EXCEPT !.auth = @ \union res.auth]
      /\ quarantineErr' = (quarantineErr \/ res.quarantine)
      /\ rejectErr' = IF ~res.quarantine /\ res.reject /\ rejectErr = "none"
                      THEN res.reason ELSE rejectErr
      /\ objections' = IF Harmful(res) /\ stage # "rcpt"
                       THEN objections \union {c} ELSE objections
  BY DEF Merge, endVars, Harmful
<1>2. stage = s /\ c \in pending /\ outcome = "none"
  BY DEF Calls, BaseInv, HeedInv
<1>3. ShapeInv'
  BY <1>1 DEF BaseInv, ShapeInv, Good
<1>4. HeedInv'
  <2>1. merged'.quarantine = merged.quarantine
    BY <1>1 DEF BaseInv, ShapeInv
  <2>2. CASE objections' = objections
    <3>1. (quarantineErr \/ rejectErr # "none") => (quarantineErr' \/ rejectErr' # "none")
      BY <1>1 DEF BaseInv, ShapeInv, Good
    <3> QED
      BY <1>1, <1>2, <2>1, <2>2, <3>1 DEF BaseInv, HeedInv
  <2>3. CASE Harmful(res) /\ stage # "rcpt"
    <3>1. quarantineErr' \/ rejectErr' # "none"
      BY <1>1, <2>3 DEF BaseInv, ShapeInv, Good, Harmful
    <3> QED
      BY <1>1, <1>2, <2>1, <2>3, <3>1 DEF BaseInv, HeedInv
  <2> QED
    BY <1>1, <2>2, <2>3
<1>5. ListInv'
  <2>1. "dnsbl" \in objections => "dnsbl" \in objections'
    BY <1>1
  <2>2. ASSUME Listing, Harmful(bl.result), stage = "conn", "dnsbl" \in pending
        PROVE  "dnsbl" \in objections' \/ "dnsbl" \in pending'
    <3>1. CASE c = "dnsbl"
      <4>1. ~Local
        BY <2>2 DEF Listing, Tcp, Local
      <4>2. res = bl.result
        BY <3>1, <4>1
      <4> QED
        BY <1>1, <2>2, <3>1, <4>2
    <3>2. CASE c # "dnsbl"
      BY <1>1, <2>2, <3>2
    <3> QED
      BY <3>1, <3>2
  <2> QED
    BY <1>1, <2>1, <2>2, ListKept DEF BaseInv
<1> QED
  BY <1>3, <1>4, <1>5 DEF BaseInv

LEMMA BaseRecover ==
    ASSUME BaseInv, NEW c, NEW s, Calls(c, s), Recover(c), c # "dnsbl"
    PROVE  BaseInv'
<1>1. /\ UNCHANGED <<conf, msg, bl, stage, blk, outcome, merged, quarantineErr,
                     rejectErr, objections, spf>>
      /\ pending' = pending \ {c}
  BY DEF Recover, endVars
<1>2. ShapeInv' /\ SpfShape' /\ HeedInv'
  BY <1>1 DEF BaseInv, ShapeInv, SpfShape, HeedInv
<1>3. ListInv'
  BY <1>1, ListKept DEF BaseInv
<1> QED
  BY <1>2, <1>3 DEF BaseInv

\* A call of a check that knows nothing about authentication.
PlainCall(c, s, res) ==
    /\ Calls(c, s) /\ s \in Judging /\ c \notin {"spf", "dkim"}
    /\ Merge(c, res) /\ Plain(res) /\ UNCHANGED <<spf, authentic>>
    /\ c = "dnsbl" => s = "conn" /\ (~Local => res = bl.result)

PanickedCall(c, s) ==
    Calls(c, s) /\ c \notin {"spf", "dkim", "dnsbl"} /\ Recover(c)

PlainCalls ==
    \/ \E c, s, res : PlainCall(c, s, res)
    \/ \E c, s : PanickedCall(c, s)

\* The checks but SPF and DKIM, one by one.
LEMMA StatelessCalls ==
    ASSUME BaseInv,
           requireTLS \/ requireMatchingRDNS \/ requireMXRecord \/ dnsblConnection
    PROVE  PlainCalls
<1>0. conf \in Confs /\ Plain(bl.result)
  BY DEF BaseInv, ShapeInv
<1>a. \A n \in {"require_tls", "require_matching_rdns", "require_mx_record"} :
        Plain(Apply(C.act[n], Pass)) /\ \A r : Plain(Apply(C.act[n], Finding(r)))
  BY <1>0, Actions, ApplyPlain, PlainResults
<1>1. CASE requireTLS
  <2> DEFINE res == Apply(C.act["require_tls"],
                          IF ~Local /\ M.tls THEN Pass ELSE Finding("perm"))
  <2>1. Plain(res)
    BY <1>a
  <2>2. Calls("require_tls", "conn") /\ Merge("require_tls", res)
        /\ UNCHANGED <<spf, authentic>>
    BY <1>1 DEF requireTLS
  <2> HIDE DEF res
  <2>3. PlainCall("require_tls", "conn", res)
    BY <2>1, <2>2 DEF PlainCall, Judging
  <2> QED
    BY <2>3 DEF PlainCalls
<1>2. CASE requireMatchingRDNS
  <2> DEFINE res == Apply(C.act["require_matching_rdns"],
                          CASE rdns \in {"off", "match"} -> Pass
                            [] rdns \in {"none", "other"} -> Finding("perm")
                            [] OTHER -> Finding(rdns))
  <2>1. Plain(res)
    <3>1. CASE rdns \in {"off", "match"}
      BY <1>a, <3>1
    <3>2. CASE rdns \in {"none", "other"}
      BY <1>a, <3>2
    <3>3. CASE rdns \notin {"off", "match", "none", "other"}
      BY <1>a, <3>3
    <3> QED
      BY <3>1, <3>2, <3>3
  <2>2. Calls("require_matching_rdns", "conn") /\ Merge("require_matching_rdns", res)
        /\ UNCHANGED <<spf, authentic>>
    BY <1>2 DEF requireMatchingRDNS
  <2> HIDE DEF res
  <2>3. PlainCall("require_matching_rdns", "conn", res)
    BY <2>1, <2>2 DEF PlainCall, Judging
  <2> QED
    BY <2>3 DEF PlainCalls
<1>3. CASE requireMXRecord
  <2> DEFINE Res(mx) ==
        Apply(C.act["require_mx_record"],
              IF M.mail = Null THEN Pass
              ELSE IF M.mail = Malformed \/ DomainOf[M.mail] = NoDomain
              THEN Finding("perm")
              ELSE CASE mx = "mx" -> Pass
                     [] mx \in {"none", "null mx"} -> Finding("perm")
                     [] OTHER -> Finding(mx))
  <2>1. PICK mx \in {"mx", "null mx", "none", "temp", "perm"} :
            Merge("require_mx_record", Res(mx))
    BY <1>3 DEF requireMXRecord
  <2>2. Plain(Res(mx))
    <3>1. CASE mx = "mx"
      BY <1>a, <3>1
    <3>2. CASE mx \in {"none", "null mx"}
      BY <1>a, <3>2
    <3>3. CASE mx \notin {"mx", "none", "null mx"}
      BY <1>a, <3>3
    <3> QED
      BY <3>1, <3>2, <3>3
  <2>3. Calls("require_mx_record", "sender") /\ UNCHANGED <<spf, authentic>>
    BY <1>3 DEF requireMXRecord
  <2> HIDE DEF Res
  <2>4. PlainCall("require_mx_record", "sender", Res(mx))
    BY <2>1, <2>2, <2>3 DEF PlainCall, Judging
  <2> QED
    BY <2>4 DEF PlainCalls
<1>4. CASE dnsblConnection
  <2> DEFINE res == IF Local THEN Pass ELSE bl.result
  <2>1. Plain(res)
    BY <1>0, PlainResults
  <2>2. Calls("dnsbl", "conn") /\ Merge("dnsbl", res)
        /\ UNCHANGED <<spf, authentic>>
    BY <1>4 DEF dnsblConnection
  <2>3. ~Local => res = bl.result
    OBVIOUS
  <2> HIDE DEF res
  <2>4. PlainCall("dnsbl", "conn", res)
    BY <2>1, <2>2, <2>3 DEF PlainCall, Judging
  <2> QED
    BY <2>4 DEF PlainCalls
<1> QED
  BY <1>1, <1>2, <1>3, <1>4

\* The milter is asked, or not.
LEMMA AskPlain ==
    ASSUME NEW s \in Judging, NEW h, NEW mods \in BOOLEAN,
           Plain(h.res), DOMAIN h.res = {"reason", "reject", "quarantine", "auth"},
           Ask("milter", s, h, mods)
    PROVE  PlainCalls
<1> DEFINE res == [h.res EXCEPT !.quarantine = @ \/ mods,
                                !.reason = IF mods THEN "perm" ELSE @]
<1>1. /\ res.quarantine = (h.res.quarantine \/ mods) /\ res.reject = h.res.reject
      /\ res.auth = h.res.auth
      /\ res.reason = IF mods THEN "perm" ELSE h.res.reason
  OBVIOUS
<1>2. /\ Calls("milter", s) /\ Merge("milter", res)
      /\ UNCHANGED <<spf, authentic>>
  BY DEF Ask
<1> HIDE DEF res
<1>3. Plain(res)
  BY <1>1 DEF Plain, Good
<1>4. PlainCall("milter", s, res)
  BY <1>2, <1>3 DEF PlainCall
<1> QED
  BY <1>4 DEF PlainCalls

LEMMA NotAskedPlain ==
    ASSUME NEW s \in Judging, NotAsked(s)
    PROVE  PlainCalls
<1>1. PlainCall("milter", s, Pass)
  BY PlainResults DEF PlainCall, NotAsked
<1> QED
  BY <1>1 DEF PlainCalls

LEMMA HandleShape ==
    ASSUME NEW a
    PROVE  DOMAIN handleAction(a).res = {"reason", "reject", "quarantine", "auth"}
<1>0. /\ DOMAIN Pass = {"reason", "reject", "quarantine", "auth"}
      /\ \A r : DOMAIN Rejection(r) = {"reason", "reject", "quarantine", "auth"}
  BY DEF Pass, Rejection, Result
<1>1. CASE a = "io"
  BY <1>0, <1>1 DEF handleAction, ioError
<1>2. CASE a = "accept"
  BY <1>0, <1>2 DEF handleAction
<1>3. CASE a \in {"discard", "tempfail"}
  BY <1>0, <1>3 DEF handleAction
<1>4. CASE a \in {"reply code", "reject"}
  BY <1>0, <1>4 DEF handleAction
<1>5. CASE a \notin {"io", "accept", "discard", "tempfail", "reply code", "reject"}
  BY <1>0, <1>5 DEF handleAction
<1> QED
  BY <1>1, <1>2, <1>3, <1>4, <1>5

LEMMA MilterCalls ==
    ASSUME BaseInv,
           MilterConnection \/ MilterSender \/ MilterRcpt \/ MilterBody
    PROVE  PlainCalls
<1>0. \A s \in Judging : \A mods \in BOOLEAN : \A a :
        Ask("milter", s, handleAction(a), mods) => PlainCalls
  BY AskPlain, HandlePlain, HandleShape
<1>a. \A s \in Judging : NotAsked(s) => PlainCalls
  BY NotAskedPlain
<1>b. {"conn", "sender", "rcpt", "body"} \subseteq Judging
  BY DEF Judging
<1>1. CASE MilterConnection
  <2> DEFINE first == Local \/ "conn" \notin C.unwanted
             second == Local \/ "helo" \notin C.unwanted
             H(a, b) == IF first /\ a # "continue" THEN handleAction(a)
                        ELSE IF second THEN handleAction(b)
                        ELSE handleAction("continue")
  <2>1. PICK a \in C.answers, b \in C.answers : Ask("milter", "conn", H(a, b), FALSE)
    BY <1>1 DEF MilterConnection
  <2>2. H(a, b) \in {handleAction(a), handleAction(b), handleAction("continue")}
    OBVIOUS
  <2> HIDE DEF H
  <2>3. \E d : H(a, b) = handleAction(d)
    BY <2>2
  <2>4. PICK d : H(a, b) = handleAction(d)
    BY <2>3
  <2>5. Ask("milter", "conn", handleAction(d), FALSE)
    BY <2>1, <2>4
  <2> QED
    BY <2>5, <1>0, <1>b
<1>2. CASE MilterSender
  <2>1. CASE NotAsked("sender")
    BY <2>1, <1>a, <1>b
  <2>2. CASE \E a \in C.answers : Ask("milter", "sender", handleAction(a), FALSE)
    BY <2>2, <1>0, <1>b
  <2>3. CASE Calls("milter", "sender") /\ Recover("milter")
    <3>1. PanickedCall("milter", "sender")
      BY <2>3 DEF PanickedCall
    <3> QED
      BY <3>1 DEF PlainCalls
  <2> QED
    BY <1>2, <2>1, <2>2, <2>3 DEF MilterSender
<1>3. CASE MilterRcpt
  <2>1. CASE NotAsked("rcpt")
    BY <2>1, <1>a, <1>b
  <2>2. CASE \E a \in C.answers : Ask("milter", "rcpt", handleAction(a), FALSE)
    BY <2>2, <1>0, <1>b
  <2> QED
    BY <1>3, <2>1, <2>2 DEF MilterRcpt
<1>4. CASE MilterBody
  <2>1. CASE NotAsked("body")
    BY <2>1, <1>a, <1>b
  <2>2. CASE \E a \in C.answers \ {"continue"} :
                Ask("milter", "body", handleAction(a), FALSE)
    BY <2>2, <1>0, <1>b
  <2>3. CASE /\ Calls("milter", "body") /\ Merge("milter", Rejection("temp"))
             /\ UNCHANGED <<spf, milter, authentic>>
    <3>1. PlainCall("milter", "body", Rejection("temp"))
      BY <2>3, <1>b, PlainResults DEF PlainCall
    <3> QED
      BY <3>1 DEF PlainCalls
  <2>4. CASE \E a \in C.answers, mods \in BOOLEAN :
                Ask("milter", "body", handleAction(a), mods /\ a # "io")
    <3>1. PICK a \in C.answers, mods \in BOOLEAN :
                Ask("milter", "body", handleAction(a), mods /\ a # "io")
      BY <2>4
    <3>2. (mods /\ a # "io") \in BOOLEAN
      OBVIOUS
    <3> QED
      BY <3>1, <3>2, <1>0, <1>b
  <2> QED
    BY <1>4, <2>1, <2>2, <2>3, <2>4 DEF MilterBody
<1> QED
  BY <1>1, <1>2, <1>3, <1>4

LEMMA OtherCalls ==
    ASSUME BaseInv, RspamdBody \/ RunCommand \/ AuthzSender \/ AuthzBody
    PROVE  PlainCalls
<1>0. conf \in Confs /\ C.run_on \in Judging
  BY Actions DEF BaseInv, ShapeInv
<1>1. CASE RspamdBody
  <2>1. CASE \E a \in RspamdAnswers : Merge("rspamd", RspamdVerdict(a))
                                      /\ UNCHANGED <<spf, milter, authentic>>
    <3>1. PICK a \in RspamdAnswers : Merge("rspamd", RspamdVerdict(a))
                                      /\ UNCHANGED <<spf, milter, authentic>>
      BY <2>1
    <3>2. Plain(RspamdVerdict(a))
      BY <1>0, RspamdPlain
    <3>3. PlainCall("rspamd", "body", RspamdVerdict(a))
      BY <1>1, <3>1, <3>2 DEF PlainCall, RspamdBody, Judging
    <3> QED
      BY <3>3 DEF PlainCalls
  <2>2. CASE Recover("rspamd")
    <3>1. PanickedCall("rspamd", "body")
      BY <1>1, <2>2 DEF PanickedCall, RspamdBody
    <3> QED
      BY <3>1 DEF PlainCalls
  <2> QED
    BY <1>1, <2>1, <2>2 DEF RspamdBody
<1>2. CASE RunCommand
  <2>1. CASE \E code \in NotRun..3 : Merge("command", CommandVerdict(code))
                                     /\ UNCHANGED <<spf, milter, authentic>>
    <3>1. PICK code \in NotRun..3 : Merge("command", CommandVerdict(code))
                                     /\ UNCHANGED <<spf, milter, authentic>>
      BY <2>1
    <3>2. Plain(CommandVerdict(code))
      BY <1>0, CommandPlain
    <3>3. PlainCall("command", C.run_on, CommandVerdict(code))
      BY <1>0, <1>2, <3>1, <3>2 DEF PlainCall, RunCommand
    <3> QED
      BY <3>3 DEF PlainCalls
  <2>2. CASE Recover("command")
    <3>1. PanickedCall("command", C.run_on)
      BY <1>2, <2>2 DEF PanickedCall, RunCommand
    <3> QED
      BY <3>1 DEF PlainCalls
  <2> QED
    BY <1>2, <2>1, <2>2 DEF RunCommand
<1>3. CASE AuthzSender
  <2> DEFINE Res(fault) ==
        IF Local THEN Pass
        ELSE IF M.mail \in {Null, Malformed} THEN authzSender(Null, "norm")
        ELSE authzSender(M.mail, fault)
  <2>1. PICK fault \in AuthzFaults : Merge("authorize_sender", Res(fault))
    BY <1>3 DEF AuthzSender
  <2>2. Plain(Res(fault))
    BY <1>0, AuthzPlain, PlainResults
  <2> HIDE DEF Res
  <2>3. PlainCall("authorize_sender", "sender", Res(fault))
    BY <1>3, <2>1, <2>2 DEF PlainCall, AuthzSender, Judging
  <2> QED
    BY <2>3 DEF PlainCalls
<1>4. CASE AuthzBody
  <2> DEFINE Res(f, g) == IF ~C.check_header \/ Local THEN Pass ELSE AuthzHeader(f, g)
  <2>1. PICK f \in AuthzFaults, g \in AuthzFaults :
            Merge("authorize_sender", Res(f, g))
    BY <1>4 DEF AuthzBody
  <2>2. Plain(Res(f, g))
    BY <1>0, HeaderPlain, PlainResults
  <2> HIDE DEF Res
  <2>3. PlainCall("authorize_sender", "body", Res(f, g))
    BY <1>4, <2>1, <2>2 DEF PlainCall, AuthzBody, Judging
  <2> QED
    BY <2>3 DEF PlainCalls
<1> QED
  BY <1>1, <1>2, <1>3, <1>4

LEMMA BasePlain ==
    ASSUME BaseInv, PlainCalls
    PROVE  BaseInv'
<1>1. ASSUME NEW c, NEW s, NEW res, PlainCall(c, s, res) PROVE BaseInv'
  <2>1. SpfShape'
    BY <1>1 DEF PlainCall, BaseInv, SpfShape
  <2>2. /\ s \in Judging /\ Calls(c, s) /\ Merge(c, res) /\ Good(res)
        /\ c = "dnsbl" => s = "conn" /\ (~Local => res = bl.result)
    BY <1>1 DEF PlainCall, Plain
  <2> QED
    BY <2>1, <2>2, BaseMerge
<1>2. ASSUME NEW c, NEW s, PanickedCall(c, s) PROVE BaseInv'
  BY <1>2, BaseRecover DEF PanickedCall
<1> QED
  BY <1>1, <1>2 DEF PlainCalls

\* SPF and DKIM, as far as objections go.
LEMMA BaseSpfConnection ==
    ASSUME BaseInv, SpfConnection
    PROVE  BaseInv'
<1>0. conf \in Confs /\ SpfShape /\ Calls("spf", "conn") /\ "conn" \in Judging
  BY DEF BaseInv, ShapeInv, SpfConnection, Judging
<1>1. \A res : Merge("spf", res) /\ Good(res) /\ SpfShape' => BaseInv'
  BY <1>0, BaseMerge
<1>2. CASE spf' = [spf EXCEPT !.skip = TRUE] /\ Merge("spf", Pass)
  <2>1. SpfShape'
    BY <1>0, <1>2 DEF SpfShape
  <2> QED
    BY <1>1, <1>2, <2>1, PlainResults DEF Plain
<1>3. CASE spf' = [spf EXCEPT !.skip = TRUE] /\ Merge("spf", Rejection("perm"))
  <2>1. SpfShape'
    BY <1>0, <1>3 DEF SpfShape
  <2>2. Good(Rejection("perm"))
    BY PlainResults DEF Plain
  <2> QED
    BY <1>1, <1>3, <2>1, <2>2
<1>4. CASE (\E res \in C.spfResults : Merge("spf", spfResult(res))) /\ UNCHANGED spf
  <2>1. PICK v \in C.spfResults : Merge("spf", spfResult(v))
    BY <1>4
  <2>2. Good(spfResult(v))
    BY <1>0, Actions, SpfGood
  <2>3. SpfShape'
    BY <1>0, <1>4 DEF SpfShape
  <2> QED
    BY <1>1, <2>1, <2>2, <2>3
<1>5. CASE spf' = [spf EXCEPT !.chan = "running"] /\ Merge("spf", Pass)
  <2>1. SpfShape'
    BY <1>0, <1>5 DEF SpfShape
  <2> QED
    BY <1>1, <1>5, <2>1, PlainResults DEF Plain
<1> QED
  BY <1>2, <1>3, <1>4, <1>5 DEF SpfConnection

\* The result that CheckBody takes from the channel.
SpfTaken(res) ==
    res \in {spfResult(spf.res), Deferred(spfResult(spf.res))}

LEMMA SpfTakenGood ==
    ASSUME conf \in Confs, SpfShape, NEW res, SpfTaken(res)
    PROVE  Good(res) /\ res.auth = SpfAuth(spf.res)
  BY SpfGood, DeferredGood DEF SpfShape, SpfTaken

LEMMA SpfBodyCases ==
    ASSUME SpfBody
    PROVE  \/ (C.enforce_early \/ spf.skip) /\ Merge("spf", Pass) /\ UNCHANGED spf
           \/ Merge("spf", Rejection("temp")) /\ UNCHANGED spf
           \/ /\ spf.chan = "sent" /\ spf' = [spf EXCEPT !.chan = "drained"]
              /\ \E res : SpfTaken(res) /\ Merge("spf", res)
<1>1. CASE (C.enforce_early \/ spf.skip) /\ Merge("spf", Pass) /\ UNCHANGED spf
  BY <1>1
<1>2. CASE Merge("spf", Rejection("temp")) /\ UNCHANGED spf
  BY <1>2
<1>3. CASE /\ spf.chan = "sent" /\ spf' = [spf EXCEPT !.chan = "drained"]
           /\ \E data \in IF ExtractFromDomain = NoDomain
                          THEN {Fetched("perm", NoDomain, NoRecord)}
                          ELSE Fetches(ExtractFromDomain) :
                Merge("spf", IF RelyOnDMARC(data)
                             THEN Deferred(spfResult(spf.res))
                             ELSE spfResult(spf.res))
  <2>1. PICK data : Merge("spf", IF RelyOnDMARC(data)
                                 THEN Deferred(spfResult(spf.res))
                                 ELSE spfResult(spf.res))
    BY <1>3
  <2> DEFINE res == IF RelyOnDMARC(data) THEN Deferred(spfResult(spf.res))
                    ELSE spfResult(spf.res)
  <2>2. SpfTaken(res) /\ Merge("spf", res)
    BY <2>1 DEF SpfTaken
  <2> HIDE DEF res
  <2> QED
    BY <1>3, <2>2
<1> QED
  BY <1>1, <1>2, <1>3 DEF SpfBody

LEMMA BaseSpfBody ==
    ASSUME BaseInv, SpfBody
    PROVE  BaseInv'
<1>0. conf \in Confs /\ SpfShape /\ Calls("spf", "body") /\ "body" \in Judging
  BY DEF BaseInv, ShapeInv, SpfBody, Judging
<1>1. \A res : Merge("spf", res) /\ Good(res) /\ SpfShape' => BaseInv'
  BY <1>0, BaseMerge
<1>2. UNCHANGED spf => SpfShape'
  BY <1>0 DEF SpfShape
<1>3. CASE Merge("spf", Pass) /\ UNCHANGED spf
  BY <1>1, <1>2, <1>3, PlainResults DEF Plain
<1>4. CASE Merge("spf", Rejection("temp")) /\ UNCHANGED spf
  <2>1. Good(Rejection("temp"))
    BY PlainResults DEF Plain
  <2> QED
    BY <1>1, <1>2, <1>4, <2>1
<1>5. CASE /\ spf' = [spf EXCEPT !.chan = "drained"]
           /\ \E res : SpfTaken(res) /\ Merge("spf", res)
  <2>1. PICK res : SpfTaken(res) /\ Merge("spf", res)
    BY <1>5
  <2>2. Good(res)
    BY <1>0, <2>1, SpfTakenGood
  <2>3. SpfShape'
    BY <1>0, <1>5 DEF SpfShape
  <2> QED
    BY <1>1, <2>1, <2>2, <2>3
<1> QED
  BY <1>3, <1>4, <1>5, SpfBodyCases

\* The result when nothing is signed.
Unsigned ==
    Apply(C.act["no_sig"],
          Result("perm", FALSE, FALSE,
                 {[method |-> "dkim", value |-> "none", domain |-> NoDomain]}))

LEMMA UnsignedGood ==
    ASSUME conf \in Confs
    PROVE  /\ Good(Unsigned)
           /\ Unsigned.auth = {[method |-> "dkim", value |-> "none",
                                domain |-> NoDomain]}
<1> DEFINE auth == {[method |-> "dkim", value |-> "none", domain |-> NoDomain]}
           res == Result("perm", FALSE, FALSE, auth)
<1>1. Good(res) /\ res.auth = auth
  BY DEF Good, Result
<1>2. Unsigned = Apply(C.act["no_sig"], res) /\ C.act["no_sig"] \in FailAction
  BY Actions DEF Unsigned
<1> HIDE DEF res
<1> QED
  BY <1>1, <1>2, ApplyGood

LEMMA BaseDkimBody ==
    ASSUME BaseInv, DkimBody
    PROVE  BaseInv'
<1>0. /\ conf \in Confs /\ SpfShape /\ Calls("dkim", "body") /\ "body" \in Judging
      /\ UNCHANGED spf
  BY DEF BaseInv, ShapeInv, DkimBody, Judging
<1>1. SpfShape'
  BY <1>0 DEF SpfShape
<1>2. \A res : Merge("dkim", res) /\ Good(res) => BaseInv'
  BY <1>0, <1>1, BaseMerge
<1>3. CASE Merge("dkim", Unsigned)
  BY <1>0, <1>2, <1>3, UnsignedGood
<1>4. CASE Merge("dkim", Rejection("temp"))
  <2>1. Good(Rejection("temp"))
    BY PlainResults DEF Plain
  <2> QED
    BY <1>2, <1>4, <2>1
<1>5. CASE \E outs \in [DOMAIN M.sigs -> {"ok", "fail", "perm", "temp"}] :
                Merge("dkim", DkimVerdict(outs))
  <2>1. PICK outs : Merge("dkim", DkimVerdict(outs))
    BY <1>5
  <2>2. Good(DkimVerdict(outs))
    BY <1>0, DkimGood
  <2> QED
    BY <1>2, <2>1, <2>2
<1> QED
  BY <1>3, <1>4, <1>5 DEF DkimBody, Unsigned

LEMMA BaseCall ==
    ASSUME BaseInv, CheckCall
    PROVE  BaseInv'
  BY StatelessCalls, MilterCalls, OtherCalls, BasePlain, BaseSpfConnection,
     BaseSpfBody, BaseDkimBody DEF CheckCall

(***************************************************************************)
(* The runner: between the calls nothing is pending.                       *)
(***************************************************************************)
LEMMA ListMoves ==
    ASSUME ListInv, pending = {}, UNCHANGED <<conf, msg, bl, objections>>,
           stage' # "early" /\ outcome' # "refused" =>
                stage # "early" /\ outcome # "refused"
    PROVE  ListInv'
  BY ListKept

LEMMA BaseFailGroup ==
    ASSUME BaseInv, FailGroup
    PROVE  BaseInv'
<1>1. /\ pending = {} /\ outcome' = "refused"
      /\ UNCHANGED <<conf, msg, runVars, bl, spf, objections>>
  BY DEF FailGroup, Returned, Refuse, histVars
<1>2. ListInv'
  BY <1>1, ListMoves DEF BaseInv, runVars
<1> QED
  BY <1>1, <1>2 DEF BaseInv, ShapeInv, SpfShape, HeedInv, runVars

\* What MergeQuarantine does with what the group left.
LEMMA Merged ==
    ASSUME BaseInv, MergeQuarantine
    PROVE  /\ DOMAIN merged' = {"quarantine", "auth"} /\ merged'.auth = merged.auth
           /\ merged'.quarantine \in BOOLEAN
           /\ merged.quarantine \/ quarantineErr => merged'.quarantine
  BY DEF MergeQuarantine, BaseInv, ShapeInv

LEMMA BaseEndConn ==
    ASSUME BaseInv, EndConn
    PROVE  BaseInv'
<1>1. /\ pending = {} /\ outcome = "none" /\ rejectErr = "none" /\ stage = "conn"
      /\ UNCHANGED <<conf, msg, bl, spf, objections, outcome>>
      /\ stage' = "sender" /\ blk' = blk /\ quarantineErr' = FALSE
  BY DEF EndConn, Returned, Begin, histVars, endVars
<1>2. MergeQuarantine
  BY DEF EndConn
<1>3. ListInv'
  BY <1>1, ListMoves DEF BaseInv
<1>4. ShapeInv' /\ SpfShape'
  BY <1>1, <1>2, Merged DEF BaseInv, ShapeInv, SpfShape
<1>5. HeedInv'
  BY <1>1, <1>2, Merged DEF BaseInv, HeedInv
<1> QED
  BY <1>3, <1>4, <1>5 DEF BaseInv

LEMMA Started ==
    ASSUME NEW b \in {1, 2}, StartGroup(b)
    PROVE  \/ /\ Begin("conn", b) /\ UNCHANGED endVars
           \/ /\ outcome' = "refused"
              /\ UNCHANGED <<stage, blk, pending, rejectErr, quarantineErr>>
  BY DEF StartGroup, Refuse

LEMMA BaseEndSender ==
    ASSUME BaseInv, EndSender
    PROVE  BaseInv'
<1>1. /\ pending = {} /\ outcome = "none" /\ rejectErr = "none" /\ stage = "sender"
      /\ UNCHANGED <<conf, msg, bl, spf, objections>> /\ MergeQuarantine
  BY DEF EndSender, Returned, histVars
<1>2. \/ stage' = "conn" /\ blk' = 2 /\ quarantineErr' = FALSE /\ outcome' = outcome
      \/ outcome' = "refused" /\ UNCHANGED <<stage, blk, pending, quarantineErr>>
      \/ stage' = "ready" /\ UNCHANGED <<blk, pending, quarantineErr, outcome>>
  BY Started DEF EndSender, Begin, endVars
<1>3. ListInv'
  BY <1>1, <1>2, ListMoves DEF BaseInv
<1>4. ShapeInv' /\ SpfShape'
  BY <1>1, <1>2, Merged DEF BaseInv, ShapeInv, SpfShape
<1>5. HeedInv'
  BY <1>1, <1>2, Merged DEF BaseInv, HeedInv
<1> QED
  BY <1>3, <1>4, <1>5 DEF BaseInv

LEMMA BaseRcpt ==
    ASSUME BaseInv, Rcpt \/ Body
    PROVE  BaseInv'
<1>1. /\ pending = {} /\ outcome = "none" /\ stage = "ready"
      /\ UNCHANGED <<conf, msg, bl, spf, objections, outcome, merged>>
      /\ stage' \in {"rcpt", "body"} /\ blk' = 1 /\ quarantineErr' = FALSE
  BY DEF Rcpt, Body, Returned, Begin, histVars, endVars
<1>2. ListInv'
  BY <1>1, ListMoves DEF BaseInv
<1>3. ShapeInv' /\ SpfShape'
  BY <1>1 DEF BaseInv, ShapeInv, SpfShape
<1>4. HeedInv'
  BY <1>1 DEF BaseInv, HeedInv, Judging
<1> QED
  BY <1>2, <1>3, <1>4 DEF BaseInv

LEMMA BaseEndRcpt ==
    ASSUME BaseInv, EndRcpt
    PROVE  BaseInv'
<1>1. /\ pending = {} /\ outcome = "none" /\ stage = "rcpt"
      /\ UNCHANGED <<conf, msg, bl, spf, objections, outcome>>
      /\ stage' \in {"ready", "rcpt"} /\ blk' \in {blk, 2}
      /\ quarantineErr' \in {FALSE, quarantineErr}
      /\ MergeQuarantine \/ merged' = merged
  BY DEF EndRcpt, Returned, Begin, histVars, endVars
<1>2. ListInv'
  BY <1>1, ListMoves DEF BaseInv
<1>3. ShapeInv' /\ SpfShape'
  BY <1>1, Merged DEF BaseInv, ShapeInv, SpfShape
<1>4. merged.quarantine => merged'.quarantine
  BY <1>1, Merged
<1>5. HeedInv'
  BY <1>1, <1>4 DEF BaseInv, HeedInv, Judging
<1> QED
  BY <1>2, <1>3, <1>5 DEF BaseInv

LEMMA BaseEndBody ==
    ASSUME BaseInv, EndBody
    PROVE  BaseInv'
<1>1. /\ pending = {} /\ outcome = "none" /\ stage = "body" /\ rejectErr = "none"
      /\ UNCHANGED <<conf, msg, bl, spf, objections, outcome>>
      /\ stage' \in {"body", "apply"} /\ blk' \in {blk, 2}
      /\ quarantineErr' \in {FALSE, quarantineErr} /\ MergeQuarantine
  BY DEF EndBody, Returned, Begin, histVars, endVars
<1>2. ListInv'
  BY <1>1, ListMoves DEF BaseInv
<1>3. ShapeInv' /\ SpfShape'
  BY <1>1, Merged DEF BaseInv, ShapeInv, SpfShape
<1>4. merged.quarantine \/ quarantineErr => merged'.quarantine
  BY <1>1, Merged
<1>5. HeedInv'
  BY <1>1, <1>4 DEF BaseInv, HeedInv
<1> QED
  BY <1>2, <1>3, <1>5 DEF BaseInv

LEMMA BaseApply ==
    ASSUME BaseInv, ApplyResults
    PROVE  BaseInv'
<1>1. /\ pending = {} /\ outcome = "none" /\ stage = "apply"
      /\ UNCHANGED <<conf, msg, bl, spf, objections, stage, blk, pending,
                     rejectErr, quarantineErr>>
  BY DEF ApplyResults, Returned, histVars
<1>2. \E v \in BOOLEAN : merged' = [merged EXCEPT !.quarantine = @ \/ v]
  <2> DEFINE Ver(dice) == IF C.dmarc
                          THEN ApplyDMARC(fetch, ExtractFromDomain, merged.auth, dice)
                          ELSE [value |-> "none", policy |-> "none"]
  <2>1. PICK dice \in {0, 50, 99} :
            merged' = [merged EXCEPT !.quarantine =
                            @ \/ Ver(dice).policy = "quarantine"]
    BY DEF ApplyResults
  <2>2. (Ver(dice).policy = "quarantine") \in BOOLEAN
    OBVIOUS
  <2> HIDE DEF Ver
  <2> QED
    BY <2>1, <2>2
<1>3. /\ DOMAIN merged' = {"quarantine", "auth"} /\ merged'.quarantine \in BOOLEAN
      /\ merged.quarantine => merged'.quarantine
  BY <1>2 DEF BaseInv, ShapeInv
<1>4. ListInv'
  BY <1>1, ListMoves DEF BaseInv
<1>5. ShapeInv' /\ SpfShape'
  BY <1>1, <1>3 DEF BaseInv, ShapeInv, SpfShape
<1>6. HeedInv'
  BY <1>1, <1>3 DEF BaseInv, HeedInv, Judging
<1> QED
  BY <1>4, <1>5, <1>6 DEF BaseInv

LEMMA BaseGiveUp ==
    ASSUME BaseInv, GiveUp
    PROVE  BaseInv'
<1>1. /\ pending = {} /\ outcome = "none" /\ stage = "ready" /\ outcome' = "aborted"
      /\ UNCHANGED <<conf, msg, bl, spf, objections, runVars>>
  BY DEF GiveUp, Returned, histVars
<1>2. ListInv'
  BY <1>1, ListMoves DEF BaseInv, runVars
<1>3. ShapeInv' /\ SpfShape'
  BY <1>1 DEF BaseInv, ShapeInv, SpfShape, runVars
<1>4. HeedInv'
  BY <1>1 DEF BaseInv, HeedInv, Judging, runVars
<1> QED
  BY <1>2, <1>3, <1>4 DEF BaseInv

LEMMA BaseClose ==
    ASSUME BaseInv, Close
    PROVE  BaseInv'
<1>1. /\ outcome # "none" /\ stage' = "done"
      /\ UNCHANGED <<conf, msg, bl, spf, objections, outcome, blk, pending, merged,
                     rejectErr, quarantineErr>>
  BY DEF Close, histVars, endVars
<1>2. pending = {} /\ (outcome # "refused" => stage # "early")
  BY <1>1 DEF BaseInv, HeedInv
<1>3. ListInv'
  BY <1>1, <1>2, ListMoves DEF BaseInv
<1>4. ShapeInv' /\ SpfShape'
  BY <1>1 DEF BaseInv, ShapeInv, SpfShape
<1>5. HeedInv'
  BY <1>1, <1>2 DEF BaseInv, HeedInv
<1> QED
  BY <1>3, <1>4, <1>5 DEF BaseInv

LEMMA VerdictPlain == Plain(Verdict)
<1>1. bl.err # "none" => Plain(Rejection(bl.err))
  BY PlainResults
<1>2. Plain(Rejection("perm")) /\ Plain(Pass) /\ Plain(Result("perm", FALSE, TRUE, {}))
  BY PlainResults DEF Plain, Good, Result
<1> QED
  BY <1>1, <1>2 DEF Verdict, ScoreVerdict

\* The early result is made, and the first group is begun with the call that
\* will look at it.
LEMMA BaseCheckEarly ==
    ASSUME BaseInv, CheckEarly
    PROVE  BaseInv'
<1>1. /\ stage = "early" /\ outcome = "none" /\ bl.pending = {}
      /\ UNCHANGED <<conf, msg, spf, objections, merged>>
  BY DEF CheckEarly, histVars
<1>2. \/ /\ outcome' = "refused"
         /\ UNCHANGED <<bl, stage, blk, pending, quarantineErr>>
      \/ /\ bl' = [bl EXCEPT !.result = Verdict] /\ StartGroup(1)
  BY DEF CheckEarly, Refuse, Verdict
<1>3. pending = {} /\ ShapeInv /\ SpfShape /\ ListInv
  BY <1>1 DEF BaseInv, HeedInv
<1>4. CASE outcome' = "refused" /\ UNCHANGED <<bl, stage, blk, pending, quarantineErr>>
  <2>1. ListInv'
    BY <1>1, <1>3, <1>4, ListMoves
  <2>2. ShapeInv' /\ SpfShape'
    BY <1>1, <1>3, <1>4 DEF ShapeInv, SpfShape
  <2> QED
    BY <1>1, <1>3, <1>4, <2>1, <2>2 DEF BaseInv, HeedInv
<1>5. CASE bl' = [bl EXCEPT !.result = Verdict] /\ StartGroup(1)
  <2>1. \/ /\ Begin("conn", 1) /\ outcome' = outcome
        \/ /\ outcome' = "refused"
           /\ UNCHANGED <<stage, blk, pending, rejectErr, quarantineErr>>
    BY <1>5, Started DEF endVars
  <2>2. /\ DOMAIN bl' = {"pending", "score", "err", "result"}
        /\ bl'.pending = bl.pending /\ bl'.score = bl.score /\ bl'.err = bl.err
        /\ bl'.result = Verdict
    BY <1>3, <1>5 DEF ShapeInv
  <2>3. Verdict' = Verdict /\ Answered' = Answered
    <3>1. C' = C /\ Naming' = Naming /\ Weights' = Weights
      BY <1>1, Same
    <3> QED
      BY <2>2, <3>1 DEF Answered, Verdict, ScoreVerdict
  <2>4. ShapeInv' /\ SpfShape'
    <3>1. Plain(bl.result)'
      BY <2>2, VerdictPlain DEF Plain, Good
    <3>2. blk' \in {1, 2} /\ quarantineErr' \in BOOLEAN
      BY <1>3, <2>1 DEF Begin, ShapeInv
    <3> QED
      BY <1>1, <1>3, <2>2, <3>1, <3>2 DEF ShapeInv, SpfShape
  <2>5. HeedInv'
    BY <1>1, <1>3, <2>1 DEF BaseInv, HeedInv, Begin, Judging
  <2>6. ListInv'
    <3>1. C' = C /\ Listing' = Listing
      BY <1>1, Same
    <3>2. Begin("conn", 1) /\ Listing =>
            stage' = "conn" /\ blk' = 1 /\ "dnsbl" \in pending'
      BY DEF Begin, Due, Methods, Listing
    <3>3. stage' # "early" /\ outcome' # "refused" => Begin("conn", 1)
      BY <1>1, <2>1
    <3> QED
      BY <1>1, <1>3, <2>2, <2>3, <3>1, <3>2, <3>3 DEF ListInv
  <2> QED
    BY <2>4, <2>5, <2>6 DEF BaseInv
<1> QED
  BY <1>2, <1>4, <1>5

(***************************************************************************)
(* The background, and all steps together.                                 *)
(***************************************************************************)
\* What a list weighs is a number, and there are finitely many.
LEMMA WeightsType ==
    ASSUME conf \in Confs
    PROVE  /\ Weights \in [DOMAIN C.lists -> Int] /\ IsFiniteSet(DOMAIN C.lists)
           /\ C.rejectThres \in Int /\ C.quarantineThres \in Int
<1>1. /\ IsFiniteSet(DOMAIN C.lists)
      /\ C.rejectThres \in Int /\ C.quarantineThres \in Int
      /\ \A z \in DOMAIN C.lists : ~C.lists[z].inline => C.lists[z].score \in Int
  BY ConfAssumption DEF C
<1>2. \A z \in DOMAIN C.lists : List(z).score \in Int
  BY <1>1 DEF List
<1> QED
  BY <1>1, <1>2 DEF Weights

LEMMA BaseQueryList ==
    ASSUME BaseInv, NEW z, QueryList(z)
    PROVE  BaseInv'
<1>1. UNCHANGED <<conf, msg, runVars, spf, outcome, objections>> /\ z \in bl.pending
  BY DEF QueryList, histVars, endVars
<1>2. /\ DOMAIN bl' = {"pending", "score", "err", "result"}
      /\ bl'.pending = bl.pending \ {z} /\ bl'.result = bl.result
      /\ \/ /\ bl'.err = bl.err
            /\ bl'.score = IF checkList(z, Null) THEN bl.score + List(z).score
                          ELSE bl.score
         \/ bl'.err # "none"
  BY DEF QueryList, BaseInv, ShapeInv
<1>3. ShapeInv' /\ SpfShape'
  <2>1. Plain(bl.result)'
    BY <1>2 DEF BaseInv, ShapeInv, Plain, Good
  <2> QED
    BY <1>1, <1>2, <2>1 DEF BaseInv, ShapeInv, SpfShape, runVars
<1>4. HeedInv'
  BY <1>1 DEF BaseInv, HeedInv, runVars
<1>5. ListInv'
  <2> SUFFICES ASSUME Listing PROVE ListInv'
    BY <1>1, Same DEF ListInv
  <2>1. C' = C /\ Listing' = Listing /\ Naming' = Naming /\ Weights' = Weights
    BY <1>1, Same
  <2>2. ~(stage # "early" /\ outcome # "refused")
    BY <1>1 DEF BaseInv, ListInv
  <2>3. bl.pending \subseteq DOMAIN C.lists /\ z \in DOMAIN C.lists
    BY <1>1 DEF BaseInv, ListInv
  <2>4. ASSUME bl'.err = "none" PROVE bl'.score = Answered'
    <3> DEFINE S == Naming \ bl.pending
               T == Naming \ (bl.pending \ {z})
    <3>1. bl.err = "none" /\ bl.score = SumFunctionOnSet(Weights, S)
      BY <1>2, <2>4 DEF BaseInv, ListInv, Answered
    <3>2. Answered' = SumFunctionOnSet(Weights, T)
      BY <1>2, <2>1 DEF Answered
    <3>3. CASE checkList(z, Null)
      <4>1. z \in T /\ T \ {z} = S
        BY <1>1, <2>3, <3>3 DEF Naming
      <4>2. IsFiniteSet(T) /\ T \in SUBSET DOMAIN C.lists
        BY WeightsType, FS_Subset DEF Naming, BaseInv, ShapeInv
      <4>3. Weights \in [DOMAIN C.lists -> Int]
        BY WeightsType DEF BaseInv, ShapeInv
      <4>4. S \in SUBSET DOMAIN C.lists /\ IsFiniteSet(S)
        BY <4>1, <4>2, FS_Subset
      <4> HIDE DEF S, T
      <4>5. /\ SumFunctionOnSet(Weights, T) =
                    Weights[z] + SumFunctionOnSet(Weights, T \ {z})
            /\ SumFunctionOnSet(Weights, S) \in Int
        BY <4>1, <4>2, <4>3, <4>4, SumTake
      <4>6. Weights[z] = List(z).score /\ Weights[z] \in Int
        BY <2>3, <4>3 DEF Weights
      <4>7. bl'.score = bl.score + List(z).score
        BY <1>2, <2>4, <3>3
      <4>8. SumFunctionOnSet(Weights, T) = List(z).score + bl.score
        BY <3>1, <4>1, <4>5, <4>6
      <4>9. bl.score \in Int /\ List(z).score \in Int
        BY <3>1, <4>5, <4>6
      <4> QED
        BY ONLY <3>2, <4>7, <4>8, <4>9
    <3>4. CASE ~checkList(z, Null)
      <4>1. T = S
        BY <3>4 DEF Naming
      <4> HIDE DEF S, T
      <4> QED
        BY <1>2, <2>4, <3>1, <3>2, <3>4, <4>1
    <3> QED
      BY <3>3, <3>4
  <2> QED
    BY <1>1, <1>2, <2>1, <2>2, <2>3, <2>4 DEF ListInv, runVars
<1> QED
  BY <1>3, <1>4, <1>5 DEF BaseInv

LEMMA BaseBackground ==
    ASSUME BaseInv, FetchRDNSName \/ EvaluateSpf \/ FetchDmarc
    PROVE  BaseInv'
<1>1. UNCHANGED <<conf, msg, runVars, bl, outcome, objections>>
  BY DEF FetchRDNSName, EvaluateSpf, FetchDmarc, histVars, endVars
<1>2. SpfShape'
  <2>1. CASE EvaluateSpf
    <3>1. C.spfResults \subseteq SpfValues
      BY Actions DEF BaseInv, ShapeInv
    <3> QED
      BY <2>1, <3>1 DEF EvaluateSpf, BaseInv, SpfShape
  <2>2. CASE UNCHANGED spf
    BY <2>2 DEF BaseInv, SpfShape
  <2> QED
    BY <2>1, <2>2 DEF FetchRDNSName, FetchDmarc
<1>3. ListInv'
  BY <1>1, ListKept DEF BaseInv, runVars
<1> QED
  BY <1>1, <1>2, <1>3 DEF BaseInv, ShapeInv, HeedInv, runVars

LEMMA BaseInit ==
    ASSUME Init
    PROVE  BaseInv
<1>1. ShapeInv /\ SpfShape
  BY PlainResults DEF Init, ShapeInv, SpfShape, SpfValues
<1>2. HeedInv
  BY DEF Init, HeedInv
<1>3. ListInv
  <2> SUFFICES ASSUME Listing PROVE ListInv
    BY DEF ListInv
  <2>1. bl.pending = DOMAIN C.lists /\ bl.score = 0 /\ stage = "early"
    BY DEF Init, Listing
  <2>2. Naming \ bl.pending = {}
    BY <2>1 DEF Naming
  <2>3. Answered = 0
    BY <2>2, SumSome, FS_EmptySet DEF Answered
  <2> QED
    BY <2>1, <2>3 DEF ListInv
<1> QED
  BY <1>1, <1>2, <1>3 DEF BaseInv

LEMMA BaseStep ==
    ASSUME BaseInv, [Next]_vars
    PROVE  BaseInv'
<1>1. CASE UNCHANGED vars
  <2>1. UNCHANGED <<conf, msg, runVars, bl, spf, outcome, objections>>
    BY <1>1 DEF vars, endVars, histVars
  <2>2. ListInv'
    BY <2>1, ListKept DEF BaseInv, runVars
  <2> QED
    BY <2>1, <2>2 DEF BaseInv, ShapeInv, SpfShape, HeedInv, runVars
<1>2. CASE CheckCall
  BY <1>2, BaseCall
<1>3. CASE Runner
  BY <1>3, BaseCheckEarly, BaseFailGroup, BaseEndConn, BaseEndSender, BaseEndRcpt,
     BaseEndBody, BaseApply, BaseClose DEF Runner
<1>4. CASE Background
  BY <1>4, BaseQueryList, BaseBackground DEF Background
<1>5. CASE Client
  BY <1>5, BaseRcpt, BaseGiveUp DEF Client
<1> QED
  BY <1>1, <1>2, <1>3, <1>4, <1>5 DEF Next, Server

\* When the message is accepted everything has been merged.
LEMMA BaseImplies ==
    ASSUME BaseInv
    PROVE  ObjectionsHeeded
<1> SUFFICES ASSUME outcome = "accepted", ~merged.quarantine
             PROVE  /\ objections = {}
                    /\ Listing => C.quarantineThres > SumFunctionOnSet(Weights, Naming)
  BY DEF ObjectionsHeeded, Listing, Weights, Naming
<1>1. objections = {} /\ pending = {} /\ stage # "early"
  BY DEF BaseInv, HeedInv
<1>2. ASSUME Listing PROVE C.quarantineThres > SumFunctionOnSet(Weights, Naming)
  <2>1. /\ bl.pending = {} /\ bl.result = Verdict
        /\ bl.err = "none" => bl.score = Answered
        /\ ~Harmful(Verdict)
    BY <1>1, <1>2 DEF BaseInv, ListInv
  <2>2. /\ bl.err = "none" /\ ~(bl.score >= C.rejectThres)
        /\ ~(bl.score >= C.quarantineThres)
    BY <2>1 DEF Verdict, ScoreVerdict, Harmful, Rejection, Result
  <2>3. Naming \ bl.pending = Naming
    BY <2>1
  <2>4. bl.score = SumFunctionOnSet(Weights, Naming)
    BY <2>1, <2>2, <2>3 DEF Answered
  <2>5. SumFunctionOnSet(Weights, Naming) \in Int /\ C.quarantineThres \in Int
    <3>1. /\ Weights \in [DOMAIN C.lists -> Int] /\ C.quarantineThres \in Int
          /\ Naming \in SUBSET DOMAIN C.lists /\ IsFiniteSet(Naming)
      BY WeightsType, FS_Subset DEF BaseInv, ShapeInv, Naming
    <3> QED
      BY <3>1, SumInt
  <2> QED
    BY <2>2, <2>4, <2>5
<1> QED
  BY <1>1, <1>2

(***************************************************************************)
(* No message is passed on as a clean one when a check objected to it or   *)
(* the blocklists that name the client weigh enough, in whatever order the *)
(* lists and the parallel checks come back (runAndMergeResults,            *)
(* checkLists).                                                            *)
(***************************************************************************)
THEOREM ObjectionsHold == Spec => []ObjectionsHeeded
<1>1. Init => BaseInv
  BY BaseInit
<1>2. BaseInv /\ [Next]_vars => BaseInv'
  BY BaseStep
<1>3. BaseInv => ObjectionsHeeded
  BY BaseImplies
<1> QED
  BY <1>1, <1>2, <1>3, PTL DEF Spec

(***************************************************************************)
(* DMARC: the results of SPF and DKIM that the pipeline has when it        *)
(* applies the policy.                                                     *)
(***************************************************************************)
LEMMA SameMail ==
    ASSUME UNCHANGED <<conf, msg>>
    PROVE  /\ C' = C /\ Judged' = Judged /\ Tcp' = Tcp /\ M' = M
           /\ ExtractFromDomain' = ExtractFromDomain
           /\ \A v : SpfAuth(v)' = SpfAuth(v)
<1>1. C' = C /\ M' = M /\ Tcp' = Tcp
  BY Same
<1> QED
  BY <1>1 DEF Judged, ExtractFromDomain, SpfAuth, SpfDomain

\* A step of another check, or of none.
LEMMA LateQuiet ==
    ASSUME NEW c, Late(c), UNCHANGED <<conf, msg, stage, blk, outcome>>,
           merged.auth \subseteq merged'.auth, c \in pending => c \in pending',
           rejectErr # "none" => rejectErr' # "none"
    PROVE  Late(c)'
<1>1. C' = C
  BY SameMail
<1> QED
  BY <1>1 DEF Late, Going, PastBody, Has

LEMMA EarlyQuiet ==
    ASSUME Early, UNCHANGED <<conf, msg, stage, blk, outcome>>,
           merged.auth \subseteq merged'.auth, "spf" \in pending => "spf" \in pending'
    PROVE  Early'
<1>1. C' = C
  BY SameMail
<1> QED
  BY <1>1 DEF Early, Going, PastConn, Has

\* The call of c itself, at the body: it leaves a result or a rejection.
LEMMA LateReturn ==
    ASSUME NEW c, Late(c), UNCHANGED <<conf, msg, stage, blk, outcome>>,
           stage = "body", outcome = "none", merged.auth \subseteq merged'.auth,
           blk \in {1, 2}, rejectErr # "none" => rejectErr' # "none",
           rejectErr' # "none" \/ \E r \in merged'.auth : r.method = c
    PROVE  Late(c)'
<1>1. C' = C
  BY SameMail
<1> QED
  BY <1>1 DEF Late, Going, PastBody, Has

LEMMA EarlyReturn ==
    ASSUME \E r \in merged'.auth : r.method = "spf"
    PROVE  Early'
  BY DEF Early, Has

\* Nothing is owed for a message that has been refused or given up.
LEMMA Gone ==
    ASSUME outcome' \notin {"none", "accepted"}
    PROVE  /\ \A c : Late(c)'
           /\ Early' /\ UnalignedHeld'
  BY DEF Late, Early, Going, UnalignedHeld

\* The property, in the words of the invariant.
Exposed ==
    /\ C.dmarc /\ Judged /\ {"spf", "dkim"} \subseteq C.groups[1] \union C.groups[2]
    /\ ExtractFromDomain # NoDomain

AlignedIn(from, S) ==
    \E r \in S : /\ r.value = "pass" /\ r.domain # NoDomain
                 /\ \/ r.domain = from
                    \/ OrgDomain[r.domain] = OrgDomain[from]

LEMMA HeldMeans ==
    UnalignedHeld <=>
        (/\ outcome = "accepted" /\ Exposed /\ fetch.err = "none"
         /\ ~AlignedIn(ExtractFromDomain, authentic)
         => /\ Governing(ExtractFromDomain) # "reject"
            /\ Governing(ExtractFromDomain) = "quarantine" => merged.quarantine)
  BY DEF UnalignedHeld, Exposed, AlignedIn, Judged

LEMMA HeldKept ==
    ASSUME UnalignedHeld, UNCHANGED <<conf, msg>>,
           outcome' = "accepted" => outcome = "accepted",
           outcome' = "accepted" /\ C.dmarc /\ fetch'.err = "none" =>
                fetch.err = "none",
           authentic \subseteq authentic', merged.quarantine => merged'.quarantine
    PROVE  UnalignedHeld'
<1>1. C' = C /\ Exposed' = Exposed /\ ExtractFromDomain' = ExtractFromDomain
  BY SameMail DEF Exposed
<1> DEFINE d == ExtractFromDomain
<1>2. AlignedIn(d, authentic) => AlignedIn(d, authentic')
  BY DEF AlignedIn
<1>3. UnalignedHeld' <=>
        (/\ outcome' = "accepted" /\ Exposed' /\ fetch'.err = "none"
         /\ ~AlignedIn(d', authentic')
         => /\ Governing(d') # "reject"
            /\ Governing(d') = "quarantine" => merged'.quarantine)
  BY <1>1 DEF UnalignedHeld, Exposed, AlignedIn, Judged, Governing
<1>4. Exposed => C.dmarc
  BY DEF Exposed
<1> QED
  BY <1>1, <1>2, <1>3, <1>4, HeldMeans

\* A step that changes nothing about authentication.
LEMMA AuthQuiet ==
    ASSUME AuthInv, UNCHANGED <<conf, msg, stage, blk, outcome, spf, authentic, fetch>>,
           merged'.auth = merged.auth, merged.quarantine => merged'.quarantine,
           \A c \in {"spf", "dkim"} : c \in pending => c \in pending',
           rejectErr # "none" => rejectErr' # "none"
    PROVE  AuthInv'
<1>1. /\ C' = C /\ Judged' = Judged /\ ExtractFromDomain' = ExtractFromDomain
      /\ \A v : SpfAuth(v)' = SpfAuth(v)
  BY SameMail
<1>2. FoundInv'
  <2>1. SpfAuth(spf.res)' = SpfAuth(spf.res)
    BY <1>1 DEF SpfAuth, SpfDomain, M
  <2> QED
    BY <1>1, <2>1 DEF AuthInv, FoundInv
<1>3. Late("dkim")'
  BY LateQuiet DEF AuthInv
<1>4. Judged /\ ~C.enforce_early => Late("spf")'
  BY LateQuiet DEF AuthInv
<1>5. Judged /\ C.enforce_early => Early'
  BY EarlyQuiet DEF AuthInv
<1>6. UnalignedHeld'
  BY HeldKept DEF AuthInv
<1> QED
  BY <1>1, <1>2, <1>3, <1>4, <1>5, <1>6 DEF AuthInv

\* What the runner does with a result, as far as authentication goes.
LEMMA MergeAuth ==
    ASSUME BaseInv, NEW c, NEW s, NEW res, Calls(c, s), Merge(c, res)
    PROVE  /\ UNCHANGED <<conf, msg, stage, blk, outcome, fetch>>
           /\ merged'.auth = merged.auth \union res.auth
           /\ merged'.quarantine = merged.quarantine
           /\ pending' = pending \ {c} /\ outcome = "none" /\ stage = s
           /\ rejectErr # "none" => rejectErr' # "none"
           /\ ~res.quarantine /\ res.reject /\ res.reason # "none" =>
                rejectErr' # "none"
<1>1. outcome = "none" /\ stage = s
  BY DEF Calls, BaseInv, HeedInv
<1>2. /\ merged'.auth = merged.auth \union res.auth
      /\ merged'.quarantine = merged.quarantine
  BY DEF Merge, BaseInv, ShapeInv
<1> QED
  BY <1>1, <1>2 DEF Merge, endVars

LEMMA AuthPlain ==
    ASSUME BaseInv, AuthInv, PlainCalls
    PROVE  AuthInv'
<1>1. ASSUME NEW c, NEW s, NEW res, PlainCall(c, s, res) PROVE AuthInv'
  <2>1. /\ Calls(c, s) /\ Merge(c, res) /\ c \notin {"spf", "dkim"}
        /\ res.auth = {} /\ UNCHANGED <<spf, authentic>>
    BY <1>1 DEF PlainCall, Plain
  <2>2. /\ UNCHANGED <<conf, msg, stage, blk, outcome, fetch>>
        /\ merged'.auth = merged.auth \union res.auth
        /\ merged'.quarantine = merged.quarantine
        /\ pending' = pending \ {c}
        /\ rejectErr # "none" => rejectErr' # "none"
    BY <2>1, MergeAuth
  <2> QED
    BY <2>1, <2>2, AuthQuiet
<1>2. ASSUME NEW c, NEW s, PanickedCall(c, s) PROVE AuthInv'
  <2>1. /\ UNCHANGED <<conf, msg, stage, blk, outcome, spf, authentic, fetch, merged,
                       rejectErr>>
        /\ pending' = pending \ {c} /\ c \notin {"spf", "dkim"}
    BY <1>2 DEF PanickedCall, Recover, endVars
  <2> QED
    BY <2>1, AuthQuiet
<1> QED
  BY <1>1, <1>2 DEF PlainCalls

\* A result of check c that leaves the other obligations as they are: what it
\* says was found, and the channel of SPF keeps what it holds.
LEMMA FoundMerge ==
    ASSUME BaseInv, FoundInv, NEW c, NEW s, NEW res, Calls(c, s), Merge(c, res),
           authentic \subseteq authentic',
           \A r \in res.auth : r.value = "pass" => r \in authentic',
           spf'.chan = "sent" => spf.chan = "sent" /\ spf'.res = spf.res,
           Judged => ~spf'.skip
    PROVE  FoundInv'
<1>1. /\ C' = C /\ Judged' = Judged /\ ExtractFromDomain' = ExtractFromDomain
  BY SameMail DEF Merge
<1>2. /\ UNCHANGED <<conf, msg, stage, outcome, fetch>>
      /\ merged'.auth = merged.auth \union res.auth /\ outcome = "none"
  BY MergeAuth
<1>3. spf'.chan = "sent" => SpfAuth(spf.res)' \subseteq authentic'
  BY <1>2 DEF SpfAuth, SpfDomain, M, FoundInv
<1> QED
  BY <1>1, <1>2, <1>3 DEF FoundInv

\* The call of SPF at the connection: mail that it can judge gets a result at
\* once or is judged in the background.
LEMMA AuthSpfConnection ==
    ASSUME BaseInv, AuthInv, SpfConnection
    PROVE  AuthInv'
<1>0. conf \in Confs /\ Calls("spf", "conn") /\ SpfShape /\ FoundInv
  BY DEF BaseInv, ShapeInv, SpfConnection, AuthInv
<1>1. ASSUME NEW res, Merge("spf", res), authentic \subseteq authentic',
             \A r \in res.auth : r.value = "pass" => r \in authentic',
             spf'.chan = "sent" => spf.chan = "sent" /\ spf'.res = spf.res,
             Judged => ~spf'.skip,
             Judged /\ C.enforce_early => \E r \in res.auth : r.method = "spf"
      PROVE  AuthInv'
  <2>1. /\ UNCHANGED <<conf, msg, stage, blk, outcome, fetch>>
        /\ merged'.auth = merged.auth \union res.auth
        /\ merged'.quarantine = merged.quarantine
        /\ pending' = pending \ {"spf"} /\ outcome = "none" /\ stage = "conn"
        /\ rejectErr # "none" => rejectErr' # "none"
    BY <1>0, <1>1, MergeAuth
  <2>2. C' = C /\ Judged' = Judged
    BY <2>1, SameMail
  <2>3. FoundInv'
    BY <1>0, <1>1, FoundMerge
  <2>4. Late("dkim")'
    BY <2>1, LateQuiet DEF AuthInv
  <2>5. Late("spf")'
    BY <2>1 DEF Late, PastBody
  <2>6. Judged /\ C.enforce_early => Early'
    BY <1>1, <2>1, EarlyReturn
  <2>7. UnalignedHeld'
    BY <1>1, <2>1, HeldKept DEF AuthInv
  <2> QED
    BY <2>2, <2>3, <2>4, <2>5, <2>6, <2>7 DEF AuthInv
<1>2. Pass.auth = {} /\ Rejection("perm").auth = {}
  BY DEF Pass, Rejection, Result
<1>3. CASE ~Tcp /\ spf' = [spf EXCEPT !.skip = TRUE] /\ Merge("spf", Pass)
           /\ UNCHANGED authentic
  <2>1. ~Judged
    BY <1>3 DEF Judged
  <2>2. spf'.chan = spf.chan /\ spf'.res = spf.res
    BY <1>0, <1>3 DEF SpfShape
  <2> QED
    BY <1>1, <1>2, <1>3, <2>1, <2>2
<1>4. CASE M.mail = Malformed /\ spf' = [spf EXCEPT !.skip = TRUE]
           /\ Merge("spf", Rejection("perm")) /\ UNCHANGED authentic
  <2>1. ~Judged
    BY <1>4 DEF Judged
  <2>2. spf'.chan = spf.chan /\ spf'.res = spf.res
    BY <1>0, <1>4 DEF SpfShape
  <2> QED
    BY <1>1, <1>2, <1>4, <2>1, <2>2
<1>5. CASE (\E v \in C.spfResults : /\ Merge("spf", spfResult(v))
                                    /\ authentic' = authentic \union SpfAuth(v))
           /\ UNCHANGED spf
  <2>1. PICK v \in C.spfResults : /\ Merge("spf", spfResult(v))
                                  /\ authentic' = authentic \union SpfAuth(v)
    BY <1>5
  <2>2. spfResult(v).auth = SpfAuth(v)
    BY <1>0, Actions, SpfGood
  <2>3. \E r \in SpfAuth(v) : r.method = "spf"
    BY DEF SpfAuth
  <2>4. Judged => ~spf'.skip
    BY <1>0, <1>5 DEF FoundInv
  <2> QED
    BY <1>1, <1>5, <2>1, <2>2, <2>3, <2>4
<1>6. CASE ~C.enforce_early /\ spf' = [spf EXCEPT !.chan = "running"]
           /\ Merge("spf", Pass) /\ UNCHANGED authentic
  <2>1. spf'.chan # "sent" /\ spf'.skip = spf.skip
    BY <1>0, <1>6 DEF SpfShape
  <2>2. Judged => ~spf'.skip
    BY <1>0, <2>1 DEF FoundInv
  <2> QED
    BY <1>1, <1>2, <1>6, <2>1, <2>2
<1> QED
  BY <1>3, <1>4, <1>5, <1>6 DEF SpfConnection

LEMMA AuthSpfBody ==
    ASSUME BaseInv, AuthInv, SpfBody
    PROVE  AuthInv'
<1>0. /\ conf \in Confs /\ Calls("spf", "body") /\ SpfShape /\ FoundInv
      /\ blk \in {1, 2} /\ UNCHANGED authentic
  BY DEF BaseInv, ShapeInv, SpfBody, AuthInv
<1>1. ASSUME NEW res, Merge("spf", res),
             \A r \in res.auth : r.value = "pass" => r \in authentic,
             spf'.chan = "sent" => spf.chan = "sent" /\ spf'.res = spf.res,
             spf'.skip = spf.skip,
             Judged /\ ~C.enforce_early =>
                \/ \E r \in res.auth : r.method = "spf"
                \/ ~res.quarantine /\ res.reject /\ res.reason # "none"
      PROVE  AuthInv'
  <2>1. /\ UNCHANGED <<conf, msg, stage, blk, outcome, fetch>>
        /\ merged'.auth = merged.auth \union res.auth
        /\ merged'.quarantine = merged.quarantine
        /\ pending' = pending \ {"spf"} /\ outcome = "none" /\ stage = "body"
        /\ rejectErr # "none" => rejectErr' # "none"
        /\ ~res.quarantine /\ res.reject /\ res.reason # "none" =>
                rejectErr' # "none"
    BY <1>0, <1>1, MergeAuth
  <2>2. C' = C /\ Judged' = Judged
    BY <2>1, SameMail
  <2>3. FoundInv'
    <3>1. Judged => ~spf'.skip
      BY <1>0, <1>1 DEF FoundInv
    <3> QED
      BY <1>0, <1>1, <3>1, FoundMerge
  <2>4. Late("dkim")'
    BY <2>1, LateQuiet DEF AuthInv
  <2>5. Judged /\ ~C.enforce_early => Late("spf")'
    <3> SUFFICES ASSUME Judged, ~C.enforce_early PROVE Late("spf")'
      OBVIOUS
    <3>1. Late("spf")
      BY DEF AuthInv
    <3>2. rejectErr' # "none" \/ \E r \in merged'.auth : r.method = "spf"
      BY <1>1, <2>1
    <3> QED
      BY <1>0, <2>1, <3>1, <3>2, LateReturn
  <2>6. Judged /\ C.enforce_early => Early'
    <3>1. Early => Early'
      BY <2>1, SameMail DEF Early, Going, PastConn, Has
    <3> QED
      BY <3>1 DEF AuthInv
  <2>7. UnalignedHeld'
    BY <1>0, <1>1, <2>1, HeldKept DEF AuthInv
  <2> QED
    BY <2>2, <2>3, <2>4, <2>5, <2>6, <2>7 DEF AuthInv
<1>2. /\ Pass.auth = {} /\ Rejection("temp").auth = {}
      /\ ~Rejection("temp").quarantine /\ Rejection("temp").reject
      /\ Rejection("temp").reason # "none"
  BY DEF Pass, Rejection, Result
<1>3. CASE (C.enforce_early \/ spf.skip) /\ Merge("spf", Pass) /\ UNCHANGED spf
  <2>1. ~(Judged /\ ~C.enforce_early)
    BY <1>0, <1>3 DEF FoundInv
  <2> QED
    BY <1>1, <1>2, <1>3, <2>1
<1>4. CASE Merge("spf", Rejection("temp")) /\ UNCHANGED spf
  BY <1>1, <1>2, <1>4
<1>5. CASE /\ spf.chan = "sent" /\ spf' = [spf EXCEPT !.chan = "drained"]
           /\ \E res : SpfTaken(res) /\ Merge("spf", res)
  <2>1. PICK res : SpfTaken(res) /\ Merge("spf", res)
    BY <1>5
  <2>2. res.auth = SpfAuth(spf.res) /\ SpfAuth(spf.res) \subseteq authentic
    BY <1>0, <1>5, <2>1, SpfTakenGood DEF FoundInv
  <2>3. \E r \in SpfAuth(spf.res) : r.method = "spf"
    BY DEF SpfAuth
  <2>4. spf'.chan # "sent" /\ spf'.skip = spf.skip
    BY <1>0, <1>5 DEF SpfShape
  <2> QED
    BY <1>1, <2>1, <2>2, <2>3, <2>4
<1> QED
  BY <1>3, <1>4, <1>5, SpfBodyCases

LEMMA AuthDkimBody ==
    ASSUME BaseInv, AuthInv, DkimBody
    PROVE  AuthInv'
<1>0. /\ conf \in Confs /\ Calls("dkim", "body") /\ FoundInv
      /\ blk \in {1, 2} /\ UNCHANGED spf
  BY DEF BaseInv, ShapeInv, DkimBody, AuthInv
<1>1. ASSUME NEW res, Merge("dkim", res), authentic \subseteq authentic',
             \A r \in res.auth : r.value = "pass" => r \in authentic',
             \/ \E r \in res.auth : r.method = "dkim"
             \/ ~res.quarantine /\ res.reject /\ res.reason # "none"
      PROVE  AuthInv'
  <2>1. /\ UNCHANGED <<conf, msg, stage, blk, outcome, fetch>>
        /\ merged'.auth = merged.auth \union res.auth
        /\ merged'.quarantine = merged.quarantine
        /\ pending' = pending \ {"dkim"} /\ outcome = "none" /\ stage = "body"
        /\ rejectErr # "none" => rejectErr' # "none"
        /\ ~res.quarantine /\ res.reject /\ res.reason # "none" =>
                rejectErr' # "none"
    BY <1>0, <1>1, MergeAuth
  <2>2. C' = C /\ Judged' = Judged
    BY <2>1, SameMail
  <2>3. FoundInv'
    <3>1. Judged => ~spf'.skip
      BY <1>0 DEF FoundInv
    <3> QED
      BY <1>0, <1>1, <3>1, FoundMerge
  <2>4. Late("dkim")'
    <3>1. Late("dkim")
      BY DEF AuthInv
    <3>2. rejectErr' # "none" \/ \E r \in merged'.auth : r.method = "dkim"
      BY <1>1, <2>1
    <3> QED
      BY <1>0, <2>1, <3>1, <3>2, LateReturn
  <2>5. Judged /\ ~C.enforce_early => Late("spf")'
    BY <2>1, LateQuiet DEF AuthInv
  <2>6. Judged /\ C.enforce_early => Early'
    BY <2>1, EarlyQuiet DEF AuthInv
  <2>7. UnalignedHeld'
    BY <1>1, <2>1, HeldKept DEF AuthInv
  <2> QED
    BY <2>2, <2>3, <2>4, <2>5, <2>6, <2>7 DEF AuthInv
<1>2. /\ Rejection("temp").auth = {}
      /\ ~Rejection("temp").quarantine /\ Rejection("temp").reject
      /\ Rejection("temp").reason # "none"
  BY DEF Rejection, Result
<1>3. CASE Merge("dkim", Unsigned) /\ UNCHANGED authentic
  <2>1. Unsigned.auth = {[method |-> "dkim", value |-> "none", domain |-> NoDomain]}
    BY <1>0, UnsignedGood
  <2>2. /\ \A r \in Unsigned.auth : r.value # "pass"
        /\ \E r \in Unsigned.auth : r.method = "dkim"
    BY <2>1
  <2> QED
    BY <1>1, <1>3, <2>2
<1>4. CASE Merge("dkim", Rejection("temp")) /\ UNCHANGED authentic
  BY <1>1, <1>2, <1>4
<1>5. CASE /\ M.sigs # <<>>
           /\ \E outs \in [DOMAIN M.sigs -> {"ok", "fail", "perm", "temp"}] :
                /\ Merge("dkim", DkimVerdict(outs))
                /\ authentic' = authentic \union DkimAuth(outs)
  <2>1. PICK outs : /\ Merge("dkim", DkimVerdict(outs))
                    /\ authentic' = authentic \union DkimAuth(outs)
    BY <1>5
  <2>2. CASE DkimVerdict(outs) = Rejection("temp")
    BY <1>1, <1>2, <2>1, <2>2
  <2>3. CASE DkimVerdict(outs).auth = DkimAuth(outs)
    <3>1. \E r \in DkimAuth(outs) : r.method = "dkim"
      <4>1. M.sigs \in Seq([domain : Domains, complete : BOOLEAN])
        BY MessageAssumption DEF M, BaseInv, ShapeInv
      <4>2. PICK i : i \in DOMAIN M.sigs
        BY <1>5, <4>1
      <4> DEFINE r == [method |-> "dkim", value |-> DkimValue(M.sigs[i], outs[i]),
                       domain |-> M.sigs[i].domain]
      <4>3. r \in DkimAuth(outs) /\ r.method = "dkim"
        BY <4>2 DEF DkimAuth
      <4> HIDE DEF r
      <4> QED
        BY <4>3
    <3> QED
      BY <1>1, <2>1, <2>3, <3>1
  <2> QED
    BY <1>0, <2>2, <2>3, DkimGood
<1> QED
  BY <1>3, <1>4, <1>5 DEF DkimBody, Unsigned

LEMMA AuthCall ==
    ASSUME BaseInv, AuthInv, CheckCall
    PROVE  AuthInv'
  BY StatelessCalls, MilterCalls, OtherCalls, AuthPlain, AuthSpfConnection,
     AuthSpfBody, AuthDkimBody DEF CheckCall

(***************************************************************************)
(* What DMARC makes of the results.                                        *)
(***************************************************************************)
\* The record that was fetched is the one that speaks for the domain.
LEMMA FetchGoverns ==
    ASSUME NEW from \in Domains, NEW data \in Fetches(from), data.err = "none",
           Governing(from) # "none"
    PROVE  /\ data.record # NoRecord /\ PolicyFor(data, from) = Governing(from)
           /\ data.record.pct \in Int /\ ~(data.record.pct < 100)
<1> DEFINE org == OrgDomain[from]
           B == IF org = NoDomain THEN {[err |-> "none", txts |-> {}]}
                ELSE LookupTXT(org)
           site == IF Published[from] = {} THEN org ELSE from
           records == IF site = NoDomain THEN {} ELSE {t \in Published[site] : t.dmarc}
           rec == CHOOSE t \in records : TRUE
<1>1. PICK a \in LookupTXT(from), b \in B : data = FetchRecord(from, a, b)
  BY DEF Fetches
<1>2. a.err = "none" /\ a.txts = Published[from]
  <2>1. a.err = "none"
    BY <1>1 DEF FetchRecord, Fetched
  <2> QED
    BY <1>1, <2>1 DEF LookupTXT
<1>3. Published[from] = {} => org # NoDomain /\ b.err = "none" /\ b.txts = Published[org]
  <2> SUFFICES ASSUME Published[from] = {}
               PROVE  org # NoDomain /\ b.err = "none" /\ b.txts = Published[org]
    OBVIOUS
  <2>1. org # NoDomain /\ b.err = "none"
    BY <1>1, <1>2 DEF FetchRecord, Fetched
  <2> QED
    BY <1>1, <2>1 DEF LookupTXT
<1>4. site # NoDomain /\ site \in Domains
  BY <1>3, CheckResultAssumption
<1>5. records = {t \in (IF a.txts = {} THEN b.txts ELSE a.txts) : t.dmarc}
  BY <1>2, <1>3, <1>4
<1>6. Cardinality(records) = 1 /\ ~(rec.pct < 100) /\ rec.policy # "malformed"
      /\ Governing(from) = IF site # from /\ rec.sub # "" THEN rec.sub ELSE rec.policy
  BY DEF Governing
<1>7. data = Fetched("none", IF a.txts = {} THEN org ELSE from, rec)
  BY <1>1, <1>2, <1>3, <1>5, <1>6 DEF FetchRecord
<1>8. rec \in records
  <2> DEFINE R == records
  <2>0. Cardinality(R) = 1
    BY <1>6
  <2> HIDE DEF R
  <2>a. Cardinality({}) = 0
    BY FS_EmptySet
  <2>b. R # {}
    BY <2>0, <2>a
  <2>1. records # {}
    BY <2>b DEF R
  <2> QED
    BY <2>1
<1>9. rec.pct \in Int /\ rec # NoRecord
  BY <1>4, <1>8, CheckResultAssumption DEF NoRecord
<1>10. data.record = rec /\ data.domain = site
  BY <1>2, <1>7 DEF Fetched
<1> QED
  BY <1>6, <1>9, <1>10 DEF PolicyFor

LEMMA NotAligned ==
    ASSUME NEW from, from # NoDomain, NEW record, NEW results,
           ~AlignedIn(from, results),
           \E r \in results : r.method = "dkim", \E r \in results : r.method = "spf"
    PROVE  EvaluateAlignment(from, record, results) \in {"temperror", "fail"}
<1>1. ASSUME NEW r \in results, r.value = "pass", NEW mode
      PROVE  ~isAligned(from, r.domain, mode)
  BY <1>1 DEF AlignedIn, isAligned
<1> QED
  BY <1>1 DEF EvaluateAlignment

\* The domain of the single From address is one of the DNS.
LEMMA FromDomain ==
    ASSUME msg \in Messages, ExtractFromDomain # NoDomain
    PROVE  ExtractFromDomain \in Domains
<1> DEFINE A == DOMAIN DomainOf \union {Malformed}
<1>1. M.from \in Seq(Seq(A))
  BY MessageAssumption DEF M
<1> HIDE DEF A
<1>2. Len(M.from) = 1 /\ Len(M.from[1]) = 1 /\ M.from[1][1] # Malformed
      /\ ExtractFromDomain = DomainOf[M.from[1][1]]
  BY DEF ExtractFromDomain
<1>3. M.from[1] \in Seq(A)
  BY <1>1, <1>2
<1>4. M.from[1][1] \in A
  BY <1>2, <1>3
<1> QED
  BY <1>2, <1>4, MessageAssumption DEF A

\* Before the policy is applied both results are there.
LEMMA BothThere ==
    ASSUME AuthInv, Exposed, stage = "apply", outcome = "none"
    PROVE  Has("dkim") /\ Has("spf")
<1>1. /\ \E b \in {1, 2} : "dkim" \in C.groups[b]
      /\ \E b \in {1, 2} : "spf" \in C.groups[b] /\ (b = 2 => "spf" \notin C.groups[1])
  BY DEF Exposed
<1>2. Going /\ \A c : \A b \in {1, 2} : PastBody(c, b) /\ PastConn(c, b)
  BY DEF Going, PastBody, PastConn
<1>3. Has("dkim")
  BY <1>1, <1>2 DEF AuthInv, Late
<1>4. Has("spf")
  BY <1>1, <1>2 DEF AuthInv, Late, Early, Exposed
<1> QED
  BY <1>3, <1>4

LEMMA AppliedPolicy ==
    ASSUME BaseInv, AuthInv, stage = "apply", outcome = "none", Exposed,
           fetch.err = "none", ~AlignedIn(ExtractFromDomain, authentic),
           Governing(ExtractFromDomain) # "none", NEW dice \in {0, 50, 99}
    PROVE  ApplyDMARC(fetch, ExtractFromDomain, merged.auth, dice).policy
                = Governing(ExtractFromDomain)
<1> DEFINE from == ExtractFromDomain
           value == EvaluateAlignment(from, fetch.record, merged.auth)
<1>1. from \in Domains /\ from # NoDomain
  BY FromDomain DEF Exposed, BaseInv, ShapeInv
<1>2. fetch \in Fetches(from)
  BY DEF AuthInv, FoundInv
<1>3. /\ fetch.record # NoRecord /\ PolicyFor(fetch, from) = Governing(from)
      /\ fetch.record.pct \in Int /\ ~(fetch.record.pct < 100)
  BY <1>1, <1>2, FetchGoverns
<1>4. ~AlignedIn(from, merged.auth)
  BY DEF AuthInv, FoundInv, AlignedIn
<1>5. value \in {"temperror", "fail"}
  BY <1>1, <1>4, BothThere, NotAligned DEF Has
<1>6. ~(dice > fetch.record.pct)
  BY <1>3
<1> HIDE DEF from, value
<1>7. ApplyDMARC(fetch, from, merged.auth, dice) =
        [value |-> value, policy |-> PolicyFor(fetch, from)]
  BY <1>3, <1>5, <1>6 DEF ApplyDMARC, value
<1> QED
  BY <1>3, <1>7 DEF from

(***************************************************************************)
(* The runner and the background.                                          *)
(***************************************************************************)
LEMMA FoundMoves ==
    ASSUME FoundInv, UNCHANGED <<conf, msg, spf, authentic, fetch>>,
           merged'.auth = merged.auth,
           outcome' = "accepted" => stage' \in {"apply", "done"},
           outcome' = "accepted" /\ C.dmarc => fetch.err # "running"
    PROVE  FoundInv'
<1>1. /\ C' = C /\ Judged' = Judged /\ ExtractFromDomain' = ExtractFromDomain
  BY SameMail
<1>2. SpfAuth(spf.res)' = SpfAuth(spf.res)
  BY DEF SpfAuth, SpfDomain, M
<1> QED
  BY <1>1, <1>2 DEF FoundInv

\* Steps that end the message without accepting it.
LEMMA AuthGone ==
    ASSUME AuthInv, UNCHANGED <<conf, msg, spf, authentic, fetch>>,
           merged'.auth = merged.auth, outcome' \in {"refused", "aborted"}
    PROVE  AuthInv'
<1>1. FoundInv'
  BY FoundMoves DEF AuthInv
<1> QED
  BY <1>1, Gone DEF AuthInv

\* Steps of the runner before the body: what lay behind still does.
LEMMA AuthBefore ==
    ASSUME AuthInv, UNCHANGED <<conf, msg, spf, authentic, fetch, outcome>>,
           merged'.auth = merged.auth, outcome = "none",
           stage' \notin {"body", "apply"},
           \A b \in {1, 2} : "spf" \in C.groups[b] /\ (b = 2 => "spf" \notin C.groups[1])
                /\ PastConn("spf", b)' => PastConn("spf", b)
    PROVE  AuthInv'
<1>1. C' = C /\ Judged' = Judged
  BY SameMail
<1>2. FoundInv'
  BY FoundMoves DEF AuthInv
<1>3. Late("dkim")' /\ Late("spf")'
  BY DEF Late, PastBody
<1>4. Early => Early'
  BY <1>1 DEF Early, Going, Has
<1>5. UnalignedHeld'
  BY DEF UnalignedHeld
<1> QED
  BY <1>1, <1>2, <1>3, <1>4, <1>5 DEF AuthInv

LEMMA AuthCheckEarly ==
    ASSUME BaseInv, AuthInv, CheckEarly
    PROVE  AuthInv'
<1>1. /\ stage = "early" /\ outcome = "none"
      /\ UNCHANGED <<conf, msg, spf, authentic, fetch, merged>>
  BY DEF CheckEarly, histVars
<1>2. outcome' = "refused" \/ (Begin("conn", 1) /\ outcome' = outcome)
  BY Started DEF CheckEarly, Refuse, endVars
<1>3. CASE outcome' = "refused"
  BY <1>1, <1>3, AuthGone
<1>4. CASE Begin("conn", 1) /\ outcome' = outcome
  <2>1. \A b \in {1, 2} : "spf" \in C.groups[b] => ~PastConn("spf", b)'
    BY <1>4 DEF PastConn, Begin, Due, Methods
  <2> QED
    BY <1>1, <1>4, <2>1, AuthBefore DEF Begin
<1> QED
  BY <1>2, <1>3, <1>4

LEMMA AuthEndConn ==
    ASSUME BaseInv, AuthInv, EndConn
    PROVE  AuthInv'
<1>1. /\ stage = "conn" /\ pending = {} /\ outcome = "none"
      /\ UNCHANGED <<conf, msg, spf, authentic, fetch, outcome>>
      /\ MergeQuarantine /\ stage' = "sender" /\ blk' = blk
  BY DEF EndConn, Returned, Begin, histVars, endVars
<1>2. merged'.auth = merged.auth
  BY <1>1, Merged
<1>3. \A b \in {1, 2} : PastConn("spf", b)' => PastConn("spf", b)
  BY <1>1 DEF PastConn
<1> QED
  BY <1>1, <1>2, <1>3, AuthBefore

LEMMA AuthEndSender ==
    ASSUME BaseInv, AuthInv, EndSender
    PROVE  AuthInv'
<1>1. /\ stage = "sender" /\ pending = {} /\ outcome = "none"
      /\ UNCHANGED <<conf, msg, spf, authentic, fetch>> /\ MergeQuarantine
  BY DEF EndSender, Returned, histVars
<1>2. merged'.auth = merged.auth
  BY <1>1, Merged
<1>3. \/ outcome' = "refused"
      \/ Begin("conn", 2) /\ outcome' = outcome
      \/ stage' = "ready" /\ blk' = blk /\ blk # 1 /\ outcome' = outcome
  BY Started DEF EndSender, endVars
<1>4. CASE outcome' = "refused"
  BY <1>1, <1>2, <1>4, AuthGone
<1>5. CASE Begin("conn", 2) /\ outcome' = outcome
  <2>1. "spf" \in C.groups[2] /\ "spf" \notin C.groups[1] => ~PastConn("spf", 2)'
    BY <1>5 DEF PastConn, Begin, Due, Methods
  <2>2. PastConn("spf", 1)' => PastConn("spf", 1)
    BY <1>1 DEF PastConn
  <2> QED
    BY <1>1, <1>2, <1>5, <2>1, <2>2, AuthBefore DEF Begin
<1>6. CASE stage' = "ready" /\ blk' = blk /\ blk # 1 /\ outcome' = outcome
  <2>1. \A b \in {1, 2} : PastConn("spf", b)' => PastConn("spf", b)
    BY <1>1, <1>6 DEF PastConn
  <2> QED
    BY <1>1, <1>2, <1>6, <2>1, AuthBefore
<1> QED
  BY <1>3, <1>4, <1>5, <1>6

LEMMA AuthRcpt ==
    ASSUME BaseInv, AuthInv, Rcpt \/ EndRcpt
    PROVE  AuthInv'
<1>1. /\ stage \in {"ready", "rcpt"} /\ pending = {} /\ outcome = "none"
      /\ UNCHANGED <<conf, msg, spf, authentic, fetch, outcome>>
      /\ stage' \in {"ready", "rcpt"}
      /\ MergeQuarantine \/ merged' = merged
  BY DEF Rcpt, EndRcpt, Returned, Begin, histVars, endVars
<1>2. merged'.auth = merged.auth
  BY <1>1, Merged
<1>3. \A b \in {1, 2} : PastConn("spf", b)
  BY <1>1 DEF PastConn
<1> QED
  BY <1>1, <1>2, <1>3, AuthBefore

\* The body begins: all that is late is still to come.
LEMMA AuthBody ==
    ASSUME BaseInv, AuthInv, Body
    PROVE  AuthInv'
<1>1. /\ stage = "ready" /\ pending = {} /\ outcome = "none"
      /\ UNCHANGED <<conf, msg, spf, authentic, outcome, merged>>
      /\ Begin("body", 1)
      /\ fetch' = fetch \/ fetch' = Fetched("perm", NoDomain, NoRecord)
            \/ fetch' = [err |-> "running"]
  BY DEF Body, Returned, histVars, endVars
<1>2. /\ C' = C /\ Judged' = Judged /\ ExtractFromDomain' = ExtractFromDomain
  BY <1>1, SameMail
<1>3. FoundInv'
  <2>1. SpfAuth(spf.res)' = SpfAuth(spf.res)
    BY <1>1 DEF SpfAuth, SpfDomain, M
  <2>2. fetch'.err = "none" => fetch' = fetch
    BY <1>1 DEF Fetched
  <2> QED
    BY <1>1, <1>2, <2>1, <2>2 DEF AuthInv, FoundInv
<1>4. \A c \in {"spf", "dkim"} : Late(c)'
  <2>1. stage' = "body" /\ blk' = 1 /\ outcome' = "none" /\ pending' = Due("body", 1)
    BY <1>1 DEF Begin
  <2>2. \A c \in {"spf", "dkim"} : c \in C.groups[1] => c \in Due("body", 1)
    BY DEF Due, Methods
  <2> QED
    BY <1>2, <2>1, <2>2 DEF Late, PastBody
<1>5. Early => Early'
  <2>1. \A b \in {1, 2} : PastConn("spf", b)
    BY <1>1 DEF PastConn
  <2> QED
    BY <1>1, <1>2, <2>1 DEF Early, Going, Has
<1>6. UnalignedHeld'
  BY <1>1 DEF UnalignedHeld
<1> QED
  BY <1>2, <1>3, <1>4, <1>5, <1>6 DEF AuthInv

\* A group has ended without a rejection: its results are there.
LEMMA AuthEndBody ==
    ASSUME BaseInv, AuthInv, EndBody
    PROVE  AuthInv'
<1>1. /\ stage = "body" /\ pending = {} /\ outcome = "none" /\ rejectErr = "none"
      /\ UNCHANGED <<conf, msg, spf, authentic, fetch, outcome>>
      /\ MergeQuarantine /\ blk \in {1, 2}
  BY DEF EndBody, Returned, histVars, endVars, BaseInv, ShapeInv
<1>2. merged'.auth = merged.auth
  BY <1>1, Merged
<1>3. C' = C /\ Judged' = Judged
  BY <1>1, SameMail
<1>4. \/ blk = 1 /\ stage' = "body" /\ blk' = 2 /\ pending' = Due("body", 2)
      \/ blk = 2 /\ stage' = "apply"
  BY <1>1 DEF EndBody, Begin
<1>5. FoundInv'
  BY <1>1, <1>2, <1>4, FoundMoves DEF AuthInv
<1>6. \A c \in {"spf", "dkim"} : c \in C.groups[2] => c \in Due("body", 2)
  BY DEF Due, Methods
<1>7. ASSUME NEW c \in {"spf", "dkim"}, Late(c) PROVE Late(c)'
  <2>1. \A b \in {1, 2} : b <= blk /\ c \in C.groups[b] => Has(c)
    BY <1>1, <1>7 DEF Late, Going, PastBody
  <2>2. Has(c)' = Has(c)
    BY <1>2 DEF Has
  <2>3. \A b \in {1, 2} : c \in C.groups[b] /\ PastBody(c, b)' => b <= blk
    BY <1>1, <1>4, <1>6 DEF PastBody
  <2> QED
    BY <1>3, <2>1, <2>2, <2>3 DEF Late
<1>8. Early => Early'
  <2>1. \A b \in {1, 2} : PastConn("spf", b)
    BY <1>1 DEF PastConn
  <2> QED
    BY <1>1, <1>2, <1>3, <2>1 DEF Early, Going, Has
<1>9. UnalignedHeld'
  BY <1>1 DEF UnalignedHeld
<1> QED
  BY <1>3, <1>5, <1>7, <1>8, <1>9 DEF AuthInv

\* The policy is applied.
LEMMA AuthApply ==
    ASSUME BaseInv, AuthInv, ApplyResults
    PROVE  AuthInv'
<1>1. /\ stage = "apply" /\ outcome = "none"
      /\ UNCHANGED <<conf, msg, stage, blk, pending, rejectErr, spf, authentic, fetch>>
      /\ ~C.dmarc \/ fetch.err \notin {"nothing yet", "running"}
  BY DEF ApplyResults, Returned, histVars
<1> DEFINE from == ExtractFromDomain
           Ver(dice) == IF C.dmarc THEN ApplyDMARC(fetch, from, merged.auth, dice)
                        ELSE [value |-> "none", policy |-> "none"]
<1>2. PICK dice \in {0, 50, 99} :
        /\ merged' = [merged EXCEPT !.quarantine = @ \/ Ver(dice).policy = "quarantine"]
        /\ IF Ver(dice).policy = "reject" THEN outcome' = "refused"
           ELSE outcome' = "accepted"
  BY DEF ApplyResults, Refuse
<1>3. C' = C /\ Judged' = Judged /\ from' = from /\ Exposed' = Exposed
  <2>1. C' = C /\ Judged' = Judged /\ ExtractFromDomain' = ExtractFromDomain
    BY <1>1, SameMail
  <2> QED
    BY <2>1 DEF Exposed
<1>a. ASSUME Exposed, fetch.err = "none", ~AlignedIn(from, authentic),
             Governing(from) # "none"
      PROVE  Ver(dice).policy = Governing(from)
  BY <1>1, <1>2, <1>a, AppliedPolicy DEF Exposed
<1> HIDE DEF Ver, from
<1>4. /\ merged'.auth = merged.auth
      /\ Ver(dice).policy = "quarantine" => merged'.quarantine
  BY <1>2 DEF BaseInv, ShapeInv
<1>5. FoundInv'
  BY <1>1, <1>2, <1>4, FoundMoves DEF AuthInv
<1>6. ASSUME NEW c, Late(c) PROVE Late(c)'
  <2>1. \A b \in {1, 2} : c \in C.groups[b] => Has(c)
    BY <1>1, <1>6 DEF Late, Going, PastBody
  <2>2. Has(c)' = Has(c)
    BY <1>4 DEF Has
  <2> QED
    BY <1>3, <2>1, <2>2 DEF Late
<1>7. Early => Early'
  <2>1. \A b \in {1, 2} : PastConn("spf", b)
    BY <1>1 DEF PastConn
  <2> QED
    BY <1>1, <1>3, <1>4, <2>1 DEF Early, Going, Has
<1>8. UnalignedHeld'
  <2>1. ASSUME outcome' = "accepted", Exposed, fetch.err = "none",
               ~AlignedIn(from, authentic)
        PROVE  /\ Governing(from) # "reject"
               /\ Governing(from) = "quarantine" => merged'.quarantine
    BY <1>2, <1>4, <1>a, <2>1
  <2> USE DEF from
  <2>2. UnalignedHeld' <=>
        (/\ outcome' = "accepted" /\ Exposed' /\ fetch'.err = "none"
         /\ ~AlignedIn(from', authentic')
         => /\ Governing(from') # "reject"
            /\ Governing(from') = "quarantine" => merged'.quarantine)
    BY <1>3 DEF UnalignedHeld, Exposed, AlignedIn, Judged, Governing
  <2> QED
    BY <1>1, <1>3, <2>1, <2>2
<1> QED
  BY <1>3, <1>5, <1>6, <1>7, <1>8 DEF AuthInv

LEMMA AuthClose ==
    ASSUME BaseInv, AuthInv, Close
    PROVE  AuthInv'
<1>1. /\ outcome # "none" /\ stage' = "done"
      /\ UNCHANGED <<conf, msg, spf, authentic, fetch, outcome, merged, blk>>
  BY DEF Close, histVars, endVars
<1>2. C' = C /\ Judged' = Judged
  BY <1>1, SameMail
<1>3. FoundInv'
  BY <1>1, FoundMoves DEF AuthInv, FoundInv
<1>4. ASSUME NEW c, Late(c) PROVE Late(c)'
  BY <1>1, <1>2, <1>4 DEF Late, Going, PastBody, Has
<1>5. Early => Early'
  <2>1. outcome = "accepted" => \A b \in {1, 2} : PastConn("spf", b)
    BY DEF PastConn, AuthInv, FoundInv
  <2> QED
    BY <1>1, <1>2, <2>1 DEF Early, Going, Has
<1>6. UnalignedHeld'
  BY <1>1, HeldKept DEF AuthInv
<1> QED
  BY <1>2, <1>3, <1>4, <1>5, <1>6 DEF AuthInv

LEMMA AuthEvaluateSpf ==
    ASSUME BaseInv, AuthInv, EvaluateSpf
    PROVE  AuthInv'
<1>1. /\ UNCHANGED <<conf, msg, stage, blk, pending, rejectErr, outcome, merged, fetch>>
      /\ authentic \subseteq authentic'
  BY DEF EvaluateSpf, runVars, endVars
<1>2. /\ spf'.skip = spf.skip
      /\ spf'.chan = "sent" => SpfAuth(spf'.res) \subseteq authentic'
  BY DEF EvaluateSpf, BaseInv, SpfShape
<1>3. /\ C' = C /\ Judged' = Judged /\ ExtractFromDomain' = ExtractFromDomain
  BY <1>1, SameMail
<1>4. FoundInv'
  <2>1. SpfAuth(spf.res)' = SpfAuth(spf'.res)
    BY <1>1 DEF SpfAuth, SpfDomain, M
  <2> QED
    BY <1>1, <1>2, <1>3, <2>1 DEF AuthInv, FoundInv
<1>5. Late("dkim")' /\ (Judged /\ ~C.enforce_early => Late("spf")')
  BY <1>1, LateQuiet DEF AuthInv
<1>6. Judged /\ C.enforce_early => Early'
  BY <1>1, EarlyQuiet DEF AuthInv
<1>7. UnalignedHeld'
  BY <1>1, HeldKept DEF AuthInv
<1> QED
  BY <1>3, <1>4, <1>5, <1>6, <1>7 DEF AuthInv

LEMMA AuthFetchDmarc ==
    ASSUME BaseInv, AuthInv, FetchDmarc
    PROVE  AuthInv'
<1>1. /\ UNCHANGED <<conf, msg, stage, blk, pending, rejectErr, outcome, merged, spf,
                     authentic>>
      /\ fetch.err = "running"
      /\ \/ fetch' \in Fetches(ExtractFromDomain)
         \/ fetch' = Fetched("panic", NoDomain, NoRecord)
  BY DEF FetchDmarc, runVars, endVars
<1>2. /\ C' = C /\ Judged' = Judged /\ ExtractFromDomain' = ExtractFromDomain
  BY <1>1, SameMail
<1>3. ~(outcome = "accepted" /\ C.dmarc)
  BY <1>1 DEF AuthInv, FoundInv
<1>4. FoundInv'
  <2>1. SpfAuth(spf.res)' = SpfAuth(spf.res)
    BY <1>1 DEF SpfAuth, SpfDomain, M
  <2>2. fetch'.err = "none" => fetch' \in Fetches(ExtractFromDomain)
    BY <1>1 DEF Fetched
  <2> QED
    BY <1>1, <1>2, <1>3, <2>1, <2>2 DEF AuthInv, FoundInv
<1>5. Late("dkim")' /\ (Judged /\ ~C.enforce_early => Late("spf")')
  BY <1>1, LateQuiet DEF AuthInv
<1>6. Judged /\ C.enforce_early => Early'
  BY <1>1, EarlyQuiet DEF AuthInv
<1>7. UnalignedHeld'
  BY <1>1, <1>3, HeldKept DEF AuthInv
<1> QED
  BY <1>2, <1>4, <1>5, <1>6, <1>7 DEF AuthInv

LEMMA AuthInit ==
    ASSUME Init
    PROVE  AuthInv
<1>1. FoundInv
  BY DEF Init, FoundInv, NoFetch
<1>2. \A c : Late(c)
  BY DEF Init, Late, PastBody
<1>3. Early
  BY DEF Init, Early, PastConn
<1>4. UnalignedHeld
  BY DEF Init, UnalignedHeld
<1> QED
  BY <1>1, <1>2, <1>3, <1>4 DEF AuthInv

LEMMA AuthStep ==
    ASSUME BaseInv, AuthInv, [Next]_vars
    PROVE  AuthInv'
<1>1. CASE UNCHANGED vars
  <2>1. UNCHANGED <<conf, msg, runVars, outcome, spf, authentic, fetch>>
    BY <1>1 DEF vars, endVars, histVars
  <2> QED
    BY <2>1, AuthQuiet DEF runVars
<1>2. CASE CheckCall
  BY <1>2, AuthCall
<1>3. CASE FailGroup
  <2>1. outcome' = "refused" /\ UNCHANGED <<conf, msg, spf, authentic, fetch, merged>>
    BY <1>3 DEF FailGroup, Refuse, runVars, histVars
  <2> QED
    BY <2>1, AuthGone
<1>4. CASE GiveUp
  <2>1. outcome' = "aborted" /\ UNCHANGED <<conf, msg, spf, authentic, fetch, merged>>
    BY <1>4 DEF GiveUp, runVars, histVars
  <2> QED
    BY <2>1, AuthGone
<1>5. CASE \E z \in Zones : QueryList(z)
  <2>1. UNCHANGED <<conf, msg, runVars, outcome, spf, authentic, fetch>>
    BY <1>5 DEF QueryList, endVars, histVars
  <2> QED
    BY <2>1, AuthQuiet DEF runVars
<1>6. CASE FetchRDNSName
  <2>1. UNCHANGED <<conf, msg, runVars, outcome, spf, authentic, fetch>>
    BY <1>6 DEF FetchRDNSName, endVars, histVars
  <2> QED
    BY <2>1, AuthQuiet DEF runVars
<1> QED
  BY <1>1, <1>2, <1>3, <1>4, <1>5, <1>6, AuthCheckEarly, AuthEndConn, AuthEndSender,
     AuthRcpt, AuthBody, AuthEndBody, AuthApply, AuthClose, AuthEvaluateSpf,
     AuthFetchDmarc DEF Next, Server, Runner, Background, Client

(***************************************************************************)
(* Mail that neither SPF nor DKIM authenticates for its From domain is     *)
(* held to the policy that the domain publishes, when both are checked,    *)
(* whenever their results come and although SPF leaves the matter to       *)
(* DMARC, which fetches the record for itself (state.relyOnDMARC,          *)
(* Verifier.Apply, EvaluateAlignment).                                     *)
(***************************************************************************)
THEOREM UnalignedHold == Spec => []UnalignedHeld
<1>1. Init => BaseInv /\ AuthInv
  BY BaseInit, AuthInit
<1>2. BaseInv /\ AuthInv /\ [Next]_vars => BaseInv' /\ AuthInv'
  BY BaseStep, AuthStep
<1>3. AuthInv => UnalignedHeld
  BY DEF AuthInv
<1> QED
  BY <1>1, <1>2, <1>3, PTL DEF Spec
=============================================================================
