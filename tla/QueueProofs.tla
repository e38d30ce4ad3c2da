---------------------------- MODULE QueueProofs ----------------------------
(***************************************************************************)
(* Proofs about Queue, for any sets of messages, recipients and            *)
(* goroutines, any limits and any faults; at the end about TimeWheel, on   *)
(* which the queue relies.                                                 *)
(***************************************************************************)
EXTENDS Queue, TimeWheel, SequenceTheorems, TLAPS

\* No error is not an error.
LEMMA NoneIsNoError == "none" \notin Errors
  BY ErrorsAssumption DEF ErrorsAssumption

(* What one more AddRcpt, or one more round of a loop over a list, does to *)
(* the set of its members.                                                 *)
LEMMA ElemsAppend ==
  ASSUME NEW s \in Seq(Rcpts), NEW r \in Rcpts
  PROVE  Append(s, r) \in Seq(Rcpts) /\ Elems(Append(s, r)) = Elems(s) \cup {r}
<1> DEFINE t == Append(s, r)
<1>1. /\ t \in Seq(Rcpts)
      /\ Len(t) = Len(s) + 1
      /\ \A i \in 1 .. Len(s) : t[i] = s[i]
      /\ t[Len(s) + 1] = r
  BY AppendProperties
<1> HIDE DEF t
<1>2. DOMAIN s = 1 .. Len(s) /\ DOMAIN t = 1 .. Len(t) /\ Len(s) \in Nat
  BY <1>1
<1>3. DOMAIN t = DOMAIN s \cup {Len(s) + 1}
  BY <1>1, <1>2
<1>4. Elems(t) = Elems(s) \cup {r}
  BY <1>1, <1>2, <1>3 DEF Elems
<1> QED
  BY <1>1, <1>4 DEF t

(* The first member of a list and the rest are the list.                   *)
LEMMA ElemsTail ==
  ASSUME NEW s \in Seq(Rcpts), s # <<>>
  PROVE  /\ Head(s) \in Rcpts
         /\ Tail(s) \in Seq(Rcpts)
         /\ Elems(s) = {Head(s)} \cup Elems(Tail(s))
<1> DEFINE t == Tail(s)
<1>1. /\ Head(s) \in Rcpts /\ t \in Seq(Rcpts) /\ Len(t) = Len(s) - 1
      /\ \A i \in 1 .. Len(t) : t[i] = s[i + 1]
  BY HeadTailProperties
<1>2. Head(s) = s[1] /\ Len(s) \in Nat \ {0}
  OBVIOUS
<1> HIDE DEF t
<1>3. DOMAIN s = 1 .. Len(s) /\ DOMAIN t = 1 .. Len(t)
  BY <1>1
<1>4. \A i \in DOMAIN s : i = 1 \/ (i - 1 \in DOMAIN t /\ t[i - 1] = s[i])
  BY <1>1, <1>2, <1>3
<1>5. \A i \in DOMAIN t : i + 1 \in DOMAIN s /\ t[i] = s[i + 1]
  BY <1>1, <1>2, <1>3
<1>6. Elems(s) = {s[1]} \cup Elems(t)
  <2>1. Elems(s) \subseteq {s[1]} \cup Elems(t)
    BY <1>4 DEF Elems
  <2>2. Elems(t) \subseteq Elems(s)
    BY <1>5 DEF Elems
  <2>3. s[1] \in Elems(s)
    BY <1>2, <1>3 DEF Elems
  <2> QED
    BY <2>1, <2>2, <2>3
<1> QED
  BY <1>1, <1>2, <1>6 DEF t

(* Counting only adds, and leaves no counted recipient at zero.            *)
LEMMA CountType ==
  ASSUME NEW f \in [Msgs -> [Rcpts -> Nat]], NEW m \in Msgs, NEW S
  PROVE  /\ Count(f, m, S) \in [Msgs -> [Rcpts -> Nat]]
         /\ \A n \in Msgs, r \in Rcpts : Count(f, m, S)[n][r] >= f[n][r]
         /\ \A r \in S \cap Rcpts : Count(f, m, S)[m][r] > 0
  BY DEF Count

(* Of these, the type alone, for a counter that a step may leave alone.    *)
LEMMA CountOrNotType ==
  ASSUME NEW f \in [Msgs -> [Rcpts -> Nat]], NEW m \in Msgs, NEW g,
         g = f \/ \E S : g = Count(f, m, S)
  PROVE  g \in [Msgs -> [Rcpts -> Nat]]
<1>1. CASE g = f
  BY <1>1
<1>2. CASE \E S : g = Count(f, m, S)
  <2>1. PICK S : g = Count(f, m, S)
    BY <1>2
  <2>2. Count(f, m, S) \in [Msgs -> [Rcpts -> Nat]]
    BY CountType
  <2> QED
    BY <2>1, <2>2
<1> QED
  BY <1>1, <1>2

-----------------------------------------------------------------------------
(* The initial state is well typed.                                        *)
LEMMA TypeInit == Init => TypeOK
<1> SUFFICES ASSUME Init PROVE TypeOK
  OBVIOUS
<1>1. <<>> \in Seq(Rcpts) /\ NoTries \in [Rcpts -> Nat]
  BY DEF NoTries
<1>2. NoJob \in Job
  BY <1>1 DEF NoJob, NoErrs, Job
<1>3. [to |-> <<>>, tries |-> NoTries] \in Meta
  BY <1>1 DEF Meta
<1>4. 0 \in 0 .. MaxFaults /\ 0 \in 0 .. MaxStops
  BY BoundsAssumption DEF BoundsAssumption
<1>5. SrcTypeOK /\ DiskTypeOK /\ ProcTypeOK
  BY <1>1, <1>3 DEF Init, SrcTypeOK, DiskTypeOK, ProcTypeOK, SrcStates,
                    ProcStates
<1>6. WorkTypeOK /\ HistTypeOK
  BY <1>1, <1>2, <1>4 DEF Init, WorkTypeOK, HistTypeOK, WorkerStates
<1> QED
  BY <1>5, <1>6 DEF TypeOK

(* The bounded counters stay within their bounds.                          *)
LEMMA FaultType ==
  ASSUME TypeOK, NoFault \/ \E k \in FaultKinds : Fault(k)
  PROVE  faults' \in 0 .. MaxFaults /\ stops' \in 0 .. MaxStops
  BY BoundsAssumption DEF BoundsAssumption, TypeOK, HistTypeOK, NoFault,
     Fault, faultVars

(* A file that is or is not removed leaves the set of files well typed.    *)
LEMMA RemoveType ==
  ASSUME TypeOK, NEW m \in Msgs
  PROVE  /\ RemoveHeader(m) => headers' \subseteq Msgs
         /\ RemoveBody(m) => bodies' \subseteq Msgs
         /\ RemoveMeta(m) => metas' \subseteq Msgs
         /\ RemoveHeader(m) \/ RemoveBody(m) \/ RemoveMeta(m) =>
                NoFault \/ \E k \in FaultKinds : Fault(k)
  BY DEF TypeOK, DiskTypeOK, RemoveHeader, RemoveBody, RemoveMeta, Fault

(* A step of a source keeps the types.                                     *)
LEMMA TypeSource ==
  ASSUME TypeOK, NEW m \in Msgs, Source(m)
  PROVE  TypeOK'
<1>1. SrcTypeOK'
  <2> USE DEF TypeOK, SrcTypeOK, SrcStates, Goto
  <2>1. CASE \E r \in Rcpts : AddRcpt(m, r)
    BY <2>1, ElemsAppend DEF AddRcpt
  <2>2. CASE Start(m) \/ StoreHeader(m) \/ StoreBody(m) \/ StoreMeta(m)
    BY <2>2 DEF Start, StoreHeader, StoreBody, StoreMeta
  <2>3. CASE StoreSync(m) \/ Abort(m) \/ AbortRemove(m)
    BY <2>3 DEF StoreSync, Abort, AbortRemove
  <2>4. CASE Commit(m) \/ CommitPush(m) \/ CommitNotify(m)
    BY <2>4 DEF Commit, CommitPush, CommitNotify
  <2> QED
    BY <2>1, <2>2, <2>3, <2>4 DEF Source
<1>2. DiskTypeOK'
  <2> USE DEF TypeOK, DiskTypeOK, diskVars
  <2>1. CASE StoreMeta(m)
    <3>1. [to |-> to[m], tries |-> NoTries] \in Meta
      BY DEF Meta, NoTries, SrcTypeOK
    <3> QED
      BY <2>1, <3>1 DEF StoreMeta
  <2>2. CASE AbortRemove(m)
    BY <2>2, RemoveType DEF AbortRemove
  <2>3. CASE StoreHeader(m) \/ StoreBody(m)
    BY <2>3 DEF StoreHeader, StoreBody
  <2>4. CASE \/ \E r \in Rcpts : AddRcpt(m, r)
             \/ Start(m) \/ StoreSync(m) \/ Abort(m)
             \/ Commit(m) \/ CommitPush(m) \/ CommitNotify(m)
    BY <2>4 DEF Start, AddRcpt, StoreSync, Abort, Commit, CommitPush,
                CommitNotify
  <2> QED
    BY <2>1, <2>2, <2>3, <2>4 DEF Source
<1>3. UNCHANGED procVars /\ UNCHANGED workVars /\ UNCHANGED histVars
  BY DEF Source, Start, AddRcpt, StoreHeader, StoreBody, StoreMeta, StoreSync,
         Abort, AbortRemove, Commit, CommitPush, CommitNotify
<1>4. slots' \subseteq Slot
  <2>1. slots \subseteq Slot /\ [id |-> m, mem |-> TRUE] \in Slot
    BY DEF TypeOK, ProcTypeOK, Slot
  <2> QED
    BY <2>1 DEF Source, Start, AddRcpt, StoreHeader, StoreBody, StoreMeta,
         StoreSync, Abort, AbortRemove, Commit, CommitPush, CommitNotify
<1>5. NoFault \/ \E k \in FaultKinds : Fault(k)
  <2>1. CASE AbortRemove(m)
    BY <2>1, RemoveType DEF AbortRemove
  <2>2. CASE StoreHeader(m) \/ StoreBody(m) \/ StoreMeta(m) \/ StoreSync(m)
    BY <2>2 DEF StoreHeader, StoreBody, StoreMeta, StoreSync, Fault
  <2>3. CASE \/ \E r \in Rcpts : AddRcpt(m, r)
             \/ Start(m) \/ Abort(m)
             \/ Commit(m) \/ CommitPush(m) \/ CommitNotify(m)
    BY <2>3 DEF Start, AddRcpt, Abort, Commit, CommitPush, CommitNotify,
                NoFault, faultVars
  <2> QED
    BY <2>1, <2>2, <2>3 DEF Source
<1>6. ProcTypeOK' /\ WorkTypeOK'
  BY <1>3, <1>4 DEF TypeOK, ProcTypeOK, WorkTypeOK, procVars, workVars
<1>7. HistTypeOK'
  BY <1>3, <1>5, FaultType DEF TypeOK, HistTypeOK, histVars
<1> QED
  BY <1>1, <1>2, <1>6, <1>7 DEF TypeOK

(* One more try is counted for r and r is to be retried.                   *)
LEMMA AgainJob ==
  ASSUME NEW j \in Job, NEW r \in Rcpts, j.rest # <<>>
  PROVE  /\ Again(j, r) \in Job
         /\ Again(j, r).id = j.id
         /\ Again(j, r).errs = j.errs
         /\ Again(j, r).failed = j.failed
         /\ Again(j, r).rest = Tail(j.rest)
         /\ Again(j, r).retry = Append(j.retry, r)
<1> DEFINE t == [j.tries EXCEPT ![r] = j.tries[r] + 1]
           a == [j EXCEPT !.rest = Tail(j.rest), !.tries = t,
                          !.retry = Append(j.retry, r)]
<1>1. j.tries \in [Rcpts -> Nat]
  BY DEF Job
<1>2. t \in [Rcpts -> Nat]
  BY <1>1
<1>3. Tail(j.rest) \in Seq(Rcpts) /\ Append(j.retry, r) \in Seq(Rcpts)
  BY ElemsTail, ElemsAppend DEF Job
<1>4. Again(j, r) = a
  BY DEF Again, Job
<1> HIDE DEF t
<1>5. a \in Job
  BY <1>2, <1>3 DEF Job
<1> QED
  BY <1>4, <1>5 DEF Job

(* Every step of a goroutine changes its own state only, leaves its local  *)
(* variables well typed and, while it runs, keeps its message.             *)
LEMMA JobStep ==
  ASSUME TypeOK, NEW w \in Workers, Tick(w) \/ Worker(w)
  PROVE  \E s \in WorkerStates, k \in Job :
            /\ s # "idle" => k.id \in Msgs
            /\ s # "idle" /\ pc[w] # "idle" => k.id = job[w].id
            /\ pc[w] = "idle" => \E q \in slots : k.id = q.id
            /\ pc' = [pc EXCEPT ![w] = s]
            /\ job' = [job EXCEPT ![w] = k]
<1> DEFINE j == job[w]
<1>0. j \in Job /\ (pc[w] # "idle" => j.id \in Msgs)
  BY DEF TypeOK, WorkTypeOK
<1> USE DEF Move
<1>1. NoJob \in Job
  BY DEF NoJob, NoErrs, NoTries, Job
<1>2. job = [job EXCEPT ![w] = j] /\ pc = [pc EXCEPT ![w] = pc[w]]
      /\ pc[w] \in WorkerStates
  BY DEF TypeOK, WorkTypeOK
<1>3. CASE Tick(w)
  <2> PICK s \in slots : Dispatch(w, s)
    BY <1>3 DEF Tick
  <2> DEFINE k == [NoJob EXCEPT !.id = s.id, !.mem = s.mem]
  <2>1. k \in Job /\ k.id = s.id /\ s.id \in Msgs
    BY <1>1 DEF TypeOK, ProcTypeOK, Slot, Job
  <2>2. /\ pc[w] = "idle"
        /\ pc' = [pc EXCEPT ![w] = "queued"]
        /\ job' = [job EXCEPT ![w] = k]
    BY DEF Dispatch
  <2>3. "queued" \in WorkerStates
    BY DEF WorkerStates
  <2> HIDE DEF k
  <2> QED
    BY <2>1, <2>2, <2>3
<1>4. CASE Acquire(w) \/ EmitDSN(w) \/ UpdateMeta(w) \/ Requeue(w)
           \/ RemoveFromDisk(w) \/ TargetPanics(w) \/ Recover(w)
  <2>1. pc[w] # "idle" /\ job' = job
        /\ \E s \in WorkerStates : pc' = [pc EXCEPT ![w] = s]
    BY <1>4 DEF Acquire, EmitDSN, UpdateMeta, Requeue, RemoveFromDisk,
                TargetPanics, Recover, Conclude, WorkerStates
  <2> QED
    BY <1>0, <1>2, <2>1
<1>5. CASE Release(w) \/ DiscardBroken(w)
  BY <1>1, <1>5 DEF Release, DiscardBroken, WorkerStates
<1>6. CASE Open(w)
  <2> DEFINE k(meta) == [j EXCEPT !.to = meta.to, !.tries = meta.tries]
  <2>1. \A meta \in Meta : k(meta) \in Job /\ k(meta).id = j.id
    BY <1>0 DEF Job, Meta
  <2>2. CASE \E meta \in Meta : Begin(w, meta)
    <3> PICK meta \in Meta : Begin(w, meta)
      BY <2>2
    <3>1. job' = [job EXCEPT ![w] = k(meta)]
      BY DEF Begin, TypeOK, WorkTypeOK
    <3> QED
      BY <1>0, <1>6, <2>1, <3>1 DEF Begin, Open, WorkerStates
  <2>3. CASE Move(w, "release") /\ UNCHANGED job
    BY <1>0, <1>2, <1>6, <2>3 DEF Open, WorkerStates
  <2>4. j.id \in Msgs
    BY <1>0, <1>6 DEF Open
  <2>5. metaOf[j.id] \in Meta /\ [to |-> to[j.id], tries |-> NoTries] \in Meta
    BY <2>4 DEF TypeOK, DiskTypeOK, SrcTypeOK, Meta, NoTries
  <2> QED
    BY <1>6, <2>2, <2>3, <2>5 DEF Open
<1>7. CASE Attempt(w) \/ RcptTo(w) \/ Body(w) \/ TargetCommit(w) \/ Settle(w)
  <2>1. pc[w] # "idle"
    BY <1>7 DEF Attempt, RcptTo, Body, TargetCommit, Settle
  <2>2. \E s \in WorkerStates \ {"idle"} : pc' = [pc EXCEPT ![w] = s]
    <3>1. CASE Attempt(w) \/ RcptTo(w)
      BY <1>2, <3>1 DEF Attempt, RcptTo, WorkerStates
    <3>2. CASE Body(w) \/ TargetCommit(w)
      BY <3>2 DEF Body, TargetCommit, WorkerStates
    <3>3. CASE Settle(w)
      BY <1>2, <3>3 DEF Settle, Conclude, WorkerStates
    <3> QED
      BY <1>7, <3>1, <3>2, <3>3
  <2>3. \E k \in Job : k.id = j.id /\ job' = [job EXCEPT ![w] = k]
    <3>1. \A errs \in [Rcpts -> Errors \cup {"none"}] :
              Examine(w, errs) \in Job /\ Examine(w, errs).id = j.id
      BY <1>0 DEF Examine, Job
    <3>2. CASE Attempt(w)
      <4>1. CASE job' = [job EXCEPT ![w].rest = job[w].to]
        <5> DEFINE k == [j EXCEPT !.rest = j.to]
        <5>1. k \in Job /\ k.id = j.id
          BY <1>0 DEF Job
        <5> QED
          BY <4>1, <5>1
      <4>2. CASE \E e \in Errors : job' = [job EXCEPT ![w] = Examine(w,
                    [r \in Rcpts |-> IF r \in Elems(j.to) THEN e
                                                          ELSE "none"])]
        <5> PICK e \in Errors : job' = [job EXCEPT ![w] = Examine(w,
                    [r \in Rcpts |-> IF r \in Elems(j.to) THEN e
                                                          ELSE "none"])]
          BY <4>2
        <5>1. [r \in Rcpts |-> IF r \in Elems(j.to) THEN e ELSE "none"]
                  \in [Rcpts -> Errors \cup {"none"}]
          OBVIOUS
        <5> QED
          BY <3>1, <5>1
      <4> QED
        BY <3>2, <4>1, <4>2 DEF Attempt
    <3>3. CASE RcptTo(w)
      <4>1. CASE j.rest # <<>>
        <5> DEFINE r == Head(j.rest)
        <5>1. r \in Rcpts /\ Tail(j.rest) \in Seq(Rcpts)
          BY <1>0, <4>1, ElemsTail DEF Job
        <5>2. RcptOK(j, r) \in Job /\ RcptOK(j, r).id = j.id
          BY <1>0, <5>1 DEF Job, RcptOK
        <5>3. \A e \in Errors :
                  RcptFails(j, r, e) \in Job /\ RcptFails(j, r, e).id = j.id
          BY <1>0, <5>1 DEF Job, RcptFails
        <5>4. \/ job' = [job EXCEPT ![w] = RcptOK(j, r)]
              \/ \E e \in Errors : job' = [job EXCEPT ![w] = RcptFails(j, r, e)]
          BY <3>3, <4>1 DEF RcptTo
        <5> QED
          BY <5>2, <5>3, <5>4
      <4>2. CASE j.rest = <<>>
        <5>1. j.errs \in [Rcpts -> Errors \cup {"none"}]
          BY <1>0 DEF Job
        <5> QED
          BY <1>0, <1>2, <3>1, <3>3, <4>2, <5>1 DEF RcptTo
      <4> QED
        BY <4>1, <4>2
    <3>4. CASE Body(w)
      <4> DEFINE errsOf(st) == [r \in Rcpts |->
                                  IF r \in j.acc /\ st[r] # "none"
                                  THEN st[r] ELSE j.errs[r]]
                 sentOf(st) == {r \in j.acc : st[r] = "none"}
                 k(st) == [j EXCEPT !.errs = errsOf(st), !.sent = sentOf(st)]
      <4> PICK st \in [j.acc -> Errors \cup {"none"}] :
                 \/ job' = [job EXCEPT ![w] = Examine(w, errsOf(st))]
                 \/ job' = [job EXCEPT ![w] = k(st)]
        BY <3>4 DEF Body
      <4>1. errsOf(st) \in [Rcpts -> Errors \cup {"none"}]
        BY <1>0 DEF Job
      <4>2. k(st) \in Job /\ k(st).id = j.id
        BY <1>0, <4>1 DEF Job
      <4> QED
        BY <3>1, <4>1, <4>2
    <3>5. CASE TargetCommit(w)
      <4> DEFINE failAll(e) == [r \in Rcpts |-> IF r \in j.acc
                                                THEN e ELSE j.errs[r]]
      <4>1. j.errs \in [Rcpts -> Errors \cup {"none"}]
        BY <1>0 DEF Job
      <4>2. \A e \in Errors : failAll(e) \in [Rcpts -> Errors \cup {"none"}]
        BY <4>1
      <4>3. \/ job' = [job EXCEPT ![w] = Examine(w, j.errs)]
            \/ \E e \in Errors :
                  job' = [job EXCEPT ![w] = Examine(w, failAll(e))]
        BY <3>5 DEF TargetCommit
      <4> QED
        BY <3>1, <4>1, <4>2, <4>3
    <3>6. CASE Settle(w)
      <4> DEFINE r == Head(j.rest)
      <4>1. CASE j.rest = <<>>
        BY <1>0, <1>2, <3>6, <4>1 DEF Settle
      <4>2. CASE j.rest # <<>>
        <5>1. /\ r \in Rcpts
              /\ Tail(j.rest) \in Seq(Rcpts)
              /\ Append(j.failed, r) \in Seq(Rcpts)
              /\ Append(j.retry, r) \in Seq(Rcpts)
          BY <1>0, <4>2, ElemsTail, ElemsAppend DEF Job
        <5>2. Done(j) \in Job /\ Done(j).id = j.id
          BY <1>0, <5>1 DEF Job, Done
        <5>3. Failed(j, r) \in Job /\ Failed(j, r).id = j.id
          BY <1>0, <5>1 DEF Job, Failed
        <5>4. Again(j, r) \in Job /\ Again(j, r).id = j.id
          BY <1>0, <4>2, <5>1, AgainJob
        <5>5. \/ job' = [job EXCEPT ![w] = Done(j)]
              \/ job' = [job EXCEPT ![w] = Failed(j, r)]
              \/ job' = [job EXCEPT ![w] = Again(j, r)]
          BY <3>6, <4>2 DEF Settle
        <5> QED
          BY <5>2, <5>3, <5>4, <5>5
      <4> QED
        BY <4>1, <4>2
    <3> QED
      BY <1>7, <3>2, <3>3, <3>4, <3>5, <3>6
  <2> QED
    BY <1>0, <2>1, <2>2, <2>3
<1> QED
  BY <1>3, <1>4, <1>5, <1>6, <1>7 DEF Worker

(* A step of a goroutine keeps the types of the goroutines' variables.     *)
LEMMA TypeJob ==
  ASSUME TypeOK, NEW w \in Workers, Tick(w) \/ Worker(w)
  PROVE  WorkTypeOK'
  BY JobStep DEF TypeOK, WorkTypeOK

(* A step of a goroutine keeps all types.                                  *)
LEMMA TypeWorker ==
  ASSUME TypeOK, NEW w \in Workers, Tick(w) \/ Worker(w)
  PROVE  TypeOK'
<1> DEFINE m == job[w].id
<1>1. m \in Msgs \/ Tick(w)
  BY DEF TypeOK, WorkTypeOK, Worker, Acquire, Open, Attempt, RcptTo, Body,
         TargetCommit, Settle, EmitDSN, UpdateMeta, Requeue, RemoveFromDisk,
         Release, TargetPanics, Recover, DiscardBroken
<1>2. UNCHANGED srcVars /\ UNCHANGED procVars
  BY DEF Tick, Dispatch, Worker, Acquire, Open, Attempt, RcptTo, Body,
         TargetCommit, Settle, EmitDSN, UpdateMeta, Requeue, RemoveFromDisk,
         Release, TargetPanics, Recover, DiscardBroken
<1>3. DiskTypeOK'
  <2> USE DEF TypeOK, DiskTypeOK, diskVars
  <2>1. CASE Open(w)
    BY <1>1, <2>1 DEF Open
  <2>2. CASE UpdateMeta(w)
    <3>1. m \in Msgs /\ [to |-> job[w].retry, tries |-> job[w].tries] \in Meta
      BY <2>2 DEF UpdateMeta, WorkTypeOK, Job, Meta
    <3> QED
      BY <2>2, <3>1 DEF UpdateMeta
  <2>3. CASE RemoveFromDisk(w)
    <3>1. m \in Msgs
      BY <2>3 DEF RemoveFromDisk, WorkTypeOK
    <3> QED
      BY <2>3, <3>1, RemoveType DEF RemoveFromDisk
  <2>4. CASE DiscardBroken(w)
    <3>1. m \in Msgs
      BY <2>4 DEF DiscardBroken, WorkTypeOK
    <3> QED
      BY <2>4, <3>1 DEF DiscardBroken
  <2>5. CASE \/ Tick(w) \/ Acquire(w) \/ Attempt(w) \/ RcptTo(w) \/ Body(w)
             \/ TargetCommit(w) \/ Settle(w) \/ EmitDSN(w) \/ Requeue(w)
             \/ Release(w) \/ TargetPanics(w) \/ Recover(w)
    BY <2>5 DEF Tick, Dispatch, Acquire, Attempt, RcptTo, Body, TargetCommit,
                Settle, EmitDSN, Requeue, Release, TargetPanics, Recover
  <2> QED
    BY <2>1, <2>2, <2>3, <2>4, <2>5 DEF Worker
<1>4. slots' \subseteq Slot
  <2>1. slots \subseteq Slot
    BY DEF TypeOK, ProcTypeOK
  <2>2. CASE Requeue(w)
    <3>1. [id |-> m, mem |-> FALSE] \in Slot
      BY <2>2 DEF Requeue, TypeOK, WorkTypeOK, Slot
    <3> QED
      BY <2>1, <2>2, <3>1 DEF Requeue
  <2>3. CASE ~Requeue(w)
    BY <2>1, <2>3
       DEF Tick, Dispatch, Worker, Acquire, Open, Attempt, RcptTo, Body,
           TargetCommit, Settle, EmitDSN, UpdateMeta, RemoveFromDisk, Release,
           TargetPanics, Recover, DiscardBroken
  <2> QED
    BY <2>2, <2>3
<1>5. /\ attempts' \in [Msgs -> [Rcpts -> Nat]]
      /\ delivered' \in [Msgs -> [Rcpts -> Nat]]
      /\ gaveUp' \in [Msgs -> SUBSET Rcpts]
      /\ dsn' \in [Msgs -> [Rcpts -> Nat]]
  <2> USE DEF TypeOK, HistTypeOK
  <2>1. CASE Attempt(w)
    <3>1. m \in Msgs
      BY <2>1 DEF Attempt, WorkTypeOK
    <3> QED
      BY <2>1, <3>1, CountType DEF Attempt
  <2>2. CASE TargetCommit(w)
    <3>1. m \in Msgs
      BY <2>2 DEF TargetCommit, WorkTypeOK
    <3>2. UNCHANGED <<attempts, gaveUp, dsn>>
      BY <2>2 DEF TargetCommit
    <3>3. UNCHANGED delivered \/ \E S : delivered' = Count(delivered, m, S)
      BY <2>2 DEF TargetCommit
    <3>4. delivered' \in [Msgs -> [Rcpts -> Nat]]
      BY <3>1, <3>3, CountOrNotType
    <3> QED
      BY <3>2, <3>4
  <2>3. CASE EmitDSN(w)
    <3>1. m \in Msgs /\ Elems(job[w].failed) \subseteq Rcpts
      BY <2>3 DEF EmitDSN, WorkTypeOK, Job, Elems
    <3>2. UNCHANGED <<attempts, delivered>>
          /\ gaveUp' = [gaveUp EXCEPT ![m] = @ \cup Elems(job[w].failed)]
      BY <2>3 DEF EmitDSN
    <3>3. UNCHANGED dsn \/ \E S : dsn' = Count(dsn, m, S)
      BY <2>3 DEF EmitDSN
    <3>4. dsn' \in [Msgs -> [Rcpts -> Nat]]
      BY <3>1, <3>3, CountOrNotType
    <3>5. gaveUp' \in [Msgs -> SUBSET Rcpts]
      BY <3>1, <3>2
    <3> QED
      BY <3>2, <3>4, <3>5
  <2>4. CASE ~(Attempt(w) \/ TargetCommit(w) \/ EmitDSN(w))
    BY <2>4
       DEF Tick, Dispatch, Worker, Acquire, Open, RcptTo, Body, Settle,
           UpdateMeta, Requeue, RemoveFromDisk, Release, TargetPanics,
           Recover, DiscardBroken, histVars
  <2> QED
    BY <2>1, <2>2, <2>3, <2>4
<1>6. NoFault \/ \E k \in FaultKinds : Fault(k)
  <2>1. CASE Open(w) \/ TargetCommit(w) \/ EmitDSN(w) \/ UpdateMeta(w)
             \/ TargetPanics(w)
    BY <2>1 DEF Open, TargetCommit, EmitDSN, UpdateMeta, TargetPanics, Fault
  <2>2. CASE RemoveFromDisk(w)
    <3>1. m \in Msgs
      BY <2>2 DEF RemoveFromDisk, TypeOK, WorkTypeOK
    <3> QED
      BY <2>2, <3>1, RemoveType DEF RemoveFromDisk
  <2>3. CASE \/ Tick(w) \/ Acquire(w) \/ Attempt(w) \/ RcptTo(w) \/ Body(w)
             \/ Settle(w) \/ Requeue(w) \/ Release(w) \/ Recover(w)
             \/ DiscardBroken(w)
    BY <2>3 DEF Tick, Dispatch, Acquire, Attempt, RcptTo, Body, Settle,
                Requeue, Release, Recover, DiscardBroken, NoFault, faultVars
  <2> QED
    BY <2>1, <2>2, <2>3 DEF Worker
<1>7. SrcTypeOK' /\ ProcTypeOK'
  BY <1>2, <1>4 DEF TypeOK, SrcTypeOK, ProcTypeOK, srcVars, procVars
<1>8. HistTypeOK'
  BY <1>5, <1>6, FaultType DEF HistTypeOK
<1> QED
  BY <1>3, <1>7, <1>8, TypeJob DEF TypeOK

(* A step of Close, of a crash or of the start keeps the types.            *)
LEMMA TypeProcess ==
  ASSUME TypeOK, Process
  PROVE  TypeOK'
<1>0. NoJob \in Job
  BY DEF NoJob, NoErrs, NoTries, Job
<1>1. CASE Close
  BY <1>1, BoundsAssumption
     DEF Close, BoundsAssumption, TypeOK, SrcTypeOK, DiskTypeOK, ProcTypeOK,
         WorkTypeOK, HistTypeOK, ProcStates, srcVars, diskVars, workVars,
         histVars
<1>2. CASE Exit \/ Crash
  <2>1. Die /\ (NoFault \/ \E k \in FaultKinds : Fault(k))
    BY <1>2 DEF Exit, Crash, Fault
  <2>2. SrcTypeOK' /\ ProcTypeOK' /\ DiskTypeOK'
    BY <2>1 DEF Die, TypeOK, SrcTypeOK, SrcStates, ProcTypeOK, ProcStates,
                DiskTypeOK, diskVars
  <2>3. WorkTypeOK'
    BY <1>0, <2>1 DEF Die, WorkTypeOK, WorkerStates
  <2>4. HistTypeOK'
    BY <2>1, FaultType DEF Die, TypeOK, HistTypeOK, histVars
  <2> QED
    BY <2>2, <2>3, <2>4 DEF TypeOK
<1>3. CASE Restart \/ Started
  BY <1>3 DEF Restart, Started, TypeOK, SrcTypeOK, DiskTypeOK, ProcTypeOK,
              WorkTypeOK, HistTypeOK, ProcStates, srcVars, diskVars, workVars,
              histVars, faultVars
<1>4. CASE \E m \in Msgs : ReadEntry(m)
  <2> PICK m \in Msgs : ReadEntry(m)
    BY <1>4
  <2>1. [id |-> m, mem |-> FALSE] \in Slot
    BY DEF Slot
  <2>2. ProcTypeOK' /\ DiskTypeOK'
    BY <2>1 DEF ReadEntry, TypeOK, ProcTypeOK, DiskTypeOK
  <2>3. SrcTypeOK' /\ WorkTypeOK'
    BY DEF ReadEntry, TypeOK, SrcTypeOK, WorkTypeOK, srcVars, workVars
  <2>4. NoFault \/ \E k \in FaultKinds : Fault(k)
    BY DEF ReadEntry, Fault
  <2>5. HistTypeOK'
    BY <2>4, FaultType DEF ReadEntry, TypeOK, HistTypeOK, histVars
  <2> QED
    BY <2>2, <2>3, <2>5 DEF TypeOK
<1> QED
  BY <1>1, <1>2, <1>3, <1>4 DEF Process

(* Type correctness of the queue: every variable stays in its domain, and  *)
(* a goroutine that runs has a message.                                    *)
THEOREM TypeCorrect == Spec => []TypeOK
<1>1. TypeOK /\ UNCHANGED vars => TypeOK'
  BY DEF TypeOK, SrcTypeOK, DiskTypeOK, ProcTypeOK, WorkTypeOK, HistTypeOK,
         vars, srcVars, diskVars, procVars, workVars, histVars, faultVars
<1>2. TypeOK /\ [Next]_vars => TypeOK'
  BY <1>1, TypeSource, TypeWorker, TypeProcess DEF Next
<1> QED
  BY <1>2, TypeInit, PTL DEF Spec

-----------------------------------------------------------------------------
(***************************************************************************)
(* NoLoss is not inductive: it says nothing of what the goroutines hold in *)
(* memory and are about to write over the meta-data, nor of a message that *)
(* is only about to be accepted.                                           *)
(***************************************************************************)

\* The queue has not seen the message yet, only its source has.
Private == {"new", "rcpt", "header", "body", "meta", "stored", "adding"}

(* A message nobody has handed to the wheel has no slot, no goroutine and  *)
(* no entry to be read at start; it has no meta-data before Body wrote it. *)
OwnInv ==
    /\ \A m \in Msgs : src[m] \in Private =>
          /\ m \notin boot
          /\ \A s \in slots : s.id # m
          /\ \A w \in Workers : pc[w] # "idle" => job[w].id # m
    /\ \A m \in Msgs : src[m] \in {"new", "rcpt", "header", "body"} =>
          m \notin metas
    /\ proc \in {"down", "booting"} => \A m \in Msgs : src[m] \in Ends

(* The meta-data file names every recipient that is not settled.           *)
MetaInv ==
    \A m \in metas : \A r \in Elems(to[m]) :
        Settled(m, r) \/ r \in Elems(metaOf[m].to)

\* Every recipient of m is settled or one of S.
Within(m, S) == \A r \in Elems(to[m]) : Settled(m, r) \/ r \in S

(* The files are complete from Body on, until every recipient is settled.  *)
Kept(m) ==
    /\ src[m] = "header" => m \in headers
    /\ src[m] = "body" => m \in headers \cap bodies
    /\ src[m] \in {"meta", "stored"} => m \in headers \cap bodies \cap metas
    /\ Accepted(m) /\ m \notin broken =>
          m \in headers \cap bodies \cap metas \/ Within(m, {})

FileInv == \A m \in Msgs : Kept(m)

(* What a goroutine at p with the variables j holds: in each state the      *)
(* recipients it still has in its lists are all that are left, and one     *)
(* without an error is one the target has been given.                      *)
Holding(p, j) ==
    /\ p \in {"attempt", "rcpt", "body", "commit"} =>
          Within(j.id, Elems(j.to))
    /\ p = "rcpt" => \A r \in Elems(j.to) :
          r \in Elems(j.rest) \/ r \in j.acc \/ j.errs[r] # "none"
    /\ p = "body" => \A r \in Elems(j.to) :
          r \in j.acc \/ j.errs[r] # "none"
    /\ p = "commit" =>
          /\ \A r \in Elems(j.to) : r \in j.sent \/ j.errs[r] # "none"
          /\ j.sent \subseteq j.acc
    /\ p = "settle" =>
          /\ Within(j.id, Elems(j.rest) \cup Elems(j.retry) \cup Elems(j.failed))
          /\ \A r \in Elems(j.rest) : Settled(j.id, r) \/ j.errs[r] # "none"
    /\ p = "dsn" => Within(j.id, Elems(j.retry) \cup Elems(j.failed))
    /\ p = "update" => Within(j.id, Elems(j.retry))
    /\ p \in {"rmHeader", "rmBody", "rmMeta"} => Within(j.id, {})

Holds(w) == Holding(pc[w], job[w])

WorkInv == \A w \in Workers : Holds(w)

IInv == TypeOK /\ OwnInv /\ MetaInv /\ FileInv /\ WorkInv

(* An outcome is never taken back.                                         *)
LEMMA SettledStays ==
  ASSUME TypeOK, [Next]_vars, NEW m \in Msgs, NEW r \in Rcpts, Settled(m, r)
  PROVE  Settled(m, r)'
<1>1. delivered[m][r] \in Nat /\ gaveUp[m] \subseteq Rcpts
  BY DEF TypeOK, HistTypeOK
<1> SUFFICES /\ delivered'[m][r] \in Nat
             /\ delivered'[m][r] >= delivered[m][r]
             /\ gaveUp[m] \subseteq gaveUp'[m]
  BY <1>1 DEF Settled
<1>2. CASE UNCHANGED histVars
  BY <1>1, <1>2 DEF histVars
<1>3. CASE \E w \in Workers : TargetCommit(w)
  <2> PICK w \in Workers : TargetCommit(w)
    BY <1>3
  <2>1. job[w].id \in Msgs
    BY DEF TargetCommit, TypeOK, WorkTypeOK
  <2>2. \/ UNCHANGED delivered
        \/ \E S : delivered' = Count(delivered, job[w].id, S)
    BY DEF TargetCommit
  <2>3. UNCHANGED gaveUp
    BY DEF TargetCommit
  <2>4. delivered \in [Msgs -> [Rcpts -> Nat]]
    BY DEF TypeOK, HistTypeOK
  <2> QED
    BY <1>1, <2>1, <2>2, <2>3, <2>4, CountType
<1>4. CASE \E w \in Workers : EmitDSN(w)
  BY <1>1, <1>4 DEF EmitDSN, TypeOK, HistTypeOK
<1>5. CASE \E w \in Workers : Attempt(w)
  BY <1>1, <1>5 DEF Attempt
<1>6. CASE \E n \in Msgs : Source(n)
  BY <1>2, <1>6
     DEF Source, Start, AddRcpt, StoreHeader, StoreBody, StoreMeta, StoreSync,
         Abort, AbortRemove, Commit, CommitPush, CommitNotify
<1>7. CASE Process
  BY <1>2, <1>7 DEF Process, Close, Exit, Crash, Die, Restart, Started,
                    ReadEntry
<1>8. CASE \E w \in Workers : Tick(w) \/ Worker(w)
  BY <1>2, <1>3, <1>4, <1>5, <1>8
     DEF Tick, Dispatch, Worker, Acquire, Open, RcptTo, Body, Settle,
         UpdateMeta, Requeue, RemoveFromDisk, Release, TargetPanics, Recover,
         DiscardBroken
<1>9. CASE UNCHANGED vars
  BY <1>2, <1>9 DEF vars
<1> QED
  BY <1>6, <1>7, <1>8, <1>9 DEF Next

(* The recipients of a message are fixed once its source calls Body.       *)
LEMMA ListFixed ==
  ASSUME TypeOK, [Next]_vars, NEW m \in Msgs
  PROVE  to'[m] = to[m] \/ src[m] = "rcpt"
<1>1. CASE \E n \in Msgs : Source(n)
  BY <1>1 DEF TypeOK, SrcTypeOK, Source, Start, AddRcpt, StoreHeader,
         StoreBody, StoreMeta, StoreSync, Abort, AbortRemove, Commit,
         CommitPush, CommitNotify
<1>2. CASE Process
  BY <1>2 DEF Process, Close, Exit, Crash, Die, Restart, Started, ReadEntry,
              srcVars
<1>3. CASE \E w \in Workers : Tick(w) \/ Worker(w)
  BY <1>3
     DEF Tick, Dispatch, Worker, Acquire, Open, Attempt, RcptTo, Body,
         TargetCommit, Settle, EmitDSN, UpdateMeta, Requeue, RemoveFromDisk,
         Release, TargetPanics, Recover, DiscardBroken, srcVars
<1>4. CASE UNCHANGED vars
  BY <1>4 DEF vars, srcVars
<1> QED
  BY <1>1, <1>2, <1>3, <1>4 DEF Next

(* What a goroutine's step touches: its own state, its message's slot and  *)
(* files; a running goroutine keeps its message.                           *)
LEMMA WorkerFrame ==
  ASSUME TypeOK, NEW w \in Workers, Tick(w) \/ Worker(w)
  PROVE  /\ UNCHANGED <<src, to, proc, boot>>
         /\ \A v \in Workers : v # w => pc'[v] = pc[v] /\ job'[v] = job[v]
         /\ pc[w] # "idle" /\ pc'[w] # "idle" => job'[w].id = job[w].id
         /\ \A s \in slots' : s \in slots \/ (pc[w] # "idle" /\ s.id = job[w].id)
         /\ pc[w] = "idle" => \E s \in slots : job'[w].id = s.id
         /\ \A m \in metas' : m \in metas \/ (pc[w] # "idle" /\ m = job[w].id)
<1>1. UNCHANGED <<src, to, proc, boot>>
  BY DEF Tick, Dispatch, Worker, Acquire, Open, Attempt, RcptTo, Body,
         TargetCommit, Settle, EmitDSN, UpdateMeta, Requeue, RemoveFromDisk,
         Release, TargetPanics, Recover, DiscardBroken, srcVars, procVars
<1>2. /\ \A v \in Workers : v # w => pc'[v] = pc[v] /\ job'[v] = job[v]
      /\ pc[w] # "idle" /\ pc'[w] # "idle" => job'[w].id = job[w].id
      /\ pc[w] = "idle" => \E s \in slots : job'[w].id = s.id
  BY JobStep DEF TypeOK, WorkTypeOK
<1>3. \A s \in slots' : s \in slots \/ (pc[w] # "idle" /\ s.id = job[w].id)
  <2>1. CASE Requeue(w)
    BY <2>1 DEF Requeue
  <2>2. CASE slots' \subseteq slots
    BY <2>2
  <2>3. CASE ~Requeue(w)
    BY <2>2, <2>3
       DEF Tick, Dispatch, Worker, Acquire, Open, Attempt, RcptTo, Body,
           TargetCommit, Settle, EmitDSN, UpdateMeta, RemoveFromDisk, Release,
           TargetPanics, Recover, DiscardBroken
  <2> QED
    BY <2>1, <2>3
<1>4. \A m \in metas' : m \in metas \/ (pc[w] # "idle" /\ m = job[w].id)
  <2>1. CASE Open(w) \/ UpdateMeta(w) \/ RemoveFromDisk(w) \/ DiscardBroken(w)
    BY <2>1 DEF Open, UpdateMeta, RemoveFromDisk, RemoveMeta, DiscardBroken
  <2>2. CASE UNCHANGED metas
    BY <2>2
  <2> QED
    BY <2>1, <2>2
       DEF Tick, Dispatch, Worker, Acquire, Attempt, RcptTo, Body,
           TargetCommit, Settle, EmitDSN, Requeue, Release, TargetPanics,
           Recover, diskVars
<1> QED
  BY <1>1, <1>2, <1>3, <1>4

(* A step keeps OwnInv.                                                    *)
LEMMA OwnStep == TypeOK /\ OwnInv /\ [Next]_vars => OwnInv'
<1> SUFFICES ASSUME TypeOK, OwnInv, [Next]_vars PROVE OwnInv'
  OBVIOUS
<1>1. CASE \E m \in Msgs : Source(m)
  <2> PICK m \in Msgs : Source(m)
    BY <1>1
  <2>1. UNCHANGED <<proc, boot, pc, job>>
    BY DEF Source, Start, AddRcpt, StoreHeader, StoreBody, StoreMeta,
           StoreSync, Abort, AbortRemove, Commit, CommitPush, CommitNotify,
           procVars, workVars
  <2>2. \A n \in Msgs : n # m => src'[n] = src[n]
    BY DEF Source, Start, AddRcpt, StoreHeader, StoreBody, StoreMeta,
           StoreSync, Abort, AbortRemove, Commit, CommitPush, CommitNotify,
           Goto, TypeOK, SrcTypeOK
  <2>3. src'[m] \in Private => src[m] \in Private
    BY DEF Source, Start, AddRcpt, StoreHeader, StoreBody, StoreMeta,
           StoreSync, Abort, AbortRemove, Commit, CommitPush, CommitNotify,
           Goto, TypeOK, SrcTypeOK, Private
  <2>4. slots' = slots \/
        (slots' = slots \cup {[id |-> m, mem |-> TRUE]} /\ src'[m] \notin Private)
    BY DEF Source, Start, AddRcpt, StoreHeader, StoreBody, StoreMeta,
           StoreSync, Abort, AbortRemove, Commit, CommitPush, CommitNotify,
           Goto, TypeOK, SrcTypeOK, Private
  <2>5. proc \notin {"down", "booting"}
    BY DEF Source, Start, AddRcpt, StoreHeader, StoreBody, StoreMeta,
           StoreSync, Abort, AbortRemove, Commit, CommitPush, CommitNotify,
           Running, TickRunning, NotifyClosed, OwnInv, Ends
  <2>6. \A n \in Msgs : n \in metas' /\ n # m => n \in metas
    BY DEF Source, Start, AddRcpt, StoreHeader, StoreBody, StoreMeta,
           StoreSync, Abort, AbortRemove, RemoveMeta, Commit, CommitPush,
           CommitNotify, diskVars
  <2>7. src'[m] \in {"new", "rcpt", "header", "body"} => m \notin metas'
    <3> SUFFICES ASSUME src'[m] \in {"new", "rcpt", "header", "body"}
                 PROVE  m \notin metas'
      OBVIOUS
    <3>1. src[m] \in {"new", "rcpt", "header", "body"} /\ UNCHANGED metas
      BY DEF Source, Start, AddRcpt, StoreHeader, StoreBody, StoreMeta,
           StoreSync, Abort, AbortRemove, Commit, CommitPush, CommitNotify,
           diskVars, Goto, TypeOK, SrcTypeOK
    <3> QED
      BY <3>1 DEF OwnInv
  <2>8. \A n \in Msgs : src'[n] \in Private =>
            n \notin boot' /\ \A w \in Workers : pc'[w] # "idle" => job'[w].id # n
    BY <2>1, <2>2, <2>3 DEF OwnInv
  <2>9. \A n \in Msgs : src'[n] \in Private => \A s \in slots' : s.id # n
    BY <2>2, <2>3, <2>4 DEF OwnInv
  <2> QED
    BY <2>1, <2>2, <2>5, <2>6, <2>7, <2>8, <2>9 DEF OwnInv
<1>2. CASE \E w \in Workers : Tick(w) \/ Worker(w)
  <2> PICK w \in Workers : Tick(w) \/ Worker(w)
    BY <1>2
  <2>1. /\ UNCHANGED <<src, to, proc, boot>>
        /\ \A v \in Workers : v # w => pc'[v] = pc[v] /\ job'[v] = job[v]
        /\ pc[w] # "idle" /\ pc'[w] # "idle" => job'[w].id = job[w].id
        /\ \A s \in slots' : s \in slots \/ (pc[w] # "idle" /\ s.id = job[w].id)
        /\ pc[w] = "idle" => \E s \in slots : job'[w].id = s.id
        /\ \A m \in metas' : m \in metas \/ (pc[w] # "idle" /\ m = job[w].id)
    BY WorkerFrame
  <2>2. ASSUME NEW m \in Msgs, src'[m] \in Private
        PROVE  /\ m \notin boot'
               /\ \A s \in slots' : s.id # m
               /\ \A v \in Workers : pc'[v] # "idle" => job'[v].id # m
    BY <2>1, <2>2 DEF OwnInv
  <2>3. ASSUME NEW m \in Msgs, src'[m] \in {"new", "rcpt", "header", "body"}
        PROVE  m \notin metas'
    BY <2>1, <2>3 DEF OwnInv, Private
  <2>4. proc' \in {"down", "booting"} => \A m \in Msgs : src'[m] \in Ends
    BY <2>1 DEF OwnInv
  <2> QED
    BY <2>2, <2>3, <2>4 DEF OwnInv
<1>3. CASE Exit \/ Crash
  <2>1. Die
    BY <1>3 DEF Exit, Crash
  <2>2. \A m \in Msgs : src'[m] \in Ends
                        /\ (src'[m] \in Private => src[m] = "new")
    BY <2>1 DEF Die, Ends, Private
  <2>3. metas' = metas /\ slots' = {} /\ boot' = {}
        /\ \A w \in Workers : pc'[w] = "idle"
    BY <2>1 DEF Die, diskVars
  <2> QED
    BY <2>2, <2>3 DEF OwnInv, Private
<1>4. CASE Restart
  BY <1>4 DEF Restart, OwnInv, Private, Ends, srcVars, diskVars, workVars
<1>5. CASE \E m \in Msgs : ReadEntry(m)
  BY <1>5 DEF ReadEntry, OwnInv, Private, srcVars, workVars
<1>6. CASE Close \/ Started
  BY <1>6 DEF Close, Started, OwnInv, srcVars, diskVars, workVars
<1>7. CASE UNCHANGED vars
  BY <1>7 DEF vars, srcVars, diskVars, procVars, workVars, OwnInv
<1> QED
  BY <1>1, <1>2, <1>3, <1>4, <1>5, <1>6, <1>7 DEF Next, Process

(* The recipients left stay within a set that does not lose an unsettled   *)
(* one, for a message whose list is fixed.                                 *)
LEMMA WithinStays ==
  ASSUME TypeOK, TypeOK', [Next]_vars, NEW m \in Msgs, src[m] # "rcpt", NEW S,
         Within(m, S)
  PROVE  Within(m, S)'
<1>1. to'[m] = to[m] /\ to[m] \in Seq(Rcpts)
  BY ListFixed DEF TypeOK, SrcTypeOK
<1>2. Elems(to[m]) \subseteq Rcpts
  BY <1>1 DEF Elems
<1> QED
  BY <1>1, <1>2, SettledStays DEF Within

(* A message with a file of meta-data, a slot or a goroutine is past       *)
(* AddRcpt.                                                                *)
LEMMA PastRcpt ==
  ASSUME TypeOK, OwnInv
  PROVE  /\ \A m \in metas : src[m] # "rcpt"
         /\ \A w \in Workers : pc[w] # "idle" => src[job[w].id] # "rcpt"
  BY DEF TypeOK, DiskTypeOK, WorkTypeOK, OwnInv, Private

(* A step keeps MetaInv: a new file names all that are left.               *)
LEMMA MetaStep ==
  ASSUME IInv, TypeOK', [Next]_vars
  PROVE  MetaInv'
<1> USE DEF IInv
<1>1. MetaInv = \A m \in metas : Within(m, Elems(metaOf[m].to))
  BY DEF MetaInv, Within
<1>2. MetaInv' = \A m \in metas' : Within(m, Elems(metaOf[m].to))'
  BY DEF MetaInv, Within
<1>3. ASSUME NEW m \in metas, m \in metas', metaOf'[m] = metaOf[m]
      PROVE  Within(m, Elems(metaOf[m].to))'
  <2>1. m \in Msgs /\ Within(m, Elems(metaOf[m].to)) /\ src[m] # "rcpt"
    BY <1>1, PastRcpt DEF TypeOK, DiskTypeOK
  <2> DEFINE S == Elems(metaOf[m].to)
  <2>2. S' = S
    BY <1>3
  <2> QED
    BY <2>1, <2>2, WithinStays DEF Within
<1>4. CASE \E m \in Msgs : StoreMeta(m)
  <2> PICK m \in Msgs : StoreMeta(m)
    BY <1>4
  <2>1. \A n \in metas' : n # m => n \in metas /\ metaOf'[n] = metaOf[n]
    BY DEF StoreMeta, TypeOK, DiskTypeOK
  <2>2. m \in metas' => metaOf'[m].to = to[m] /\ to' = to
    <3>1. m \notin metas
      BY DEF StoreMeta, OwnInv
    <3> QED
      BY <3>1 DEF StoreMeta, TypeOK, DiskTypeOK
  <2>3. m \in metas' => Within(m, Elems(metaOf[m].to))'
    BY <2>2 DEF Within
  <2> QED
    BY <1>2, <1>3, <2>1, <2>3
<1>5. CASE \E w \in Workers : UpdateMeta(w)
  <2> PICK w \in Workers : UpdateMeta(w)
    BY <1>5
  <2> PICK m \in Msgs : m = job[w].id
    BY DEF UpdateMeta, TypeOK, WorkTypeOK
  <2> PICK S : S = Elems(job[w].retry)
    OBVIOUS
  <2>1. Within(m, S) /\ src[m] # "rcpt"
    BY PastRcpt DEF UpdateMeta, WorkInv, Holds, Holding
  <2>2. \A n \in metas' : n # m => n \in metas /\ metaOf'[n] = metaOf[n]
    BY DEF UpdateMeta, TypeOK, DiskTypeOK
  <2>3. ASSUME m \in metas' PROVE Within(m, Elems(metaOf[m].to))'
    <3>1. CASE Elems(metaOf'[m].to) = S
      BY <2>1, <3>1, WithinStays DEF Within
    <3>2. CASE UNCHANGED <<metas, metaOf>>
      BY <1>3, <2>3, <3>2
    <3> QED
      BY <3>1, <3>2 DEF UpdateMeta, TypeOK, DiskTypeOK
  <2> QED
    BY <1>2, <1>3, <2>2, <2>3
<1>6. CASE metas' \subseteq metas /\ metaOf' = metaOf
  BY <1>2, <1>3, <1>6
<1>7. CASE \E m \in Msgs : Source(m) /\ ~StoreMeta(m)
  BY <1>6, <1>7
     DEF Source, Start, AddRcpt, StoreHeader, StoreBody, StoreSync, Abort,
         AbortRemove, RemoveMeta, Commit, CommitPush, CommitNotify, diskVars
<1>8. CASE \E w \in Workers : (Tick(w) \/ Worker(w)) /\ ~UpdateMeta(w)
  <2> PICK w \in Workers : (Tick(w) \/ Worker(w)) /\ ~UpdateMeta(w)
    BY <1>8
  <2>1. CASE Open(w) \/ RemoveFromDisk(w) \/ DiscardBroken(w)
    BY <1>6, <2>1 DEF Open, RemoveFromDisk, RemoveMeta, DiscardBroken
  <2>2. CASE ~(Open(w) \/ RemoveFromDisk(w) \/ DiscardBroken(w))
    BY <1>6, <2>2
       DEF Tick, Dispatch, Worker, Acquire, Attempt, RcptTo, Body,
           TargetCommit, Settle, EmitDSN, Requeue, Release, TargetPanics,
           Recover, diskVars
  <2> QED
    BY <2>1, <2>2
<1>9. CASE Process
  BY <1>6, <1>9 DEF Process, Close, Exit, Crash, Die, Restart, Started,
                    ReadEntry, diskVars
<1>10. CASE UNCHANGED vars
  BY <1>6, <1>10 DEF vars, diskVars
<1> QED
  BY <1>4, <1>5, <1>7, <1>8, <1>9, <1>10 DEF Next

(* A message whose source, files and broken mark do not change is kept.    *)
LEMMA KeptStays ==
  ASSUME IInv, TypeOK', [Next]_vars, NEW m \in Msgs,
         src'[m] = src[m] \/ (src'[m] = "lost" /\ src[m] \notin Ends),
         m \in headers => m \in headers', m \in bodies => m \in bodies',
         m \in metas => m \in metas', m \in broken => m \in broken'
  PROVE  Kept(m)'
<1>1. Kept(m)
  BY DEF IInv, FileInv
<1>2. Within(m, {}) /\ src[m] # "rcpt" => Within(m, {})'
  BY WithinStays DEF IInv
<1> QED
  BY <1>1, <1>2 DEF Kept, Accepted

(* A message whose recipients are all settled is kept, whatever happens to *)
(* its files, once its source is done with them.                           *)
LEMMA KeptSettled ==
  ASSUME IInv, TypeOK', [Next]_vars, NEW m \in Msgs, src'[m] = src[m],
         src[m] \notin Private, Within(m, {}) \/ ~Accepted(m) \/ m \in broken',
         m \in broken => m \in broken'
  PROVE  Kept(m)'
<1>1. Within(m, {}) => Within(m, {})'
  BY WithinStays DEF IInv, Private
<1> QED
  BY <1>1 DEF Kept, Accepted, Private

(* A step keeps FileInv.                                                   *)
LEMMA FileStep ==
  ASSUME IInv, TypeOK', [Next]_vars
  PROVE  FileInv'
<1> USE DEF IInv
<1>1. CASE \E m \in Msgs : Source(m)
  <2> PICK m \in Msgs : Source(m)
    BY <1>1
  <2>1. ASSUME NEW n \in Msgs, n # m PROVE Kept(n)'
    <3>1. src'[n] = src[n] /\ UNCHANGED broken
      BY <2>1 DEF Source, Start, AddRcpt, StoreHeader, StoreBody, StoreMeta,
           StoreSync, Abort, AbortRemove, Commit, CommitPush, CommitNotify,
           Goto, TypeOK, SrcTypeOK, diskVars
    <3>2. n \in headers => n \in headers'
      BY <2>1 DEF Source, Start, AddRcpt, StoreHeader, StoreBody, StoreMeta,
           StoreSync, Abort, AbortRemove, RemoveHeader, Commit, CommitPush,
           CommitNotify, diskVars
    <3>3. n \in bodies => n \in bodies'
      BY <2>1 DEF Source, Start, AddRcpt, StoreHeader, StoreBody, StoreMeta,
           StoreSync, Abort, AbortRemove, RemoveBody, Commit, CommitPush,
           CommitNotify, diskVars
    <3>4. n \in metas => n \in metas'
      BY <2>1 DEF Source, Start, AddRcpt, StoreHeader, StoreBody, StoreMeta,
           StoreSync, Abort, AbortRemove, RemoveMeta, Commit, CommitPush,
           CommitNotify, diskVars
    <3> QED
      BY <2>1, <3>1, <3>2, <3>3, <3>4, KeptStays
  <2>2. Kept(m)'
    <3>0. Kept(m)
      BY DEF FileInv
    <3>1. CASE Start(m) \/ (\E r \in Rcpts : AddRcpt(m, r)) \/ StoreHeader(m)
               \/ StoreBody(m) \/ StoreMeta(m) \/ StoreSync(m) \/ Abort(m)
               \/ AbortRemove(m)
      BY <3>0, <3>1
         DEF Start, AddRcpt, StoreHeader, StoreBody, StoreMeta, StoreSync,
             Abort, AbortRemove, Goto, TypeOK, SrcTypeOK, Kept, Accepted,
             diskVars
    <3>2. CASE Commit(m)
      BY <3>0, <3>2 DEF Commit, Goto, TypeOK, SrcTypeOK, Kept, Accepted,
                        diskVars
    <3>3. CASE CommitPush(m) \/ CommitNotify(m)
      <4>1. /\ Accepted(m) /\ src[m] # "rcpt" /\ UNCHANGED diskVars
            /\ src'[m] \in {"pushed", "committed", "panicked"}
        BY <3>3 DEF CommitPush, CommitNotify, Goto, TypeOK, SrcTypeOK,
                    Accepted
      <4>2. Within(m, {}) => Within(m, {})'
        BY <4>1, WithinStays
      <4> QED
        BY <3>0, <4>1, <4>2 DEF Kept, diskVars
    <3> QED
      BY <3>1, <3>2, <3>3 DEF Source
  <2> QED
    BY <2>1, <2>2 DEF FileInv
<1>2. CASE \E w \in Workers : Tick(w) \/ Worker(w)
  <2> PICK w \in Workers : Tick(w) \/ Worker(w)
    BY <1>2
  <2>0. UNCHANGED src
    BY WorkerFrame
  <2>1. CASE UNCHANGED diskVars
    BY <2>0, <2>1, KeptStays DEF FileInv, diskVars
  <2>2. CASE Open(w) \/ UpdateMeta(w) \/ RemoveFromDisk(w) \/ DiscardBroken(w)
    <3> PICK m \in Msgs : m = job[w].id
      BY <2>2 DEF Open, UpdateMeta, RemoveFromDisk, DiscardBroken, TypeOK,
                  WorkTypeOK
    <3>0. src[m] \notin Private /\ Kept(m)
      BY <2>2 DEF Open, UpdateMeta, RemoveFromDisk, DiscardBroken, OwnInv,
                  FileInv
    <3>1. ASSUME NEW n \in Msgs, n # m PROVE Kept(n)'
      <4>1. /\ n \in headers => n \in headers'
            /\ n \in bodies => n \in bodies'
            /\ n \in metas => n \in metas'
            /\ n \in broken => n \in broken'
        BY <2>2, <3>1 DEF Open, UpdateMeta, RemoveFromDisk, RemoveHeader,
                          RemoveBody, RemoveMeta, DiscardBroken
      <4> QED
        BY <2>0, <4>1, KeptStays
    <3>2. Kept(m)'
      <4>1. CASE Open(w)
        <5>1. CASE UNCHANGED <<bodies, metas>>
          BY <2>0, <4>1, <5>1, KeptStays DEF Open
        <5>2. CASE m \notin metas \cap bodies \cap headers
          BY <2>0, <3>0, <4>1, <5>2, KeptSettled DEF Open, Kept
        <5> QED
          BY <4>1, <5>1, <5>2 DEF Open
      <4>2. CASE UpdateMeta(w)
        BY <2>0, <4>2, KeptStays DEF UpdateMeta
      <4>3. CASE RemoveFromDisk(w)
        <5>1. Within(m, {}) /\ UNCHANGED broken
          BY <4>3 DEF RemoveFromDisk, WorkInv, Holds, Holding
        <5> QED
          BY <2>0, <3>0, <5>1, KeptSettled
      <4>4. CASE DiscardBroken(w)
        <5>1. CASE m \in metas
          BY <2>0, <3>0, <4>4, <5>1, KeptSettled DEF DiscardBroken
        <5>2. CASE m \notin metas
          BY <2>0, <4>4, <5>2, KeptStays DEF DiscardBroken
        <5> QED
          BY <5>1, <5>2
      <4> QED
        BY <2>2, <4>1, <4>2, <4>3, <4>4
    <3> QED
      BY <3>1, <3>2 DEF FileInv
  <2> QED
    BY <2>1, <2>2
       DEF Tick, Dispatch, Worker, Acquire, Attempt, RcptTo, Body,
           TargetCommit, Settle, EmitDSN, Requeue, Release, TargetPanics,
           Recover
<1>3. CASE \E m \in Msgs : ReadEntry(m)
  <2> PICK m \in Msgs : ReadEntry(m)
    BY <1>3
  <2>0. UNCHANGED <<src, broken>>
    BY DEF ReadEntry, srcVars
  <2>1. ASSUME NEW n \in Msgs, n # m PROVE Kept(n)'
    BY <2>0, <2>1, KeptStays DEF ReadEntry
  <2>2. src[m] \notin Private /\ Kept(m)
    BY DEF ReadEntry, OwnInv, FileInv
  <2>3. UNCHANGED <<headers, bodies, metas>> => Kept(m)'
    BY <2>0, KeptStays
  <2>4. m \notin headers \cap bodies => Kept(m)'
    BY <2>0, <2>2, KeptSettled DEF Kept
  <2>5. Kept(m)'
    BY <2>3, <2>4 DEF ReadEntry
  <2> QED
    BY <2>1, <2>5 DEF FileInv
<1>4. CASE Exit \/ Crash
  <2>1. \A m \in Msgs :
            src'[m] = src[m] \/ (src'[m] = "lost" /\ src[m] \notin Ends)
    BY <1>4 DEF Exit, Crash, Die
  <2> QED
    BY <1>4, <2>1, KeptStays DEF Exit, Crash, Die, diskVars, FileInv
<1>5. CASE Close \/ Restart \/ Started
  BY <1>5, KeptStays DEF Close, Restart, Started, srcVars, diskVars, FileInv
<1>6. CASE UNCHANGED vars
  BY <1>6, KeptStays DEF vars, srcVars, diskVars, FileInv
<1> QED
  BY <1>1, <1>2, <1>3, <1>4, <1>5, <1>6 DEF Next, Process

(* What a goroutine holds stays true when another one, a source or the     *)
(* process takes a step.                                                   *)
LEMMA HoldingStays ==
  ASSUME IInv, TypeOK', [Next]_vars, NEW p, NEW j \in Job, j.id \in Msgs,
         src[j.id] # "rcpt", Holding(p, j)
  PROVE  Holding(p, j)'
<1>1. \A S : Within(j.id, S) => Within(j.id, S)'
  BY WithinStays DEF IInv
<1>2. \A r \in Rcpts : Settled(j.id, r) => Settled(j.id, r)'
  BY SettledStays DEF IInv
<1>3. Elems(j.rest) \subseteq Rcpts
  BY DEF Job, Elems
<1> QED
  BY <1>1, <1>2, <1>3 DEF Holding

(* A goroutine that takes no step holds what it held.                      *)
LEMMA HoldsStays ==
  ASSUME IInv, TypeOK', [Next]_vars, NEW v \in Workers,
         pc'[v] = pc[v], job'[v] = job[v]
  PROVE  Holds(v)'
<1> PICK p : p = pc[v]
  OBVIOUS
<1> PICK j \in Job : j = job[v]
  BY DEF IInv, TypeOK, WorkTypeOK
<1>1. Holding(p, j)
  BY DEF IInv, WorkInv, Holds
<1>2. CASE p = "idle"
  BY <1>2 DEF Holds, Holding
<1>3. CASE p # "idle"
  <2>1. j.id \in Msgs /\ src[j.id] # "rcpt"
    BY <1>3, PastRcpt DEF IInv, TypeOK, WorkTypeOK
  <2>2. Holding(p, j)'
    BY <1>1, <2>1, HoldingStays
  <2>3. p = pc'[v] /\ j = job'[v]
    OBVIOUS
  <2> QED
    BY <2>2, <2>3 DEF Holds
<1> QED
  BY <1>2, <1>3

(* The facts about a goroutine's message that its steps start from.        *)
LEMMA Before ==
  ASSUME IInv, TypeOK', [Next]_vars, NEW w \in Workers, pc[w] # "idle",
         NEW j, j = job[w]
  PROVE  /\ j \in Job /\ j.id \in Msgs
         /\ Holding(pc[w], j)
         /\ \A S : Within(j.id, S) => Within(j.id, S)'
         /\ \A r \in Rcpts : Settled(j.id, r) => Settled(j.id, r)'
<1>1. j \in Job /\ j.id \in Msgs /\ src[j.id] # "rcpt"
  BY PastRcpt DEF IInv, TypeOK, WorkTypeOK
<1>2. Holding(pc[w], j)
  BY DEF IInv, WorkInv, Holds
<1>3. \A S : Within(j.id, S) => Within(j.id, S)'
  BY <1>1, WithinStays DEF IInv
<1>4. \A r \in Rcpts : Settled(j.id, r) => Settled(j.id, r)'
  BY <1>1, SettledStays DEF IInv
<1> QED
  BY <1>1, <1>2, <1>3, <1>4

(* The state a step leads to, named.                                       *)
LEMMA After ==
  ASSUME NEW w \in Workers, NEW s, NEW k, pc'[w] = s, job'[w] = k,
         Holding(s, k)'
  PROVE  Holds(w)'
  BY DEF Holds

(* The message is opened: all that are left are in the slot or in the file.*)
LEMMA HoldsOpen ==
  ASSUME IInv, TypeOK', [Next]_vars, NEW w \in Workers, Open(w)
  PROVE  Holds(w)'
<1> PICK j : j = job[w]
  OBVIOUS
<1>0. /\ j \in Job /\ j.id \in Msgs
      /\ \A S : Within(j.id, S) => Within(j.id, S)'
  BY Before DEF Open
<1>1. CASE \E meta \in {[to |-> to[j.id], tries |-> NoTries], metaOf[j.id]} :
              Begin(w, meta) /\ Within(j.id, Elems(meta.to))
  <2> PICK meta : Begin(w, meta) /\ Within(j.id, Elems(meta.to))
    BY <1>1
  <2> PICK k : k = job'[w]
    OBVIOUS
  <2>1. k.id = j.id /\ k.to = meta.to /\ pc'[w] = "attempt"
    BY <1>0 DEF Begin, Move, IInv, TypeOK, WorkTypeOK, Job
  <2>2. Within(j.id, Elems(meta.to))'
    BY <1>0
  <2>3. Holding("attempt", k)'
    BY <2>1, <2>2 DEF Holding
  <2> QED
    BY <2>1, <2>3, After
<1>2. Within(j.id, Elems([to |-> to[j.id], tries |-> NoTries].to))
  BY DEF Within
<1>3. j.id \in metas => Within(j.id, Elems(metaOf[j.id].to))
  BY DEF IInv, MetaInv, Within
<1>4. CASE Move(w, "release")
  BY <1>4 DEF Move, IInv, TypeOK, WorkTypeOK, Holds, Holding
<1> QED
  BY <1>1, <1>2, <1>3, <1>4 DEF Open

(* deliver is done and nobody is without an error but those settled: the   *)
(* loop of tryDelivery starts with all that are left.                      *)
LEMMA HoldsExamine ==
  ASSUME IInv, TypeOK', [Next]_vars, NEW w \in Workers, pc[w] # "idle",
         NEW j, j = job[w], Within(j.id, Elems(j.to)),
         NEW errs, errs \in [Rcpts -> Errors \cup {"none"}],
         \A r \in Elems(j.to) : Settled(j.id, r)' \/ errs[r] # "none",
         pc'[w] = "settle",
         job' = [job EXCEPT ![w] = Examine(w, errs)]
  PROVE  Holds(w)'
<1>0. j \in Job /\ Within(j.id, Elems(j.to))'
  BY Before
<1> PICK k : k = job'[w]
  OBVIOUS
<1>1. k.id = j.id /\ k.rest = j.to /\ k.errs = errs
  BY <1>0 DEF Examine, IInv, TypeOK, WorkTypeOK, Job
<1>2. Within(j.id, Elems(k.rest) \cup Elems(k.retry) \cup Elems(k.failed))'
  BY <1>0, <1>1 DEF Within
<1>3. Holding("settle", k)'
  BY <1>1, <1>2 DEF Holding
<1> QED
  BY <1>3, After

(* target.Start fails for all recipients or the loop over them begins.     *)
LEMMA HoldsAttempt ==
  ASSUME IInv, TypeOK', [Next]_vars, NEW w \in Workers, Attempt(w)
  PROVE  Holds(w)'
<1> PICK j : j = job[w]
  OBVIOUS
<1>0. /\ j \in Job /\ j.id \in Msgs /\ Within(j.id, Elems(j.to))
      /\ \A S : Within(j.id, S) => Within(j.id, S)'
  BY Before DEF Attempt, Holding
<1>1. CASE Move(w, "rcpt") /\ job' = [job EXCEPT ![w].rest = job[w].to]
  <2> PICK k : k = job'[w]
    OBVIOUS
  <2>1. k.id = j.id /\ k.to = j.to /\ k.rest = j.to /\ pc'[w] = "rcpt"
    BY <1>0, <1>1 DEF Move, IInv, TypeOK, WorkTypeOK, Job
  <2>2. Within(j.id, Elems(j.to))'
    BY <1>0
  <2>3. Holding("rcpt", k)'
    BY <2>1, <2>2 DEF Holding
  <2> QED
    BY <2>1, <2>3, After
<1>2. ASSUME NEW e \in Errors, Move(w, "settle"),
             job' = [job EXCEPT ![w] = Examine(w,
                       [r \in Rcpts |-> IF r \in Elems(j.to) THEN e ELSE "none"])]
      PROVE  Holds(w)'
  <2> PICK errs : errs = [r \in Rcpts |-> IF r \in Elems(j.to) THEN e
                                                               ELSE "none"]
    OBVIOUS
  <2>1. Elems(j.to) \subseteq Rcpts
    BY <1>0 DEF Job, Elems
  <2>2. \A r \in Elems(j.to) : errs[r] # "none"
    BY <2>1, NoneIsNoError
  <2>3. errs \in [Rcpts -> Errors \cup {"none"}]
    OBVIOUS
  <2>4. pc[w] # "idle" /\ pc'[w] = "settle"
    BY <1>2 DEF Attempt, Move, IInv, TypeOK, WorkTypeOK
  <2> QED
    BY <1>0, <1>2, <2>2, <2>3, <2>4, HoldsExamine
<1> QED
  BY <1>1, <1>2 DEF Attempt

(* AddRcpt for one recipient, and the end of that loop.                    *)
LEMMA HoldsRcpt ==
  ASSUME IInv, TypeOK', [Next]_vars, NEW w \in Workers, RcptTo(w)
  PROVE  Holds(w)'
<1> PICK j : j = job[w]
  OBVIOUS
<1>0. /\ j \in Job /\ j.id \in Msgs /\ Within(j.id, Elems(j.to))
      /\ Within(j.id, Elems(j.to))'
      /\ \A r \in Elems(j.to) :
            r \in Elems(j.rest) \/ r \in j.acc \/ j.errs[r] # "none"
      /\ pc[w] # "idle"
  BY Before DEF RcptTo, Holding
<1>1. CASE j.rest # <<>>
  <2> PICK h : h = Head(j.rest)
    OBVIOUS
  <2>1. h \in Rcpts /\ Elems(j.rest) = {h} \cup Elems(Tail(j.rest))
    BY <1>0, <1>1, ElemsTail DEF Job
  <2> PICK k : k = job'[w]
    OBVIOUS
  <2>2. pc'[w] = "rcpt"
    BY <1>1 DEF RcptTo
  <2>3. \/ k = RcptOK(j, h)
        \/ \E e \in Errors : k = RcptFails(j, h, e)
    BY <1>1 DEF RcptTo, IInv, TypeOK, WorkTypeOK
  <2>4. /\ k.id = j.id /\ k.to = j.to /\ k.rest = Tail(j.rest)
        /\ \A r \in Elems(j.to) :
              r \in Elems(k.rest) \/ r \in k.acc \/ k.errs[r] # "none"
    <3>0. Elems(j.to) \subseteq Rcpts
      BY <1>0 DEF Job, Elems
    <3>1. CASE k = RcptOK(j, h)
      BY <1>0, <2>1, <3>1 DEF RcptOK, Job
    <3>2. CASE \E e \in Errors : k = RcptFails(j, h, e)
      <4> PICK e \in Errors : k = RcptFails(j, h, e)
        BY <3>2
      <4>1. /\ k.id = j.id /\ k.to = j.to /\ k.rest = Tail(j.rest)
            /\ k.acc = j.acc /\ k.errs = [j.errs EXCEPT ![h] = e]
        BY <1>0 DEF RcptFails, Job
      <4>2. j.errs \in [Rcpts -> Errors \cup {"none"}]
        BY <1>0 DEF Job
      <4>3. k.errs[h] # "none" /\ \A r \in Rcpts : r # h => k.errs[r] = j.errs[r]
        BY <2>1, <4>1, <4>2, NoneIsNoError
      <4> QED
        BY <1>0, <2>1, <3>0, <4>1, <4>3
    <3> QED
      BY <2>3, <3>1, <3>2
  <2>5. Holding("rcpt", k)'
    BY <1>0, <2>4 DEF Holding
  <2> QED
    BY <2>2, <2>5, After
<1>2. CASE j.rest = <<>>
  <2>1. \A r \in Elems(j.to) : r \in j.acc \/ j.errs[r] # "none"
    BY <1>0, <1>2 DEF Elems
  <2>2. CASE j.acc = {}
    <3>1. /\ pc'[w] = "settle"
          /\ job' = [job EXCEPT ![w] = Examine(w, j.errs)]
      BY <1>2, <2>2 DEF RcptTo, Move, IInv, TypeOK, WorkTypeOK
    <3>2. j.errs \in [Rcpts -> Errors \cup {"none"}]
      BY <1>0 DEF Job
    <3> PICK errs : errs = j.errs
      OBVIOUS
    <3> QED
      BY <1>0, <2>1, <2>2, <3>1, <3>2, HoldsExamine
  <2>3. CASE j.acc # {}
    <3>1. pc'[w] = "body" /\ job'[w] = j
      BY <1>2, <2>3 DEF RcptTo, Move, IInv, TypeOK, WorkTypeOK
    <3>2. Holding("body", j)'
      BY <1>0, <2>1 DEF Holding
    <3> QED
      BY <3>1, <3>2, After
  <2> QED
    BY <2>2, <2>3
<1> QED
  BY <1>1, <1>2

(* The body has been passed on: an accepted recipient has an error or is   *)
(* one the target takes the message for.                                   *)
LEMMA HoldsBody ==
  ASSUME IInv, TypeOK', [Next]_vars, NEW w \in Workers, Body(w)
  PROVE  Holds(w)'
<1> PICK j : j = job[w]
  OBVIOUS
<1>0. /\ j \in Job /\ j.id \in Msgs /\ Within(j.id, Elems(j.to))
      /\ Within(j.id, Elems(j.to))'
      /\ \A r \in Elems(j.to) : r \in j.acc \/ j.errs[r] # "none"
      /\ pc[w] # "idle"
  BY Before DEF Body, Holding
<1> DEFINE errsOf(st) == [r \in Rcpts |-> IF r \in job[w].acc /\ st[r] # "none"
                                         THEN st[r] ELSE job[w].errs[r]]
           sentOf(st) == {r \in job[w].acc : st[r] = "none"}
<1> PICK st \in [job[w].acc -> Errors \cup {"none"}] :
      IF \A r \in job[w].acc : errsOf(st)[r] # "none"
      THEN /\ Move(w, "settle")
           /\ job' = [job EXCEPT ![w] = Examine(w, errsOf(st))]
      ELSE /\ Move(w, "commit")
           /\ job' = [job EXCEPT ![w] = [@ EXCEPT !.errs = errsOf(st),
                                                 !.sent = sentOf(st)]]
  BY Zenon DEF Body
<1> PICK errs : errs = errsOf(st)
  OBVIOUS
<1>1. Elems(j.to) \subseteq Rcpts /\ j.errs \in [Rcpts -> Errors \cup {"none"}]
      /\ j.acc \subseteq Rcpts
  BY <1>0 DEF Job, Elems
<1>2. errs \in [Rcpts -> Errors \cup {"none"}]
  BY <1>1
<1>3. \A r \in Elems(j.to) : r \in sentOf(st) \/ errs[r] # "none"
  BY <1>0, <1>1
<1>4. CASE /\ \A r \in j.acc : errs[r] # "none"
           /\ Move(w, "settle")
           /\ job' = [job EXCEPT ![w] = Examine(w, errs)]
  <2>1. \A r \in Elems(j.to) : errs[r] # "none"
    BY <1>3, <1>4
  <2>2. pc'[w] = "settle"
    BY <1>4 DEF Move, IInv, TypeOK, WorkTypeOK
  <2> QED
    BY <1>0, <1>2, <1>4, <2>1, <2>2, HoldsExamine
<1>5. CASE /\ Move(w, "commit")
           /\ job' = [job EXCEPT ![w] = [@ EXCEPT !.errs = errs,
                                                 !.sent = sentOf(st)]]
  <2> PICK k : k = job'[w]
    OBVIOUS
  <2>1. /\ pc'[w] = "commit" /\ k.id = j.id /\ k.to = j.to /\ k.acc = j.acc
        /\ k.errs = errs /\ k.sent = sentOf(st)
    BY <1>0, <1>5 DEF Move, IInv, TypeOK, WorkTypeOK, Job
  <2>2. Holding("commit", k)'
    BY <1>0, <1>3, <2>1 DEF Holding
  <2> QED
    BY <2>1, <2>2, After
<1> QED
  BY <1>4, <1>5

(* Commit: those the target took the message for are settled or, when it   *)
(* reports an error, have that error.                                      *)
LEMMA HoldsCommit ==
  ASSUME IInv, TypeOK', [Next]_vars, NEW w \in Workers, TargetCommit(w)
  PROVE  Holds(w)'
<1> PICK j : j = job[w]
  OBVIOUS
<1>0. /\ j \in Job /\ j.id \in Msgs /\ Within(j.id, Elems(j.to))
      /\ \A r \in Elems(j.to) : r \in j.sent \/ j.errs[r] # "none"
      /\ j.sent \subseteq j.acc
      /\ pc[w] # "idle"
  BY Before DEF TargetCommit, Holding
<1>1. Elems(j.to) \subseteq Rcpts /\ j.errs \in [Rcpts -> Errors \cup {"none"}]
  BY <1>0 DEF Job, Elems
<1>2. pc'[w] = "settle"
  BY DEF TargetCommit, Move, IInv, TypeOK, WorkTypeOK
<1>3. CASE /\ delivered' = Count(delivered, j.id, j.sent)
           /\ job' = [job EXCEPT ![w] = Examine(w, j.errs)]
  <2>1. delivered \in [Msgs -> [Rcpts -> Nat]]
    BY DEF IInv, TypeOK, HistTypeOK
  <2>2. \A r \in j.sent \cap Rcpts : delivered'[j.id][r] > 0
    BY <1>0, <1>3, <2>1, CountType
  <2>3. \A r \in Elems(j.to) : Settled(j.id, r)' \/ j.errs[r] # "none"
    BY <1>0, <1>1, <2>2 DEF Settled
  <2> PICK errs : errs = j.errs
    OBVIOUS
  <2> QED
    BY <1>0, <1>1, <1>2, <1>3, <2>3, HoldsExamine
<1>4. ASSUME NEW e \in Errors,
             job' = [job EXCEPT ![w] = Examine(w,
                 [r \in Rcpts |-> IF r \in j.acc THEN e ELSE j.errs[r]])]
      PROVE  Holds(w)'
  <2> PICK errs : errs = [r \in Rcpts |-> IF r \in j.acc THEN e ELSE j.errs[r]]
    OBVIOUS
  <2>1. errs \in [Rcpts -> Errors \cup {"none"}]
    BY <1>1
  <2>2. \A r \in Elems(j.to) : errs[r] # "none"
    BY <1>0, <1>1, NoneIsNoError
  <2>3. job' = [job EXCEPT ![w] = Examine(w, errs)]
    BY <1>4
  <2> QED
    BY <1>0, <1>2, <2>1, <2>2, <2>3, HoldsExamine
<1> QED
  BY <1>3, <1>4 DEF TargetCommit

(* Where tryDelivery goes when only the recipients to retry are left.      *)
LEMMA HoldsConclude ==
  ASSUME IInv, TypeOK', [Next]_vars, NEW w \in Workers, NEW j \in Job,
         j = job[w], job' = job, Move(w, Conclude(w)),
         Within(j.id, Elems(j.retry))'
  PROVE  Holds(w)'
<1>1. CASE j.retry = <<>>
  <2>1. pc'[w] = "rmHeader" /\ job'[w] = j
    BY <1>1 DEF Move, Conclude, IInv, TypeOK, WorkTypeOK
  <2>2. Elems(j.retry) = {}
    BY <1>1 DEF Elems
  <2>3. Holding("rmHeader", j)'
    BY <2>2 DEF Holding
  <2> QED
    BY <2>1, <2>3, After
<1>2. CASE j.retry # <<>>
  <2>1. pc'[w] = "update" /\ job'[w] = j
    BY <1>2 DEF Move, Conclude, IInv, TypeOK, WorkTypeOK
  <2>2. Holding("update", j)'
    BY DEF Holding
  <2> QED
    BY <2>1, <2>2, After
<1> QED
  BY <1>1, <1>2

(* One round of the loop over meta.To puts the recipient where it belongs. *)
LEMMA HoldsSettle ==
  ASSUME IInv, TypeOK', [Next]_vars, NEW w \in Workers, Settle(w)
  PROVE  Holds(w)'
<1> PICK j : j = job[w]
  OBVIOUS
<1> DEFINE all == Elems(j.rest) \cup Elems(j.retry) \cup Elems(j.failed)
<1>0. /\ j \in Job /\ j.id \in Msgs /\ Within(j.id, all)
      /\ \A r \in Elems(j.rest) : Settled(j.id, r) \/ j.errs[r] # "none"
      /\ \A S : Within(j.id, S) => Within(j.id, S)'
      /\ \A r \in Rcpts : Settled(j.id, r) => Settled(j.id, r)'
  BY Before DEF Settle, Holding
<1>1. CASE j.rest = <<>>
  <2>1. Elems(j.rest) = {} /\ job' = job
    BY <1>1 DEF Elems, Settle
  <2>2. CASE j.failed = <<>>
    <3>1. Elems(j.failed) = {}
      BY <2>2 DEF Elems
    <3>2. Within(j.id, Elems(j.retry))'
      BY <1>0, <2>1, <3>1 DEF Within
    <3>3. Move(w, Conclude(w))
      BY <1>1, <2>2 DEF Settle
    <3> QED
      BY <1>0, <2>1, <3>2, <3>3, HoldsConclude
  <2>3. CASE j.failed # <<>>
    <3>1. pc'[w] = "dsn" /\ job'[w] = j
      BY <1>1, <2>1, <2>3 DEF Settle, Move, IInv, TypeOK, WorkTypeOK
    <3>2. Within(j.id, Elems(j.retry) \cup Elems(j.failed))'
      BY <1>0, <2>1 DEF Within
    <3>3. Holding("dsn", j)'
      BY <3>2 DEF Holding
    <3> QED
      BY <3>1, <3>3, After
  <2> QED
    BY <2>2, <2>3
<1>2. CASE j.rest # <<>>
  <2> PICK h : h = Head(j.rest)
    OBVIOUS
  <2>0. j.rest \in Seq(Rcpts)
    BY <1>0 DEF Job
  <2>1. h \in Rcpts /\ Elems(j.rest) = {h} \cup Elems(Tail(j.rest))
        /\ Elems(j.rest) \subseteq Rcpts
    <3>1. Elems(j.rest) \subseteq Rcpts
      BY <2>0 DEF Elems
    <3> QED
      BY <1>2, <2>0, <3>1, ElemsTail
  <2> PICK k : k = job'[w]
    OBVIOUS
  <2>2. pc'[w] = "settle"
    BY <1>2 DEF Settle
  <2>3. \/ k = Done(j) /\ j.errs[h] = "none"
        \/ k = Failed(j, h)
        \/ k = Again(j, h)
    BY <1>2 DEF Settle, IInv, TypeOK, WorkTypeOK
  <2>4. /\ k.id = j.id /\ k.rest = Tail(j.rest) /\ k.errs = j.errs
        /\ \/ k.retry = j.retry /\ k.failed = j.failed /\ Settled(j.id, h)
           \/ k.retry = j.retry /\ k.failed = Append(j.failed, h)
           \/ k.retry = Append(j.retry, h) /\ k.failed = j.failed
    <3>1. CASE k = Done(j) /\ j.errs[h] = "none"
      BY <1>0, <2>1, <3>1 DEF Done, Job
    <3>2. CASE k = Failed(j, h)
      BY <1>0, <2>1, <3>2 DEF Failed, Job
    <3>3. CASE k = Again(j, h)
      BY <1>0, <1>2, <2>1, <3>3, AgainJob
    <3> QED
      BY <2>3, <3>1, <3>2, <3>3
  <2>5. Within(j.id, Elems(k.rest) \cup Elems(k.retry) \cup Elems(k.failed))
    <3>1. j.retry \in Seq(Rcpts) /\ j.failed \in Seq(Rcpts)
      BY <1>0 DEF Job
    <3>2. /\ Elems(Append(j.retry, h)) = Elems(j.retry) \cup {h}
          /\ Elems(Append(j.failed, h)) = Elems(j.failed) \cup {h}
      BY <2>1, <3>1, ElemsAppend
    <3> QED
      BY <1>0, <2>1, <2>4, <3>2 DEF Within
  <2>6. Within(j.id, Elems(k.rest) \cup Elems(k.retry) \cup Elems(k.failed))'
    BY <1>0, <2>5
  <2>7. \A r \in Elems(k.rest) : Settled(j.id, r)' \/ k.errs[r] # "none"
    BY <1>0, <2>1, <2>4
  <2>8. Holding("settle", k)'
    BY <2>4, <2>6, <2>7 DEF Holding
  <2> QED
    BY <2>2, <2>8, After
<1> QED
  BY <1>1, <1>2

(* The bounce settles the recipients that failed.                          *)
LEMMA HoldsDSN ==
  ASSUME IInv, TypeOK', [Next]_vars, NEW w \in Workers, EmitDSN(w)
  PROVE  Holds(w)'
<1> PICK j : j = job[w]
  OBVIOUS
<1>0. /\ j \in Job /\ j.id \in Msgs
      /\ Within(j.id, Elems(j.retry) \cup Elems(j.failed))
      /\ \A S : Within(j.id, S) => Within(j.id, S)'
  BY Before DEF EmitDSN, Holding
<1>1. Within(j.id, Elems(j.retry) \cup Elems(j.failed))'
  BY <1>0
<1>2. Elems(j.failed) \subseteq gaveUp'[j.id]
  BY <1>0 DEF EmitDSN, IInv, TypeOK, HistTypeOK
<1>3. Within(j.id, Elems(j.retry))'
  BY <1>1, <1>2 DEF Within, Settled
<1>4. job' = job /\ Move(w, Conclude(w))
  BY DEF EmitDSN
<1> QED
  BY <1>0, <1>3, <1>4, HoldsConclude

(* removeFromDisk: nothing is left while the files go.                     *)
LEMMA HoldsRemove ==
  ASSUME IInv, TypeOK', [Next]_vars, NEW w \in Workers, RemoveFromDisk(w)
  PROVE  Holds(w)'
<1> PICK j : j = job[w]
  OBVIOUS
<1>0. Within(j.id, {})'
  BY Before DEF RemoveFromDisk, Holding
<1>1. \E p \in {"rmBody", "rmMeta", "release"} : pc'[w] = p /\ job'[w] = j
  BY DEF RemoveFromDisk, Move, IInv, TypeOK, WorkTypeOK
<1>2. \A p \in {"rmBody", "rmMeta", "release"} : Holding(p, j)'
  BY <1>0 DEF Holding
<1> QED
  BY <1>1, <1>2, After

(* A step keeps WorkInv.                                                   *)
LEMMA WorkStep ==
  ASSUME IInv, TypeOK', [Next]_vars
  PROVE  WorkInv'
<1>1. CASE UNCHANGED <<pc, job>>
  BY <1>1, HoldsStays DEF WorkInv
<1>2. CASE \E w \in Workers : Tick(w) \/ Worker(w)
  <2> PICK w \in Workers : Tick(w) \/ Worker(w)
    BY <1>2
  <2>1. ASSUME NEW v \in Workers, v # w PROVE Holds(v)'
    <3>1. pc'[v] = pc[v] /\ job'[v] = job[v]
      BY <2>1, WorkerFrame DEF IInv
    <3> QED
      BY <3>1, HoldsStays
  <2>2. Holds(w)'
    <3>1. CASE Tick(w) \/ Acquire(w) \/ UpdateMeta(w) \/ Requeue(w) \/ Release(w)
               \/ TargetPanics(w) \/ Recover(w) \/ DiscardBroken(w)
      <4>1. pc'[w] \in {"idle", "queued", "open", "add", "push", "notify",
                        "release", "panicking", "discard"}
        BY <3>1 DEF Tick, Dispatch, Acquire, UpdateMeta, Requeue, Release,
                    TargetPanics, Recover, DiscardBroken, Move, IInv, TypeOK,
                    WorkTypeOK
      <4> PICK p, k : p = pc'[w] /\ k = job'[w]
        OBVIOUS
      <4>2. Holding(p, k)'
        BY <4>1 DEF Holding
      <4> QED
        BY <4>2, After
    <3>2. CASE Open(w)
      BY <3>2, HoldsOpen
    <3>3. CASE Attempt(w)
      BY <3>3, HoldsAttempt
    <3>4. CASE RcptTo(w)
      BY <3>4, HoldsRcpt
    <3>5. CASE Body(w)
      BY <3>5, HoldsBody
    <3>6. CASE TargetCommit(w)
      BY <3>6, HoldsCommit
    <3>7. CASE Settle(w)
      BY <3>7, HoldsSettle
    <3>8. CASE EmitDSN(w)
      BY <3>8, HoldsDSN
    <3>9. CASE RemoveFromDisk(w)
      BY <3>9, HoldsRemove
    <3> QED
      BY <3>1, <3>2, <3>3, <3>4, <3>5, <3>6, <3>7, <3>8, <3>9 DEF Worker
  <2> QED
    BY <2>1, <2>2 DEF WorkInv
<1>3. CASE Exit \/ Crash
  BY <1>3 DEF Exit, Crash, Die, WorkInv, Holds, Holding
<1>4. CASE \E m \in Msgs : Source(m)
  BY <1>1, <1>4
     DEF Source, Start, AddRcpt, StoreHeader, StoreBody, StoreMeta, StoreSync,
         Abort, AbortRemove, Commit, CommitPush, CommitNotify, workVars
<1>5. CASE Process /\ ~Exit /\ ~Crash
  BY <1>1, <1>5 DEF Process, Close, Restart, Started, ReadEntry, workVars
<1>6. CASE UNCHANGED vars
  BY <1>1, <1>6 DEF vars, workVars
<1> QED
  BY <1>2, <1>3, <1>4, <1>5, <1>6 DEF Next

(* The inductive invariant of the queue: who may touch a message, what the *)
(* meta-data file names, which files are there, what each goroutine holds. *)
THEOREM Invariance == Spec => []IInv
<1>1. Init => IInv
  <2> SUFFICES ASSUME Init PROVE IInv
    OBVIOUS
  <2>1. OwnInv
    BY DEF Init, OwnInv, Private, Ends
  <2>2. MetaInv /\ FileInv
    BY DEF Init, MetaInv, FileInv, Kept, Accepted
  <2>3. WorkInv
    BY DEF Init, WorkInv, Holds, Holding
  <2> QED
    BY <2>1, <2>2, <2>3, TypeInit DEF IInv
<1>2. IInv /\ TypeOK' /\ [Next]_vars => IInv'
  BY OwnStep, MetaStep, FileStep, WorkStep DEF IInv
<1> QED
  BY <1>1, <1>2, TypeCorrect, PTL DEF Spec

(* No recipient of an accepted message disappears, for any number of       *)
(* messages, recipients, goroutines, crashes, failing file operations,     *)
(* panics and shutdowns.                                                   *)
THEOREM NoLossHolds == Spec => []NoLoss
<1>1. IInv => NoLoss
  <2> SUFFICES ASSUME IInv, NEW m \in Msgs, Accepted(m), m \notin broken,
                      NEW r \in Elems(to[m])
               PROVE  Settled(m, r) \/ Recoverable(m, r)
    BY DEF NoLoss
  <2>1. m \in headers \cap bodies \cap metas \/ Within(m, {})
    BY DEF IInv, FileInv, Kept
  <2>2. m \in metas => Settled(m, r) \/ r \in Elems(metaOf[m].to)
    BY DEF IInv, MetaInv
  <2> QED
    BY <2>1, <2>2 DEF Within, Recoverable
<1> QED
  BY <1>1, Invariance, PTL

-----------------------------------------------------------------------------
(***************************************************************************)
(* Proofs about how often the queue tries and how often it settles a       *)
(* recipient, for any sets of messages, recipients and goroutines, any     *)
(* limits and any faults.                                                  *)
(*                                                                         *)
(* What is counted is spread over three places: the meta-data file, the    *)
(* local variables of the goroutine that has the message, and what has     *)
(* really happened.  The invariant relates them.  A file may be one        *)
(* attempt behind while a goroutine is between target.Start and the end of *)
(* tryDelivery; if the process, or the file operation, stops it there, a   *)
(* fault has happened and pays for the difference.  That needs the message *)
(* to be in one place at a time: in the wheel, with one goroutine, or      *)
(* still to be read at start.                                              *)
(***************************************************************************)

\* No recipient is in the list twice.
Distinct(s) == \A i, j \in DOMAIN s : s[i] = s[j] => i = j

\* A goroutine that has the message to itself.
Owning == WorkerStates \ {"idle", "notify", "release", "panicking", "discard"}

\* It has called target.Start, and neither recorded nor removed anything.
InAttempt == {"rcpt", "body", "commit", "settle", "dsn", "update",
              "rmHeader", "rmBody", "rmMeta"}

Owns(w, m) == pc[w] \in Owning /\ job[w].id = m

Busy(m) == \E w \in Workers : pc[w] \in InAttempt /\ job[w].id = m

\* How often r has been settled.
Outcomes(m, r) == delivered[m][r] + dsn[m][r]

\* Nothing has happened to the message.
Fresh(m) == \A r \in Rcpts : attempts[m][r] = 0 /\ Outcomes(m, r) = 0

(* A message is in one place: a slot, a goroutine, the directory listing.  *)
PlaceInv ==
    /\ \A s, t \in slots : s.id = t.id => s = t
    /\ \A s \in slots, w \in Workers : ~Owns(w, s.id)
    /\ \A v, w \in Workers : pc[v] \in Owning /\ Owns(w, job[v].id) => v = w
    /\ \A m \in boot : /\ \A s \in slots : s.id # m
                       /\ \A w \in Workers : ~Owns(w, m)
    /\ proc = "down" =>
          slots = {} /\ boot = {} /\ \A w \in Workers : pc[w] = "idle"

\* How often a recipient may be tried: max_tries, but at least once, as
\* tryDelivery looks at the limit after the attempt.
Limit == IF MaxTries = 0 THEN 1 ELSE MaxTries

\* r may be tried once more, having been tried t times and without an
\* outcome, up to faults and d attempts under way.
Within1(m, r, t, d) ==
    /\ t < Limit
    /\ attempts[m][r] <= t + faults + d
    /\ Outcomes(m, r) <= faults + d

(* The meta-data file is at most one attempt behind.                       *)
Recorded(m) ==
    /\ Distinct(metaOf[m].to)
    /\ \A r \in Elems(metaOf[m].to) :
          Within1(m, r, metaOf[m].tries[r], IF Busy(m) THEN 1 ELSE 0)

RecordInv == /\ \A m \in Msgs : Distinct(to[m])
             /\ \A m \in metas : Recorded(m)

(* A message that is new to the wheel has not been tried.                  *)
FreshInv ==
    /\ \A m \in Msgs : src[m] \in Private => Fresh(m)
    /\ \A s \in slots : s.mem => Fresh(s.id)

\* Whether r, tried t times before, is now part of an attempt that has
\* brought it d outcomes.
Trying(m, r, t, d) ==
    /\ t < Limit
    /\ attempts[m][r] <= t + 1 + faults
    /\ Outcomes(m, r) <= faults + d

(* What a goroutine at p with the variables j has spent.                   *)
Spent(p, j) ==
    /\ p \in {"queued", "open"} /\ j.mem => Fresh(j.id)
    /\ p \in {"queued", "open", "attempt"} =>
          j.errs = NoErrs /\ j.acc = {}
    /\ p \in {"queued", "open", "attempt", "rcpt", "body", "commit"} =>
          j.retry = <<>> /\ j.failed = <<>>
    /\ p \in {"attempt", "rcpt", "body", "commit"} => Distinct(j.to)
    /\ p = "attempt" =>
          \A r \in Elems(j.to) : Within1(j.id, r, j.tries[r], 0)
    /\ p \in {"rcpt", "body", "commit"} =>
          /\ \A r \in Elems(j.to) : Trying(j.id, r, j.tries[r], 0)
          /\ j.acc \subseteq Elems(j.to)
    /\ p \in {"rcpt", "body"} => \A r \in j.acc : j.errs[r] = "none"
    /\ p = "rcpt" =>
          /\ Distinct(j.rest)
          /\ \A r \in Elems(j.rest) :
                r \in Elems(j.to) /\ r \notin j.acc /\ j.errs[r] = "none"
    /\ p = "commit" => \A r \in j.sent : r \in j.acc /\ j.errs[r] = "none"
    /\ p = "settle" =>
          /\ Distinct(j.rest)
          /\ \A r \in Elems(j.rest) :
                /\ r \notin Elems(j.retry) /\ r \notin Elems(j.failed)
                /\ Trying(j.id, r, j.tries[r],
                          IF j.errs[r] = "none" THEN 1 ELSE 0)
    /\ p \in {"settle", "dsn"} =>
          \A r \in Elems(j.failed) :
              r \notin Elems(j.retry) /\ Outcomes(j.id, r) <= faults
    /\ p \in {"settle", "dsn", "update"} =>
          /\ Distinct(j.retry)
          /\ \A r \in Elems(j.retry) : Within1(j.id, r, j.tries[r], 0)

SpentInv == \A w \in Workers : Spent(pc[w], job[w])

CountInv ==
    /\ \A m \in Msgs, r \in Rcpts : attempts[m][r] <= Limit + faults
    /\ OneOutcome

OInv == PlaceInv /\ RecordInv /\ FreshInv /\ SpentInv /\ CountInv

\* The source is removing the files of the message.
Aborting == {"abortHeader", "abortBody", "abortMeta"}

\* Only the source, if anybody, knows of the message.
Hidden(m) == /\ \A s \in slots : s.id # m
             /\ \A w \in Workers : pc[w] # "idle" => job[w].id # m
             /\ \A r \in Rcpts : attempts[m][r] = 0

(* Every file of an aborted message that is left has cost a fault, and     *)
(* without all three it is not taken up again.                             *)
AbortInv ==
    \A m \in Msgs :
        /\ src[m] \in Private \cup Aborting => m \notin boot /\ Hidden(m)
        /\ src[m] \in {"new", "rcpt"} => m \notin metas
        /\ src[m] = "abortBody" /\ m \in headers => faults >= 1
        /\ src[m] = "abortMeta" /\ m \in headers \cap bodies => faults >= 2
        /\ src[m] = "aborted" /\ m \in headers \cap bodies \cap metas =>
              faults >= 3
        /\ src[m] = "aborted" /\ faults < 3 =>
              Hidden(m) /\ (m \in boot => m \in metas)

-----------------------------------------------------------------------------
(***************************************************************************)
(* Lists, counters and frames                                              *)
(***************************************************************************)

(* A list stays without repetitions when a new recipient is appended.      *)
LEMMA DistinctAppend ==
  ASSUME NEW s \in Seq(Rcpts), NEW r \in Rcpts, Distinct(s), r \notin Elems(s)
  PROVE  Distinct(Append(s, r))
<1> DEFINE t == Append(s, r)
<1>1. /\ t \in Seq(Rcpts)
      /\ Len(t) = Len(s) + 1
      /\ \A i \in 1 .. Len(s) : t[i] = s[i]
      /\ t[Len(s) + 1] = r
  BY AppendProperties
<1> HIDE DEF t
<1>2. DOMAIN s = 1 .. Len(s) /\ DOMAIN t = 1 .. Len(t) /\ Len(s) \in Nat
  BY <1>1
<1>3. \A i \in DOMAIN t : i \in DOMAIN s \/ i = Len(s) + 1
  BY <1>1, <1>2
<1>4. \A i \in DOMAIN s : s[i] # r
  BY DEF Elems
<1>5. \A i, j \in DOMAIN t : t[i] = t[j] => i = j
  BY <1>1, <1>2, <1>3, <1>4 DEF Distinct
<1> QED
  BY <1>5 DEF Distinct, t

(* The first of a list without repetitions is not in the rest of it.       *)
LEMMA DistinctTail ==
  ASSUME NEW s \in Seq(Rcpts), s # <<>>, Distinct(s)
  PROVE  Distinct(Tail(s)) /\ Head(s) \notin Elems(Tail(s))
<1> DEFINE t == Tail(s)
<1>1. /\ t \in Seq(Rcpts) /\ Len(t) = Len(s) - 1
      /\ \A i \in 1 .. Len(t) : t[i] = s[i + 1]
  BY HeadTailProperties
<1>2. Head(s) = s[1] /\ Len(s) \in Nat \ {0}
  OBVIOUS
<1> HIDE DEF t
<1>3. DOMAIN s = 1 .. Len(s) /\ DOMAIN t = 1 .. Len(t)
  BY <1>1
<1>4. \A i \in DOMAIN t : i + 1 \in DOMAIN s /\ t[i] = s[i + 1] /\ i + 1 # 1
                          /\ i \in Nat
  BY <1>1, <1>2, <1>3
<1>5. 1 \in DOMAIN s
  BY <1>2, <1>3
<1>6. \A i, j \in DOMAIN t : t[i] = t[j] => i = j
  <2> SUFFICES ASSUME NEW i \in DOMAIN t, NEW j \in DOMAIN t, t[i] = t[j]
               PROVE  i = j
    OBVIOUS
  <2>1. i + 1 = j + 1
    BY <1>4 DEF Distinct
  <2> QED
    BY <2>1, <1>4
<1>7. \A i \in DOMAIN t : t[i] # s[1]
  BY <1>4, <1>5 DEF Distinct
<1> QED
  BY <1>2, <1>6, <1>7 DEF Distinct, Elems, t

(* Exactly the recipients given are counted, once.                         *)
LEMMA CountIs ==
  ASSUME NEW f \in [Msgs -> [Rcpts -> Nat]], NEW m \in Msgs, NEW S
  PROVE  /\ \A n \in Msgs : n # m => Count(f, m, S)[n] = f[n]
         /\ \A r \in Rcpts :
              Count(f, m, S)[m][r] = IF r \in S THEN f[m][r] + 1 ELSE f[m][r]
  BY DEF Count

(* Faults are counted, never forgotten.                                    *)
LEMMA FaultsGrow ==
  ASSUME TypeOK, TypeOK', [Next]_vars
  PROVE  faults \in Nat /\ faults' \in Nat /\ faults' >= faults
<1>1. faults \in Nat /\ faults' \in Nat
  BY BoundsAssumption DEF BoundsAssumption, TypeOK, HistTypeOK
<1>2. UNCHANGED faults \/ faults' = faults + 1
  <2> USE DEF Fault, NoFault, faultVars
  <2>1. CASE \E m \in Msgs : Source(m)
    BY <2>1 DEF Source, Start, AddRcpt, StoreHeader, StoreBody, StoreMeta,
           StoreSync, Abort, AbortRemove, RemoveHeader, RemoveBody,
           RemoveMeta, Commit, CommitPush, CommitNotify
  <2>2. CASE Process
    BY <2>2 DEF Process, Close, Exit, Crash, Restart, Started, ReadEntry
  <2>3. CASE \E w \in Workers : Tick(w) \/ Worker(w)
    BY <2>3
     DEF Tick, Dispatch, Worker, Acquire, Open, Attempt, RcptTo, Body,
         TargetCommit, Settle, EmitDSN, UpdateMeta, Requeue, RemoveFromDisk,
         RemoveHeader, RemoveBody, RemoveMeta, Release, TargetPanics, Recover,
         DiscardBroken
  <2>4. CASE UNCHANGED vars
    BY <2>4 DEF vars
  <2> QED
    BY <2>1, <2>2, <2>3, <2>4 DEF Next
<1> QED
  BY <1>1, <1>2

\* What is counted for m does not change.
Same(m) == /\ attempts'[m] = attempts[m]
           /\ delivered'[m] = delivered[m]
           /\ dsn'[m] = dsn[m]

(* Only a goroutine that delivers or bounces counts anything, and only for *)
(* its message.                                                            *)
LEMMA CountFrame ==
  ASSUME TypeOK, NEW w \in Workers, Tick(w) \/ Worker(w), NEW m \in Msgs,
         ~(Attempt(w) \/ TargetCommit(w) \/ EmitDSN(w)) \/ job[w].id # m
  PROVE  Same(m)
<1>1. /\ attempts \in [Msgs -> [Rcpts -> Nat]]
      /\ delivered \in [Msgs -> [Rcpts -> Nat]]
      /\ dsn \in [Msgs -> [Rcpts -> Nat]]
  BY DEF TypeOK, HistTypeOK
<1>2. CASE ~(Attempt(w) \/ TargetCommit(w) \/ EmitDSN(w))
  <2>1. UNCHANGED histVars
    BY <1>2
     DEF Tick, Dispatch, Worker, Acquire, Open, RcptTo, Body, Settle,
         UpdateMeta, Requeue, RemoveFromDisk, Release, TargetPanics, Recover,
         DiscardBroken
  <2> QED
    BY <2>1 DEF histVars, Same
<1>3. CASE Attempt(w) /\ job[w].id # m
  <2>1. job[w].id \in Msgs
    BY <1>3 DEF Attempt, TypeOK, WorkTypeOK
  <2> QED
    BY <1>1, <1>3, <2>1, CountIs DEF Attempt, Same
<1>4. CASE TargetCommit(w) /\ job[w].id # m
  <2>1. job[w].id \in Msgs
    BY <1>4 DEF TargetCommit, TypeOK, WorkTypeOK
  <2>2. \/ UNCHANGED delivered
        \/ \E S : delivered' = Count(delivered, job[w].id, S)
    BY <1>4 DEF TargetCommit
  <2> QED
    BY <1>1, <1>4, <2>1, <2>2, CountIs DEF TargetCommit, Same
<1>5. CASE EmitDSN(w) /\ job[w].id # m
  <2>1. job[w].id \in Msgs
    BY <1>5 DEF EmitDSN, TypeOK, WorkTypeOK
  <2>2. \/ UNCHANGED dsn
        \/ \E S : dsn' = Count(dsn, job[w].id, S)
    BY <1>5 DEF EmitDSN
  <2> QED
    BY <1>1, <1>5, <2>1, <2>2, CountIs DEF EmitDSN, Same
<1> QED
  BY <1>2, <1>3, <1>4, <1>5

(* Nobody else counts.                                                     *)
LEMMA CountFrameOther ==
  ASSUME (\E m \in Msgs : Source(m)) \/ Process \/ UNCHANGED vars
  PROVE  UNCHANGED histVars /\ \A n \in Msgs : Same(n)
<1>1. UNCHANGED histVars
  <2>1. CASE \E m \in Msgs : Source(m)
    BY <2>1 DEF Source, Start, AddRcpt, StoreHeader, StoreBody, StoreMeta,
           StoreSync, Abort, AbortRemove, Commit, CommitPush, CommitNotify
  <2>2. CASE Process
    BY <2>2 DEF Process, Close, Exit, Crash, Die, Restart, Started, ReadEntry
  <2>3. CASE UNCHANGED vars
    BY <2>3 DEF vars
  <2> QED
    BY <2>1, <2>2, <2>3
<1> QED
  BY <1>1 DEF histVars, Same

-----------------------------------------------------------------------------
(***************************************************************************)
(* One place at a time                                                     *)
(***************************************************************************)

(* A slot for a message that has none.                                     *)
LEMMA PlaceAdd ==
  ASSUME PlaceInv, NEW m, NEW b, slots' = slots \cup {[id |-> m, mem |-> b]},
         \A s \in slots : s.id # m
  PROVE  \A s, t \in slots' : s.id = t.id => s = t
<1> PICK n : n = [id |-> m, mem |-> b]
  OBVIOUS
<1>1. n.id = m /\ slots' = slots \cup {n}
  OBVIOUS
<1>2. \A s, t \in slots : s.id = t.id => s = t
  BY DEF PlaceInv
<1> QED
  BY <1>1, <1>2

(* A step of a goroutine that neither takes nor gives back a slot leaves   *)
(* the message where it is, or nowhere.                                    *)
LEMMA PlaceWorker ==
  ASSUME TypeOK, PlaceInv, NEW w \in Workers, Tick(w) \/ Worker(w)
  PROVE  PlaceInv'
<1>0. /\ UNCHANGED <<proc, boot>>
      /\ \A v \in Workers : v # w => pc'[v] = pc[v] /\ job'[v] = job[v]
      /\ pc[w] # "idle" /\ pc'[w] # "idle" => job'[w].id = job[w].id
  BY WorkerFrame
<1>1. CASE Tick(w)
  <2> PICK s \in slots : Dispatch(w, s)
    BY <1>1 DEF Tick
  <2>1. /\ slots' = slots \ {s} /\ pc[w] = "idle"
        /\ pc'[w] = "queued" /\ job'[w].id = s.id
    BY DEF Dispatch, Move, TypeOK, WorkTypeOK, NoJob
  <2>2. \A v \in Workers : \A m : Owns(v, m)' => Owns(v, m) \/ (v = w /\ m = s.id)
    BY <1>0, <2>1 DEF Owns
  <2>3. \A t \in slots' : t.id # s.id
    BY <2>1 DEF PlaceInv
  <2>4. \A t \in slots', v \in Workers : ~Owns(v, t.id)'
    BY <2>1, <2>2, <2>3 DEF PlaceInv
  <2>5. ASSUME NEW v \in Workers, NEW u \in Workers, pc'[v] \in Owning,
               Owns(u, job[v].id)'
        PROVE  v = u
    <3>1. CASE v = w
      <4>1. u # w => Owns(u, s.id)
        BY <2>5, <3>1, <2>1, <1>0 DEF Owns
      <4> QED
        BY <3>1, <4>1 DEF PlaceInv
    <3>2. CASE v # w
      <4>1. pc[v] \in Owning /\ job'[v] = job[v]
        BY <2>5, <3>2, <1>0
      <4>2. u = w => Owns(v, s.id)
        BY <2>5, <4>1, <2>1 DEF Owns
      <4>3. u # w => Owns(u, job[v].id)
        BY <2>5, <4>1, <1>0 DEF Owns
      <4> QED
        BY <4>1, <4>2, <4>3 DEF PlaceInv
    <3> QED
      BY <3>1, <3>2
  <2>6. \A m \in boot' : /\ \A t \in slots' : t.id # m
                         /\ \A v \in Workers : ~Owns(v, m)'
    BY <1>0, <2>1, <2>2 DEF PlaceInv
  <2>7. proc # "down"
    BY DEF PlaceInv
  <2>8. \A t, u \in slots' : t.id = u.id => t = u
    BY <2>1 DEF PlaceInv
  <2> QED
    BY <1>0, <2>4, <2>5, <2>6, <2>7, <2>8 DEF PlaceInv
<1>2. CASE Worker(w)
  <2>0. pc[w] # "idle"
    BY <1>2
     DEF Worker, Acquire, Open, Attempt, RcptTo, Body, TargetCommit, Settle,
         EmitDSN, UpdateMeta, Requeue, RemoveFromDisk, Release, TargetPanics,
         Recover, DiscardBroken
  <2>1. pc'[w] \in Owning => pc[w] \in Owning
    <3>1. pc' = [pc EXCEPT ![w] = pc'[w]] /\ pc[w] \in WorkerStates
      BY <1>0, <1>2, JobStep DEF TypeOK, WorkTypeOK
    <3>2. CASE Requeue(w) \/ Release(w) \/ Recover(w) \/ DiscardBroken(w)
      BY <3>2 DEF Requeue, Release, Recover, DiscardBroken, Move, Owning,
                  TypeOK, WorkTypeOK, WorkerStates
    <3>3. CASE ~(Requeue(w) \/ Release(w) \/ Recover(w) \/ DiscardBroken(w))
      BY <1>2, <3>1, <3>3
       DEF Worker, Acquire, Open, Attempt, RcptTo, Body, TargetCommit, Settle,
           EmitDSN, UpdateMeta, RemoveFromDisk, TargetPanics, Owning,
           WorkerStates
    <3> QED
      BY <3>2, <3>3
  <2>2. \A v \in Workers : \A m : Owns(v, m)' => Owns(v, m)
    BY <1>0, <2>0, <2>1 DEF Owns, Owning
  <2>3. \A v, u \in Workers : pc'[v] \in Owning /\ Owns(u, job[v].id)' => v = u
    <3> SUFFICES ASSUME NEW v \in Workers, NEW u \in Workers,
                        pc'[v] \in Owning, Owns(u, job[v].id)'
                 PROVE  v = u
      OBVIOUS
    <3>1. pc[v] \in Owning /\ job'[v].id = job[v].id
      BY <1>0, <2>0, <2>1 DEF Owning
    <3>2. Owns(u, job[v].id)
      BY <1>0, <2>0, <2>1, <3>1 DEF Owns, Owning
    <3> QED
      BY <3>1, <3>2 DEF PlaceInv
  <2>4. CASE slots' \subseteq slots
    BY <1>0, <2>0, <2>2, <2>3, <2>4 DEF PlaceInv
  <2>5. CASE Requeue(w) /\ pc[w] = "push"
    <3>1. /\ slots' = slots \cup {[id |-> job[w].id, mem |-> FALSE]}
          /\ pc'[w] = "notify" /\ pc[w] \in Owning
      BY <2>5 DEF Requeue, Move, TypeOK, WorkTypeOK, Owning, WorkerStates
    <3>2. Owns(w, job[w].id)
      BY <3>1 DEF Owns
    <3>3. \A v \in Workers : ~Owns(v, job[w].id)'
      <4> SUFFICES ASSUME NEW v \in Workers, Owns(v, job[w].id)' PROVE FALSE
        BY <1>0
      <4>1. Owns(v, job[w].id)
        <5>1. job'[w].id = job[w].id
          BY <1>0, <2>0, <3>1
        <5> QED
          BY <5>1, <2>2
      <4>2. v = w
        BY <3>1, <4>1 DEF PlaceInv
      <4> QED
        BY <3>1, <4>2 DEF Owns, Owning
    <3>4. \A s \in slots : s.id # job[w].id
      BY <3>2 DEF PlaceInv
    <3>5. \A s, t \in slots' : s.id = t.id => s = t
      BY <3>1, <3>4, PlaceAdd
    <3>6. \A s \in slots', v \in Workers : ~Owns(v, s.id)'
      <4> SUFFICES ASSUME NEW s \in slots', NEW v \in Workers, Owns(v, s.id)'
                   PROVE FALSE
        OBVIOUS
      <4>1. CASE s \in slots
        BY <4>1, <2>2 DEF PlaceInv
      <4>2. CASE s = [id |-> job[w].id, mem |-> FALSE]
        <5>1. s.id = job[w].id /\ job'[w].id = job[w].id
          BY <4>2, <1>0, <2>0, <3>1
        <5> QED
          BY <5>1, <3>3
      <4> QED
        BY <3>1, <4>1, <4>2
    <3>7. \A m \in boot' : \A s \in slots' : s.id # m
      BY <1>0, <3>1, <3>2 DEF PlaceInv
    <3> QED
      BY <1>0, <2>0, <2>2, <2>3, <3>5, <3>6, <3>7 DEF PlaceInv
  <2> QED
    BY <1>2, <2>4, <2>5
     DEF Worker, Acquire, Open, Attempt, RcptTo, Body, TargetCommit, Settle,
         EmitDSN, UpdateMeta, Requeue, RemoveFromDisk, Release, TargetPanics,
         Recover, DiscardBroken
<1> QED
  BY <1>1, <1>2

(* A step keeps PlaceInv: the source of a message that is handed to the    *)
(* wheel was the only one to know of it, and the directory is listed when  *)
(* nothing is in memory.                                                   *)
LEMMA PlaceStep ==
  ASSUME TypeOK, OwnInv, PlaceInv, [Next]_vars
  PROVE  PlaceInv'
<1>1. CASE \E w \in Workers : Tick(w) \/ Worker(w)
  BY <1>1, PlaceWorker
<1>2. CASE \E m \in Msgs : Source(m)
  <2> PICK m \in Msgs : Source(m)
    BY <1>2
  <2>1. UNCHANGED <<proc, boot, pc, job>>
    BY DEF Source, Start, AddRcpt, StoreHeader, StoreBody, StoreMeta,
           StoreSync, Abort, AbortRemove, Commit, CommitPush, CommitNotify,
           procVars, workVars
  <2>2. \/ slots' = slots
        \/ /\ slots' = slots \cup {[id |-> m, mem |-> TRUE]}
           /\ src[m] = "adding" /\ proc # "down"
    BY DEF Source, Start, AddRcpt, StoreHeader, StoreBody, StoreMeta,
           StoreSync, Abort, AbortRemove, Commit, CommitPush, CommitNotify,
           Running
  <2>3. CASE slots' = slots
    BY <2>1, <2>3 DEF PlaceInv, Owns
  <2>4. CASE /\ slots' = slots \cup {[id |-> m, mem |-> TRUE]}
             /\ src[m] = "adding" /\ proc # "down"
    <3>1. /\ m \notin boot
          /\ \A s \in slots : s.id # m
          /\ \A w \in Workers : ~Owns(w, m)
      BY <2>4 DEF OwnInv, Private, Owns, Owning
    <3>2. \A s, t \in slots' : s.id = t.id => s = t
      BY <2>4, <3>1, PlaceAdd
    <3>3. \A s \in slots' : s \in slots \/ s.id = m
      BY <2>4
    <3>4. \A w \in Workers : \A n : Owns(w, n)' <=> Owns(w, n)
      BY <2>1 DEF Owns
    <3>5. \A s \in slots', w \in Workers : ~Owns(w, s.id)'
      BY <3>1, <3>3, <3>4 DEF PlaceInv
    <3>6. \A n \in boot' : /\ \A s \in slots' : s.id # n
                           /\ \A w \in Workers : ~Owns(w, n)'
      BY <2>1, <3>1, <3>3, <3>4 DEF PlaceInv
    <3>7. \A v, w \in Workers : pc'[v] \in Owning /\ Owns(w, job[v].id)' => v = w
      BY <2>1 DEF PlaceInv, Owns
    <3> QED
      BY <2>1, <2>4, <3>2, <3>5, <3>6, <3>7 DEF PlaceInv
  <2> QED
    BY <2>2, <2>3, <2>4
<1>3. CASE Exit \/ Crash
  <2>1. /\ boot' = {} /\ slots' = {} /\ \A w \in Workers : pc'[w] = "idle"
    BY <1>3 DEF Exit, Crash, Die
  <2> QED
    BY <2>1 DEF PlaceInv, Owns, Owning
<1>4. CASE Restart
  BY <1>4 DEF Restart, PlaceInv, Owns, Owning, workVars
<1>5. CASE \E m \in Msgs : ReadEntry(m)
  <2> PICK m \in Msgs : ReadEntry(m)
    BY <1>5
  <2>1. /\ m \in boot /\ boot' = boot \ {m} /\ UNCHANGED <<proc, pc, job>>
        /\ slots' = slots \/ slots' = slots \cup {[id |-> m, mem |-> FALSE]}
    BY DEF ReadEntry, workVars
  <2>2. proc # "down"
    BY <2>1 DEF PlaceInv
  <2>3. /\ \A s \in slots : s.id # m
        /\ \A w \in Workers : ~Owns(w, m)
    BY <2>1 DEF PlaceInv
  <2>4. \A s, t \in slots' : s.id = t.id => s = t
    <3>1. CASE slots' = slots
      BY <3>1 DEF PlaceInv
    <3> QED
      BY <2>1, <2>3, <3>1, PlaceAdd
  <2>5. \A s \in slots' : s \in slots \/ s.id = m
    BY <2>1
  <2>6. \A w \in Workers : \A n : Owns(w, n)' <=> Owns(w, n)
    BY <2>1 DEF Owns
  <2>7. \A s \in slots', w \in Workers : ~Owns(w, s.id)'
    BY <2>3, <2>5, <2>6 DEF PlaceInv
  <2>8. \A n \in boot' : /\ \A s \in slots' : s.id # n
                         /\ \A w \in Workers : ~Owns(w, n)'
    BY <2>1, <2>5, <2>6 DEF PlaceInv
  <2>9. \A v, w \in Workers : pc'[v] \in Owning /\ Owns(w, job[v].id)' => v = w
    BY <2>1 DEF PlaceInv, Owns
  <2> QED
    BY <2>1, <2>2, <2>4, <2>7, <2>8, <2>9 DEF PlaceInv
<1>6. CASE Close \/ Started
  BY <1>6 DEF Close, Started, PlaceInv, Owns, workVars
<1>7. CASE UNCHANGED vars
  BY <1>7 DEF vars, procVars, workVars, PlaceInv, Owns
<1> QED
  BY <1>1, <1>2, <1>3, <1>4, <1>5, <1>6, <1>7 DEF Next, Process

-----------------------------------------------------------------------------
(***************************************************************************)
(* What is recorded on disk                                                *)
(***************************************************************************)

(* The counters are numbers.                                               *)
LEMMA Numbers ==
  ASSUME TypeOK, NEW m \in Msgs, NEW r \in Rcpts
  PROVE  /\ attempts[m][r] \in Nat /\ delivered[m][r] \in Nat
         /\ dsn[m][r] \in Nat /\ Outcomes(m, r) \in Nat
         /\ faults \in Nat /\ Limit \in Nat
  BY BoundsAssumption DEF BoundsAssumption, TypeOK, HistTypeOK, Outcomes, Limit

(* A bound on what is counted stays when nothing is counted, and may be    *)
(* drawn tighter by a fault.                                               *)
LEMMA BoundStays ==
  ASSUME TypeOK, TypeOK', [Next]_vars, NEW m \in Msgs, NEW r \in Rcpts,
         Same(m), NEW t \in Nat, NEW d \in {0, 1}, NEW e \in {0, 1},
         Within1(m, r, t, d), d <= e \/ faults' = faults + 1
  PROVE  Within1(m, r, t, e)'
<1>1. /\ attempts[m][r] \in Nat /\ Outcomes(m, r) \in Nat
      /\ faults \in Nat /\ faults' \in Nat /\ faults' >= faults
  BY Numbers, FaultsGrow
<1>2. attempts'[m][r] = attempts[m][r] /\ Outcomes(m, r)' = Outcomes(m, r)
  BY DEF Same, Outcomes
<1> QED
  BY <1>1, <1>2 DEF Within1

(* The file of a message that nothing is counted for, unless its goroutine *)
(* leaves an attempt without a fault.                                      *)
LEMMA RecordedStays ==
  ASSUME TypeOK, TypeOK', [Next]_vars, NEW m \in Msgs, Same(m), Recorded(m),
         metaOf'[m] = metaOf[m],
         (Busy(m) => Busy(m)') \/ faults' = faults + 1
  PROVE  Recorded(m)'
<1>1. metaOf[m] \in Meta
  BY DEF TypeOK, DiskTypeOK
<1>2. ASSUME NEW r \in Elems(metaOf[m].to)
      PROVE  Within1(m, r, metaOf[m].tries[r], IF Busy(m) THEN 1 ELSE 0)'
  <2>1. r \in Rcpts /\ metaOf[m].tries[r] \in Nat
    BY <1>1 DEF Meta, Elems
  <2> PICK t \in Nat : t = metaOf[m].tries[r]
    BY <2>1
  <2> PICK d \in {0, 1} : d = IF Busy(m) THEN 1 ELSE 0
    OBVIOUS
  <2> PICK e \in {0, 1} : e = IF Busy(m)' THEN 1 ELSE 0
    OBVIOUS
  <2>2. Within1(m, r, t, d) /\ (d <= e \/ faults' = faults + 1)
    BY DEF Recorded
  <2>3. Within1(m, r, t, e)'
    BY <2>1, <2>2, BoundStays
  <2>4. metaOf'[m].tries[r] = t
    OBVIOUS
  <2> QED
    BY <2>3, <2>4 DEF Within1, Outcomes
<1> QED
  BY <1>2 DEF Recorded

(* A goroutine that stays in its attempt keeps the message busy.           *)
LEMMA BusyStays ==
  ASSUME TypeOK, NEW w \in Workers, Tick(w) \/ Worker(w), NEW m \in Msgs,
         job[w].id = m /\ pc[w] \in InAttempt => pc'[w] \in InAttempt
  PROVE  Busy(m) => Busy(m)'
<1>1. /\ \A v \in Workers : v # w => pc'[v] = pc[v] /\ job'[v] = job[v]
      /\ pc[w] # "idle" /\ pc'[w] # "idle" => job'[w].id = job[w].id
  BY WorkerFrame
<1> QED
  BY <1>1 DEF Busy, InAttempt

(* Counting for a recipient that the attempt has nothing for yet keeps the *)
(* file at most one behind.                                                *)
LEMMA RecordedCount ==
  ASSUME TypeOK, TypeOK', [Next]_vars, NEW m \in Msgs, Recorded(m), Busy(m)',
         metaOf'[m] = metaOf[m],
         \A r \in Rcpts : \/ attempts'[m][r] = attempts[m][r]
                          \/ ~Busy(m) /\ attempts'[m][r] = attempts[m][r] + 1,
         \A r \in Rcpts : \/ Outcomes(m, r)' = Outcomes(m, r)
                          \/ Outcomes(m, r)' <= faults' + 1
  PROVE  Recorded(m)'
<1>1. metaOf[m] \in Meta
  BY DEF TypeOK, DiskTypeOK
<1>2. ASSUME NEW r \in Elems(metaOf[m].to)
      PROVE  Within1(m, r, metaOf[m].tries[r], 1)'
  <2>1. r \in Rcpts /\ metaOf[m].tries[r] \in Nat
    BY <1>1 DEF Meta, Elems
  <2>2. /\ attempts[m][r] \in Nat /\ Outcomes(m, r) \in Nat
        /\ faults \in Nat /\ faults' \in Nat /\ faults' >= faults
    BY <2>1, Numbers, FaultsGrow
  <2>3. Within1(m, r, metaOf[m].tries[r], IF Busy(m) THEN 1 ELSE 0)
    BY DEF Recorded
  <2>4. attempts'[m][r] <= metaOf[m].tries[r] + faults' + 1
    BY <2>1, <2>2, <2>3 DEF Within1
  <2>5. Outcomes(m, r)' <= faults' + 1
    BY <2>1, <2>2, <2>3 DEF Within1
  <2> QED
    BY <2>3, <2>4, <2>5 DEF Within1
<1> QED
  BY <1>2 DEF Recorded

(* The step of a goroutine keeps what is recorded of its message.          *)
LEMMA RecordedWorker ==
  ASSUME IInv, TypeOK', PlaceInv, RecordInv, SpentInv, [Next]_vars,
         NEW w \in Workers, Worker(w), NEW m \in Msgs, m = job[w].id,
         m \in metas'
  PROVE  Recorded(m)'
<1> USE DEF IInv
<1>0. TypeOK /\ TypeOK' /\ pc \in [Workers -> WorkerStates]
  BY DEF TypeOK, WorkTypeOK
<1>1. Spent(pc[w], job[w]) /\ job[w] \in Job
  BY DEF SpentInv, TypeOK, WorkTypeOK
<1>2. CASE UpdateMeta(w)
  <2>1. CASE metaOf' = [metaOf EXCEPT ![m] = [to |-> job[w].retry,
                                              tries |-> job[w].tries]]
             /\ faults' = faults
    <3>1. Same(m)
      BY <1>0, <1>2, CountFrame DEF UpdateMeta, Attempt, TargetCommit, EmitDSN, Worker
    <3>2. metaOf'[m].to = job[w].retry /\ metaOf'[m].tries = job[w].tries
      BY <2>1, <1>0 DEF TypeOK, DiskTypeOK
    <3>3. /\ Distinct(job[w].retry)
          /\ \A r \in Elems(job[w].retry) : Within1(m, r, job[w].tries[r], 0)
      BY <1>1, <1>2 DEF UpdateMeta, Spent
    <3>4. ASSUME NEW r \in Elems(job[w].retry), NEW e \in {0, 1}
          PROVE  Within1(m, r, job[w].tries[r], e)'
      <4>1. r \in Rcpts
        BY <1>1 DEF Job, Elems
      <4> PICK t \in Nat : t = job[w].tries[r]
        BY <1>1, <4>1 DEF Job
      <4>2. Within1(m, r, t, e)'
        BY <1>0, <3>1, <3>3, <4>1, BoundStays
      <4>3. job'[w] = job[w]
        BY <1>2 DEF UpdateMeta
      <4> QED
        BY <4>2, <4>3 DEF Within1, Outcomes
    <3>5. job' = job
      BY <1>2 DEF UpdateMeta
    <3> QED
      BY <3>2, <3>3, <3>4, <3>5 DEF Recorded
  <2>2. CASE UNCHANGED <<metas, metaOf>> /\ faults' = faults + 1
    <3>1. Same(m)
      BY <1>2 DEF UpdateMeta, histVars, Same
    <3>2. Recorded(m)
      BY <2>2 DEF RecordInv
    <3> QED
      BY <1>0, <2>2, <3>1, <3>2, RecordedStays
  <2> QED
    BY <1>2, <2>1, <2>2 DEF UpdateMeta, NoFault, Fault, faultVars
<1>3. CASE ~UpdateMeta(w)
  <2>1. metaOf' = metaOf
    BY <1>3
     DEF Worker, Acquire, Open, Attempt, RcptTo, Body, TargetCommit, Settle,
         EmitDSN, Requeue, RemoveFromDisk, Release, TargetPanics, Recover,
         DiscardBroken, diskVars
  <2>2. m \in metas
    BY <1>3
     DEF Worker, Acquire, Open, Attempt, RcptTo, Body, TargetCommit, Settle,
         EmitDSN, Requeue, RemoveFromDisk, RemoveMeta, Release, TargetPanics,
         Recover, DiscardBroken, diskVars
  <2>3. Recorded(m) /\ metaOf'[m] = metaOf[m]
    BY <2>1, <2>2 DEF RecordInv
  <2>4. CASE ~(Attempt(w) \/ TargetCommit(w) \/ EmitDSN(w))
    <3>1. Same(m)
      BY <1>0, <2>4, CountFrame
    <3>2. CASE TargetPanics(w)
      BY <1>0, <2>3, <3>1, <3>2, RecordedStays DEF TargetPanics, Fault
    <3>3. CASE RemoveFromDisk(w) /\ pc[w] = "rmMeta"
      <4>1. faults' = faults + 1
        BY <3>3 DEF RemoveFromDisk, RemoveMeta, Fault
      <4> QED
        BY <1>0, <2>3, <3>1, <4>1, RecordedStays
    <3>4. CASE ~TargetPanics(w) /\ ~(RemoveFromDisk(w) /\ pc[w] = "rmMeta")
      <4>1. pc[w] \in InAttempt => pc'[w] \in InAttempt
        BY <1>0, <1>3, <2>4, <3>4
         DEF Worker, Acquire, Open, RcptTo, Body, Settle, Conclude, Requeue,
             RemoveFromDisk, Release, Recover, DiscardBroken, Move, InAttempt
      <4>2. Busy(m) => Busy(m)'
        BY <1>0, <4>1, BusyStays
      <4> QED
        BY <1>0, <2>3, <3>1, <4>2, RecordedStays
    <3> QED
      BY <3>2, <3>3, <3>4
  <2>5. CASE Attempt(w) \/ TargetCommit(w) \/ EmitDSN(w)
    <3>1. pc'[w] \in InAttempt /\ job'[w].id = m
      <4>1. pc'[w] \in InAttempt
        BY <1>0, <2>5 DEF Attempt, TargetCommit, EmitDSN, Move, Conclude, InAttempt
      <4>2. pc[w] # "idle" /\ pc'[w] # "idle"
        BY <2>5, <4>1 DEF Attempt, TargetCommit, EmitDSN, InAttempt
      <4> QED
        BY <1>0, <4>1, <4>2, WorkerFrame
    <3>2. Busy(m)'
      BY <3>1 DEF Busy
    <3>3. /\ attempts \in [Msgs -> [Rcpts -> Nat]]
          /\ delivered \in [Msgs -> [Rcpts -> Nat]]
          /\ dsn \in [Msgs -> [Rcpts -> Nat]]
      BY <1>0 DEF TypeOK, HistTypeOK
    <3>4. faults \in Nat /\ faults' \in Nat /\ faults' >= faults
      BY <1>0, FaultsGrow
    <3>5. CASE Attempt(w)
      <4>1. ~Busy(m)
        <5>1. Owns(w, m) /\ pc[w] \notin InAttempt
          BY <3>5 DEF Attempt, Owns, Owning, WorkerStates, InAttempt
        <5>2. \A v \in Workers : pc[v] \in InAttempt /\ job[v].id = m => v = w
          BY <5>1 DEF PlaceInv, Owning, WorkerStates, InAttempt
        <5> QED
          BY <5>1, <5>2 DEF Busy
      <4>2. ASSUME NEW r \in Rcpts
            PROVE  \/ attempts'[m][r] = attempts[m][r]
                   \/ attempts'[m][r] = attempts[m][r] + 1
        <5>1. attempts' = Count(attempts, m, Elems(job[w].to))
          BY <3>5 DEF Attempt
        <5>2. attempts'[m][r] = IF r \in Elems(job[w].to)
                                THEN attempts[m][r] + 1 ELSE attempts[m][r]
          BY <5>1, <3>3, CountIs
        <5> QED
          BY <5>2
      <4>3. \A r \in Rcpts : Outcomes(m, r)' = Outcomes(m, r)
        BY <3>5 DEF Attempt, Outcomes
      <4> QED
        BY <1>0, <2>3, <3>2, <4>1, <4>2, <4>3, RecordedCount
    <3>6. CASE TargetCommit(w)
      <4>1. attempts' = attempts /\ dsn' = dsn
        BY <3>6 DEF TargetCommit
      <4>2. \/ delivered' = delivered
            \/ \E S \in SUBSET job[w].sent : delivered' = Count(delivered, m, S)
        BY <3>6 DEF TargetCommit
      <4>3. \A r \in job[w].sent : r \in Rcpts /\ Outcomes(m, r) <= faults
        <5>1. pc[w] = "commit"
          BY <3>6 DEF TargetCommit
        <5>2. \A r \in job[w].sent : r \in Elems(job[w].to) /\ r \in Rcpts
          BY <5>1, <1>1 DEF Spent, Job
        <5> QED
          BY <5>1, <5>2, <1>1 DEF Spent, Trying, Outcomes, TypeOK, HistTypeOK
      <4>4. ASSUME NEW r \in Rcpts
            PROVE  \/ Outcomes(m, r)' = Outcomes(m, r)
                   \/ Outcomes(m, r)' <= faults' + 1
        <5>1. CASE delivered' = delivered
          BY <4>1, <5>1 DEF Outcomes
        <5>2. CASE \E S \in SUBSET job[w].sent : delivered' = Count(delivered, m, S)
          <6> PICK S \in SUBSET job[w].sent : delivered' = Count(delivered, m, S)
            BY <5>2
          <6>1. delivered'[m][r] = IF r \in S THEN delivered[m][r] + 1
                                               ELSE delivered[m][r]
            BY <3>3, CountIs
          <6> QED
            BY <6>1, <4>1, <4>3, <3>3, <3>4 DEF Outcomes
        <5> QED
          BY <4>2, <5>1, <5>2
      <4> QED
        BY <1>0, <2>3, <3>2, <4>1, <4>4, RecordedCount
    <3>7. CASE EmitDSN(w)
      <4>1. attempts' = attempts /\ delivered' = delivered
        BY <3>7 DEF EmitDSN
      <4>2. dsn' = dsn \/ dsn' = Count(dsn, m, Elems(job[w].failed))
        BY <3>7 DEF EmitDSN
      <4>3. \A r \in Elems(job[w].failed) : Outcomes(m, r) <= faults
        BY <3>7, <1>1 DEF EmitDSN, Spent
      <4>4. ASSUME NEW r \in Rcpts
            PROVE  \/ Outcomes(m, r)' = Outcomes(m, r)
                   \/ Outcomes(m, r)' <= faults' + 1
        <5>1. CASE dsn' = dsn
          BY <4>1, <5>1 DEF Outcomes
        <5>2. CASE dsn' = Count(dsn, m, Elems(job[w].failed))
          <6>1. dsn'[m][r] = IF r \in Elems(job[w].failed) THEN dsn[m][r] + 1
                                                           ELSE dsn[m][r]
            BY <3>3, <5>2, CountIs
          <6> QED
            BY <6>1, <4>1, <4>3, <3>3, <3>4 DEF Outcomes
        <5> QED
          BY <4>2, <5>1, <5>2
      <4> QED
        BY <1>0, <2>3, <3>2, <4>1, <4>4, RecordedCount
    <3> QED
      BY <2>5, <3>5, <3>6, <3>7
  <2> QED
    BY <2>4, <2>5
<1> QED
  BY <1>2, <1>3

(* Every step keeps what is recorded: another message's file, a new file,  *)
(* which names recipients that have not been tried, and a process that     *)
(* goes away, in an orderly way with nobody in an attempt or by a fault.   *)
LEMMA RecordStep ==
  ASSUME IInv, TypeOK', ~Repeats, PlaceInv, RecordInv, FreshInv, SpentInv, [Next]_vars
  PROVE  RecordInv'
<1> USE DEF IInv
<1>0. TypeOK /\ TypeOK' /\ OwnInv
  OBVIOUS
<1>1. ASSUME NEW m \in Msgs
      PROVE  Distinct(to'[m])
  <2>1. Distinct(to[m]) /\ to \in [Msgs -> Seq(Rcpts)]
    BY DEF RecordInv, TypeOK, SrcTypeOK
  <2>2. CASE \E r \in Rcpts : AddRcpt(m, r)
    <3> PICK r \in Rcpts : AddRcpt(m, r)
      BY <2>2
    <3>1. r \notin Elems(to[m]) /\ to'[m] = Append(to[m], r)
      BY <2>1 DEF AddRcpt
    <3> QED
      BY <2>1, <3>1, DistinctAppend
  <2>3. CASE ~\E r \in Rcpts : AddRcpt(m, r)
    <3>1. CASE \E n \in Msgs : Source(n)
      BY <2>1, <2>3, <3>1
       DEF Source, Start, AddRcpt, StoreHeader, StoreBody, StoreMeta,
           StoreSync, Abort, AbortRemove, Commit, CommitPush, CommitNotify
    <3>2. CASE \E w \in Workers : Tick(w) \/ Worker(w)
      BY <1>0, <2>1, <3>2, WorkerFrame
    <3>3. CASE Process \/ UNCHANGED vars
      BY <2>1, <3>3 DEF Process, Close, Exit, Crash, Die, Restart, Started,
         ReadEntry, vars, srcVars
    <3> QED
      BY <3>1, <3>2, <3>3 DEF Next
  <2> QED
    BY <2>2, <2>3
<1>2. ASSUME NEW m \in metas'
      PROVE  Recorded(m)'
  <2>0. m \in Msgs
    BY DEF TypeOK, DiskTypeOK
  <2>1. CASE \E w \in Workers : Tick(w) \/ Worker(w)
    <3> PICK w \in Workers : Tick(w) \/ Worker(w)
      BY <2>1
    <3>1. CASE Worker(w) /\ m = job[w].id
      BY <1>0, <2>0, <3>1, RecordedWorker
    <3>2. CASE Tick(w) \/ (Worker(w) /\ m # job[w].id)
      <4>1. m \in metas /\ (Tick(w) => pc[w] = "idle")
        BY <1>0, <3>2, WorkerFrame DEF Tick, Dispatch, diskVars
      <4>2. metaOf'[m] = metaOf[m]
        <5>1. metaOf \in [Msgs -> Meta]
          BY DEF TypeOK, DiskTypeOK
        <5> QED
          BY <3>2, <2>0, <5>1
           DEF Tick, Dispatch, Worker, Acquire, Open, Attempt, RcptTo, Body,
               TargetCommit, Settle, EmitDSN, UpdateMeta, Requeue,
               RemoveFromDisk, Release, TargetPanics, Recover, DiscardBroken,
               diskVars
      <4>3. Same(m)
        <5>1. ~(Attempt(w) \/ TargetCommit(w) \/ EmitDSN(w)) \/ job[w].id # m
          BY <3>2, <4>1 DEF Attempt, TargetCommit, EmitDSN
        <5> QED
          BY <1>0, <2>0, <5>1, CountFrame
      <4>4. Busy(m) => Busy(m)'
        <5>1. job[w].id = m /\ pc[w] \in InAttempt => pc'[w] \in InAttempt
          BY <3>2, <4>1 DEF InAttempt
        <5> QED
          BY <1>0, <2>0, <5>1, BusyStays
      <4> QED
        BY <1>0, <2>0, <4>1, <4>2, <4>3, <4>4, RecordedStays DEF RecordInv
    <3> QED
      BY <3>1, <3>2
  <2>2. CASE \E n \in Msgs : Source(n)
    <3> PICK n \in Msgs : Source(n)
      BY <2>2
    <3>1. Same(m)
      BY <2>0, CountFrameOther
    <3>2. UNCHANGED <<pc, job>>
      BY DEF Source, Start, AddRcpt, StoreHeader, StoreBody, StoreMeta,
             StoreSync, Abort, AbortRemove, Commit, CommitPush, CommitNotify,
             workVars
    <3>3. Busy(m)' <=> Busy(m)
      BY <3>2 DEF Busy
    <3>4. CASE StoreMeta(n) /\ n = m
      <4>1. /\ src[m] = "body"
            /\ metaOf' = [metaOf EXCEPT ![m] =
                              [to |-> to[m], tries |-> NoTries]]
        BY <3>4, <2>0 DEF StoreMeta, OwnInv
      <4>2. metaOf'[m].to = to[m] /\ metaOf'[m].tries = NoTries
        BY <2>0, <4>1 DEF TypeOK, DiskTypeOK
      <4>3. Fresh(m) /\ Distinct(to[m]) /\ to[m] \in Seq(Rcpts)
        BY <2>0, <4>1 DEF FreshInv, Private, RecordInv, TypeOK, SrcTypeOK
      <4>4. ASSUME NEW r \in Elems(to[m]), NEW e \in {0, 1}
            PROVE  Within1(m, r, 0, e)'
        <5>1. r \in Rcpts
          BY <4>3 DEF Elems
        <5>2. attempts'[m][r] = 0 /\ Outcomes(m, r)' = 0
          BY <3>1, <4>3, <5>1 DEF Same, Fresh, Outcomes
        <5>3. faults' \in Nat /\ Limit \in Nat /\ 0 < Limit
          BY BoundsAssumption DEF BoundsAssumption, TypeOK, HistTypeOK, Limit
        <5> QED
          BY <5>2, <5>3 DEF Within1
      <4>5. \A r \in Elems(to[m]) : NoTries[r] = 0
        BY <4>3 DEF Elems, NoTries
      <4>6. Distinct(metaOf'[m].to)
        BY <4>2, <4>3
      <4>7. ASSUME NEW r \in Elems(to[m])
            PROVE  Within1(m, r, metaOf[m].tries[r], IF Busy(m) THEN 1 ELSE 0)'
        <5> PICK e \in {0, 1} : e = IF Busy(m)' THEN 1 ELSE 0
          OBVIOUS
        <5>1. Within1(m, r, 0, e)' /\ metaOf'[m].tries[r] = 0
          BY <4>2, <4>4, <4>5
        <5> QED
          BY <5>1 DEF Within1, Outcomes
      <4> QED
        BY <4>2, <4>6, <4>7 DEF Recorded
    <3>5. CASE ~(StoreMeta(n) /\ n = m)
      <4>0. metaOf \in [Msgs -> Meta]
        BY DEF TypeOK, DiskTypeOK
      <4>1. m \in metas /\ metaOf'[m] = metaOf[m]
        <5>1. CASE StoreMeta(n)
          BY <2>0, <3>5, <4>0, <5>1 DEF StoreMeta
        <5>2. CASE ~StoreMeta(n)
          BY <2>0, <5>2
           DEF Source, Start, AddRcpt, StoreHeader, StoreBody, StoreSync,
               Abort, AbortRemove, RemoveMeta, Commit, CommitPush,
               CommitNotify, diskVars
        <5> QED
          BY <5>1, <5>2
      <4> QED
        BY <1>0, <2>0, <3>1, <3>3, <4>1, RecordedStays DEF RecordInv
    <3> QED
      BY <3>4, <3>5
  <2>3. CASE Process \/ UNCHANGED vars
    <3>1. Same(m)
      BY <2>0, <2>3, CountFrameOther
    <3>2. m \in metas /\ metaOf'[m] = metaOf[m]
      BY <2>3 DEF Process, Close, Exit, Crash, Die, Restart, Started,
         ReadEntry, vars, diskVars
    <3>3. (Busy(m) => Busy(m)') \/ faults' = faults + 1
      <4>1. CASE Exit
        BY <4>1 DEF Exit, WaitGroup, Busy, InAttempt
      <4>2. CASE Crash
        BY <4>2 DEF Crash, Fault
      <4>3. CASE ~Exit /\ ~Crash
        BY <2>3, <4>3 DEF Process, Close, Restart, Started, ReadEntry, vars,
           workVars, Busy
      <4> QED
        BY <4>1, <4>2, <4>3
    <3> QED
      BY <1>0, <2>0, <3>1, <3>2, <3>3, RecordedStays DEF RecordInv
  <2> QED
    BY <2>1, <2>2, <2>3 DEF Next
<1> QED
  BY <1>1, <1>2 DEF RecordInv

-----------------------------------------------------------------------------
(***************************************************************************)
(* Messages that have not been tried                                       *)
(***************************************************************************)

(* A source does not come back from the wheel.                             *)
LEMMA PrivateBefore ==
  ASSUME TypeOK, [Next]_vars, NEW m \in Msgs, src'[m] \in Private
  PROVE  src[m] \in Private
<1>1. src \in [Msgs -> SrcStates]
  BY DEF TypeOK, SrcTypeOK
<1>2. CASE \E n \in Msgs : Source(n)
  <2> PICK n \in Msgs : Source(n)
    BY <1>2
  <2> QED
    BY <1>1 DEF Source, Start, AddRcpt, StoreHeader, StoreBody, StoreMeta,
       StoreSync, Abort, AbortRemove, Commit, CommitPush, CommitNotify, Goto,
       Private
<1>3. CASE \E w \in Workers : Tick(w) \/ Worker(w)
  BY <1>3, WorkerFrame
<1>4. CASE Process \/ UNCHANGED vars
  BY <1>4 DEF Process, Close, Exit, Crash, Die, Restart, Started, ReadEntry,
     vars, srcVars, Ends, Private
<1> QED
  BY <1>2, <1>3, <1>4 DEF Next

(* Nothing is counted for a message that no goroutine owns.                *)
LEMMA SameUnowned ==
  ASSUME TypeOK, [Next]_vars, NEW m \in Msgs, \A w \in Workers : ~Owns(w, m)
  PROVE  Same(m)
<1>1. CASE \E w \in Workers : Tick(w) \/ Worker(w)
  <2> PICK w \in Workers : Tick(w) \/ Worker(w)
    BY <1>1
  <2>1. ~(Attempt(w) \/ TargetCommit(w) \/ EmitDSN(w)) \/ job[w].id # m
    BY DEF Attempt, TargetCommit, EmitDSN, Owns, Owning, WorkerStates
  <2> QED
    BY <2>1, CountFrame
<1>2. CASE ~\E w \in Workers : Tick(w) \/ Worker(w)
  BY <1>2, CountFrameOther DEF Next
<1> QED
  BY <1>1, <1>2

(* What has not been tried stays untried while nothing is counted for it.  *)
LEMMA FreshStays ==
  ASSUME NEW m \in Msgs, Fresh(m), Same(m)
  PROVE  Fresh(m)'
  BY DEF Fresh, Same, Outcomes

(* Every step keeps FreshInv: only the goroutine that owns a message       *)
(* counts for it, and a slot with the message in memory comes from Commit. *)
LEMMA FreshStep ==
  ASSUME TypeOK, TypeOK', OwnInv, PlaceInv, FreshInv, [Next]_vars
  PROVE  FreshInv'
<1>1. ASSUME NEW m \in Msgs, src[m] \in Private
      PROVE  Fresh(m)'
  <2>1. \A w \in Workers : ~Owns(w, m)
    BY <1>1 DEF OwnInv, Owns, Owning
  <2> QED
    BY <1>1, <2>1, SameUnowned, FreshStays DEF FreshInv
<1>2. ASSUME NEW m \in Msgs, src'[m] \in Private
      PROVE  Fresh(m)'
  BY <1>1, <1>2, PrivateBefore
<1>3. ASSUME NEW s \in slots', s.mem
      PROVE  Fresh(s.id)'
  <2>1. CASE s \in slots
    <3>1. s.id \in Msgs /\ \A w \in Workers : ~Owns(w, s.id)
      BY <2>1 DEF PlaceInv, TypeOK, ProcTypeOK, Slot
    <3> PICK m \in Msgs : m = s.id
      BY <3>1
    <3>2. Fresh(m)'
      BY <1>3, <2>1, <3>1, SameUnowned, FreshStays DEF FreshInv
    <3> QED
      BY <3>2 DEF Fresh, Outcomes
  <2>2. CASE s \notin slots
    <3>1. CASE \E w \in Workers : Tick(w) \/ Worker(w)
      <4> PICK w \in Workers : Tick(w) \/ Worker(w)
        BY <3>1
      <4>0. slots' \subseteq slots \cup {[id |-> job[w].id, mem |-> FALSE]}
        BY DEF Tick, Dispatch, Worker, Acquire, Open, Attempt, RcptTo, Body,
           TargetCommit, Settle, EmitDSN, UpdateMeta, Requeue,
           RemoveFromDisk, Release, TargetPanics, Recover, DiscardBroken
      <4>1. s.mem = FALSE
        BY <2>2, <4>0
      <4> QED
        BY <1>3, <4>1
    <3>2. CASE \E n \in Msgs : Source(n)
      <4> PICK n \in Msgs : Source(n)
        BY <3>2
      <4>1. src[n] = "adding" /\ s = [id |-> n, mem |-> TRUE]
        BY <2>2 DEF Source, Start, AddRcpt, StoreHeader, StoreBody, StoreMeta,
           StoreSync, Abort, AbortRemove, Commit, CommitPush, CommitNotify
      <4>2. Fresh(n)' /\ s.id = n
        BY <4>1, <1>1 DEF Private
      <4> QED
        BY <4>2 DEF Fresh, Outcomes
    <3>3. CASE Process \/ UNCHANGED vars
      <4>1. s.mem = FALSE
        BY <2>2, <3>3 DEF Process, Close, Exit, Crash, Die, Restart, Started,
           ReadEntry, vars
      <4> QED
        BY <1>3, <4>1
    <3> QED
      BY <3>1, <3>2, <3>3 DEF Next
  <2> QED
    BY <2>1, <2>2
<1> QED
  BY <1>2, <1>3 DEF FreshInv

-----------------------------------------------------------------------------
(***************************************************************************)
(* What a goroutine has spent                                              *)
(***************************************************************************)

(* The bounds hold on while nothing is counted.                            *)
LEMMA BoundsKeep ==
  ASSUME TypeOK, TypeOK', [Next]_vars, NEW m \in Msgs, Same(m)
  PROVE  /\ \A r \in Rcpts, t \in Nat : Within1(m, r, t, 0) => Within1(m, r, t, 0)'
         /\ \A r \in Rcpts, t \in Nat, d \in {0, 1} :
               Trying(m, r, t, d) => Trying(m, r, t, d)'
         /\ \A r \in Rcpts : Outcomes(m, r) <= faults =>
               Outcomes(m, r)' <= faults'
         /\ Fresh(m) => Fresh(m)'
<1>1. ASSUME NEW r \in Rcpts
      PROVE  /\ attempts[m][r] \in Nat /\ Outcomes(m, r) \in Nat
             /\ faults \in Nat /\ faults' \in Nat /\ faults' >= faults
             /\ attempts'[m][r] = attempts[m][r]
             /\ Outcomes(m, r)' = Outcomes(m, r)
  BY Numbers, FaultsGrow DEF Same, Outcomes
<1>2. \A r \in Rcpts, t \in Nat : Within1(m, r, t, 0) => Within1(m, r, t, 0)'
  BY <1>1 DEF Within1
<1>3. \A r \in Rcpts, t \in Nat, d \in {0, 1} :
         Trying(m, r, t, d) => Trying(m, r, t, d)'
  BY <1>1 DEF Trying
<1>4. \A r \in Rcpts : Outcomes(m, r) <= faults => Outcomes(m, r)' <= faults'
  BY <1>1
<1>5. Fresh(m) => Fresh(m)'
  BY FreshStays
<1> QED
  BY <1>2, <1>3, <1>4, <1>5

(* The members of the lists of a goroutine are recipients, with counters.  *)
LEMMA JobLists ==
  ASSUME NEW j \in Job
  PROVE  /\ j.to \in Seq(Rcpts) /\ j.rest \in Seq(Rcpts)
         /\ j.retry \in Seq(Rcpts) /\ j.failed \in Seq(Rcpts)
         /\ Elems(j.to) \subseteq Rcpts /\ Elems(j.rest) \subseteq Rcpts
         /\ Elems(j.retry) \subseteq Rcpts /\ Elems(j.failed) \subseteq Rcpts
         /\ \A r \in Rcpts : j.tries[r] \in Nat
         /\ j.acc \subseteq Rcpts /\ j.sent \subseteq Rcpts
         /\ j.errs \in [Rcpts -> Errors \cup {"none"}]
  BY DEF Job, Elems

(* A goroutine that stands still has spent the same.                       *)
LEMMA SpentStays ==
  ASSUME TypeOK, TypeOK', [Next]_vars, NEW p, NEW j \in Job, j.id \in Msgs,
         Same(j.id), Spent(p, j)
  PROVE  Spent(p, j)'
<1> PICK m \in Msgs : m = j.id
  OBVIOUS
<1>1. /\ \A r \in Rcpts, t \in Nat : Within1(m, r, t, 0) => Within1(m, r, t, 0)'
      /\ \A r \in Rcpts, t \in Nat, d \in {0, 1} :
            Trying(m, r, t, d) => Trying(m, r, t, d)'
      /\ \A r \in Rcpts : Outcomes(m, r) <= faults => Outcomes(m, r)' <= faults'
      /\ Fresh(m) => Fresh(m)'
  BY BoundsKeep
<1>2. /\ Elems(j.to) \subseteq Rcpts /\ Elems(j.rest) \subseteq Rcpts
      /\ Elems(j.retry) \subseteq Rcpts /\ Elems(j.failed) \subseteq Rcpts
      /\ \A r \in Rcpts : j.tries[r] \in Nat
  BY JobLists
<1>3. \A r : (IF j.errs[r] = "none" THEN 1 ELSE 0) \in {0, 1}
  OBVIOUS
<1>4. p = "attempt" => \A r \in Elems(j.to) : Within1(m, r, j.tries[r], 0)'
  BY <1>1, <1>2 DEF Spent
<1>5. p \in {"rcpt", "body", "commit"} =>
        \A r \in Elems(j.to) : Trying(m, r, j.tries[r], 0)'
  BY <1>1, <1>2 DEF Spent
<1>6. p = "settle" => \A r \in Elems(j.rest) :
        Trying(m, r, j.tries[r], IF j.errs[r] = "none" THEN 1 ELSE 0)'
  BY <1>1, <1>2, <1>3 DEF Spent
<1>7. p \in {"settle", "dsn"} =>
        \A r \in Elems(j.failed) : Outcomes(m, r)' <= faults'
  BY <1>1, <1>2 DEF Spent
<1>8. p \in {"settle", "dsn", "update"} =>
        \A r \in Elems(j.retry) : Within1(m, r, j.tries[r], 0)'
  BY <1>1, <1>2 DEF Spent
<1> QED
  BY <1>1, <1>4, <1>5, <1>6, <1>7, <1>8 DEF Spent

(* A goroutine that has given the message up has nothing to account for.   *)
LEMMA SpentNothing ==
  ASSUME NEW p, NEW j, p \notin {"queued", "open", "attempt", "rcpt", "body",
                                 "commit", "settle", "dsn", "update"}
  PROVE  Spent(p, j)'
  BY DEF Spent

(* From the rigid form to the state of the goroutine.                      *)
LEMMA SpentAfter ==
  ASSUME NEW w \in Workers, NEW s, NEW k, pc'[w] = s, job'[w] = k,
         Spent(s, k)'
  PROVE  Spent(pc[w], job[w])'
  BY DEF Spent, Within1, Trying, Outcomes, Fresh

(* Another goroutine's account is not touched.                             *)
LEMMA SpentOther ==
  ASSUME TypeOK, TypeOK', PlaceInv, SpentInv, [Next]_vars, NEW v \in Workers,
         pc'[v] = pc[v], job'[v] = job[v],
         \/ \E w \in Workers \ {v} : Tick(w) \/ Worker(w)
         \/ (\E m \in Msgs : Source(m)) \/ Process \/ UNCHANGED vars
  PROVE  Spent(pc[v], job[v])'
<1> PICK p : p = pc[v]
  OBVIOUS
<1> PICK j : j = job[v]
  OBVIOUS
<1>1. CASE p \in Owning
  <2>1. j \in Job /\ j.id \in Msgs /\ Spent(p, j)
    BY <1>1 DEF TypeOK, WorkTypeOK, Owning, SpentInv
  <2>2. Same(j.id)
    <3>1. CASE \E w \in Workers \ {v} : Tick(w) \/ Worker(w)
      <4> PICK w \in Workers \ {v} : Tick(w) \/ Worker(w)
        BY <3>1
      <4>1. ~(Attempt(w) \/ TargetCommit(w) \/ EmitDSN(w)) \/ job[w].id # j.id
        BY <1>1 DEF PlaceInv, Attempt, TargetCommit, EmitDSN, Owns, Owning,
           WorkerStates
      <4> QED
        BY <2>1, <4>1, CountFrame
    <3>2. CASE (\E m \in Msgs : Source(m)) \/ Process \/ UNCHANGED vars
      BY <2>1, <3>2, CountFrameOther
    <3> QED
      BY <3>1, <3>2
  <2>3. Spent(p, j)'
    BY <2>1, <2>2, SpentStays
  <2> QED
    BY <2>3, SpentAfter
<1>2. CASE p \notin Owning
  <2>1. Spent(p, j)'
    BY <1>2, SpentNothing DEF Owning, WorkerStates
  <2> QED
    BY <2>1, SpentAfter
<1> QED
  BY <1>1, <1>2

(* What is known of a goroutine that acts.                                 *)
LEMMA SpentNow ==
  ASSUME TypeOK, SpentInv, NEW w \in Workers, pc[w] # "idle", NEW j,
         j = job[w]
  PROVE  /\ j \in Job /\ j.id \in Msgs /\ Spent(pc[w], j)
         /\ j.to \in Seq(Rcpts) /\ j.rest \in Seq(Rcpts)
         /\ j.retry \in Seq(Rcpts) /\ j.failed \in Seq(Rcpts)
         /\ Elems(j.to) \subseteq Rcpts /\ Elems(j.rest) \subseteq Rcpts
         /\ Elems(j.retry) \subseteq Rcpts /\ Elems(j.failed) \subseteq Rcpts
         /\ \A r \in Rcpts : j.tries[r] \in Nat
         /\ j.acc \subseteq Rcpts /\ j.sent \subseteq Rcpts
         /\ j.errs \in [Rcpts -> Errors \cup {"none"}]
<1>1. j \in Job /\ j.id \in Msgs /\ Spent(pc[w], j)
  BY DEF TypeOK, WorkTypeOK, SpentInv
<1> QED
  BY <1>1, JobLists

(* A goroutine is started for a slot.                                      *)
LEMMA SpentTick ==
  ASSUME TypeOK, TypeOK', FreshInv, [Next]_vars, NEW w \in Workers, Tick(w)
  PROVE  Spent(pc[w], job[w])'
<1> PICK s \in slots : Dispatch(w, s)
  BY DEF Tick
<1> PICK k : k = [NoJob EXCEPT !.id = s.id, !.mem = s.mem]
  OBVIOUS
<1>1. pc'[w] = "queued" /\ job'[w] = k
  BY DEF Dispatch, Move, TypeOK, WorkTypeOK
<1>2. /\ k.id = s.id /\ k.mem = s.mem /\ k.errs = NoErrs /\ k.acc = {}
      /\ k.retry = <<>> /\ k.failed = <<>>
  BY DEF NoJob
<1>3. k.id \in Msgs /\ k.mem \in BOOLEAN
  BY <1>2 DEF TypeOK, ProcTypeOK, Slot
<1>4. k.mem => Fresh(k.id)'
  <2>1. Same(k.id)
    BY <1>3, CountFrame DEF Dispatch, Attempt, TargetCommit, EmitDSN
  <2> QED
    BY <1>2, <1>3, <2>1, FreshStays DEF FreshInv
<1>5. Spent("queued", k)'
  BY <1>2, <1>4 DEF Spent
<1> QED
  BY <1>1, <1>5, SpentAfter

(* The message is opened: in the slot it is new, and nobody is in the      *)
(* middle of an attempt that the file does not know of.                    *)
LEMMA SpentOpen ==
  ASSUME TypeOK, TypeOK', PlaceInv, RecordInv, SpentInv,
         [Next]_vars, NEW w \in Workers, Open(w)
  PROVE  Spent(pc[w], job[w])'
<1> PICK j : j = job[w]
  OBVIOUS
<1>0. pc[w] = "open" /\ Worker(w)
  BY DEF Open, Worker
<1>1. /\ j \in Job /\ j.id \in Msgs
      /\ j.mem => Fresh(j.id)
      /\ j.errs = NoErrs /\ j.acc = {} /\ j.retry = <<>> /\ j.failed = <<>>
  BY <1>0, SpentNow DEF Spent
<1> PICK m \in Msgs : m = j.id
  BY <1>1
<1>2. Same(m)
  BY <1>0, <1>1, CountFrame DEF Attempt, TargetCommit, EmitDSN
<1>3. /\ Limit \in Nat /\ 0 < Limit
      /\ faults \in Nat /\ faults' \in Nat /\ faults' >= faults
  BY FaultsGrow, BoundsAssumption DEF BoundsAssumption, Limit
<1>4. \/ /\ pc'[w] = "release"
      \/ /\ pc'[w] = "attempt" /\ j.mem
         /\ job'[w] = [j EXCEPT !.to = to[m], !.tries = NoTries]
      \/ /\ pc'[w] = "attempt" /\ m \in metas
         /\ job'[w] = [j EXCEPT !.to = metaOf[m].to, !.tries = metaOf[m].tries]
  BY DEF Open, Begin, Move, TypeOK, WorkTypeOK
<1>5. CASE pc'[w] = "release"
  <2> PICK k : k = job'[w]
    OBVIOUS
  <2> QED
    BY <1>5, SpentNothing, SpentAfter
<1>6. CASE /\ pc'[w] = "attempt" /\ j.mem
           /\ job'[w] = [j EXCEPT !.to = to[m], !.tries = NoTries]
  <2> PICK k : k = job'[w]
    OBVIOUS
  <2>1. /\ k.id = m /\ k.to = to[m] /\ k.tries = NoTries
        /\ k.errs = NoErrs /\ k.acc = {} /\ k.retry = <<>> /\ k.failed = <<>>
    BY <1>1, <1>6 DEF Job
  <2>2. Distinct(to[m]) /\ Elems(to[m]) \subseteq Rcpts
    BY DEF RecordInv, TypeOK, SrcTypeOK, Elems
  <2>3. Fresh(m)'
    BY <1>1, <1>2, <1>6, FreshStays
  <2>4. ASSUME NEW r \in Elems(to[m])
        PROVE  Within1(m, r, 0, 0)' /\ NoTries[r] = 0
    BY <1>3, <2>2, <2>3 DEF Fresh, Within1, Outcomes, NoTries
  <2>5. Spent("attempt", k)'
    BY <2>1, <2>2, <2>4 DEF Spent
  <2> QED
    BY <1>6, <2>5, SpentAfter
<1>7. CASE /\ pc'[w] = "attempt" /\ m \in metas
           /\ job'[w] = [j EXCEPT !.to = metaOf[m].to, !.tries = metaOf[m].tries]
  <2> PICK k : k = job'[w]
    OBVIOUS
  <2> PICK mm : mm = metaOf[m]
    OBVIOUS
  <2>1. /\ k.id = m /\ k.to = mm.to /\ k.tries = mm.tries
        /\ k.errs = NoErrs /\ k.acc = {} /\ k.retry = <<>> /\ k.failed = <<>>
    BY <1>1, <1>7 DEF Job
  <2>2. ~Busy(m)
    <3>1. Owns(w, m) /\ pc[w] \notin InAttempt
      BY <1>0 DEF Owns, Owning, WorkerStates, InAttempt
    <3>2. \A v \in Workers : pc[v] \in InAttempt /\ job[v].id = m => v = w
      BY <3>1 DEF PlaceInv, Owning, WorkerStates, InAttempt
    <3> QED
      BY <3>1, <3>2 DEF Busy
  <2>3. /\ Distinct(mm.to)
        /\ \A r \in Elems(mm.to) : Within1(m, r, mm.tries[r], 0)
    BY <1>7, <2>2 DEF RecordInv, Recorded
  <2>4. Elems(mm.to) \subseteq Rcpts /\ \A r \in Rcpts : mm.tries[r] \in Nat
    BY DEF TypeOK, DiskTypeOK, Meta, Elems
  <2>5. \A r \in Elems(mm.to) : Within1(m, r, mm.tries[r], 0)'
    BY <1>2, <2>3, <2>4, BoundsKeep
  <2>6. Spent("attempt", k)'
    BY <2>1, <2>3, <2>5 DEF Spent
  <2> QED
    BY <1>7, <2>6, SpentAfter
<1> QED
  BY <1>4, <1>5, <1>6, <1>7

(* deliver is over: everybody who was tried is looked at, with at most the *)
(* one outcome of a recipient without an error.                            *)
LEMMA SpentExamine ==
  ASSUME TypeOK, TypeOK', NEW w \in Workers, NEW j \in Job, j = job[w],
         NEW errs, errs \in [Rcpts -> Errors \cup {"none"}],
         Distinct(j.to), j.retry = <<>>, j.failed = <<>>,
         \A r \in Elems(j.to) :
            Trying(j.id, r, j.tries[r], IF errs[r] = "none" THEN 1 ELSE 0)',
         pc'[w] = "settle",
         job' = [job EXCEPT ![w] = Examine(w, errs)]
  PROVE  Spent(pc[w], job[w])'
<1> PICK k : k = Examine(w, errs)
  OBVIOUS
<1>1. job'[w] = k
  BY DEF TypeOK, WorkTypeOK
<1>2. /\ k.id = j.id /\ k.rest = j.to /\ k.tries = j.tries /\ k.errs = errs
      /\ k.retry = <<>> /\ k.failed = <<>>
  BY DEF Examine, Job
<1>3. Elems(<<>>) = {} /\ Distinct(<<>>)
  BY DEF Elems, Distinct
<1>4. Spent("settle", k)'
  BY <1>2, <1>3 DEF Spent
<1> QED
  BY <1>1, <1>4, SpentAfter

(* target.Start: one more attempt for everybody on the list.               *)
LEMMA SpentAttempt ==
  ASSUME TypeOK, TypeOK', SpentInv, [Next]_vars, NEW w \in Workers, Attempt(w)
  PROVE  Spent(pc[w], job[w])'
<1> PICK j : j = job[w]
  OBVIOUS
<1>0. pc[w] = "attempt"
  BY DEF Attempt
<1>1. /\ j \in Job /\ j.id \in Msgs /\ Elems(j.to) \subseteq Rcpts
      /\ \A r \in Rcpts : j.tries[r] \in Nat
      /\ j.errs = NoErrs /\ j.acc = {} /\ j.retry = <<>> /\ j.failed = <<>>
      /\ Distinct(j.to)
      /\ \A r \in Elems(j.to) : Within1(j.id, r, j.tries[r], 0)
  BY <1>0, SpentNow DEF Spent
<1> PICK m \in Msgs : m = j.id
  BY <1>1
<1>2. ASSUME NEW r \in Elems(j.to), NEW d \in {0, 1}
      PROVE  Trying(m, r, j.tries[r], d)'
  <2>1. attempts' = Count(attempts, m, Elems(j.to))
    BY DEF Attempt
  <2>2. r \in Rcpts /\ j.tries[r] \in Nat
    BY <1>1
  <2>3. attempts'[m][r] = attempts[m][r] + 1
    <3>1. attempts \in [Msgs -> [Rcpts -> Nat]]
      BY DEF TypeOK, HistTypeOK
    <3> QED
      BY <2>1, <2>2, <3>1, CountIs
  <2>4. Outcomes(m, r)' = Outcomes(m, r) /\ faults' = faults
    BY DEF Attempt, Outcomes, faultVars
  <2>5. attempts[m][r] \in Nat /\ Outcomes(m, r) \in Nat /\ faults \in Nat
    BY <2>2, Numbers
  <2>6. Within1(m, r, j.tries[r], 0)
    BY <1>1
  <2> QED
    BY <2>2, <2>3, <2>4, <2>5, <2>6 DEF Within1, Trying
<1>3. CASE pc'[w] = "rcpt" /\ job' = [job EXCEPT ![w].rest = job[w].to]
  <2> PICK k : k = job'[w]
    OBVIOUS
  <2>1. /\ k.id = m /\ k.to = j.to /\ k.tries = j.tries /\ k.errs = j.errs
        /\ k.acc = {} /\ k.retry = <<>> /\ k.failed = <<>> /\ k.rest = j.to
    BY <1>1, <1>3 DEF Job, TypeOK, WorkTypeOK
  <2>2. \A r \in Elems(j.to) : j.errs[r] = "none"
    BY <1>1 DEF NoErrs
  <2>3. Spent("rcpt", k)'
    BY <1>1, <1>2, <2>1, <2>2 DEF Spent
  <2> QED
    BY <1>3, <2>3, SpentAfter
<1>4. CASE pc'[w] = "settle"
  <2> PICK e \in Errors : job' = [job EXCEPT ![w] = Examine(w,
                            [r \in Rcpts |-> IF r \in Elems(j.to) THEN e ELSE "none"])]
    BY <1>4 DEF Attempt, Move, TypeOK, WorkTypeOK
  <2> PICK errs : errs = [r \in Rcpts |-> IF r \in Elems(j.to) THEN e ELSE "none"]
    OBVIOUS
  <2>1. errs \in [Rcpts -> Errors \cup {"none"}]
    OBVIOUS
  <2> QED
    BY <1>1, <1>2, <1>4, <2>1, SpentExamine
<1> QED
  BY <1>3, <1>4 DEF Attempt, Move, TypeOK, WorkTypeOK

(* One recipient has been named to the target, or all of them have.        *)
LEMMA SpentRcpt ==
  ASSUME TypeOK, TypeOK', SpentInv, [Next]_vars, NEW w \in Workers, RcptTo(w)
  PROVE  Spent(pc[w], job[w])'
<1> PICK j : j = job[w]
  OBVIOUS
<1>0. pc[w] = "rcpt" /\ Worker(w)
  BY DEF RcptTo, Worker
<1>1. /\ j \in Job /\ j.id \in Msgs /\ j.rest \in Seq(Rcpts)
      /\ Elems(j.to) \subseteq Rcpts /\ Elems(j.rest) \subseteq Rcpts
      /\ \A r \in Rcpts : j.tries[r] \in Nat
      /\ j.errs \in [Rcpts -> Errors \cup {"none"}] /\ j.acc \subseteq Rcpts
      /\ Spent("rcpt", j)
  BY <1>0, SpentNow
<1>2. /\ j.retry = <<>> /\ j.failed = <<>> /\ Distinct(j.to)
      /\ j.acc \subseteq Elems(j.to) /\ Distinct(j.rest)
      /\ \A r \in j.acc : j.errs[r] = "none"
      /\ \A r \in Elems(j.rest) :
            r \in Elems(j.to) /\ r \notin j.acc /\ j.errs[r] = "none"
      /\ \A r \in Elems(j.to) : Trying(j.id, r, j.tries[r], 0)
  BY <1>1 DEF Spent
<1> PICK m \in Msgs : m = j.id
  BY <1>1
<1>3. Same(m)
  BY <1>0, CountFrame DEF Attempt, TargetCommit, EmitDSN
<1>4. ASSUME NEW r \in Elems(j.to), NEW d \in {0, 1}
      PROVE  Trying(m, r, j.tries[r], d)'
  <2>1. r \in Rcpts /\ j.tries[r] \in Nat
    BY <1>1
  <2>2. Trying(m, r, j.tries[r], 0)'
    BY <1>2, <1>3, <2>1, BoundsKeep
  <2>3. Outcomes(m, r)' \in Nat /\ faults' \in Nat
    <3>1. Outcomes(m, r) \in Nat /\ Outcomes(m, r)' = Outcomes(m, r)
      BY <1>3, <2>1, Numbers DEF Same, Outcomes
    <3> QED
      BY <3>1, FaultsGrow
  <2> QED
    BY <2>2, <2>3 DEF Trying
<1>5. CASE j.rest # <<>>
  <2> PICK h : h = Head(j.rest)
    OBVIOUS
  <2> PICK k : k = job'[w]
    OBVIOUS
  <2>1. /\ h \in Rcpts /\ h \in Elems(j.rest)
        /\ Elems(j.rest) = {h} \cup Elems(Tail(j.rest))
        /\ Distinct(Tail(j.rest)) /\ h \notin Elems(Tail(j.rest))
    BY <1>1, <1>2, <1>5, ElemsTail, DistinctTail
  <2>2. pc'[w] = "rcpt"
    BY <1>5 DEF RcptTo
  <2>3. \/ k = RcptOK(j, h)
        \/ \E e \in Errors : k = RcptFails(j, h, e)
    BY <1>5 DEF RcptTo, TypeOK, WorkTypeOK
  <2>4. /\ k.id = m /\ k.to = j.to /\ k.tries = j.tries
        /\ k.retry = <<>> /\ k.failed = <<>> /\ k.rest = Tail(j.rest)
        /\ k.acc \subseteq j.acc \cup {h}
        /\ \A r \in Rcpts : r # h => k.errs[r] = j.errs[r]
        /\ h \in k.acc => k.errs[h] = "none"
    <3>1. CASE k = RcptOK(j, h)
      BY <1>1, <1>2, <2>1, <3>1 DEF RcptOK, Job
    <3>2. CASE \E e \in Errors : k = RcptFails(j, h, e)
      <4> PICK e \in Errors : k = RcptFails(j, h, e)
        BY <3>2
      <4>1. /\ k.id = j.id /\ k.to = j.to /\ k.rest = Tail(j.rest)
            /\ k.tries = j.tries /\ k.retry = j.retry /\ k.failed = j.failed
            /\ k.acc = j.acc /\ k.errs = [j.errs EXCEPT ![h] = e]
        BY <1>1 DEF RcptFails, Job
      <4> QED
        BY <1>1, <1>2, <2>1, <4>1
    <3> QED
      BY <2>3, <3>1, <3>2
  <2>5. k.acc \subseteq Elems(j.to) /\ \A r \in k.acc : k.errs[r] = "none"
    BY <1>1, <1>2, <2>1, <2>4
  <2>6. \A r \in Elems(k.rest) :
           r \in Elems(j.to) /\ r \notin k.acc /\ k.errs[r] = "none"
    BY <1>1, <1>2, <2>1, <2>4
  <2>7. Spent("rcpt", k)'
    BY <1>2, <1>4, <2>1, <2>4, <2>5, <2>6 DEF Spent
  <2> QED
    BY <2>2, <2>7, SpentAfter
<1>6. CASE j.rest = <<>> /\ j.acc = {}
  <2>1. pc'[w] = "settle" /\ job' = [job EXCEPT ![w] = Examine(w, j.errs)]
    BY <1>6 DEF RcptTo, Move, TypeOK, WorkTypeOK
  <2> PICK errs : errs = j.errs
    OBVIOUS
  <2> QED
    BY <1>1, <1>2, <1>4, <2>1, SpentExamine
<1>7. CASE j.rest = <<>> /\ j.acc # {}
  <2>1. pc'[w] = "body" /\ job'[w] = j
    BY <1>7 DEF RcptTo, Move, TypeOK, WorkTypeOK
  <2>2. Spent("body", j)'
    BY <1>2, <1>4 DEF Spent
  <2> QED
    BY <2>1, <2>2, SpentAfter
<1> QED
  BY <1>5, <1>6, <1>7

(* The body has been passed on: nobody has an outcome yet.                 *)
LEMMA SpentBody ==
  ASSUME TypeOK, TypeOK', SpentInv, [Next]_vars, NEW w \in Workers, Body(w)
  PROVE  Spent(pc[w], job[w])'
<1> PICK j : j = job[w]
  OBVIOUS
<1>0. pc[w] = "body" /\ Worker(w)
  BY DEF Body, Worker
<1>1. /\ j \in Job /\ j.id \in Msgs /\ Elems(j.to) \subseteq Rcpts
      /\ \A r \in Rcpts : j.tries[r] \in Nat
      /\ j.errs \in [Rcpts -> Errors \cup {"none"}] /\ j.acc \subseteq Rcpts
      /\ Spent("body", j)
  BY <1>0, SpentNow
<1>2. /\ j.retry = <<>> /\ j.failed = <<>> /\ Distinct(j.to)
      /\ j.acc \subseteq Elems(j.to)
      /\ \A r \in j.acc : j.errs[r] = "none"
      /\ \A r \in Elems(j.to) : Trying(j.id, r, j.tries[r], 0)
  BY <1>1 DEF Spent
<1> PICK m \in Msgs : m = j.id
  BY <1>1
<1>3. Same(m)
  BY <1>0, CountFrame DEF Attempt, TargetCommit, EmitDSN
<1>4. ASSUME NEW r \in Elems(j.to), NEW d \in {0, 1}
      PROVE  Trying(m, r, j.tries[r], d)'
  <2>1. r \in Rcpts /\ j.tries[r] \in Nat
    BY <1>1
  <2>2. Trying(m, r, j.tries[r], 0)'
    BY <1>2, <1>3, <2>1, BoundsKeep
  <2>3. Outcomes(m, r)' \in Nat /\ faults' \in Nat
    <3>1. Outcomes(m, r) \in Nat /\ Outcomes(m, r)' = Outcomes(m, r)
      BY <1>3, <2>1, Numbers DEF Same, Outcomes
    <3> QED
      BY <3>1, FaultsGrow
  <2> QED
    BY <2>2, <2>3 DEF Trying
<1> DEFINE errsOf(st) == [r \in Rcpts |-> IF r \in job[w].acc /\ st[r] # "none"
                                         THEN st[r] ELSE job[w].errs[r]]
           sentOf(st) == {r \in job[w].acc : st[r] = "none"}
<1> PICK status \in [job[w].acc -> Errors \cup {"none"}] :
      IF \A r \in job[w].acc : errsOf(status)[r] # "none"
      THEN /\ Move(w, "settle")
           /\ job' = [job EXCEPT ![w] = Examine(w, errsOf(status))]
      ELSE /\ Move(w, "commit")
           /\ job' = [job EXCEPT ![w] = [@ EXCEPT !.errs = errsOf(status),
                                                 !.sent = sentOf(status)]]
  BY Zenon DEF Body
<1> PICK errs : errs = errsOf(status)
  OBVIOUS
<1>5. errs \in [Rcpts -> Errors \cup {"none"}]
  BY <1>1
<1>6. CASE /\ Move(w, "settle")
           /\ job' = [job EXCEPT ![w] = Examine(w, errs)]
  <2>1. pc'[w] = "settle"
    BY <1>6 DEF Move, TypeOK, WorkTypeOK
  <2> QED
    BY <1>1, <1>2, <1>4, <1>5, <1>6, <2>1, SpentExamine
<1>7. CASE /\ Move(w, "commit")
           /\ job' = [job EXCEPT ![w] = [@ EXCEPT !.errs = errs,
                                                 !.sent = sentOf(status)]]
  <2> PICK k : k = job'[w]
    OBVIOUS
  <2>1. /\ pc'[w] = "commit" /\ k.id = m /\ k.to = j.to /\ k.tries = j.tries /\ k.acc = j.acc
        /\ k.retry = <<>> /\ k.failed = <<>> /\ k.errs = errs
        /\ k.sent = sentOf(status)
    BY <1>1, <1>2, <1>7 DEF Job, Move, TypeOK, WorkTypeOK
  <2>2. \A r \in k.sent : r \in k.acc /\ k.errs[r] = "none"
    BY <1>1, <1>2, <2>1
  <2>3. Spent("commit", k)'
    BY <1>2, <1>4, <2>1, <2>2 DEF Spent
  <2> QED
    BY <2>1, <2>3, SpentAfter
<1> QED
  BY <1>6, <1>7

(* Commit: an outcome for those without an error, and for others only with *)
(* a fault.                                                                *)
LEMMA SpentCommit ==
  ASSUME TypeOK, TypeOK', SpentInv, [Next]_vars, NEW w \in Workers,
         TargetCommit(w)
  PROVE  Spent(pc[w], job[w])'
<1> PICK j : j = job[w]
  OBVIOUS
<1>0. pc[w] = "commit" /\ pc'[w] = "settle"
  BY DEF TargetCommit, Move, TypeOK, WorkTypeOK
<1>1. /\ j \in Job /\ j.id \in Msgs /\ Elems(j.to) \subseteq Rcpts
      /\ \A r \in Rcpts : j.tries[r] \in Nat
      /\ j.errs \in [Rcpts -> Errors \cup {"none"}] /\ j.acc \subseteq Rcpts
      /\ Spent("commit", j)
  BY <1>0, SpentNow
<1>2. /\ j.retry = <<>> /\ j.failed = <<>> /\ Distinct(j.to)
      /\ \A r \in Elems(j.to) : Trying(j.id, r, j.tries[r], 0)
      /\ \A r \in j.sent : r \in j.acc /\ j.errs[r] = "none"
  BY <1>1 DEF Spent
<1> PICK m \in Msgs : m = j.id
  BY <1>1
<1>3. attempts' = attempts /\ dsn' = dsn
  BY DEF TargetCommit
<1>4. ASSUME NEW r \in Elems(j.to), NEW d \in {0, 1},
             delivered'[m][r] + dsn[m][r] <= faults' + d
      PROVE  Trying(m, r, j.tries[r], d)'
  <2>1. r \in Rcpts /\ j.tries[r] \in Nat /\ Trying(m, r, j.tries[r], 0)
    BY <1>1, <1>2
  <2>2. attempts[m][r] \in Nat /\ faults \in Nat /\ faults' \in Nat
        /\ faults' >= faults
    BY <2>1, Numbers, FaultsGrow
  <2> QED
    BY <1>3, <1>4, <2>1, <2>2 DEF Trying, Outcomes
<1>5. ASSUME NEW r \in Elems(j.to)
      PROVE  /\ r \in Rcpts
             /\ delivered[m][r] \in Nat /\ dsn[m][r] \in Nat /\ faults \in Nat
             /\ delivered[m][r] + dsn[m][r] <= faults
  <2>1. r \in Rcpts /\ Trying(m, r, j.tries[r], 0)
    BY <1>1, <1>2
  <2> QED
    BY <2>1, Numbers DEF Trying, Outcomes
<1>6. delivered \in [Msgs -> [Rcpts -> Nat]]
  BY DEF TypeOK, HistTypeOK
<1>7. CASE /\ delivered' = Count(delivered, m, j.sent)
           /\ job' = [job EXCEPT ![w] = Examine(w, j.errs)]
           /\ faults' = faults
  <2>1. ASSUME NEW r \in Elems(j.to)
        PROVE  delivered'[m][r] + dsn[m][r] <=
                   faults' + (IF j.errs[r] = "none" THEN 1 ELSE 0)
    <3>1. delivered'[m][r] = IF r \in j.sent THEN delivered[m][r] + 1
                                             ELSE delivered[m][r]
      BY <1>5, <1>6, <1>7, CountIs
    <3> QED
      BY <1>2, <1>5, <1>7, <3>1
  <2>2. \A r \in Elems(j.to) :
           Trying(m, r, j.tries[r], IF j.errs[r] = "none" THEN 1 ELSE 0)'
    BY <1>4, <2>1
  <2> PICK errs : errs = j.errs
    OBVIOUS
  <2> QED
    BY <1>0, <1>1, <1>2, <1>7, <2>2, SpentExamine
<1>8. ASSUME NEW e \in Errors,
             job' = [job EXCEPT ![w] = Examine(w,
                 [r \in Rcpts |-> IF r \in j.acc THEN e ELSE j.errs[r]])],
             \/ delivered' = delivered /\ faults' = faults
             \/ \E some \in SUBSET j.sent :
                   /\ delivered' = Count(delivered, m, some)
                   /\ faults' = faults + 1
      PROVE  Spent(pc[w], job[w])'
  <2> PICK errs : errs = [r \in Rcpts |-> IF r \in j.acc THEN e ELSE j.errs[r]]
    OBVIOUS
  <2>1. errs \in [Rcpts -> Errors \cup {"none"}]
    BY <1>1
  <2>2. ASSUME NEW r \in Elems(j.to)
        PROVE  delivered'[m][r] + dsn[m][r] <= faults'
    <3>1. CASE delivered' = delivered /\ faults' = faults
      BY <1>5, <3>1
    <3>2. CASE \E some \in SUBSET j.sent :
                   /\ delivered' = Count(delivered, m, some)
                   /\ faults' = faults + 1
      <4> PICK some \in SUBSET j.sent : /\ delivered' = Count(delivered, m, some)
                                        /\ faults' = faults + 1
        BY <3>2
      <4>1. delivered'[m][r] = IF r \in some THEN delivered[m][r] + 1
                                             ELSE delivered[m][r]
        BY <1>5, <1>6, CountIs
      <4> QED
        BY <1>5, <4>1
    <3> QED
      BY <1>8, <3>1, <3>2
  <2>3. ASSUME NEW r \in Elems(j.to), NEW d \in {0, 1}
        PROVE  Trying(m, r, j.tries[r], d)'
    <3>1. delivered'[m][r] + dsn[m][r] <= faults' + d
      <4>1. delivered'[m][r] \in Nat /\ dsn[m][r] \in Nat /\ faults' \in Nat
        BY <1>5, FaultsGrow DEF TypeOK, HistTypeOK
      <4> QED
        BY <2>2, <4>1
    <3> QED
      BY <1>4, <3>1
  <2>4. job' = [job EXCEPT ![w] = Examine(w, errs)]
    BY <1>8
  <2> QED
    BY <1>0, <1>1, <1>2, <2>1, <2>3, <2>4, SpentExamine
<1> QED
  BY <1>7, <1>8 DEF TargetCommit, Fault, NoFault, faultVars

(* One more recipient is looked at, or all have been.                      *)
LEMMA SpentSettle ==
  ASSUME TypeOK, TypeOK', SpentInv, [Next]_vars, NEW w \in Workers, Settle(w)
  PROVE  Spent(pc[w], job[w])'
<1> PICK j : j = job[w]
  OBVIOUS
<1>0. pc[w] = "settle" /\ Worker(w)
  BY DEF Settle, Worker
<1>1. /\ j \in Job /\ j.id \in Msgs /\ j.rest \in Seq(Rcpts)
      /\ j.retry \in Seq(Rcpts) /\ j.failed \in Seq(Rcpts)
      /\ Elems(j.rest) \subseteq Rcpts /\ Elems(j.retry) \subseteq Rcpts
      /\ Elems(j.failed) \subseteq Rcpts
      /\ \A r \in Rcpts : j.tries[r] \in Nat
      /\ Spent("settle", j)
  BY <1>0, SpentNow
<1> PICK m \in Msgs : m = j.id
  BY <1>1
<1>2. Same(m)
  BY <1>0, CountFrame DEF Attempt, TargetCommit, EmitDSN
<1>3. Spent("settle", j)'
  BY <1>1, <1>2, SpentStays
<1>4. CASE j.rest = <<>>
  <2>1. job'[w] = j /\ pc'[w] \in {"dsn", "update", "rmHeader"}
    BY <1>4 DEF Settle, Conclude, Move, TypeOK, WorkTypeOK
  <2> PICK p : p = pc'[w]
    OBVIOUS
  <2>2. Spent(p, j)'
    BY <1>3, <2>1 DEF Spent
  <2> QED
    BY <2>1, <2>2, SpentAfter
<1>5. CASE j.rest # <<>>
  <2> PICK h : h = Head(j.rest)
    OBVIOUS
  <2> PICK k : k = job'[w]
    OBVIOUS
  <2>1. /\ h \in Rcpts /\ h \in Elems(j.rest)
        /\ Elems(j.rest) = {h} \cup Elems(Tail(j.rest))
        /\ h \notin Elems(Tail(j.rest))
        /\ Distinct(Tail(j.rest))
    BY <1>1, <1>3, <1>5, ElemsTail, DistinctTail DEF Spent
  <2>2. /\ \A r \in Elems(j.rest) :
              /\ r \notin Elems(j.retry) /\ r \notin Elems(j.failed)
              /\ Trying(m, r, j.tries[r], IF j.errs[r] = "none" THEN 1 ELSE 0)'
        /\ \A r \in Elems(j.failed) :
              r \notin Elems(j.retry) /\ Outcomes(m, r)' <= faults'
        /\ Distinct(j.retry)
        /\ \A r \in Elems(j.retry) : Within1(m, r, j.tries[r], 0)'
    BY <1>3 DEF Spent
  <2>3. pc'[w] = "settle"
    BY <1>5 DEF Settle
  <2>4. /\ Elems(Append(j.retry, h)) = Elems(j.retry) \cup {h}
        /\ Elems(Append(j.failed, h)) = Elems(j.failed) \cup {h}
        /\ Distinct(Append(j.retry, h))
    BY <1>1, <2>1, <2>2, ElemsAppend, DistinctAppend
  <2>5. CASE k = Done(j)
    <3>1. /\ k.id = m /\ k.rest = Tail(j.rest) /\ k.tries = j.tries
          /\ k.errs = j.errs /\ k.retry = j.retry /\ k.failed = j.failed
      BY <1>1, <2>5 DEF Done, Job
    <3>2. Spent("settle", k)'
      BY <2>1, <2>2, <3>1 DEF Spent
    <3> QED
      BY <2>3, <3>2, SpentAfter
  <2>6. CASE k = Failed(j, h) /\ j.errs[h] # "none"
    <3>1. /\ k.id = m /\ k.rest = Tail(j.rest) /\ k.errs = j.errs
          /\ k.retry = j.retry /\ k.failed = Append(j.failed, h)
          /\ k.tries = [j.tries EXCEPT ![h] = 0]
      BY <1>1, <2>6 DEF Failed, Job
    <3>2. \A r \in Rcpts : r # h => k.tries[r] = j.tries[r]
      BY <1>1, <3>1 DEF Job
    <3>3. Outcomes(m, h)' <= faults'
      <4>1. Trying(m, h, j.tries[h], 0)'
        BY <2>1, <2>2, <2>6
      <4>2. Outcomes(m, h)' \in Nat /\ faults' \in Nat
        BY <2>1, Numbers, FaultsGrow DEF Same, Outcomes, TypeOK, HistTypeOK
      <4> QED
        BY <4>1, <4>2 DEF Trying
    <3>4. \A r \in Elems(k.rest) :
             /\ r \notin Elems(k.retry) /\ r \notin Elems(k.failed)
             /\ Trying(m, r, k.tries[r], IF k.errs[r] = "none" THEN 1 ELSE 0)'
      BY <1>1, <2>1, <2>2, <2>4, <3>1, <3>2
    <3>5. \A r \in Elems(k.failed) :
             r \notin Elems(k.retry) /\ Outcomes(m, r)' <= faults'
      BY <2>1, <2>2, <2>4, <3>1, <3>3
    <3>6. \A r \in Elems(k.retry) : Within1(m, r, k.tries[r], 0)'
      BY <1>1, <2>1, <2>2, <3>1, <3>2
    <3>7. Spent("settle", k)'
      BY <2>1, <2>2, <3>1, <3>4, <3>5, <3>6 DEF Spent
    <3> QED
      BY <2>3, <3>7, SpentAfter
  <2>7. CASE k = Again(j, h) /\ j.errs[h] # "none" /\ ~GiveUp(w, h)
    <3>1. /\ k.id = m /\ k.rest = Tail(j.rest) /\ k.errs = j.errs
          /\ k.retry = Append(j.retry, h) /\ k.failed = j.failed
      BY <1>1, <1>5, <2>1, <2>7, AgainJob
    <3>2. k.tries = [j.tries EXCEPT ![h] = @ + 1]
      BY <1>1, <2>7 DEF Again, Job
    <3>3. /\ \A r \in Rcpts : r # h => k.tries[r] = j.tries[r]
          /\ k.tries[h] = j.tries[h] + 1 /\ j.tries[h] \in Nat
      BY <1>1, <2>1, <3>2 DEF Job
    <3>4. Within1(m, h, k.tries[h], 0)'
      <4>1. Trying(m, h, j.tries[h], 0)'
        BY <2>1, <2>2, <2>7
      <4>2. Limit \in Nat /\ j.tries[h] + 1 < Limit
        BY <2>7, <3>3, BoundsAssumption DEF BoundsAssumption, GiveUp, Limit
      <4>3. attempts'[m][h] \in Nat /\ faults' \in Nat
        BY <2>1, FaultsGrow DEF TypeOK, HistTypeOK
      <4> QED
        BY <3>3, <4>1, <4>2, <4>3 DEF Trying, Within1
    <3>5. \A r \in Elems(k.rest) :
             /\ r \notin Elems(k.retry) /\ r \notin Elems(k.failed)
             /\ Trying(m, r, k.tries[r], IF k.errs[r] = "none" THEN 1 ELSE 0)'
      BY <1>1, <2>1, <2>2, <2>4, <3>1, <3>3
    <3>6. \A r \in Elems(k.failed) :
             r \notin Elems(k.retry) /\ Outcomes(m, r)' <= faults'
      BY <2>1, <2>2, <2>4, <3>1
    <3>7. \A r \in Elems(k.retry) : Within1(m, r, k.tries[r], 0)'
      BY <1>1, <2>1, <2>2, <2>4, <3>1, <3>3, <3>4
    <3>8. Spent("settle", k)'
      BY <2>1, <2>2, <2>4, <3>1, <3>5, <3>6, <3>7 DEF Spent
    <3> QED
      BY <2>3, <3>8, SpentAfter
  <2> QED
    BY <1>5, <2>5, <2>6, <2>7 DEF Settle, TypeOK, WorkTypeOK
<1> QED
  BY <1>4, <1>5

(* The bounce is one outcome for those that failed, who are not among      *)
(* those to try again.                                                     *)
LEMMA SpentDSN ==
  ASSUME TypeOK, TypeOK', SpentInv, [Next]_vars, NEW w \in Workers, EmitDSN(w)
  PROVE  Spent(pc[w], job[w])'
<1> PICK j : j = job[w]
  OBVIOUS
<1>0. /\ pc[w] = "dsn" /\ job'[w] = j /\ attempts' = attempts
      /\ delivered' = delivered
      /\ pc'[w] \in {"update", "rmHeader"}
  BY DEF EmitDSN, Conclude, Move, TypeOK, WorkTypeOK
<1>1. /\ j \in Job /\ j.id \in Msgs
      /\ Elems(j.retry) \subseteq Rcpts /\ Elems(j.failed) \subseteq Rcpts
      /\ \A r \in Rcpts : j.tries[r] \in Nat
      /\ Spent("dsn", j)
  BY <1>0, SpentNow
<1> PICK m \in Msgs : m = j.id
  BY <1>1
<1>2. dsn' = dsn \/ dsn' = Count(dsn, m, Elems(j.failed))
  BY DEF EmitDSN
<1>3. ASSUME NEW r \in Elems(j.retry)
      PROVE  Within1(m, r, j.tries[r], 0)'
  <2>1. /\ r \in Rcpts /\ r \notin Elems(j.failed)
        /\ Within1(m, r, j.tries[r], 0) /\ j.tries[r] \in Nat
    BY <1>1 DEF Spent
  <2>2. dsn'[m][r] = dsn[m][r]
    <3>1. dsn \in [Msgs -> [Rcpts -> Nat]]
      BY DEF TypeOK, HistTypeOK
    <3>2. Count(dsn, m, Elems(j.failed))[m][r] = dsn[m][r]
      BY <2>1, <3>1, CountIs
    <3> QED
      BY <1>2, <3>2
  <2>3. /\ Outcomes(m, r)' = Outcomes(m, r) /\ Outcomes(m, r) \in Nat
        /\ attempts[m][r] \in Nat
        /\ faults \in Nat /\ faults' \in Nat /\ faults' >= faults
    <3>1. Outcomes(m, r)' = Outcomes(m, r)
      BY <1>0, <2>2 DEF Outcomes
    <3> QED
      BY <2>1, <3>1, Numbers, FaultsGrow
  <2> QED
    BY <1>0, <2>1, <2>3 DEF Within1
<1>4. Distinct(j.retry)
  BY <1>1 DEF Spent
<1> PICK p : p = pc'[w]
  OBVIOUS
<1>5. Spent(p, j)'
  BY <1>0, <1>3, <1>4 DEF Spent
<1> QED
  BY <1>0, <1>5, SpentAfter

(* Every step keeps every goroutine's account.                             *)
LEMMA SpentStep ==
  ASSUME TypeOK, TypeOK', PlaceInv, RecordInv, FreshInv,
         SpentInv, [Next]_vars
  PROVE  SpentInv'
<1> SUFFICES ASSUME NEW v \in Workers
             PROVE  Spent(pc[v], job[v])'
  BY DEF SpentInv
<1>1. CASE Tick(v) \/ Worker(v)
  <2>1. CASE Tick(v)
    BY <2>1, SpentTick
  <2>2. CASE Open(v)
    BY <2>2, SpentOpen
  <2>3. CASE Attempt(v)
    BY <2>3, SpentAttempt
  <2>4. CASE RcptTo(v)
    BY <2>4, SpentRcpt
  <2>5. CASE Body(v)
    BY <2>5, SpentBody
  <2>6. CASE TargetCommit(v)
    BY <2>6, SpentCommit
  <2>7. CASE Settle(v)
    BY <2>7, SpentSettle
  <2>8. CASE EmitDSN(v)
    BY <2>8, SpentDSN
  <2>9. CASE Acquire(v)
    <3> PICK j : j = job[v]
      OBVIOUS
    <3>1. pc[v] = "queued" /\ pc'[v] = "open" /\ job'[v] = j /\ Worker(v)
      BY <2>9 DEF Acquire, Move, Worker, TypeOK, WorkTypeOK
    <3>2. j \in Job /\ j.id \in Msgs /\ Spent("queued", j)
      BY <3>1, SpentNow
    <3>3. Same(j.id)
      BY <3>1, <3>2, CountFrame DEF Attempt, TargetCommit, EmitDSN
    <3>4. Spent("queued", j)'
      BY <3>2, <3>3, SpentStays
    <3>5. Spent("open", j)'
      BY <3>4 DEF Spent
    <3> QED
      BY <3>1, <3>5, SpentAfter
  <2>10. CASE UpdateMeta(v) \/ Requeue(v) \/ RemoveFromDisk(v) \/ Release(v)
              \/ TargetPanics(v) \/ Recover(v) \/ DiscardBroken(v)
    <3> PICK p : p = pc'[v]
      OBVIOUS
    <3> PICK j : j = job'[v]
      OBVIOUS
    <3>1. p \notin {"queued", "open", "attempt", "rcpt", "body", "commit",
                    "settle", "dsn", "update"}
      BY <2>10
       DEF UpdateMeta, Requeue, RemoveFromDisk, Release, TargetPanics, Recover,
           DiscardBroken, Move, TypeOK, WorkTypeOK
    <3> QED
      BY <3>1, SpentNothing, SpentAfter
  <2> QED
    BY <1>1, <2>1, <2>2, <2>3, <2>4, <2>5, <2>6, <2>7, <2>8, <2>9, <2>10
     DEF Worker
<1>2. CASE \E w \in Workers \ {v} : Tick(w) \/ Worker(w)
  <2>1. pc'[v] = pc[v] /\ job'[v] = job[v]
    BY <1>2, WorkerFrame
  <2> QED
    BY <1>2, <2>1, SpentOther
<1>3. CASE (\E m \in Msgs : Source(m)) \/ UNCHANGED vars
  <2>1. UNCHANGED <<pc, job>>
    BY <1>3 DEF Source, Start, AddRcpt, StoreHeader, StoreBody, StoreMeta,
       StoreSync, Abort, AbortRemove, Commit, CommitPush, CommitNotify,
       workVars, vars
  <2> QED
    BY <1>3, <2>1, SpentOther
<1>4. CASE Process
  <2>1. CASE Exit \/ Crash
    <3> PICK j : j = job'[v]
      OBVIOUS
    <3>1. pc'[v] = "idle"
      BY <2>1 DEF Exit, Crash, Die
    <3>2. Spent("idle", j)'
      BY SpentNothing
    <3> QED
      BY <3>1, <3>2, SpentAfter
  <2>2. CASE ~(Exit \/ Crash)
    <3>1. UNCHANGED <<pc, job>>
      BY <1>4, <2>2 DEF Process, Close, Restart, Started, ReadEntry, workVars
    <3> QED
      BY <1>4, <3>1, SpentOther
  <2> QED
    BY <2>1, <2>2
<1> QED
  BY <1>1, <1>2, <1>3, <1>4 DEF Next

-----------------------------------------------------------------------------
(***************************************************************************)
(* The bounds                                                              *)
(***************************************************************************)

(* What is counted in a step is within the bounds, by the account of the   *)
(* goroutine that counts it.                                               *)
LEMMA CountStep ==
  ASSUME TypeOK, TypeOK', SpentInv, CountInv, [Next]_vars
  PROVE  CountInv'
<1>0. faults \in Nat /\ faults' \in Nat /\ faults' >= faults /\ Limit \in Nat
  BY FaultsGrow, BoundsAssumption DEF BoundsAssumption, Limit
<1> SUFFICES ASSUME NEW m \in Msgs, NEW r \in Rcpts
             PROVE  /\ attempts'[m][r] <= Limit + faults'
                    /\ delivered'[m][r] + dsn'[m][r] <= 1 + faults'
  BY DEF CountInv, OneOutcome
<1>1. /\ attempts[m][r] \in Nat /\ delivered[m][r] \in Nat /\ dsn[m][r] \in Nat
      /\ attempts[m][r] <= Limit + faults
      /\ delivered[m][r] + dsn[m][r] <= 1 + faults
  BY Numbers DEF CountInv, OneOutcome
<1>2. CASE Same(m)
  BY <1>0, <1>1, <1>2 DEF Same
<1>3. ASSUME NEW w \in Workers, job[w].id = m,
             Attempt(w) \/ TargetCommit(w) \/ EmitDSN(w)
      PROVE  /\ attempts'[m][r] <= Limit + faults'
             /\ delivered'[m][r] + dsn'[m][r] <= 1 + faults'
  <2> PICK j : j = job[w]
    OBVIOUS
  <2>0. pc[w] # "idle"
    BY <1>3 DEF Attempt, TargetCommit, EmitDSN
  <2>1. /\ Spent(pc[w], j) /\ \A q \in Rcpts : j.tries[q] \in Nat
        /\ Elems(j.to) \subseteq Rcpts
    BY <2>0, SpentNow
  <2>2. /\ attempts \in [Msgs -> [Rcpts -> Nat]]
        /\ delivered \in [Msgs -> [Rcpts -> Nat]]
        /\ dsn \in [Msgs -> [Rcpts -> Nat]]
    BY DEF TypeOK, HistTypeOK
  <2>3. CASE Attempt(w)
    <3>1. /\ attempts' = Count(attempts, m, Elems(j.to)) /\ pc[w] = "attempt"
          /\ delivered' = delivered /\ dsn' = dsn
      BY <1>3, <2>3 DEF Attempt
    <3>2. attempts'[m][r] = IF r \in Elems(j.to) THEN attempts[m][r] + 1
                                                 ELSE attempts[m][r]
      BY <2>2, <3>1, CountIs
    <3>3. r \in Elems(j.to) => Within1(m, r, j.tries[r], 0)
      BY <1>3, <2>1, <3>1 DEF Spent
    <3> QED
      BY <1>0, <1>1, <2>1, <3>1, <3>2, <3>3 DEF Within1
  <2>4. CASE TargetCommit(w)
    <3>1. /\ attempts' = attempts /\ dsn' = dsn /\ pc[w] = "commit"
          /\ \/ delivered' = delivered
             \/ \E S \in SUBSET j.sent : delivered' = Count(delivered, m, S)
      BY <1>3, <2>4 DEF TargetCommit
    <3>2. ASSUME r \in j.sent
          PROVE  delivered[m][r] + dsn[m][r] <= faults
      <4>1. r \in Elems(j.to) /\ Trying(m, r, j.tries[r], 0)
        BY <1>3, <2>1, <3>1, <3>2 DEF Spent
      <4> QED
        BY <1>0, <1>1, <4>1 DEF Trying, Outcomes
    <3>3. CASE delivered' = delivered
      BY <1>0, <1>1, <3>1, <3>3
    <3>4. ASSUME NEW S \in SUBSET j.sent, delivered' = Count(delivered, m, S)
          PROVE  delivered'[m][r] + dsn'[m][r] <= 1 + faults'
      <4>1. delivered'[m][r] = IF r \in S THEN delivered[m][r] + 1
                                          ELSE delivered[m][r]
        BY <2>2, <3>4, CountIs
      <4> QED
        BY <1>0, <1>1, <3>1, <3>2, <4>1
    <3> QED
      BY <1>0, <1>1, <3>1, <3>3, <3>4
  <2>5. CASE EmitDSN(w)
    <3>1. /\ attempts' = attempts /\ delivered' = delivered /\ pc[w] = "dsn"
          /\ dsn' = dsn \/ dsn' = Count(dsn, m, Elems(j.failed))
      BY <1>3, <2>5 DEF EmitDSN
    <3>2. r \in Elems(j.failed) => delivered[m][r] + dsn[m][r] <= faults
      BY <1>3, <2>1, <3>1 DEF Spent, Outcomes
    <3>3. Count(dsn, m, Elems(j.failed))[m][r] =
             IF r \in Elems(j.failed) THEN dsn[m][r] + 1 ELSE dsn[m][r]
      BY <2>2, CountIs
    <3>4. dsn'[m][r] = dsn[m][r] \/
             (r \in Elems(j.failed) /\ dsn'[m][r] = dsn[m][r] + 1)
      BY <3>1, <3>3
    <3> QED
      BY <1>0, <1>1, <3>1, <3>2, <3>4
  <2> QED
    BY <1>3, <2>3, <2>4, <2>5
<1>4. Same(m) \/ \E w \in Workers : /\ job[w].id = m
                                    /\ Attempt(w) \/ TargetCommit(w) \/ EmitDSN(w)
  <2>1. CASE \E w \in Workers : Tick(w) \/ Worker(w)
    BY <2>1, CountFrame
  <2>2. CASE ~\E w \in Workers : Tick(w) \/ Worker(w)
    BY <2>2, CountFrameOther DEF Next
  <2> QED
    BY <2>1, <2>2
<1> QED
  BY <1>2, <1>3, <1>4

(* The invariant holds at first: nothing is anywhere.                      *)
LEMMA OutcomeInit == Init => OInv
<1> SUFFICES ASSUME Init PROVE OInv
  OBVIOUS
<1>1. PlaceInv
  BY DEF Init, PlaceInv, Owns, Owning
<1>2. RecordInv
  BY DEF Init, RecordInv, Distinct
<1>3. FreshInv
  BY DEF Init, FreshInv, Fresh, Outcomes, NoTries
<1>4. SpentInv
  BY DEF Init, SpentInv, Spent
<1>5. CountInv
  BY BoundsAssumption DEF Init, CountInv, OneOutcome, NoTries,
     BoundsAssumption, Limit
<1> QED
  BY <1>1, <1>2, <1>3, <1>4, <1>5 DEF OInv

(* The invariant holds for ever when no source passes an address twice.    *)
LEMMA OutcomeInvariance ==
  ASSUME ~Repeats
  PROVE  Spec => []OInv
<1>1. IInv /\ IInv' /\ OInv /\ [Next]_vars => OInv'
  <2> SUFFICES ASSUME IInv, IInv', OInv, [Next]_vars PROVE OInv'
    OBVIOUS
  <2>1. /\ TypeOK /\ TypeOK' /\ OwnInv
        /\ PlaceInv /\ RecordInv /\ FreshInv /\ SpentInv /\ CountInv
    BY DEF IInv, OInv
  <2>2. PlaceInv'
    BY <2>1, PlaceStep
  <2>3. RecordInv'
    BY <2>1, RecordStep
  <2>4. FreshInv'
    BY <2>1, FreshStep
  <2>5. SpentInv'
    BY <2>1, SpentStep
  <2>6. CountInv'
    BY <2>1, CountStep
  <2> QED
    BY <2>2, <2>3, <2>4, <2>5, <2>6 DEF OInv
<1> QED
  BY <1>1, OutcomeInit, Invariance, PTL DEF Spec

(* No recipient is tried more than max_tries times, but for one attempt    *)
(* for each fault, whatever the target answers and however often the queue *)
(* is stopped and started.  The two hypotheses are needed: of an address   *)
(* that AddRcpt was given twice the second occurrence starts from zero     *)
(* when the first is given up, and with max_tries 0 tryDelivery makes one  *)
(* attempt before it looks at the limit.                                   *)
THEOREM AttemptsHold ==
  ASSUME ~Repeats, MaxTries # 0
  PROVE  Spec => []AttemptsBounded
<1>1. OInv => AttemptsBounded
  BY DEF OInv, CountInv, AttemptsBounded, Limit
<1> QED
  BY <1>1, OutcomeInvariance, PTL

(* No recipient is delivered to twice, bounced twice, or delivered to and  *)
(* bounced, but for one more outcome for each fault.  An address that was  *)
(* passed twice can be bounced and tried again.                            *)
THEOREM OneOutcomeHolds ==
  ASSUME ~Repeats
  PROVE  Spec => []OneOutcome
<1>1. OInv => OneOutcome
  BY DEF OInv, CountInv
<1> QED
  BY <1>1, OutcomeInvariance, PTL

-----------------------------------------------------------------------------
(***************************************************************************)
(* Aborted messages                                                        *)
(***************************************************************************)

(* The way of a source through Abort, and what a file that is still there  *)
(* after its removal has cost.                                             *)
LEMMA AbortPath ==
  ASSUME TypeOK, [Next]_vars, NEW m \in Msgs
  PROVE  /\ src'[m] \in Private \cup Aborting =>
               src[m] \in Private \cup Aborting
         /\ src'[m] = "abortBody" =>
               \/ src[m] = "abortBody"
               \/ /\ src[m] = "abortHeader"
                  /\ m \in headers' => faults' = faults + 1
         /\ src'[m] = "abortMeta" =>
               \/ src[m] = "abortMeta"
               \/ /\ src[m] = "abortBody" /\ headers' = headers
                  /\ m \in bodies' => faults' = faults + 1
         /\ src'[m] = "aborted" =>
               \/ src[m] = "aborted"
               \/ src[m] = "rcpt" /\ metas' = metas /\ boot' = boot
               \/ /\ src[m] = "abortMeta" /\ UNCHANGED <<headers, bodies, boot>>
                  /\ m \in metas' => faults' = faults + 1
<1>1. src \in [Msgs -> SrcStates]
  BY DEF TypeOK, SrcTypeOK
<1>2. CASE Source(m)
  <2>1. CASE AbortRemove(m)
    BY <1>1, <2>1 DEF AbortRemove, RemoveHeader, RemoveBody, RemoveMeta, Fault,
       Goto, Private, Aborting, procVars
  <2>2. CASE ~AbortRemove(m)
    BY <1>1, <1>2, <2>2
     DEF Source, Start, AddRcpt, StoreHeader, StoreBody, StoreMeta, StoreSync,
         Abort, Commit, CommitPush, CommitNotify, Goto, Private, Aborting,
         diskVars, procVars
  <2> QED
    BY <2>1, <2>2
<1>3. ASSUME NEW n \in Msgs, n # m, Source(n)
      PROVE  src'[m] = src[m]
  BY <1>1, <1>3
   DEF Source, Start, AddRcpt, StoreHeader, StoreBody, StoreMeta, StoreSync,
       Abort, AbortRemove, Commit, CommitPush, CommitNotify, Goto
<1>4. CASE \E w \in Workers : Tick(w) \/ Worker(w)
  BY <1>4, WorkerFrame
<1>5. CASE Process \/ UNCHANGED vars
  <2>1. src'[m] = src[m] \/ src'[m] = "lost"
    BY <1>5 DEF Process, Close, Exit, Crash, Die, Restart, Started, ReadEntry,
       vars, srcVars
  <2> QED
    BY <2>1 DEF Private, Aborting
<1> QED
  BY <1>2, <1>3, <1>4, <1>5 DEF Next

(* Only the source of a message writes its header and its body, and only   *)
(* the source or a goroutine that has the message its meta-data; and only  *)
(* these, and readDiskQueue, remove the last.                              *)
LEMMA FilesFrom ==
  ASSUME TypeOK, [Next]_vars, NEW m \in Msgs,
         src[m] \notin {"rcpt", "header", "body"}
  PROVE  /\ m \in headers' => m \in headers
         /\ m \in bodies' => m \in bodies
         /\ m \in metas' =>
               \/ m \in metas
               \/ \E w \in Workers : pc[w] # "idle" /\ job[w].id = m
         /\ m \in metas /\ m \notin metas' /\ src[m] # "abortMeta" =>
               \/ \E w \in Workers : pc[w] # "idle" /\ job[w].id = m
               \/ m \notin boot'
<1>1. CASE \E w \in Workers : Tick(w) \/ Worker(w)
  <2> PICK w \in Workers : Tick(w) \/ Worker(w)
    BY <1>1
  <2>1. headers' \subseteq headers /\ bodies' \subseteq bodies
    BY DEF Tick, Dispatch, Worker, Acquire, Open, Attempt, RcptTo, Body,
       TargetCommit, Settle, EmitDSN, UpdateMeta, Requeue, RemoveFromDisk,
       RemoveHeader, RemoveBody, RemoveMeta, Release, TargetPanics, Recover,
       DiscardBroken, diskVars
  <2>2. m \in metas' /\ m \notin metas => pc[w] # "idle" /\ job[w].id = m
    BY WorkerFrame
  <2>3. m \in metas /\ m \notin metas' => pc[w] # "idle" /\ job[w].id = m
    BY DEF Tick, Dispatch, Worker, Acquire, Open, Attempt, RcptTo, Body,
       TargetCommit, Settle, EmitDSN, UpdateMeta, Requeue, RemoveFromDisk,
       RemoveHeader, RemoveBody, RemoveMeta, Release, TargetPanics, Recover,
       DiscardBroken, diskVars
  <2> QED
    BY <2>1, <2>2, <2>3
<1>2. CASE \E n \in Msgs : Source(n)
  <2> PICK n \in Msgs : Source(n)
    BY <1>2
  <2> QED
    BY DEF Source, Start, AddRcpt, StoreHeader, StoreBody, StoreMeta,
       StoreSync, Abort, AbortRemove, RemoveHeader, RemoveBody, RemoveMeta,
       Commit, CommitPush, CommitNotify, diskVars
<1>3. CASE Process \/ UNCHANGED vars
  BY <1>3 DEF Process, Close, Exit, Crash, Die, Restart, Started, ReadEntry,
     vars, diskVars
<1> QED
  BY <1>1, <1>2, <1>3 DEF Next

(* A message stays hidden unless its source pushes it or the start finds   *)
(* its files complete.                                                     *)
LEMMA HiddenStays ==
  ASSUME TypeOK, [Next]_vars, NEW m \in Msgs, Hidden(m),
         src'[m] # "pushed" \/ src[m] # "adding",
         m \notin boot \/ m \notin headers \cap bodies
  PROVE  Hidden(m)'
<1>1. \A w \in Workers : ~Owns(w, m)
  BY DEF Hidden, Owns, Owning
<1>2. \A r \in Rcpts : attempts'[m][r] = 0
  BY <1>1, SameUnowned DEF Hidden, Same
<1>3. \A s \in slots' : s.id # m
  <2>1. CASE \E w \in Workers : Tick(w) \/ Worker(w)
    BY <2>1, WorkerFrame DEF Hidden
  <2>2. CASE \E n \in Msgs : Source(n)
    <3> PICK n \in Msgs : Source(n)
      BY <2>2
    <3>1. \/ slots' = slots
          \/ /\ src[n] = "adding" /\ src'[n] = "pushed"
             /\ slots' = slots \cup {[id |-> n, mem |-> TRUE]}
      BY DEF Source, Start, AddRcpt, StoreHeader, StoreBody, StoreMeta,
         StoreSync, Abort, AbortRemove, Commit, CommitPush, CommitNotify,
         Goto, TypeOK, SrcTypeOK
    <3> QED
      BY <3>1 DEF Hidden
  <2>3. CASE Process \/ UNCHANGED vars
    <3>1. slots' \subseteq slots \/ \E n \in Msgs :
             /\ n \in boot /\ n \in headers \cap bodies
             /\ slots' = slots \cup {[id |-> n, mem |-> FALSE]}
      BY <2>3 DEF Process, Close, Exit, Crash, Die, Restart, Started,
         ReadEntry, vars
    <3> QED
      BY <3>1 DEF Hidden
  <2> QED
    BY <2>1, <2>2, <2>3 DEF Next
<1>4. \A w \in Workers : pc'[w] # "idle" => job'[w].id # m
  <2>1. CASE \E w \in Workers : Tick(w) \/ Worker(w)
    BY <2>1, WorkerFrame DEF Hidden
  <2>2. CASE \E n \in Msgs : Source(n)
    <3>1. UNCHANGED <<pc, job>>
      BY <2>2 DEF Source, Start, AddRcpt, StoreHeader, StoreBody, StoreMeta,
         StoreSync, Abort, AbortRemove, Commit, CommitPush, CommitNotify,
         workVars
    <3> QED
      BY <3>1 DEF Hidden
  <2>3. CASE Process \/ UNCHANGED vars
    <3>1. UNCHANGED <<pc, job>> \/ \A w \in Workers : pc'[w] = "idle"
      BY <2>3 DEF Process, Close, Exit, Crash, Die, Restart, Started,
         ReadEntry, vars, workVars
    <3> QED
      BY <3>1 DEF Hidden
  <2> QED
    BY <2>1, <2>2, <2>3 DEF Next
<1> QED
  BY <1>2, <1>3, <1>4 DEF Hidden

(* Entries appear when the directory is listed, and nowhere else.          *)
LEMMA BootFrom ==
  ASSUME TypeOK, [Next]_vars, NEW m \in Msgs, m \in boot'
  PROVE  m \in boot \/ (proc = "down" /\ m \in metas /\ metas' = metas)
<1>1. CASE \E w \in Workers : Tick(w) \/ Worker(w)
  BY <1>1, WorkerFrame
<1>2. CASE \E n \in Msgs : Source(n)
  BY <1>2 DEF Source, Start, AddRcpt, StoreHeader, StoreBody, StoreMeta,
     StoreSync, Abort, AbortRemove, Commit, CommitPush, CommitNotify, procVars
<1>3. CASE Process \/ UNCHANGED vars
  BY <1>3 DEF Process, Close, Exit, Crash, Die, Restart, Started, ReadEntry,
     vars, procVars, diskVars
<1> QED
  BY <1>1, <1>2, <1>3 DEF Next

(* Every step keeps AbortInv.                                              *)
LEMMA AbortStep ==
  ASSUME TypeOK, TypeOK', OwnInv, OwnInv', AbortInv, [Next]_vars
  PROVE  AbortInv'
<1>0. faults \in Nat /\ faults' \in Nat /\ faults' >= faults
  BY FaultsGrow
<1> SUFFICES ASSUME NEW m \in Msgs
             PROVE
        /\ src'[m] \in Private \cup Aborting => m \notin boot' /\ Hidden(m)'
        /\ src'[m] \in {"new", "rcpt"} => m \notin metas'
        /\ src'[m] = "abortBody" /\ m \in headers' => faults' >= 1
        /\ src'[m] = "abortMeta" /\ m \in headers' \cap bodies' => faults' >= 2
        /\ src'[m] = "aborted" /\ m \in headers' \cap bodies' \cap metas' =>
              faults' >= 3
        /\ src'[m] = "aborted" /\ faults' < 3 =>
              Hidden(m)' /\ (m \in boot' => m \in metas')
  BY DEF AbortInv
<1>1. /\ src[m] \in Private \cup Aborting => m \notin boot /\ Hidden(m)
      /\ src[m] \in {"new", "rcpt"} => m \notin metas
      /\ src[m] = "abortBody" /\ m \in headers => faults >= 1
      /\ src[m] = "abortMeta" /\ m \in headers \cap bodies => faults >= 2
      /\ src[m] = "aborted" /\ m \in headers \cap bodies \cap metas =>
            faults >= 3
      /\ src[m] = "aborted" /\ faults < 3 =>
            Hidden(m) /\ (m \in boot => m \in metas)
  BY DEF AbortInv
<1>2. ASSUME src'[m] \in Private \cup Aborting
      PROVE  m \notin boot' /\ Hidden(m)'
  <2>1. m \notin boot /\ Hidden(m) /\ src[m] \in Private \cup Aborting
    BY <1>1, <1>2, AbortPath
  <2>2. m \notin boot'
    <3>1. proc = "down" => src[m] = "new"
      BY <2>1 DEF OwnInv, Ends, Private, Aborting
    <3> QED
      BY <1>1, <2>1, <3>1, BootFrom
  <2>3. src'[m] # "pushed"
    BY <1>2 DEF Private, Aborting
  <2> QED
    BY <2>1, <2>2, <2>3, HiddenStays
<1>3. src'[m] \in {"new", "rcpt"} => m \notin metas'
  BY DEF OwnInv
<1>4. src'[m] = "abortBody" /\ m \in headers' => faults' >= 1
  BY <1>0, <1>1, AbortPath, FilesFrom
<1>5. src'[m] = "abortMeta" /\ m \in headers' \cap bodies' => faults' >= 2
  BY <1>0, <1>1, AbortPath, FilesFrom
<1>6. src[m] = "aborted" /\ faults < 3 =>
         /\ m \notin headers \cap bodies \cap metas
         /\ ~\E w \in Workers : pc[w] # "idle" /\ job[w].id = m
  BY <1>0, <1>1 DEF Hidden
<1>7. src'[m] = "aborted" /\ m \in headers' \cap bodies' \cap metas' =>
         faults' >= 3
  <2> SUFFICES ASSUME src'[m] = "aborted", m \in headers' \cap bodies' \cap metas',
                      faults < 3
               PROVE  faults' >= 3
    BY <1>0
  <2> QED
    BY <1>0, <1>1, <1>6, AbortPath, FilesFrom
<1>8. ASSUME src'[m] = "aborted", faults' < 3
      PROVE  Hidden(m)' /\ (m \in boot' => m \in metas')
  <2>0. faults < 3
    BY <1>0, <1>8
  <2>1. CASE src[m] = "aborted"
    <3>1. /\ Hidden(m) /\ (m \in boot => m \in metas)
          /\ m \notin boot \/ m \notin headers \cap bodies
      BY <1>1, <1>6, <2>0, <2>1
    <3>2. Hidden(m)'
      BY <2>1, <3>1, HiddenStays
    <3>3. m \in boot' => m \in metas'
      BY <1>6, <2>0, <2>1, <3>1, BootFrom, FilesFrom
    <3> QED
      BY <3>2, <3>3
  <2>2. CASE src[m] # "aborted"
    <3>1. src[m] \in {"rcpt", "abortMeta"} /\ boot' = boot
      BY <1>8, <2>2, AbortPath
    <3>2. m \notin boot /\ Hidden(m)
      BY <1>1, <3>1 DEF Private, Aborting
    <3> QED
      BY <3>1, <3>2, HiddenStays
  <2> QED
    BY <2>1, <2>2
<1> QED
  BY <1>2, <1>3, <1>4, <1>5, <1>7, <1>8

(* Nothing of a message whose source called Abort is ever attempted, not   *)
(* after a crash or a restart either, unless the removals of all three     *)
(* files failed - for every configuration, with repeated addresses too.    *)
THEOREM AbortedHolds == Spec => []AbortedNotDelivered
<1>1. Init => AbortInv
  BY DEF Init, AbortInv, Hidden, Private, Aborting, NoTries
<1>2. IInv /\ IInv' /\ AbortInv /\ [Next]_vars => AbortInv'
  BY AbortStep DEF IInv
<1>3. AbortInv => AbortedNotDelivered
  BY DEF AbortInv, AbortedNotDelivered, Hidden
<1> QED
  BY <1>1, <1>2, <1>3, Invariance, PTL DEF Spec

-----------------------------------------------------------------------------
(***************************************************************************)
(* The time wheel under the queue, for any set of Add calls and any bound  *)
(* on the clock.                                                           *)
(***************************************************************************)

\* An Add call in one of these states has put its slot in the list.
WheelEntered == {"pushed", "done", "panicked"}

(* The list holds one slot per Add call that has entered and was not       *)
(* dispatched, with the call's target time.                                *)
WheelSlotsInv ==
    /\ \A s \in list : /\ adder[s.value] \in WheelEntered
                       /\ s.value \notin dispatched
                       /\ s.time = target[s.value]
                       /\ s.order <= pushes
    /\ \A s, t \in list : s.value = t.value => s = t
    /\ \A a \in dispatched : adder[a] \in WheelEntered
    /\ \A a \in Adders : adder[a] \in WheelEntered =>
            a \in dispatched \/ \E s \in list : s.value = a

(* While tick waits for a slot, the slot is in the list, it is the first   *)
(* of those with its time, and no slot whose Add has returned is earlier.  *)
WheelWaitInv ==
    tick = "wait" =>
        \E c \in list :
            /\ closest = {c}
            /\ \A t \in list : t # c =>
                    /\ t.time = c.time => c.order < t.order
                    /\ adder[t.value] = "done" => c.time <= t.time

(* tick answers Close before the channel is closed and then is gone.       *)
WheelCloseInv == closer \in {"acked", "closed"} => tick = "done"

WheelInv == WheelTypeOK /\ WheelSlotsInv /\ WheelWaitInv /\ WheelCloseInv

-----------------------------------------------------------------------------
(* Type correctness of the wheel: every variable stays in its domain.      *)
THEOREM WheelTypeCorrect == WheelSpec => []WheelTypeOK
<1>1. WheelInit => WheelTypeOK
  <2>1. 0 \in Times
    BY MaxTimeAssumption DEF Times
  <2>2. WheelInit => stopped \in BOOLEAN
    BY DEF WheelInit
  <2>3. WheelInit => list \subseteq TimeSlot /\ closest \subseteq TimeSlot
    BY DEF WheelInit
  <2> QED
    BY <2>1, <2>2, <2>3 DEF WheelInit, WheelTypeOK
<1>2. WheelTypeOK /\ [WheelNext]_wheelVars => WheelTypeOK'
  <2> SUFFICES ASSUME WheelTypeOK, [WheelNext]_wheelVars PROVE WheelTypeOK'
    OBVIOUS
  <2> USE DEF WheelTypeOK
  <2>1. CASE \E a \in Adders : Add(a)
    <3> PICK a \in Adders : Add(a)
      BY <2>1
    <3>1. CASE AddCheck(a)
      BY <3>1 DEF AddCheck
    <3>2. CASE AddPush(a)
      BY <3>2 DEF AddPush, TimeSlot
    <3>3. CASE AddNotify(a)
      BY <3>3 DEF AddNotify
    <3>4. CASE AddPanic(a)
      BY <3>4 DEF AddPanic
    <3> QED
      BY <3>1, <3>2, <3>3, <3>4 DEF Add
  <2>2. CASE TickScan
    BY <2>2 DEF TickScan
  <2>3. CASE TickFire
    BY <2>3 DEF TickFire, TimeSlot
  <2>4. CASE WheelClose
    BY <2>4 DEF WheelClose, CloseStore, StopRequest, StopReply,
                CloseChannel
  <2>5. CASE TimePasses
    BY <2>5, MaxTimeAssumption DEF TimePasses, Times
  <2>6. CASE UNCHANGED wheelVars
    BY <2>6 DEF wheelVars
  <2> QED
    BY <2>1, <2>2, <2>3, <2>4, <2>5, <2>6 DEF WheelNext, WheelTick
<1> QED
  BY <1>1, <1>2, PTL DEF WheelSpec

-----------------------------------------------------------------------------
(* The list of slots agrees with the progress of the Add calls: one step   *)
(* of any goroutine keeps WheelSlotsInv.                                   *)
LEMMA WheelSlotsStep ==
    WheelTypeOK /\ WheelSlotsInv /\ WheelWaitInv /\ [WheelNext]_wheelVars
        => WheelSlotsInv'
<1> SUFFICES ASSUME WheelTypeOK, WheelSlotsInv, WheelWaitInv,
                    [WheelNext]_wheelVars
             PROVE  WheelSlotsInv'
  OBVIOUS
<1> USE DEF WheelTypeOK, WheelSlotsInv, WheelEntered
<1>1. CASE \E a \in Adders : Add(a)
  <2> PICK a \in Adders : Add(a)
    BY <1>1
  <2>1. CASE AddCheck(a)
    BY <2>1 DEF AddCheck, TimeSlot
  <2>2. CASE AddPush(a)
    <3> DEFINE new == [time |-> target[a], value |-> a, order |-> pushes + 1]
    <3>1. a \notin dispatched /\ \A s \in list : s.value # a
      BY <2>2 DEF AddPush
    <3>2. list' = list \cup {new} /\ adder' = [adder EXCEPT ![a] = "pushed"]
      BY <2>2 DEF AddPush
    <3>3. UNCHANGED <<target, dispatched>> /\ pushes' = pushes + 1
      BY <2>2 DEF AddPush
    <3>4. \A s \in list' : /\ adder'[s.value] \in WheelEntered
                           /\ s.value \notin dispatched'
                           /\ s.time = target'[s.value]
                           /\ s.order <= pushes'
      BY <3>1, <3>2, <3>3 DEF TimeSlot
    <3>5. \A s, t \in list' : s.value = t.value => s = t
      BY <3>1, <3>2
    <3>6. \A b \in dispatched' : adder'[b] \in WheelEntered
      BY <3>2, <3>3
    <3>7. \A b \in Adders : adder'[b] \in WheelEntered =>
              b \in dispatched' \/ \E s \in list' : s.value = b
      <4> SUFFICES ASSUME NEW b \in Adders, adder'[b] \in WheelEntered,
                          b \notin dispatched'
                   PROVE  \E s \in list' : s.value = b
        OBVIOUS
      <4>1. CASE b = a
        <5>1. new \in list' /\ new.value = a
          BY <3>2
        <5> QED
          BY <4>1, <5>1
      <4>2. CASE b # a
        BY <3>2, <3>3, <4>2
      <4> QED
        BY <4>1, <4>2
    <3> QED
      BY <3>4, <3>5, <3>6, <3>7
  <2>3. CASE AddNotify(a)
    BY <2>3 DEF AddNotify, TimeSlot
  <2>4. CASE AddPanic(a)
    BY <2>4 DEF AddPanic, TimeSlot
  <2> QED
    BY <2>1, <2>2, <2>3, <2>4 DEF Add
<1>2. CASE TickScan
  BY <1>2 DEF TickScan
<1>3. CASE TickFire
  <2> PICK c \in list : closest = {c}
    BY <1>3 DEF TickFire, WheelWaitInv
  <2>1. list' = list \ {c} /\ dispatched' = dispatched \cup {c.value}
    BY <1>3 DEF TickFire
  <2>2. UNCHANGED <<adder, target, pushes>>
    BY <1>3 DEF TickFire
  <2> QED
    BY <2>1, <2>2
<1>4. CASE WheelClose
  BY <1>4 DEF WheelClose, CloseStore, StopRequest, StopReply, CloseChannel
<1>5. CASE TimePasses
  BY <1>5 DEF TimePasses
<1>6. CASE UNCHANGED wheelVars
  BY <1>6 DEF wheelVars
<1> QED
  BY <1>1, <1>2, <1>3, <1>4, <1>5, <1>6 DEF WheelNext, WheelTick

(* The slot tick waits for stays the right one while Add calls push and    *)
(* notify: one step of any goroutine keeps WheelWaitInv.                   *)
LEMMA WheelWaitStep ==
    WheelTypeOK /\ WheelSlotsInv /\ WheelWaitInv /\ [WheelNext]_wheelVars
        => WheelWaitInv'
<1> SUFFICES ASSUME WheelTypeOK, WheelSlotsInv, WheelWaitInv,
                    [WheelNext]_wheelVars
             PROVE  WheelWaitInv'
  OBVIOUS
<1> USE DEF WheelTypeOK, WheelWaitInv
<1>1. CASE \E a \in Adders : Add(a)
  <2> PICK a \in Adders : Add(a)
    BY <1>1
  <2> SUFFICES ASSUME tick' = "wait"
               PROVE  \E c \in list' :
                        /\ closest' = {c}
                        /\ \A t \in list' : t # c =>
                             /\ t.time = c.time => c.order < t.order
                             /\ adder'[t.value] = "done" => c.time <= t.time
    OBVIOUS
  <2>0. tick = "wait" /\ closest' = closest
    BY DEF Add, AddCheck, AddPush, AddNotify, AddPanic
  <2> PICK c \in list :
           /\ closest = {c}
           /\ \A t \in list : t # c =>
                /\ t.time = c.time => c.order < t.order
                /\ adder[t.value] = "done" => c.time <= t.time
    BY <2>0
  <2>1. CASE AddCheck(a) \/ AddPanic(a)
    <3>1. list' = list
      BY <2>1 DEF AddCheck, AddPanic
    <3>2. \A t \in list : adder'[t.value] = "done" => adder[t.value] = "done"
      BY <2>1 DEF AddCheck, AddPanic, TimeSlot
    <3> QED
      BY <2>0, <3>1, <3>2
  <2>2. CASE AddPush(a)
    <3> DEFINE new == [time |-> target[a], value |-> a, order |-> pushes + 1]
    <3>1. list' = list \cup {new} /\ adder' = [adder EXCEPT ![a] = "pushed"]
      BY <2>2 DEF AddPush
    <3>2. c.order < new.order
      BY DEF WheelSlotsInv, TimeSlot
    <3>3. adder'[new.value] # "done"
      BY <3>1
    <3>4. \A t \in list : adder'[t.value] = "done" => adder[t.value] = "done"
      BY <3>1 DEF TimeSlot
    <3> QED
      BY <2>0, <3>1, <3>2, <3>3, <3>4
  <2>3. CASE AddNotify(a)
    <3>1. list' = list /\ adder' = [adder EXCEPT ![a] = "done"]
      BY <2>3 DEF AddNotify
    <3>2. c.time <= target[a]
      BY <2>0, <2>3 DEF AddNotify, AffectsWait
    <3>3. \A t \in list : t.value = a => t.time = target[a]
      BY DEF WheelSlotsInv
    <3> QED
      BY <2>0, <3>1, <3>2, <3>3 DEF TimeSlot
  <2> QED
    BY <2>1, <2>2, <2>3 DEF Add
<1>2. CASE TickScan
  <2> SUFFICES ASSUME NEW s \in list, IsClosest(s), closest' = {s}
               PROVE  WheelWaitInv'
    BY <1>2 DEF TickScan
  <2>1. UNCHANGED <<list, adder>>
    BY <1>2 DEF TickScan
  <2>2. \A t \in list : t # s =>
            /\ t.time = s.time => s.order < t.order
            /\ s.time <= t.time
    BY DEF IsClosest, Earlier, TimeSlot, Times
  <2> QED
    BY <2>1, <2>2
<1>3. CASE TickFire
  BY <1>3 DEF TickFire
<1>4. CASE WheelClose
  BY <1>4 DEF WheelClose, CloseStore, StopRequest, StopReply, CloseChannel
<1>5. CASE TimePasses
  BY <1>5 DEF TimePasses
<1>6. CASE UNCHANGED wheelVars
  BY <1>6 DEF wheelVars
<1> QED
  BY <1>1, <1>2, <1>3, <1>4, <1>5, <1>6 DEF WheelNext, WheelTick

(* The inductive invariant holds throughout.                               *)
THEOREM WheelInvariance == WheelSpec => []WheelInv
<1>1. WheelInit => WheelSlotsInv /\ WheelWaitInv /\ WheelCloseInv
  BY DEF WheelInit, WheelSlotsInv, WheelWaitInv, WheelCloseInv, WheelEntered
<1>2. WheelTypeOK /\ WheelCloseInv /\ [WheelNext]_wheelVars => WheelCloseInv'
  BY DEF WheelTypeOK, WheelCloseInv, WheelNext, wheelVars, Add, AddCheck,
         AddPush, AddNotify,
         AddPanic, WheelTick, TickScan, TickFire, WheelClose, CloseStore,
         StopRequest, StopReply, CloseChannel, TimePasses
<1> QED
  BY <1>1, <1>2, WheelTypeCorrect, WheelSlotsStep, WheelWaitStep, PTL
  DEF WheelSpec, WheelInv

(* Whichever of the timer, a notification and Close wins, a slot that was  *)
(* handed in is in the list or was dispatched, never both and never        *)
(* neither.                                                                *)
THEOREM WheelAccounted == WheelSpec => []Accounted
<1>1. WheelInv => Accounted
  BY DEF WheelInv, WheelTypeOK, WheelSlotsInv, WheelEntered, Accounted, TimeSlot
<1> QED
  BY <1>1, WheelInvariance, PTL

(* Dispatch follows the target times, and the order of Add for equal       *)
(* times, among the slots whose Add has returned.                          *)
THEOREM WheelNoOvertaking == WheelSpec => NoOvertaking
<1> DEFINE Order == \A s, t \in list :
                      (/\ s.value \in dispatched' \ dispatched
                       /\ t # s
                       /\ adder[t.value] = "done") => Earlier(s, t)
<1>1. WheelInv /\ [WheelNext]_wheelVars => Order
  <2> SUFFICES ASSUME WheelInv, [WheelNext]_wheelVars,
                      NEW s \in list, NEW t \in list,
                      s.value \in dispatched' \ dispatched, t # s,
                      adder[t.value] = "done"
               PROVE  Earlier(s, t)
    OBVIOUS
  <2>1. TickFire
    BY DEF WheelNext, wheelVars, Add, AddCheck, AddPush, AddNotify,
           AddPanic, WheelTick,
           TickScan, WheelClose, CloseStore, StopRequest, StopReply,
           CloseChannel, TimePasses
  <2>2. s \in closest
    BY <2>1 DEF TickFire, WheelInv, WheelSlotsInv, WheelWaitInv
  <2>3. s.time <= t.time /\ (t.time = s.time => s.order < t.order)
    BY <2>1, <2>2 DEF TickFire, WheelInv, WheelWaitInv
  <2> QED
    BY <2>3 DEF Earlier, WheelInv, WheelTypeOK, TimeSlot, Times
<1>2. WheelInv /\ [WheelNext]_wheelVars => [Order]_wheelVars
  BY <1>1
<1> QED
  BY <1>2, WheelInvariance, PTL DEF WheelSpec, NoOvertaking

(* After Close has returned nothing is dispatched.                         *)
THEOREM WheelSilentAfterClose == WheelSpec => SilentAfterClose
<1>1. WheelInv /\ [WheelNext]_wheelVars =>
        [(closer \in {"acked", "closed"})
            => (dispatched' = dispatched)]_wheelVars
  BY DEF WheelInv, WheelCloseInv, WheelNext, wheelVars, Add, AddCheck,
         AddPush, AddNotify,
         AddPanic, WheelTick, TickScan, TickFire, WheelClose, CloseStore,
         StopRequest, StopReply, CloseChannel, TimePasses
<1> QED
  BY <1>1, WheelInvariance, PTL DEF WheelSpec, SilentAfterClose

(* The wheel implements what the queue relies on: every step of it is a    *)
(* step of WheelContract or leaves the contract's state alone.             *)
THEOREM WheelImplements == WheelSpec => ContractSpec
<1> DEFINE pend == {s.value : s \in list}
<1>1. WheelInit => Contract!Init
  BY DEF WheelInit, Contract!Init
<1>2. WheelInv /\ [WheelNext]_wheelVars
        => [Contract!Next]_(Contract!contractVars)
  <2> SUFFICES ASSUME WheelInv, [WheelNext]_wheelVars
               PROVE  [Contract!Next]_(Contract!contractVars)
    OBVIOUS
  <2> USE DEF WheelInv, WheelTypeOK, Contract!contractVars
  <2>1. CASE \E a \in Adders : AddPush(a)
    <3> PICK a \in Adders : AddPush(a)
      BY <2>1
    <3>1. a \notin pend \cup dispatched
      BY DEF AddPush, WheelSlotsInv, WheelEntered
    <3>2. pend' = pend \cup {a}
      <4> DEFINE new == [time |-> target[a], value |-> a,
                         order |-> pushes + 1]
      <4>1. list' = list \cup {new} /\ new.value = a
        BY DEF AddPush
      <4>2. {s.value : s \in list \cup {new}} = pend \cup {new.value}
        OBVIOUS
      <4> QED
        BY <4>1, <4>2
    <3>3. dispatched' = dispatched /\ tick' = tick
      BY DEF AddPush
    <3> QED
      BY <3>1, <3>2, <3>3 DEF Contract!Next, Contract!Accept
  <2>2. CASE TickFire
    <3> PICK c \in list : closest = {c}
      BY <2>2 DEF TickFire, WheelWaitInv
    <3>1. pend' = pend \ {c.value}
      BY <2>2 DEF TickFire, WheelSlotsInv
    <3>2. dispatched' = dispatched \cup {c.value}
      BY <2>2 DEF TickFire
    <3>3. tick # "done" /\ tick' # "done" /\ c.value \in Adders
      BY <2>2 DEF TickFire, TimeSlot
    <3> QED
      BY <3>1, <3>2, <3>3 DEF Contract!Next, Contract!Fire
  <2>3. CASE StopReply
    BY <2>3 DEF StopReply, Contract!Next, Contract!Stop
  <2>4. CASE \/ UNCHANGED wheelVars \/ TimePasses \/ TickScan \/ CloseStore
             \/ StopRequest \/ CloseChannel
             \/ \E a \in Adders : \/ AddCheck(a) \/ AddNotify(a)
                                  \/ AddPanic(a)
    <3>1. list' = list /\ dispatched' = dispatched
      BY <2>4 DEF wheelVars, TimePasses, TickScan, CloseStore,
                  StopRequest,
                  CloseChannel, AddCheck, AddNotify, AddPanic
    <3>2. (tick' # "done") = (tick # "done")
      BY <2>4 DEF wheelVars, TimePasses, TickScan, CloseStore,
                  StopRequest,
                  CloseChannel, AddCheck, AddNotify, AddPanic
    <3> QED
      BY <3>1, <3>2
  <2> QED
    BY <2>1, <2>2, <2>3, <2>4 DEF WheelNext, Add, WheelTick, WheelClose
<1> QED
  BY <1>1, <1>2, WheelInvariance, PTL DEF WheelSpec, ContractSpec,
                                          Contract!Spec
=============================================================================
