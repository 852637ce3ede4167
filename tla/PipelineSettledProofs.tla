------------------------ MODULE PipelineSettledProofs ------------------------
(***************************************************************************)
(* Theorem about module Pipeline: once every record is acknowledged, an    *)
(* item announced by one ObjectCreated record is published exactly, for    *)
(* any collection, any number of environments, any batches and any number  *)
(* of repeated deliveries.                                                 *)
(*                                                                         *)
(* The invariant follows one version from its announcement to the bucket.  *)
(* Only what was made of it is ever put under the keys of the item, and it *)
(* is all there from the end of an upload on, because no call of the same  *)
(* record selects any of it.  The batch loop acknowledges only what it     *)
(* handled without error, hence after an upload.                           *)
(***************************************************************************)
EXTENDS PipelineProofs

-----------------------------------------------------------------------------
(* The invariant. *)

\* Every record before the position of the loop, and at the end every record of
\* the batch, has failed or succeeded.
Answered(w) ==
  /\ phase[w] = "setup" => i[w] = 1
  /\ phase[w] \in {"loop", "parse", "handle"} =>
       \A j \in 1..(i[w] - 1) : batch[w][j] \in failures[w] \cup succeeded[w]
  /\ phase[w] = "returned" =>
       \A j \in 1..Len(batch[w]) : batch[w][j] \in failures[w] \cup succeeded[w]

\* _handle_removed runs for an ObjectRemoved record.
KindInv(w) == stage[w] = "remove" => about[batch[w][i[w]]].kind = "removed"

\* What was handled, or is done, was announced.
KnownInv ==
  /\ \A w \in Workers : \A r \in succeeded[w] : about[r] # None
  /\ \A r \in Records : status[r] = "done" => about[r] # None

LoopInv == KnownInv /\ \A w \in Workers : Answered(w) /\ KindInv(w)

\* All objects of the item's source are there.
Published(x) == \A k \in ImageOf(x, src[x]) : bucket[k] # None

\* The item x is announced by the record r alone, which is about its creation.
Once(x, r) == Announced(x) = {r} /\ about[r].kind = "created"

\* Each environment works on the one version there is.
OneVersion(x) ==
  \A w \in Workers :
    Handling(w) = x /\ stage[w] \in {"build", "upload", "reconcile", "supersede"}
      => got[w] = src[x]

\* Nothing else was ever put under the item's keys.
OnlyImage(x) ==
  \A k \in OwnKeys(x) :
    bucket[k] # None => k \in ImageOf(x, src[x]) /\ bucket[k] = <<x, src[x]>>

\* The end of an upload is behind w's handling of x, or behind the success of r.
Uploaded(x, r) ==
  \/ \E w \in Workers : Handling(w) = x /\ stage[w] \in {"reconcile", "supersede"}
  \/ \E w \in Workers : r \in succeeded[w]
  \/ status[r] = "done"

OnceInv(x, r) ==
  /\ src[x] \in Versions
  /\ OneVersion(x)
  /\ OnlyImage(x)
  /\ Uploaded(x, r) => Published(x)

SettledInv ==
  /\ LoopInv
  /\ \A x \in Items : Announced(x) = {} => \A k \in OwnKeys(x) : bucket[k] = None
  /\ \A x \in Items, r \in Records : Once(x, r) => OnceInv(x, r)

-----------------------------------------------------------------------------
(* The batch loop. *)

\* An environment that does nothing keeps its account.
LEMMA AnsweredFrame ==
  ASSUME NEW u, Answered(u), batch'[u] = batch[u], i'[u] = i[u], phase'[u] = phase[u],
         failures'[u] = failures[u], succeeded'[u] = succeeded[u]
  PROVE  Answered(u)'
  BY DEF Answered

\* The account of the environment that acts, step by step.
LEMMA AnsweredByStep ==
  ASSUME Loop!TypeOK, NEW w \in Workers, Answered(w), Loop!Step(w) \/ Loop!Crash(w)
  PROVE  Answered(w)'
<1>1. /\ batch[w] \in Seq(Records) /\ i[w] \in Nat \ {0} /\ Len(batch[w]) \in Nat
      /\ batch \in [Workers -> Seq(Records)] /\ i \in [Workers -> Nat \ {0}]
      /\ phase \in [Workers -> Loop!Phases]
      /\ failures \in [Workers -> SUBSET Records] /\ succeeded \in [Workers -> SUBSET Records]
  BY DEF Loop!TypeOK
<1>2. CASE Loop!Report(w) \/ Loop!Crash(w)
  <2>1. phase'[w] = "waiting"
    BY <1>1, <1>2 DEF Loop!Report, Loop!Crash, Loop!Release
  <2>2. QED
    BY <2>1 DEF Answered
<1>3. CASE Loop!SetupDone(w)
  <2>1. phase'[w] = "loop" /\ phase[w] = "setup" /\ i'[w] = i[w]
    BY <1>1, <1>3 DEF Loop!SetupDone
  <2>2. 1..(i'[w] - 1) = {}
    BY <1>1, <2>1 DEF Answered
  <2>3. QED
    BY <2>1, <2>2 DEF Answered
<1>4. CASE Loop!SetupFails(w)
  <2>1. phase'[w] = "returned" /\ batch'[w] = batch[w] /\ failures'[w] = Loop!Members(w)
    BY <1>1, <1>4 DEF Loop!SetupFails
  <2>2. QED
    BY <2>1 DEF Answered, Loop!Members
<1>5. CASE Loop!TimeUp(w)
  <2>1. /\ phase[w] = "loop" /\ phase'[w] = "returned" /\ batch'[w] = batch[w]
        /\ failures'[w] = failures[w] \cup Loop!Unprocessed(w) /\ succeeded'[w] = succeeded[w]
    BY <1>1, <1>5 DEF Loop!TimeUp
  <2>2. ASSUME NEW j \in 1..Len(batch[w])
        PROVE  batch[w][j] \in failures'[w] \cup succeeded'[w]
    <3>1. CASE j \in 1..(i[w] - 1)
      BY <2>1, <3>1 DEF Answered
    <3>2. CASE j \in i[w]..Len(batch[w])
      BY <2>1, <3>2 DEF Loop!Unprocessed
    <3>3. QED
      BY <1>1, <3>1, <3>2
  <2>3. QED
    BY <2>1, <2>2 DEF Answered
<1>6. CASE Loop!Begin(w) \/ Loop!Parse(w)
  <2>1. /\ phase[w] \in {"loop", "parse"} /\ phase'[w] \in {"parse", "handle"}
        /\ batch'[w] = batch[w] /\ i'[w] = i[w]
        /\ failures'[w] = failures[w] /\ succeeded'[w] = succeeded[w]
    BY <1>1, <1>6 DEF Loop!Begin, Loop!Parse
  <2>2. QED
    BY <2>1 DEF Answered
<1>7. ASSUME NEW d \in 0..Budget, Loop!Handled(w, d) \/ Loop!Failed(w, d)
      PROVE  Answered(w)'
  <2>1. /\ phase[w] \in {"parse", "handle"} /\ phase'[w] = "loop"
        /\ batch'[w] = batch[w] /\ i'[w] = i[w] + 1
    BY <1>1, <1>7 DEF Loop!Handled, Loop!Failed, Loop!EndRecord
  <2>2. failures'[w] \cup succeeded'[w] = failures[w] \cup succeeded[w] \cup {batch[w][i[w]]}
    BY <1>1, <1>7 DEF Loop!Handled, Loop!Failed, Loop!Current
  <2>3. ASSUME NEW j \in 1..(i'[w] - 1)
        PROVE  batch[w][j] \in failures'[w] \cup succeeded'[w]
    <3>1. j = i[w] \/ j \in 1..(i[w] - 1)
      BY <1>1, <2>1
    <3>2. QED
      BY <2>1, <2>2, <3>1 DEF Answered
  <2>4. QED
    BY <2>1, <2>3 DEF Answered
<1>8. CASE Loop!LoopDone(w)
  <2>1. /\ phase[w] = "loop" /\ phase'[w] = "returned" /\ i[w] > Len(batch[w])
        /\ batch'[w] = batch[w] /\ failures'[w] = failures[w] /\ succeeded'[w] = succeeded[w]
    BY <1>1, <1>8 DEF Loop!LoopDone
  <2>2. 1..Len(batch[w]) \subseteq 1..(i[w] - 1)
    BY <1>1, <2>1
  <2>3. QED
    BY <2>1, <2>2 DEF Answered
<1>9. QED
  BY <1>2, <1>3, <1>4, <1>5, <1>6, <1>7, <1>8 DEF Loop!Step

\* A step of one environment leaves the loops of the others alone.
LEMMA OthersLoop ==
  ASSUME Loop!TypeOK, NEW w \in Workers, NEW u \in Workers \ {w},
         Loop!Step(w) \/ Loop!Crash(w) \/ \E b \in Loop!Batches : Loop!Invoke(w, b)
  PROVE  /\ batch'[u] = batch[u] /\ i'[u] = i[u] /\ phase'[u] = phase[u]
         /\ failures'[u] = failures[u] /\ succeeded'[u] = succeeded[u]
<1> USE DEF Loop!TypeOK
<1>1. ASSUME NEW b, Loop!Invoke(w, b)
      PROVE  /\ batch'[u] = batch[u] /\ i'[u] = i[u] /\ phase'[u] = phase[u]
             /\ failures'[u] = failures[u] /\ succeeded'[u] = succeeded[u]
  BY <1>1 DEF Loop!Invoke
<1>2. CASE Loop!Report(w) \/ Loop!Crash(w)
  BY <1>2 DEF Loop!Report, Loop!Crash, Loop!Release
<1>3. CASE Loop!SetupDone(w) \/ Loop!SetupFails(w) \/ Loop!LoopDone(w)
  BY <1>3 DEF Loop!SetupDone, Loop!SetupFails, Loop!LoopDone
<1>4. CASE Loop!TimeUp(w) \/ Loop!Begin(w) \/ Loop!Parse(w)
  BY <1>4 DEF Loop!TimeUp, Loop!Begin, Loop!Parse
<1>5. ASSUME NEW d \in 0..Budget, Loop!Handled(w, d) \/ Loop!Failed(w, d)
      PROVE  /\ batch'[u] = batch[u] /\ i'[u] = i[u] /\ phase'[u] = phase[u]
             /\ failures'[u] = failures[u] /\ succeeded'[u] = succeeded[u]
  BY <1>5 DEF Loop!Handled, Loop!Failed, Loop!EndRecord
<1>6. QED
  BY <1>1, <1>2, <1>3, <1>4, <1>5 DEF Loop!Step

\* Every step keeps the account of every environment.
LEMMA AnsweredStep ==
  ASSUME Inv, LoopInv, [Next]_vars, NEW u \in Workers
  PROVE  Answered(u)'
<1>1. Loop!TypeOK /\ Answered(u)
  BY DEF Inv, TypeOK, LoopInv
<1>2. [Loop!Next]_loop
  BY StepsOfTheLoop
<1>3. CASE UNCHANGED loop \/ \E r \in Records : Loop!Redeliver(r)
  BY <1>1, <1>3, AnsweredFrame DEF loop, Loop!Redeliver, Loop!invocation
<1>4. ASSUME NEW w \in Workers, u # w,
             Loop!Step(w) \/ Loop!Crash(w) \/ \E b \in Loop!Batches : Loop!Invoke(w, b)
      PROVE  Answered(u)'
  BY <1>1, <1>4, OthersLoop, AnsweredFrame
<1>5. CASE Loop!Step(u) \/ Loop!Crash(u)
  BY <1>1, <1>5, AnsweredByStep
<1>6. ASSUME NEW b, Loop!Invoke(u, b)
      PROVE  Answered(u)'
  <2>1. phase'[u] = "setup" /\ i'[u] = 1
    BY <1>1, <1>6 DEF Loop!Invoke, Loop!TypeOK
  <2>2. QED
    BY <2>1 DEF Answered
<1>7. QED
  BY <1>2, <1>3, <1>4, <1>5, <1>6 DEF Loop!Next

\* A record succeeds only by the end of _handle_created or _handle_removed.
LEMMA SuccessSteps ==
  ASSUME Inv, [Next]_vars, NEW w \in Workers, NEW r \in succeeded'[w], r \notin succeeded[w]
  PROVE  /\ stage[w] \in {"supersede", "remove"}
         /\ r = batch[w][i[w]]
<1>1. Loop!TypeOK
  BY DEF Inv, TypeOK
<1>2. succeeded'[w] # succeeded[w]
  OBVIOUS
<1>3. PICK v \in Workers : Loop!Step(v) \/ Loop!Crash(v) \/ \E b \in Loop!Batches : Loop!Invoke(v, b)
  BY <1>2, StepsOfTheLoop DEF Loop!Next, loop, Loop!Redeliver
<1>4. v = w
  BY <1>1, <1>2, <1>3, OthersLoop
<1>5. \E d \in 0..Budget : Finish(w, d)
  <2>1. CASE UNCHANGED loop \/ Environment
    BY <1>2, <2>1 DEF loop, Environment, DeleteSource, PutSource, Loop!Redeliver
  <2>2. ASSUME NEW u \in Workers, Between(u) \/ Crash(u)
        PROVE  succeeded' = succeeded
    BY <2>2 DEF Between, Loop!SetupDone, Loop!SetupFails, Loop!TimeUp, Loop!Begin, Loop!LoopDone,
                Loop!Report, Crash, Loop!Crash, Loop!Release
  <2>3. ASSUME NEW u \in Workers, NEW b \in Loop!Batches, Invoke(u, b)
        PROVE  FALSE
    BY <1>1, <2>3 DEF Invoke, Loop!Invoke, Loop!TypeOK
  <2>4. ASSUME NEW u \in Workers, Handle(u)
        PROVE  succeeded' = succeeded \/ \E d \in 0..Budget : Finish(u, d)
    BY <2>4 DEF Handle, Dispatch, Loop!Parse, Download, Build, UploadDone, Reconciled, Upload, Delete,
                Enter, Raise, Loop!Failed, loop
  <2>5. ASSUME NEW u \in Workers, NEW d \in 0..Budget, Finish(u, d)
        PROVE  u = w
    BY <1>1, <2>5 DEF Finish, Loop!Handled, Loop!TypeOK
  <2>6. QED
    BY <1>2, <2>1, <2>2, <2>3, <2>4, <2>5 DEF Next, vars
<1>6. stage[w] \in {"supersede", "remove"}
  BY <1>5 DEF Finish
<1>7. succeeded'[w] = succeeded[w] \cup {batch[w][i[w]]}
  <2>1. succeeded' = [succeeded EXCEPT ![w] = @ \cup {batch[w][i[w]]}]
    BY <1>5 DEF Finish, Loop!Handled, Loop!Current
  <2>2. succeeded \in [Workers -> SUBSET Records]
    BY <1>1 DEF Loop!TypeOK
  <2>3. QED
    BY <2>1, <2>2
<1>8. QED
  BY <1>6, <1>7

\* A record is done only by an answer that does not name it.
LEMMA DoneSteps ==
  ASSUME Inv, [Next]_vars, NEW r \in Records, status'[r] = "done", status[r] # "done"
  PROVE  \E w \in Workers : /\ phase[w] = "returned" /\ r \notin failures[w]
                            /\ \E j \in 1..Len(batch[w]) : r = batch[w][j]
<1>1. Loop!TypeOK
  BY DEF Inv, TypeOK
<1>2. status' # status
  OBVIOUS
<1>3. \A v \in Workers : \A b : ~Loop!Invoke(v, b)
  BY DEF Loop!Invoke
<1>4. \A q \in Records : ~Loop!Redeliver(q)
  BY <1>1 DEF Loop!Redeliver, Loop!TypeOK
<1>5. PICK w \in Workers : Loop!Report(w) \/ Loop!Crash(w)
  BY <1>2, <1>3, <1>4, StepsOfTheLoop
  DEF Loop!Next, Loop!Step, Loop!SetupDone, Loop!SetupFails, Loop!TimeUp, Loop!Begin, Loop!Parse,
      Loop!Handled, Loop!Failed, Loop!EndRecord, Loop!LoopDone, Loop!queue, loop
<1>6. ASSUME NEW back, Loop!Release(w, back)
      PROVE  r \in Loop!Members(w) /\ r \notin back
  BY <1>6 DEF Loop!Release
<1>7. ~ Loop!Crash(w)
  BY <1>6 DEF Loop!Crash
<1>8. Loop!Report(w) /\ r \in Loop!Members(w) /\ r \notin failures[w]
  BY <1>5, <1>6, <1>7 DEF Loop!Report
<1>9. QED
  BY <1>8 DEF Loop!Report, Loop!Members

-----------------------------------------------------------------------------
(* The calls. *)

\* What is announced stays so.
LEMMA AboutKept ==
  ASSUME Inv, [Next]_vars, NEW r \in Records, about[r] # None
  PROVE  about'[r] = about[r]
<1>1. about \in [Records -> About]
  BY DEF Inv, TypeOK
<1>2. CASE Environment
  BY <1>1, <1>2 DEF Environment, DeleteSource, PutSource, Announce, store
<1>3. ASSUME NEW w \in Workers, Handle(w)
      PROVE  about' = about
  BY <1>3 DEF Handle, Dispatch, Download, Build, UploadDone, Reconciled, Upload, Delete, Finish,
              Raise, Leave, Enter, store
<1>4. ASSUME NEW w \in Workers, Between(w) \/ Crash(w) \/ \E b \in Loop!Batches : Invoke(w, b)
      PROVE  about' = about
  BY <1>4 DEF Between, Crash, Invoke, store
<1>5. CASE UNCHANGED vars
  BY <1>5 DEF vars, store
<1>6. QED
  BY <1>2, <1>3, <1>4, <1>5 DEF Next

\* How an environment got into a call: as the first of its record, or from the
\* call before, for the same record.
LEMMA CallSteps ==
  ASSUME Inv, [Next]_vars, NEW u \in Workers, stage'[u] # "none"
  PROVE  \/ Dispatch(u)
         \/ /\ stage[u] # "none" /\ batch'[u] = batch[u] /\ i'[u] = i[u]
            /\ \/ stage'[u] = stage[u] /\ got'[u] = got[u]
               \/ Download(u)
               \/ stage[u] = "build" /\ stage'[u] = "upload" /\ got'[u] = got[u]
               \/ UploadDone(u)
               \/ Reconciled(u)
<1> DEFINE Same == stage'[u] = stage[u] /\ got'[u] = got[u] /\ batch'[u] = batch[u] /\ i'[u] = i[u]
<1>1. /\ stage \in [Workers -> Stages] /\ got \in [Workers -> Versions \cup {None}]
      /\ batch \in [Workers -> Seq(Records)] /\ i \in [Workers -> Nat \ {0}]
      /\ phase \in [Workers -> Loop!Phases] /\ Loop!TypeOK
  BY DEF Inv, TypeOK, Loop!TypeOK
<1>2. CASE Environment \/ UNCHANGED vars
  BY <1>2 DEF Environment, DeleteSource, PutSource, tmp, loop, vars, Loop!Redeliver, Loop!invocation
<1>3. ASSUME NEW w \in Workers, u # w, Handle(w) \/ Between(w) \/ Crash(w)
                                        \/ \E b \in Loop!Batches : Invoke(w, b)
      PROVE  Same
  <2>1. CASE Handle(w)
    <3>1. stage'[u] = stage[u] /\ got'[u] = got[u]
      BY <1>1, <1>3, <2>1
      DEF Handle, Dispatch, Download, Build, UploadDone, Reconciled, Upload, Delete, Finish, Raise,
          Leave, Enter, tmp
    <3>2. batch'[u] = batch[u] /\ i'[u] = i[u]
      <4>1. CASE UNCHANGED loop
        BY <4>1 DEF loop
      <4>2. CASE Loop!Parse(w) \/ \E d \in 0..Budget : Loop!Handled(w, d) \/ Loop!Failed(w, d)
        BY <1>1, <1>3, <4>2, OthersLoop DEF Loop!Step
      <4>3. QED
        BY <2>1, <4>1, <4>2
        DEF Handle, Dispatch, Download, Build, UploadDone, Reconciled, Upload, Delete, Finish, Raise, Enter
    <3>3. QED
      BY <3>1, <3>2
  <2>2. CASE Between(w) \/ \E b \in Loop!Batches : Invoke(w, b)
    <3>1. UNCHANGED tmp /\ (Loop!Step(w) \/ \E b \in Loop!Batches : Loop!Invoke(w, b))
      BY <2>2 DEF Between, Invoke, Loop!Step
    <3>2. QED
      BY <1>1, <1>3, <3>1, OthersLoop DEF tmp
  <2>3. CASE Crash(w)
    <3>1. Loop!Crash(w) /\ stage'[u] = stage[u] /\ got'[u] = got[u]
      BY <1>1, <1>3, <2>3 DEF Crash
    <3>2. QED
      BY <1>1, <1>3, <3>1, OthersLoop
  <2>4. QED
    BY <1>3, <2>1, <2>2, <2>3
<1>4. ~ Crash(u) /\ \A d \in 0..Budget : ~ Finish(u, d) /\ ~ Raise(u, d)
  BY <1>1 DEF Crash, Finish, Raise, Leave
<1>5. ASSUME Between(u) \/ \E b \in Loop!Batches : Invoke(u, b)
      PROVE  FALSE
  <2>1. stage[u] # "none"
    BY <1>5 DEF Between, Invoke, tmp
  <2>2. phase[u] = "handle"
    BY <2>1 DEF Inv, PipelineInv, WorkerInv
  <2>3. QED
    BY <1>5, <2>2 DEF Between, Invoke, Loop!Invoke, Loop!SetupDone, Loop!SetupFails, Loop!TimeUp,
                      Loop!Begin, Loop!LoopDone, Loop!Report
<1>6. CASE Handle(u)
  <2>1. CASE Dispatch(u)
    BY <2>1
  <2>2. CASE Download(u) \/ UploadDone(u) \/ Reconciled(u)
    BY <2>2 DEF Download, UploadDone, Reconciled, Enter, loop
  <2>3. CASE Build(u)
    BY <1>1, <2>3 DEF Build, Enter, loop
  <2>4. CASE \E k \in Key : Upload(u, k) \/ Delete(u, k)
    BY <2>4 DEF Upload, Delete, tmp, loop
  <2>5. QED
    BY <1>4, <1>6, <2>1, <2>2, <2>3, <2>4 DEF Handle
<1>7. stage'[u] # "none" /\ Same => stage[u] # "none"
  OBVIOUS
<1>8. QED
  BY <1>2, <1>3, <1>4, <1>5, <1>6, <1>7 DEF Next, tmp, loop, vars

\* The records of a batch are announced.
LEMMA BatchIsAnnounced ==
  ASSUME Inv, NEW w \in Workers, NEW j \in 1..Len(batch[w])
  PROVE  batch[w][j] \in Records /\ about[batch[w][j]] # None
<1>1. batch[w] \in Seq(Records)
  BY DEF Inv, TypeOK, Loop!TypeOK
<1>2. WorkerInv(w)
  BY DEF Inv, PipelineInv
<1>3. about[batch[w][j]] # None
  BY <1>2 DEF WorkerInv
<1>4. QED
  BY <1>1, <1>3

\* A call stays with its item.
LEMMA HandlingKept ==
  ASSUME Inv, [Next]_vars, NEW u \in Workers,
         stage[u] # "none", stage'[u] # "none", batch'[u] = batch[u], i'[u] = i[u]
  PROVE  Handling(u)' = Handling(u)
<1>1. batch[u][i[u]] \in Records /\ about[batch[u][i[u]]] # None
  BY HandlingIsItem
<1>2. about'[batch[u][i[u]]] = about[batch[u][i[u]]]
  BY <1>1, AboutKept
<1>3. QED
  BY <1>2 DEF Handling

\* Only a removal is handled as one.
LEMMA KindStep ==
  ASSUME Inv, LoopInv, [Next]_vars, NEW u \in Workers
  PROVE  KindInv(u)'
<1> SUFFICES ASSUME stage'[u] = "remove"
             PROVE  about'[batch'[u][i'[u]]].kind = "removed"
  BY DEF KindInv
<1>1. /\ stage \in [Workers -> Stages] /\ about \in [Records -> About]
      /\ batch \in [Workers -> Seq(Records)] /\ i \in [Workers -> Nat \ {0}]
  BY DEF Inv, TypeOK, Loop!TypeOK
<1>2. CASE Dispatch(u)
  <2>1. /\ phase[u] = "parse" /\ about[batch[u][i[u]]].kind # "created"
        /\ about' = about /\ batch' = batch /\ i' = i
    BY <1>1, <1>2 DEF Dispatch, Loop!Parse, store
  <2>2. i[u] \in 1..Len(batch[u])
    <3>1. i[u] <= Len(batch[u])
      BY <2>1 DEF Inv, PipelineInv, WorkerInv
    <3>2. QED
      BY <1>1, <3>1
  <2>3. batch[u][i[u]] \in Records /\ about[batch[u][i[u]]] # None
    BY <2>2, BatchIsAnnounced
  <2>4. QED
    BY <1>1, <2>1, <2>3 DEF About
<1>3. CASE ~ Dispatch(u)
  <2>1. stage[u] = "remove" /\ batch'[u] = batch[u] /\ i'[u] = i[u]
    BY <1>1, <1>3, CallSteps DEF Download, UploadDone, Reconciled, Enter
  <2>2. batch[u][i[u]] \in Records /\ about[batch[u][i[u]]] # None
    BY <2>1, HandlingIsItem
  <2>3. about[batch[u][i[u]]].kind = "removed"
    BY <2>1 DEF LoopInv, KindInv
  <2>4. QED
    BY <2>1, <2>2, <2>3, AboutKept
<1>4. QED
  BY <1>2, <1>3

\* Only announced records get anywhere.
LEMMA KnownStep ==
  ASSUME Inv, LoopInv, [Next]_vars, Loop!TypeOK'
  PROVE  KnownInv'
<1>1. ASSUME NEW w \in Workers, NEW r \in succeeded'[w]
      PROVE  about'[r] # None
  <2>1. r \in Records
    BY DEF Loop!TypeOK
  <2>2. CASE r \in succeeded[w]
    BY <2>1, <2>2, AboutKept DEF LoopInv, KnownInv
  <2>3. CASE r \notin succeeded[w]
    <3>1. stage[w] # "none" /\ r = batch[w][i[w]]
      BY <2>3, SuccessSteps
    <3>2. about[r] # None
      BY <3>1, HandlingIsItem
    <3>3. QED
      BY <2>1, <3>2, AboutKept
  <2>4. QED
    BY <2>2, <2>3
<1>2. ASSUME NEW r \in Records, status'[r] = "done"
      PROVE  about'[r] # None
  <2>1. CASE status[r] = "done"
    BY <2>1, AboutKept DEF LoopInv, KnownInv
  <2>2. CASE status[r] # "done"
    <3>1. about[r] # None
      BY <1>2, <2>2, DoneSteps, BatchIsAnnounced
    <3>2. QED
      BY <3>1, AboutKept
  <2>3. QED
    BY <2>1, <2>2
<1>3. QED
  BY <1>1, <1>2 DEF KnownInv

\* Every step keeps the account of the loops.
LEMMA LoopStep ==
  ASSUME Inv, LoopInv, [Next]_vars, Loop!TypeOK'
  PROVE  LoopInv'
BY AnsweredStep, KindStep, KnownStep DEF LoopInv

-----------------------------------------------------------------------------
(* Announcements. *)

\* Where an item is announced once, it was so before and its source is the same,
\* or this step announces it.
LEMMA AnnouncedStep ==
  ASSUME Inv, [Next]_vars, NEW x \in Items, NEW r \in Records, Once(x, r)'
  PROVE  \/ Once(x, r) /\ src'[x] = src[x]
         \/ /\ Announced(x) = {} /\ about[r] = None /\ src'[x] \in Versions
            /\ UNCHANGED <<loop, bucket, tmp>>
<1>1. about \in [Records -> About] /\ src \in [Items -> Versions \cup {None}]
  BY DEF Inv, TypeOK
<1>2. CASE about' = about /\ src' = src
  BY <1>2 DEF Once, Announced
<1>3. ASSUME NEW q \in Records, NEW y \in Items, NEW k \in {"created", "removed"}, Announce(q, y, k)
      PROVE  /\ about[q] = None /\ q \in Announced(y)'
             /\ about'[q] = [item |-> y, kind |-> k]
             /\ y # x => Once(x, r)
             /\ y = x => q = r /\ Announced(x) = {} /\ k = "created"
  <2>1. about[q] = None /\ about'[q] = [item |-> y, kind |-> k] /\ \A p \in Records \ {q} : about'[p] = about[p]
    BY <1>1, <1>3 DEF Announce
  <2>2. [item |-> y, kind |-> k] # None
    BY LoopAssumption
  <2>3. q \in Announced(y)'
    BY <2>1, <2>2 DEF Announced
  <2>4. y # x => Announced(x)' = Announced(x)
    BY <2>1 DEF Announced
  <2>5. Announced(x)' = {r} /\ about'[r].kind = "created"
    BY DEF Once
  <2>6. ASSUME y # x
        PROVE  Once(x, r)
    <3>1. Announced(x) = {r} /\ r # q
      BY <2>1, <2>4, <2>5, <2>6 DEF Announced
    <3>2. QED
      BY <2>1, <2>5, <3>1 DEF Once
  <2>7. ASSUME y = x
        PROVE  q = r /\ Announced(x) = {} /\ k = "created"
    <3>1. q = r
      BY <2>3, <2>5, <2>7
    <3>2. k = "created"
      BY <2>1, <2>5, <3>1
    <3>3. Announced(x) \subseteq Announced(x)' \ {q}
      BY <2>1 DEF Announced
    <3>4. QED
      BY <2>5, <3>1, <3>2, <3>3
  <2>8. QED
    BY <2>1, <2>3, <2>6, <2>7
<1>4. ASSUME NEW q \in Records, NEW y \in Items, DeleteSource(q, y)
      PROVE  Once(x, r) /\ src'[x] = src[x]
  <2>1. y # x /\ Once(x, r)
    BY <1>3, <1>4 DEF DeleteSource
  <2>2. QED
    BY <1>1, <1>4, <2>1 DEF DeleteSource
<1>5. ASSUME NEW q \in Records, NEW y \in Items, NEW v \in Versions, PutSource(q, y, v)
      PROVE  \/ Once(x, r) /\ src'[x] = src[x]
             \/ /\ Announced(x) = {} /\ about[r] = None /\ src'[x] \in Versions
                /\ UNCHANGED <<loop, bucket, tmp>>
  <2>1. CASE y # x
    BY <1>1, <1>3, <1>5, <2>1 DEF PutSource
  <2>2. CASE y = x
    BY <1>1, <1>3, <1>5, <2>2 DEF PutSource
  <2>3. QED
    BY <2>1, <2>2
<1>6. ASSUME NEW w \in Workers, Handle(w)
      PROVE  about' = about /\ src' = src
  BY <1>6 DEF Handle, Dispatch, Download, Build, UploadDone, Reconciled, Upload, Delete, Finish,
              Raise, Leave, Enter, store
<1>7. ASSUME NEW w \in Workers, Between(w) \/ Crash(w) \/ \E b \in Loop!Batches : Invoke(w, b)
      PROVE  about' = about /\ src' = src
  BY <1>7 DEF Between, Crash, Invoke, store
<1>8. CASE UNCHANGED vars \/ \E q \in Records : Loop!Redeliver(q) /\ UNCHANGED <<store, tmp>>
  BY <1>2, <1>8 DEF vars, store
<1>9. QED
  BY <1>2, <1>4, <1>5, <1>6, <1>7, <1>8 DEF Next, Environment

\* What is handled is announced.
LEMMA HandledIsAnnounced ==
  ASSUME Inv, NEW w \in Workers, NEW x \in Items, Handling(w) = x
  PROVE  stage[w] # "none" /\ batch[w][i[w]] \in Announced(x)
<1>1. stage[w] # "none"
  BY NamesAssumption DEF Handling
<1>2. QED
  BY <1>1, HandlingIsItem DEF Announced

\* An item that was only created is not removed.
LEMMA OnceIsNotRemoved ==
  ASSUME Inv, LoopInv, NEW x \in Items, NEW r \in Records, Once(x, r),
         NEW w \in Workers, Handling(w) = x
  PROVE  stage[w] # "remove"
BY HandledIsAnnounced DEF Once, LoopInv, KindInv

-----------------------------------------------------------------------------
(* The objects. *)

\* Nothing of the one version of an item is ever selected for deletion.
LEMMA ImageIsSpared ==
  ASSUME KeysApart, Inv, LoopInv, NEW x \in Items, NEW r \in Records, Once(x, r),
         src[x] \in Versions, OneVersion(x),
         NEW w \in Workers, NEW k \in ImageOf(x, src[x])
  PROVE  k \notin Selected(w)
<1> SUFFICES ASSUME k \in Selected(w) PROVE FALSE
  OBVIOUS
<1>1. k \in OwnKeys(x) /\ k \in Key
  BY ImageIsOwn DEF Key
<1>2. Handling(w) = x
  BY <1>1, SelectedIsApart
<1>3. stage[w] \in {"reconcile", "supersede"}
  BY <1>2, OnceIsNotRemoved DEF Selected
<1>4. got[w] = src[x] /\ dist[w][k] # None
  <2>1. got[w] = src[x]
    BY <1>2, <1>3 DEF OneVersion
  <2>2. dist[w][k] = <<x, src[x]>>
    BY <1>1, <1>2, <1>3, <2>1 DEF Inv, PipelineInv, WorkerInv
  <2>3. QED
    BY <2>1, <2>2, NamesAssumption
<1>5. CASE stage[w] = "reconcile"
  <2>1. Globbed(x, k) /\ ~ Counterpart(w, k)
    BY <1>2, <1>5 DEF Selected
  <2>2. k = File(k.loc, k.kind, DirOf[x], k.name)
    <3>1. k.kind \notin Flat
      BY <2>1, NamesAssumption DEF Globbed
    <3>2. QED
      BY <1>1, <3>1, OwnKeyForms DEF File
  <2>3. QED
    BY <1>1, <1>2, <1>4, <2>1, <2>2 DEF Counterpart
<1>6. CASE stage[w] = "supersede"
  <2>1. k \in Reach(x, Opposite(BuiltLocation(w)))
    BY <1>2, <1>6 DEF Selected
  <2>2. k.loc = Opposite(BuiltLocation(w))
    BY <2>1 DEF Reach, DirectKeys, File
  <2>3. BuiltLocation(w) = k.loc
    BY <1>1, <1>4, <1>6, BuiltWhereItBelongs
  <2>4. QED
    BY <2>2, <2>3 DEF Opposite
<1>7. QED
  BY <1>3, <1>5, <1>6

\* What was published of the one version stays.
LEMMA PublishedStays ==
  ASSUME KeysApart, Inv, LoopInv, [Next]_vars,
         NEW x \in Items, NEW r \in Records, Once(x, r),
         src[x] \in Versions, OneVersion(x),
         NEW k \in ImageOf(x, src[x]), bucket[k] # None
  PROVE  bucket'[k] # None
<1>1. k \in Key
  BY ImageIsOwn DEF Key
<1>2. \A w \in Workers : k \notin Selected(w)
  BY ImageIsSpared
<1>3. QED
  BY <1>1, <1>2, BucketSteps

\* Each call works on the version the call before worked on.
LEMMA OneVersionStep ==
  ASSUME Inv, [Next]_vars, NEW x \in Items, OneVersion(x), src'[x] = src[x]
  PROVE  OneVersion(x)'
<1> SUFFICES ASSUME NEW u \in Workers, Handling(u)' = x,
                    stage'[u] \in {"build", "upload", "reconcile", "supersede"}
             PROVE  got'[u] = src[x]
  BY DEF OneVersion
<1>1. stage \in [Workers -> Stages] /\ got \in [Workers -> Versions \cup {None}]
  BY DEF Inv, TypeOK
<1>2. ~ Dispatch(u)
  BY <1>1 DEF Dispatch
<1>3. stage[u] # "none" /\ batch'[u] = batch[u] /\ i'[u] = i[u]
  BY <1>2, CallSteps
<1>4. Handling(u) = x
  BY <1>3, HandlingKept
<1>5. CASE stage'[u] = stage[u] /\ got'[u] = got[u]
  BY <1>4, <1>5 DEF OneVersion
<1>6. CASE Download(u)
  BY <1>1, <1>4, <1>6 DEF Download
<1>7. CASE stage[u] = "build" /\ got'[u] = got[u]
  BY <1>4, <1>7 DEF OneVersion
<1>8. CASE UploadDone(u) \/ Reconciled(u)
  BY <1>4, <1>8 DEF UploadDone, Reconciled, Enter, OneVersion
<1>9. QED
  BY <1>2, <1>5, <1>6, <1>7, <1>8, CallSteps

\* Only what was made of the one version is put under the keys of its item.
LEMMA OnlyImageStep ==
  ASSUME KeysApart, Inv, [Next]_vars, NEW x \in Items, OneVersion(x), OnlyImage(x), src'[x] = src[x]
  PROVE  OnlyImage(x)'
<1> SUFFICES ASSUME NEW k \in OwnKeys(x), bucket'[k] # None
             PROVE  k \in ImageOf(x, src[x]) /\ bucket'[k] = <<x, src[x]>>
  BY DEF OnlyImage
<1>1. CASE bucket'[k] = bucket[k]
  BY <1>1 DEF OnlyImage
<1>2. CASE bucket'[k] # bucket[k]
  <2>1. k \in Key
    BY DEF Key
  <2>2. PICK w \in Workers : stage[w] = "upload" /\ dist[w][k] # None /\ bucket'[k] = dist[w][k]
    BY <1>2, <2>1, BucketSteps
  <2>3. /\ Handling(w) \in Items /\ k \in OwnKeys(Handling(w))
        /\ k \in ImageOf(Handling(w), got[w]) /\ dist[w][k] = <<Handling(w), got[w]>>
    BY <2>1, <2>2, BuiltIsOwn
  <2>4. Handling(w) = x
    BY <2>3 DEF KeysApart
  <2>5. got[w] = src[x]
    BY <2>2, <2>4 DEF OneVersion
  <2>6. QED
    BY <2>2, <2>3, <2>4, <2>5
<1>3. QED
  BY <1>1, <1>2

\* The end of an upload leaves all objects there, and it is the only way to reach
\* the calls after it, the success of the record and its acknowledgement.
LEMMA UploadedStep ==
  ASSUME KeysApart, Inv, LoopInv, [Next]_vars,
         NEW x \in Items, NEW r \in Records, Once(x, r), OnceInv(x, r),
         src'[x] = src[x], Uploaded(x, r)'
  PROVE  Published(x)'
<1> SUFFICES ASSUME NEW k \in ImageOf(x, src[x])
             PROVE  bucket'[k] # None
  BY DEF Published
<1>1. src[x] \in Versions /\ OneVersion(x) /\ k \in Key
  BY ImageIsOwn DEF OnceInv, Key
<1>2. ASSUME Uploaded(x, r)
      PROVE  bucket'[k] # None
  BY <1>1, <1>2, PublishedStays DEF OnceInv, Published
<1>3. ASSUME NEW w \in Workers, Handling(w)' = x, stage'[w] \in {"reconcile", "supersede"}
      PROVE  bucket'[k] # None
  <2>1. stage \in [Workers -> Stages]
    BY DEF Inv, TypeOK
  <2>2. ~ Dispatch(w) /\ ~ Download(w) /\ stage'[w] # "upload"
    BY <1>3, <2>1 DEF Dispatch, Download, Enter
  <2>3. Handling(w) = x
    BY <1>3, <2>2, CallSteps, HandlingKept
  <2>4. CASE stage'[w] = stage[w]
    BY <1>2, <1>3, <2>3, <2>4 DEF Uploaded
  <2>5. CASE Reconciled(w)
    BY <1>2, <2>3, <2>5 DEF Uploaded, Reconciled, Enter
  <2>6. CASE UploadDone(w)
    <3>1. stage[w] = "upload" /\ bucket'[k] = IF dist[w][k] # None THEN dist[w][k] ELSE bucket[k]
      BY <1>1, <2>6 DEF UploadDone, Enter
    <3>2. got[w] = src[x]
      BY <1>1, <2>3, <3>1 DEF OneVersion
    <3>3. dist[w][k] = <<x, src[x]>>
      BY <1>1, <2>3, <3>1, <3>2 DEF Inv, PipelineInv, WorkerInv
    <3>4. dist[w][k] # None
      BY <1>1, <3>3, NamesAssumption
    <3>5. QED
      BY <3>1, <3>4
  <2>7. QED
    BY <1>3, <2>2, <2>4, <2>5, <2>6, CallSteps
<1>4. ASSUME NEW w \in Workers, r \in succeeded'[w]
      PROVE  bucket'[k] # None
  <2>1. CASE r \in succeeded[w]
    BY <1>2, <2>1 DEF Uploaded
  <2>2. CASE r \notin succeeded[w]
    <3>1. stage[w] \in {"supersede", "remove"} /\ r = batch[w][i[w]]
      BY <1>4, <2>2, SuccessSteps
    <3>2. Handling(w) = x
      BY <3>1 DEF Handling, Once, Announced
    <3>3. stage[w] = "supersede"
      BY <3>1, <3>2, OnceIsNotRemoved
    <3>4. QED
      BY <1>2, <3>2, <3>3 DEF Uploaded
  <2>3. QED
    BY <2>1, <2>2
<1>5. CASE status'[r] = "done"
  <2>1. CASE status[r] = "done"
    BY <1>2, <2>1 DEF Uploaded
  <2>2. CASE status[r] # "done"
    <3>1. PICK w \in Workers : /\ phase[w] = "returned" /\ r \notin failures[w]
                               /\ \E j \in 1..Len(batch[w]) : r = batch[w][j]
      BY <1>5, <2>2, DoneSteps
    <3>2. r \in succeeded[w]
      BY <3>1 DEF LoopInv, Answered
    <3>3. QED
      BY <1>2, <3>2 DEF Uploaded
  <2>3. QED
    BY <2>1, <2>2
<1>6. QED
  BY <1>3, <1>4, <1>5 DEF Uploaded

\* Nothing is put under the keys of an item before it is announced.
LEMMA UnannouncedStep ==
  ASSUME KeysApart, Inv, [Next]_vars, NEW x \in Items, Announced(x)' = {},
         Announced(x) = {} => \A k \in OwnKeys(x) : bucket[k] = None,
         NEW k \in OwnKeys(x)
  PROVE  bucket'[k] = None
<1>1. Announced(x) = {}
  BY AboutKept DEF Announced
<1>2. k \in Key
  BY DEF Key
<1>3. bucket[k] = None
  BY <1>1
<1>4. ASSUME NEW w \in Workers, stage[w] = "upload", dist[w][k] # None
      PROVE  FALSE
  <2>1. Handling(w) \in Items /\ k \in OwnKeys(Handling(w))
    BY <1>2, <1>4, BuiltIsOwn
  <2>2. Handling(w) = x
    BY <2>1 DEF KeysApart
  <2>3. QED
    BY <1>1, <2>2, HandledIsAnnounced
<1>5. QED
  BY <1>2, <1>3, <1>4, BucketSteps

\* At its first announcement nothing is known of an item.
LEMMA FirstAnnounced ==
  ASSUME Inv, SettledInv, NEW x \in Items, NEW r \in Records,
         Announced(x) = {}, about[r] = None, src'[x] \in Versions,
         UNCHANGED <<loop, bucket, tmp>>, [Next]_vars
  PROVE  OnceInv(x, r)'
<1>1. ASSUME NEW w \in Workers, Handling(w)' = x
      PROVE  FALSE
  <2>1. stage[w] # "none" /\ stage'[w] = stage[w] /\ batch'[w] = batch[w] /\ i'[w] = i[w]
    BY <1>1, NamesAssumption DEF Handling, tmp, loop
  <2>2. Handling(w) = x
    BY <1>1, <2>1, HandlingKept
  <2>3. QED
    BY <2>2, HandledIsAnnounced
<1>2. \A k \in OwnKeys(x) : bucket'[k] = None
  BY DEF SettledInv
<1>3. ~ Uploaded(x, r)'
  <2>1. status' = status /\ succeeded' = succeeded
    BY DEF loop
  <2>2. status[r] # "done" /\ \A w \in Workers : r \notin succeeded[w]
    BY DEF SettledInv, LoopInv, KnownInv
  <2>3. QED
    BY <1>1, <2>1, <2>2 DEF Uploaded
<1>4. QED
  BY <1>1, <1>2, <1>3 DEF OnceInv, OneVersion, OnlyImage

-----------------------------------------------------------------------------
(* The theorem. *)

\* The invariant holds at the start.
LEMMA InitSettled == Init => SettledInv
<1> SUFFICES ASSUME Init PROVE SettledInv
  OBVIOUS
<1>1. /\ \A w \in Workers : /\ phase[w] = "waiting" /\ i[w] = 1 /\ stage[w] = "none"
                             /\ succeeded[w] = {}
      /\ \A r \in Records : status[r] = "queued" /\ about[r] = None
  BY DEF Init, Loop!Init
<1>2. LoopInv
  BY <1>1 DEF LoopInv, KnownInv, Answered, KindInv
<1>3. \A x \in Items : \A k \in OwnKeys(x) : bucket[k] = None
  BY DEF Init, Empty, Key
<1>4. \A x \in Items, r \in Records : ~ Once(x, r)
  BY <1>1 DEF Once, Announced
<1>5. QED
  BY <1>2, <1>3, <1>4 DEF SettledInv

\* Every step keeps it.
LEMMA SettledStep ==
  ASSUME KeysApart, DirsApart, Inv, SettledInv, [Next]_vars
  PROVE  SettledInv'
<1>1. LoopInv'
  <2>1. Loop!TypeOK'
    BY Inductive DEF Inv, TypeOK
  <2>2. QED
    BY <2>1, LoopStep DEF SettledInv
<1>2. ASSUME NEW x \in Items, Announced(x)' = {}, NEW k \in OwnKeys(x)
      PROVE  bucket'[k] = None
  BY <1>2, UnannouncedStep DEF SettledInv
<1>3. ASSUME NEW x \in Items, NEW r \in Records, Once(x, r)'
      PROVE  OnceInv(x, r)'
  <2>1. CASE Once(x, r) /\ src'[x] = src[x]
    <3>1. LoopInv /\ OnceInv(x, r)
      BY <2>1 DEF SettledInv
    <3>2. OneVersion(x)' /\ OnlyImage(x)'
      BY <2>1, <3>1, OneVersionStep, OnlyImageStep DEF OnceInv
    <3>3. Uploaded(x, r)' => Published(x)'
      BY <2>1, <3>1, UploadedStep
    <3>4. QED
      BY <2>1, <3>1, <3>2, <3>3 DEF OnceInv
  <2>2. CASE /\ Announced(x) = {} /\ about[r] = None /\ src'[x] \in Versions
             /\ UNCHANGED <<loop, bucket, tmp>>
    BY <2>2, FirstAnnounced
  <2>3. QED
    BY <1>3, <2>1, <2>2, AnnouncedStep
<1>4. QED
  BY <1>1, <1>2, <1>3 DEF SettledInv

\* With every record acknowledged the invariant says what is published.
LEMMA SettledIsExact ==
  ASSUME SettledInv
  PROVE  SettledIsImage
<1> SUFFICES ASSUME \A r \in Records : about[r] # None => status[r] = "done",
                    NEW r \in Records, NEW x \in Items, Once(x, r), NEW k \in OwnKeys(x)
             PROVE  bucket[k] = IF k \in ImageOf(x, src[x]) THEN <<x, src[x]>> ELSE None
  BY DEF SettledIsImage, Once
<1>1. OnceInv(x, r)
  BY DEF SettledInv
<1>2. status[r] = "done"
  BY DEF Once, Announced
<1>3. Published(x) /\ OnlyImage(x)
  BY <1>1, <1>2 DEF OnceInv, Uploaded
<1>4. QED
  BY <1>3 DEF Published, OnlyImage

\* Where directories, keys and globs of the items are apart, once every record is
\* acknowledged an item announced by one ObjectCreated record is published exactly,
\* whatever other records, repeated deliveries, failures and killed invocations its
\* batches shared the bucket and /tmp with.
THEOREM SettledIsPublished == KeysApart /\ DirsApart /\ Spec => []SettledIsImage
<1> SUFFICES ASSUME KeysApart, DirsApart PROVE Spec => []SettledIsImage
  OBVIOUS
<1>1. Init => Inv /\ SettledInv
  BY InitInv, InitSettled
<1>2. Inv /\ SettledInv /\ [Next]_vars => (Inv /\ SettledInv)'
  BY Inductive, SettledStep
<1>3. SettledInv => SettledIsImage
  BY SettledIsExact
<1>4. QED
  BY <1>1, <1>2, <1>3, PTL DEF Spec

\* So it is in the layout of the repository's examples, one directory for each item
\* and called like it.
THEOREM OwnDirectoriesSettle ==
  ASSUME NEW root \in Seq(Name), OwnDirectories(root)
  PROVE  Spec => []SettledIsImage
<1>1. KeysApart /\ DirsApart
  BY OwnDirectoriesAreApart
<1>2. QED
  BY <1>1, SettledIsPublished

=============================================================================
