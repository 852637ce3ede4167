------------------------- MODULE BatchHandlerProofs -------------------------
(* Theorems about module BatchHandler, for every value of its constants. *)
EXTENDS BatchHandler, TLAPS

-----------------------------------------------------------------------------
(* Type correctness. *)

LEMMA BatchesAreSeqs == \A b \in Batches : b \in Seq(Records) /\ Len(b) \in Nat
<1> TAKE b \in Batches
<1>1. PICK n \in 1..BatchSize : b \in [1..n -> Records]
  BY DEF Batches
<1>2. n \in Nat
  BY <1>1, BatchAssumption
<1>3. QED
  BY <1>1, <1>2

LEMMA MembersType ==
  ASSUME TypeOK, NEW w \in Workers
  PROVE  /\ Members(w) \subseteq Records
         /\ Unprocessed(w) \subseteq Records
         /\ i[w] <= Len(batch[w]) => Current(w) \in Records
<1>1. batch[w] \in Seq(Records) /\ i[w] \in Nat \ {0}
  BY DEF TypeOK
<1>2. \A j \in 1..Len(batch[w]) : batch[w][j] \in Records
  BY <1>1
<1>3. i[w]..Len(batch[w]) \subseteq 1..Len(batch[w])
  BY <1>1
<1>4. QED
  BY <1>1, <1>2, <1>3 DEF Members, Unprocessed, Current

LEMMA EndRecordType ==
  ASSUME TypeOK, NEW w \in Workers, NEW d \in 0..Budget, EndRecord(w, d)
  PROVE  /\ status' \in [Records -> {"queued", "inflight", "done", "dlq"}]
         /\ receives' \in [Records -> Nat]
         /\ batch' \in [Workers -> Seq(Records)]
         /\ i' \in [Workers -> Nat \ {0}]
         /\ phase' \in [Workers -> Phases]
         /\ remaining' \in [Workers -> Nat]
         /\ context' \in [Workers -> Contexts]
         /\ token' \in [Workers -> Contexts]
<1>1. d \in Nat /\ remaining[w] - d \in Nat
  BY BatchAssumption DEF TypeOK, EndRecord
<1>2. i[w] + 1 \in Nat \ {0}
  BY DEF TypeOK
<1>3. QED
  BY <1>1, <1>2 DEF TypeOK, EndRecord, Phases, queue

LEMMA ReleaseType ==
  ASSUME TypeOK, NEW w \in Workers, NEW back, Release(w, back),
         context' \in [Workers -> Contexts]
  PROVE  TypeOK'
<1>1. status' \in [Records -> {"queued", "inflight", "done", "dlq"}]
  BY DEF TypeOK, Release
<1>2. batch' \in [Workers -> Seq(Records)] /\ i' \in [Workers -> Nat \ {0}]
  BY DEF TypeOK, Release
<1>3. QED
  BY <1>1, <1>2 DEF TypeOK, Release, Phases

LEMMA TypeStep ==
  ASSUME TypeOK, \A w \in Workers : InvLoop(w), [Next]_vars
  PROVE  TypeOK'
<1> USE DEF Phases
<1>1. CASE UNCHANGED vars
  BY <1>1 DEF TypeOK, vars, queue, invocation
<1>2. ASSUME NEW w \in Workers, NEW b \in Batches, Invoke(w, b) PROVE TypeOK'
  <2>1. b \in Seq(Records)
    BY BatchesAreSeqs
  <2>2. status' \in [Records -> {"queued", "inflight", "done", "dlq"}]
    BY <1>2 DEF TypeOK, Invoke
  <2>3. receives' \in [Records -> Nat]
    BY <1>2 DEF TypeOK, Invoke
  <2>4. QED
    BY <1>2, <2>1, <2>2, <2>3, BatchAssumption DEF TypeOK, Invoke
<1>3. ASSUME NEW w \in Workers, Report(w) PROVE TypeOK'
  BY <1>3, ReleaseType DEF TypeOK, Report
<1>4. ASSUME NEW w \in Workers, Crash(w) PROVE TypeOK'
  <2>1. context' \in [Workers -> Contexts]
    BY <1>4 DEF TypeOK, Crash, Contexts
  <2>2. QED
    BY <1>4, <2>1, ReleaseType DEF Crash
<1>5. ASSUME NEW r \in Records, Redeliver(r) PROVE TypeOK'
  BY <1>5 DEF TypeOK, Redeliver, invocation
<1>6. ASSUME NEW w \in Workers, SetupDone(w) PROVE TypeOK'
  BY <1>6 DEF TypeOK, SetupDone, queue
<1>7. ASSUME NEW w \in Workers, SetupFails(w) PROVE TypeOK'
  BY <1>7, MembersType DEF TypeOK, SetupFails, queue
<1>8. ASSUME NEW w \in Workers, TimeUp(w) PROVE TypeOK'
  BY <1>8, MembersType DEF TypeOK, TimeUp, queue
<1>9. ASSUME NEW w \in Workers, Begin(w) PROVE TypeOK'
  <2>1. <<Current(w), FALSE>> \in Contexts
    BY <1>9, MembersType DEF Begin, Contexts
  <2>2. QED
    BY <1>9, <2>1 DEF TypeOK, Begin, queue
<1>10. ASSUME NEW w \in Workers, phase[w] \in {"parse", "handle"}
       PROVE Current(w) \in Records
  BY <1>10, MembersType DEF InvLoop
<1>11. ASSUME NEW w \in Workers, Parse(w) PROVE TypeOK'
  <2>1. <<Current(w), TRUE>> \in Contexts
    BY <1>10, <1>11 DEF Parse, Contexts
  <2>2. QED
    BY <1>11, <2>1 DEF TypeOK, Parse, queue
<1>12. ASSUME NEW w \in Workers, NEW d \in 0..Budget, Handled(w, d) PROVE TypeOK'
  <2>1. Current(w) \in Records
    BY <1>10, <1>12 DEF Handled
  <2>2. succeeded' \in [Workers -> SUBSET Records]
    BY <1>12, <2>1 DEF TypeOK, Handled
  <2>3. QED
    BY <1>12, <2>2, EndRecordType DEF TypeOK, Handled
<1>13. ASSUME NEW w \in Workers, NEW d \in 0..Budget, Failed(w, d) PROVE TypeOK'
  <2>1. Current(w) \in Records
    BY <1>10, <1>13 DEF Failed
  <2>2. failures' \in [Workers -> SUBSET Records]
    BY <1>13, <2>1 DEF TypeOK, Failed
  <2>3. QED
    BY <1>13, <2>2, EndRecordType DEF TypeOK, Failed
<1>14. ASSUME NEW w \in Workers, LoopDone(w) PROVE TypeOK'
  BY <1>14 DEF TypeOK, LoopDone, queue
<1>15. QED
  BY <1>1, <1>2, <1>3, <1>4, <1>5, <1>6, <1>7, <1>8, <1>9, <1>11, <1>12, <1>13, <1>14
  DEF Next, Step

-----------------------------------------------------------------------------
(* The loop invariant. *)

\* Members, Before and Current only depend on the batch and the position.
LEMMA SameBatch ==
  ASSUME NEW u, batch'[u] = batch[u]
  PROVE  /\ Members(u)' = Members(u)
         /\ Distinct(u)' = Distinct(u)
         /\ i'[u] = i[u] => Before(u)' = Before(u) /\ Current(u)' = Current(u)
  BY DEF Members, Distinct, Before, Current

\* What a step of another environment leaves alone.
LEMMA Frame ==
  ASSUME NEW u,
         InvLoop(u), InvContext(u),
         batch'[u] = batch[u], i'[u] = i[u], phase'[u] = phase[u],
         failures'[u] = failures[u], succeeded'[u] = succeeded[u],
         context'[u] = context[u], token'[u] = token[u]
  PROVE  InvLoop(u)' /\ InvContext(u)'
  BY SameBatch DEF InvLoop, InvContext

\* Moving on past the current record.
LEMMA NextRecord ==
  ASSUME TypeOK, NEW w \in Workers, InvLoop(w), i[w] <= Len(batch[w]),
         batch'[w] = batch[w], i'[w] = i[w] + 1
  PROVE  /\ Before(w)' = Before(w) \cup {Current(w)}
         /\ Current(w) \notin Before(w)
         /\ i'[w] <= Len(batch[w]) + 1
<1>1. i[w] \in Nat \ {0} /\ Len(batch[w]) \in Nat
  BY DEF TypeOK
<1>2. 1..i[w] = 1..(i[w] - 1) \cup {i[w]}
  BY <1>1
<1>3. Before(w)' = {batch[w][j] : j \in 1..i[w]}
  BY <1>1 DEF Before
<1>4. Before(w)' = Before(w) \cup {Current(w)}
  BY <1>2, <1>3 DEF Before, Current
<1>5. \A j \in 1..(i[w] - 1) : batch[w][j] # batch[w][i[w]]
  BY <1>1 DEF InvLoop, Distinct
<1>6. Current(w) \notin Before(w)
  BY <1>5 DEF Before, Current
<1>7. QED
  BY <1>1, <1>4, <1>6

\* At the end of the loop, and when it is left early, nothing is unaccounted for.
LEMMA Split ==
  ASSUME TypeOK, NEW w \in Workers, InvLoop(w)
  PROVE  /\ Members(w) = Before(w) \cup Unprocessed(w)
         /\ Before(w) \cap Unprocessed(w) = {}
         /\ i[w] > Len(batch[w]) => Unprocessed(w) = {}
<1>1. i[w] \in Nat \ {0} /\ Len(batch[w]) \in Nat /\ i[w] <= Len(batch[w]) + 1
  BY DEF TypeOK, InvLoop
<1>2. 1..Len(batch[w]) = 1..(i[w] - 1) \cup i[w]..Len(batch[w])
  BY <1>1
<1>3. \A j \in 1..(i[w] - 1), k \in i[w]..Len(batch[w]) : batch[w][j] # batch[w][k]
  BY <1>1, <1>2 DEF InvLoop, Distinct
<1>4. QED
  BY <1>1, <1>2, <1>3 DEF Members, Before, Unprocessed

LEMMA ReleaseInv ==
  ASSUME TypeOK, BatchInv, NEW w \in Workers, NEW back, Release(w, back),
         \A u \in Workers \ {w} : context'[u] = context[u], context'[w] = None
  PROVE  BatchInv'
<1>1. batch'[w] = <<>> /\ phase'[w] = "waiting" /\ i'[w] = 1
  BY DEF Release, TypeOK
<1>2. InvLoop(w)' /\ InvContext(w)'
  BY <1>1 DEF InvLoop, InvContext, Distinct
<1>3. ASSUME NEW u \in Workers, u # w PROVE InvLoop(u)' /\ InvContext(u)'
  BY <1>3, Frame DEF BatchInv, Release, TypeOK
<1>4. Members(w)' = {}
  BY <1>1 DEF Members
<1>5. ASSUME NEW u \in Workers, u # w PROVE Members(u)' = Members(u)
  BY <1>5, SameBatch DEF Release, TypeOK
<1>6. ASSUME NEW u \in Workers, u # w, NEW r \in Members(u)
      PROVE status'[r] = "inflight"
  <2>1. r \in Records /\ r \notin Members(w) /\ status[r] = "inflight"
    BY <1>6, MembersType DEF BatchInv, InvHeld
  <2>2. QED
    BY <2>1 DEF Release
<1>7. InvHeld'
  <2>1. \A u \in Workers : \A r \in Members(u)' : status'[r] = "inflight"
    BY <1>4, <1>5, <1>6
  <2>2. \A w1, w2 \in Workers : w1 # w2 => Members(w1)' \cap Members(w2)' = {}
    BY <1>4, <1>5 DEF BatchInv, InvHeld
  <2>3. QED
    BY <2>1, <2>2 DEF InvHeld
<1>8. QED
  BY <1>2, <1>3, <1>7 DEF BatchInv

\* A step of w within its invocation leaves the queue and the batches alone.
LEMMA LocalInv ==
  ASSUME TypeOK, BatchInv, NEW w \in Workers,
         status' = status, batch' = batch,
         \A u \in Workers \ {w} :
           /\ i'[u] = i[u] /\ phase'[u] = phase[u] /\ failures'[u] = failures[u]
           /\ succeeded'[u] = succeeded[u] /\ context'[u] = context[u]
           /\ token'[u] = token[u],
         InvLoop(w)', InvContext(w)'
  PROVE  BatchInv'
<1>1. \A u \in Workers : Members(u)' = Members(u)
  BY SameBatch
<1>2. InvHeld'
  BY <1>1 DEF BatchInv, InvHeld
<1>3. ASSUME NEW u \in Workers, u # w PROVE InvLoop(u)' /\ InvContext(u)'
  BY <1>3, Frame DEF BatchInv
<1>4. QED
  BY <1>2, <1>3 DEF BatchInv

LEMMA InvokeInv ==
  ASSUME TypeOK, BatchInv, NEW w \in Workers, NEW b \in Batches, Invoke(w, b)
  PROVE  BatchInv'
<1> DEFINE taken == {b[j] : j \in DOMAIN b}
<1>1. PICK n \in 1..BatchSize : b \in [1..n -> Records]
  BY DEF Batches
<1>2. n \in Nat /\ Len(b) = n /\ DOMAIN b = 1..n
  BY <1>1, BatchAssumption
<1>3. batch'[w] = b /\ phase'[w] = "setup" /\ i'[w] = 1 /\ failures'[w] = {}
      /\ succeeded'[w] = {} /\ context'[w] = context[w]
  BY DEF Invoke, TypeOK
<1>4. Distinct(w)'
  BY <1>2, <1>3 DEF Distinct, Batches
<1>5. context[w] = None
  BY DEF Invoke, BatchInv, InvContext
<1>6. InvLoop(w)' /\ InvContext(w)'
  BY <1>2, <1>3, <1>4, <1>5 DEF InvLoop, InvContext
<1>7. ASSUME NEW u \in Workers, u # w
      PROVE /\ InvLoop(u)' /\ InvContext(u)'
            /\ Members(u)' = Members(u)
  BY <1>7, Frame, SameBatch DEF BatchInv, Invoke, TypeOK
<1>8. Members(w)' = taken
  BY <1>2, <1>3 DEF Members
<1>9. \A r \in taken : r \in Records /\ status[r] = "queued" /\ status'[r] = "inflight"
  BY <1>1, <1>2 DEF Invoke
<1>10. ASSUME NEW u \in Workers, u # w, NEW r \in Members(u)
       PROVE r \notin taken /\ status'[r] = "inflight"
  <2>1. r \in Records /\ status[r] = "inflight"
    BY <1>10, MembersType DEF BatchInv, InvHeld
  <2>2. r \notin taken
    BY <2>1, <1>9
  <2>3. QED
    BY <2>1, <2>2 DEF Invoke
<1> HIDE DEF taken
<1>11. \A u \in Workers : \A r \in Members(u)' : status'[r] = "inflight"
  BY <1>7, <1>8, <1>9, <1>10
<1>12. \A w1, w2 \in Workers : w1 # w2 => Members(w1)' \cap Members(w2)' = {}
  BY <1>7, <1>8, <1>10 DEF BatchInv, InvHeld
<1>13. QED
  BY <1>6, <1>7, <1>11, <1>12 DEF BatchInv, InvHeld

LEMMA EndRecordInv ==
  ASSUME TypeOK, BatchInv, NEW w \in Workers, NEW d, EndRecord(w, d),
         phase[w] \in {"parse", "handle"},
         failures' \in [Workers -> SUBSET Records],
         succeeded' \in [Workers -> SUBSET Records],
         \A u \in Workers \ {w} :
           failures'[u] = failures[u] /\ succeeded'[u] = succeeded[u],
         \/ failures'[w] = failures[w] \cup {Current(w)} /\ succeeded'[w] = succeeded[w]
         \/ failures'[w] = failures[w] /\ succeeded'[w] = succeeded[w] \cup {Current(w)}
  PROVE  BatchInv'
<1>1. /\ phase'[w] = "loop" /\ i'[w] = i[w] + 1 /\ context'[w] = token[w]
      /\ status' = status /\ batch' = batch /\ token' = token
      /\ \A u \in Workers \ {w} :
           i'[u] = i[u] /\ phase'[u] = phase[u] /\ context'[u] = context[u]
  BY DEF EndRecord, TypeOK, queue
<1>2. InvLoop(w) /\ InvContext(w) /\ i[w] <= Len(batch[w])
  BY DEF BatchInv, InvLoop
<1>3. /\ Before(w)' = Before(w) \cup {Current(w)}
      /\ Current(w) \notin Before(w)
      /\ i'[w] <= Len(batch[w]) + 1
  BY <1>1, <1>2, NextRecord
<1>4. /\ failures[w] \cup succeeded[w] = Before(w)
      /\ failures[w] \cap succeeded[w] = {}
  BY <1>2 DEF InvLoop
<1>5. /\ failures'[w] \cup succeeded'[w] = Before(w)'
      /\ failures'[w] \cap succeeded'[w] = {}
  BY <1>3, <1>4
<1>6. InvLoop(w)'
  BY <1>1, <1>2, <1>3, <1>5, SameBatch DEF InvLoop
<1>7. InvContext(w)'
  BY <1>1, <1>2 DEF InvContext
<1>8. QED
  BY <1>1, <1>6, <1>7, LocalInv

LEMMA InvStep ==
  ASSUME TypeOK, BatchInv, [Next]_vars
  PROVE  BatchInv'
<1>1. CASE UNCHANGED vars
  <2>1. \A u \in Workers : Members(u)' = Members(u)
    BY <1>1, SameBatch DEF vars, invocation
  <2>2. \A u \in Workers : InvLoop(u)' /\ InvContext(u)'
    BY <1>1, Frame DEF BatchInv, vars, invocation
  <2>3. QED
    BY <1>1, <2>1, <2>2 DEF BatchInv, InvHeld, vars, queue
<1>2. ASSUME NEW w \in Workers, NEW b \in Batches, Invoke(w, b) PROVE BatchInv'
  BY <1>2, InvokeInv
<1>3. ASSUME NEW w \in Workers, Report(w) PROVE BatchInv'
  <2>1. context[w] = None
    BY <1>3 DEF Report, BatchInv, InvContext
  <2>2. QED
    BY <1>3, <2>1, ReleaseInv DEF Report
<1>4. ASSUME NEW w \in Workers, Crash(w) PROVE BatchInv'
  <2>1. context'[w] = None /\ \A u \in Workers \ {w} : context'[u] = context[u]
    BY <1>4 DEF Crash, TypeOK
  <2>2. QED
    BY <1>4, <2>1, ReleaseInv DEF Crash
<1>5. ASSUME NEW r \in Records, Redeliver(r) PROVE BatchInv'
  <2>1. \A u \in Workers : Members(u)' = Members(u) /\ InvLoop(u)' /\ InvContext(u)'
    BY <1>5, SameBatch, Frame DEF Redeliver, BatchInv, invocation
  <2>2. \A u \in Workers : \A x \in Members(u) : status'[x] = "inflight"
    <3> TAKE u \in Workers
    <3> TAKE x \in Members(u)
    <3>1. x \in Records /\ status[x] = "inflight"
      BY MembersType DEF BatchInv, InvHeld
    <3>2. QED
      BY <1>5, <3>1 DEF Redeliver, TypeOK
  <2>3. QED
    BY <2>1, <2>2 DEF BatchInv, InvHeld
<1>6. ASSUME NEW w \in Workers, SetupDone(w) PROVE BatchInv'
  <2>1. Before(w) = {}
    BY <1>6 DEF SetupDone, BatchInv, InvLoop, Before
  <2>2. /\ phase'[w] = "loop" /\ Before(w)' = Before(w) /\ Members(w)' = Members(w)
        /\ Distinct(w)' = Distinct(w)
    BY <1>6, SameBatch DEF SetupDone, TypeOK
  <2>3. InvLoop(w)' /\ InvContext(w)'
    BY <1>6, <2>1, <2>2 DEF SetupDone, BatchInv, InvLoop, InvContext
  <2>4. QED
    BY <1>6, <2>3, LocalInv DEF SetupDone, TypeOK, queue
<1>7. ASSUME NEW w \in Workers, SetupFails(w) PROVE BatchInv'
  <2>1. InvLoop(w)' /\ InvContext(w)'
    BY <1>7, SameBatch DEF SetupFails, BatchInv, InvLoop, InvContext, TypeOK
  <2>2. QED
    BY <1>7, <2>1, LocalInv DEF SetupFails, TypeOK, queue
<1>8. ASSUME NEW w \in Workers, TimeUp(w) PROVE BatchInv'
  <2>1. /\ phase'[w] = "returned" /\ i'[w] = i[w] /\ batch'[w] = batch[w]
        /\ failures'[w] = failures[w] \cup Unprocessed(w)
        /\ succeeded'[w] = succeeded[w] /\ context'[w] = context[w]
    BY <1>8 DEF TimeUp, TypeOK
  <2>2. /\ failures[w] \cup succeeded[w] = Before(w)
        /\ failures[w] \cap succeeded[w] = {}
    BY <1>8 DEF TimeUp, BatchInv, InvLoop
  <2>3. /\ Members(w) = Before(w) \cup Unprocessed(w)
        /\ Before(w) \cap Unprocessed(w) = {}
    BY Split DEF BatchInv
  <2>4. failures'[w] = Members(w) \ succeeded[w]
    BY <2>1, <2>2, <2>3
  <2>5. InvLoop(w)' /\ InvContext(w)'
    BY <1>8, <2>1, <2>4, SameBatch DEF TimeUp, BatchInv, InvLoop, InvContext
  <2>6. QED
    BY <1>8, <2>5, LocalInv DEF TimeUp, TypeOK, queue
<1>9. ASSUME NEW w \in Workers, Begin(w) PROVE BatchInv'
  <2>1. /\ phase'[w] = "parse" /\ i'[w] = i[w] /\ batch'[w] = batch[w]
        /\ failures'[w] = failures[w] /\ succeeded'[w] = succeeded[w]
        /\ context'[w] = <<Current(w), FALSE>> /\ token'[w] = context[w]
    BY <1>9 DEF Begin, TypeOK
  <2>2. InvLoop(w)' /\ InvContext(w)'
    BY <1>9, <2>1, SameBatch DEF Begin, BatchInv, InvLoop, InvContext
  <2>3. QED
    BY <1>9, <2>2, LocalInv DEF Begin, TypeOK, queue
<1>10. ASSUME NEW w \in Workers, Parse(w) PROVE BatchInv'
  <2>1. /\ phase'[w] = "handle" /\ i'[w] = i[w] /\ batch'[w] = batch[w]
        /\ failures'[w] = failures[w] /\ succeeded'[w] = succeeded[w]
        /\ context'[w] = <<Current(w), TRUE>> /\ token'[w] = token[w]
    BY <1>10 DEF Parse, TypeOK
  <2>2. InvLoop(w)' /\ InvContext(w)'
    BY <1>10, <2>1, SameBatch DEF Parse, BatchInv, InvLoop, InvContext
  <2>3. QED
    BY <1>10, <2>2, LocalInv DEF Parse, TypeOK, queue
<1>11. ASSUME NEW w \in Workers, NEW d \in 0..Budget, Handled(w, d) PROVE BatchInv'
  <2>1. TypeOK'
    BY <1>11, TypeStep DEF BatchInv
  <2>2. QED
    BY <1>11, <2>1, EndRecordInv DEF Handled, TypeOK
<1>12. ASSUME NEW w \in Workers, NEW d \in 0..Budget, Failed(w, d) PROVE BatchInv'
  <2>1. TypeOK'
    BY <1>12, TypeStep DEF BatchInv
  <2>2. phase[w] \in {"parse", "handle"}
    BY <1>12 DEF Failed
  <2>3. /\ failures'[w] = failures[w] \cup {Current(w)}
        /\ succeeded' = succeeded
        /\ \A u \in Workers \ {w} : failures'[u] = failures[u]
        /\ EndRecord(w, d)
    BY <1>12 DEF Failed, TypeOK
  <2>4. QED
    BY <2>1, <2>2, <2>3, EndRecordInv DEF TypeOK
<1>13. ASSUME NEW w \in Workers, LoopDone(w) PROVE BatchInv'
  <2>1. /\ phase'[w] = "returned" /\ i'[w] = i[w] /\ batch'[w] = batch[w]
        /\ failures'[w] = failures[w] /\ succeeded'[w] = succeeded[w]
        /\ context'[w] = context[w]
    BY <1>13 DEF LoopDone, TypeOK
  <2>2. Members(w) = Before(w)
    BY <1>13, Split DEF LoopDone, BatchInv
  <2>3. failures[w] = Members(w) \ succeeded[w]
    BY <1>13, <2>2 DEF LoopDone, BatchInv, InvLoop
  <2>4. InvLoop(w)' /\ InvContext(w)'
    BY <1>13, <2>1, <2>3, SameBatch DEF LoopDone, BatchInv, InvLoop, InvContext
  <2>5. QED
    BY <1>13, <2>4, LocalInv DEF LoopDone, TypeOK, queue
<1>14. QED
  BY <1>1, <1>2, <1>3, <1>4, <1>5, <1>6, <1>7, <1>8, <1>9, <1>10, <1>11, <1>12, <1>13
  DEF Next, Step

LEMMA InitInv == Init => TypeOK /\ BatchInv
<1> SUFFICES ASSUME Init PROVE TypeOK /\ BatchInv
  OBVIOUS
<1>1. TypeOK
  BY DEF Init, TypeOK, Phases, Contexts
<1>2. ASSUME NEW w \in Workers
      PROVE  Members(w) = {} /\ InvLoop(w) /\ InvContext(w)
  <2>1. batch[w] = <<>> /\ i[w] = 1 /\ phase[w] = "waiting" /\ context[w] = None
    BY DEF Init
  <2>2. QED
    BY <2>1 DEF Members, InvLoop, InvContext, Distinct
<1>3. QED
  BY <1>1, <1>2 DEF BatchInv, InvHeld

\* Every reachable state is well typed and satisfies the loop invariant, for any
\* number of environments and records and any batch size, budget and margin.
THEOREM BatchInvariant == Spec => [](TypeOK /\ BatchInv)
<1>1. TypeOK /\ BatchInv /\ [Next]_vars => (TypeOK /\ BatchInv)'
  BY TypeStep, InvStep DEF BatchInv
<1>2. QED
  BY InitInv, <1>1, PTL DEF Spec

\* Every variable of the batch loop and of the queue is of its kind: a failure
\* list names records, and time left and receives never go below zero.
THEOREM BatchTypes == Spec => []TypeOK
  BY BatchInvariant, PTL

\* handler() reports exactly the records it did not handle.
THEOREM ReportExact == Spec => []ReportIsExact
<1>1. BatchInv => ReportIsExact
  BY DEF BatchInv, InvLoop, ReportIsExact
<1>2. QED
  BY BatchInvariant, <1>1, PTL

\* The log context names the record being handled, and nothing between records.
THEOREM ContextCorrect == Spec => []ContextNamesRecord
<1>1. TypeOK /\ BatchInv => ContextNamesRecord
  BY DEF TypeOK, BatchInv, InvContext, ContextNamesRecord, Phases
<1>2. QED
  BY BatchInvariant, <1>1, PTL

\* A record is only deleted from the queue after it was handled without error.
THEOREM AcknowledgedHandled == Spec => AcknowledgedWasHandled
<1> DEFINE Acked == \A r \in Records :
                      status[r] = "inflight" /\ status'[r] = "done"
                        => \E w \in Workers : r \in Members(w) /\ r \in succeeded[w]
<1>1. ASSUME TypeOK, BatchInv, [Next]_vars PROVE Acked
  <2> SUFFICES ASSUME NEW r \in Records, status[r] = "inflight", status'[r] = "done"
               PROVE  \E w \in Workers : r \in Members(w) /\ r \in succeeded[w]
    OBVIOUS
  <2>1. PICK w \in Workers : Report(w) \/ Crash(w)
    <3>1. status' # status
      OBVIOUS
    <3>2. ASSUME NEW w \in Workers, NEW b \in Batches PROVE ~Invoke(w, b)
      BY DEF Invoke
    <3>3. ASSUME NEW x \in Records PROVE ~Redeliver(x)
      BY <1>1 DEF Redeliver, TypeOK
    <3>4. QED
      BY <1>1, <3>1, <3>2, <3>3
      DEF Next, Step, vars, queue, SetupDone, SetupFails, TimeUp, Begin,
          Parse, Handled, Failed, EndRecord, LoopDone
  <2>2. CASE Crash(w)
    BY <2>2 DEF Crash, Release
  <2>3. CASE Report(w)
    <3>1. r \in Members(w) /\ r \notin failures[w]
      BY <2>3 DEF Report, Release
    <3>2. failures[w] = Members(w) \ succeeded[w]
      BY <1>1, <2>3 DEF Report, BatchInv, InvLoop
    <3>3. QED
      BY <3>1, <3>2
  <2>4. QED
    BY <2>1, <2>2, <2>3
<1>2. QED
  BY BatchInvariant, <1>1, PTL DEF Spec, AcknowledgedWasHandled
=============================================================================
