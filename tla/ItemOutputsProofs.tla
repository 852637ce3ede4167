------------------------- MODULE ItemOutputsProofs -------------------------
(* Theorems about module ItemOutputs, for every value of its constants. *)
EXTENDS ItemOutputs, TLAPS

-----------------------------------------------------------------------------
(* Type correctness. *)

LEMMA EmptyDistType == EmptyDist \in [Key -> Versions \cup {None}]
  BY DEF EmptyDist

LEMMA ForgetType ==
  ASSUME TypeOK, NEW w \in Workers, Forget(w)
  PROVE  /\ pc' \in [Workers -> States]
         /\ record' \in [Workers -> Records \cup {None}]
         /\ ver' \in [Workers -> Versions \cup {None}]
         /\ todo' \in [Workers -> SUBSET Key]
         /\ scan' \in [Workers -> SUBSET Prefixes]
         /\ doomed' \in [Workers -> SUBSET Key]
         /\ fault' \in [Workers -> BOOLEAN]
  BY DEF TypeOK, Forget, Goto, States

LEMMA RequeueType ==
  ASSUME TypeOK, NEW r, Requeue(r)
  PROVE  status' \in [Records -> {"unsent", "queued", "busy", "done", "dlq"}]
  BY DEF TypeOK, Requeue

LEMMA ReturnType ==
  ASSUME TypeOK, NEW w \in Workers, NEW ok \in BOOLEAN, Return(w, ok)
  PROVE  TypeOK'
<1>1. dist' \in [Workers -> [Key -> Versions \cup {None}]]
  BY EmptyDistType DEF TypeOK, Return
<1>2. status' \in [Records -> {"unsent", "queued", "busy", "done", "dlq"}]
  BY RequeueType DEF TypeOK, Return
<1>3. QED
  BY <1>1, <1>2, ForgetType DEF TypeOK, Return

LEMMA RequestType ==
  ASSUME TypeOK, NEW w \in Workers, NEW b \in [Key -> Versions \cup {None}],
         Request(w, b)
  PROVE  /\ bucket' \in [Key -> Versions \cup {None}]
         /\ fault' \in [Workers -> BOOLEAN]
  BY DEF TypeOK, Request

LEMMA TypeStep ==
  ASSUME TypeOK, [Next]_vars
  PROVE  TypeOK'
<1>1. CASE UNCHANGED vars
  BY <1>1 DEF TypeOK, vars, queue, handler
<1>2. ASSUME NEW r \in Records, NEW v \in Versions, PutSource(r, v) PROVE TypeOK'
  BY <1>2 DEF TypeOK, PutSource, handler
<1>3. ASSUME NEW r \in Records, DeleteSource(r) PROVE TypeOK'
  BY <1>3 DEF TypeOK, DeleteSource, handler
<1>4. ASSUME NEW r \in Records, Redeliver(r) PROVE TypeOK'
  BY <1>4 DEF TypeOK, Redeliver, handler
<1>5. ASSUME NEW w \in Workers, NEW r \in Records, Receive(w, r) PROVE TypeOK'
  <2>1. Locations \X Direct \subseteq Key
    BY DEF Key
  <2>2. status' \in [Records -> {"unsent", "queued", "busy", "done", "dlq"}]
    BY <1>5 DEF TypeOK, Receive
  <2>3. /\ receives' \in [Records -> Nat]
        /\ record' \in [Workers -> Records \cup {None}]
    BY <1>5 DEF TypeOK, Receive
  <2>4. /\ pc' \in [Workers -> States]
        /\ todo' \in [Workers -> SUBSET Key]
        /\ scan' \in [Workers -> SUBSET Prefixes]
    <3>1. CASE kind[r] = "created"
      BY <1>5, <3>1 DEF TypeOK, Receive, Goto, States
    <3>2. CASE kind[r] = "removed"
      <4>1. /\ pc' = [pc EXCEPT ![w] = "remove"]
            /\ todo' = [todo EXCEPT ![w] = Locations \X Direct]
            /\ scan' = [scan EXCEPT ![w] = Prefixes]
        BY <1>5, <3>2 DEF Receive, Goto
      <4>2. "remove" \in States
        BY DEF States
      <4>3. QED
        BY <2>1, <4>1, <4>2 DEF TypeOK
    <3>3. QED
      BY <1>5, <3>1, <3>2 DEF Receive
  <2>5. QED
    BY <1>5, <2>2, <2>3, <2>4 DEF TypeOK, Receive
<1>6. ASSUME NEW w \in Workers, Crash(w) PROVE TypeOK'
  BY <1>6, ForgetType, RequeueType DEF TypeOK, Crash
<1>7. ASSUME NEW w \in Workers, Download(w) PROVE TypeOK'
  BY <1>7, EmptyDistType DEF TypeOK, Download, Goto, States, queue
<1>8. ASSUME NEW w \in Workers, Build(w) PROVE TypeOK'
  BY <1>8 DEF TypeOK, Build, Goto, States, queue
<1>9. ASSUME NEW w \in Workers, Raise(w) PROVE TypeOK'
  BY <1>9, ReturnType DEF Raise
<1>10. ASSUME NEW w \in Workers, NEW k \in Key, UploadFile(w, k) PROVE TypeOK'
  <2>1. [bucket EXCEPT ![k] = dist[w][k]] \in [Key -> Versions \cup {None}]
    BY DEF TypeOK
  <2>2. QED
    BY <1>10, <2>1, RequestType DEF TypeOK, UploadFile, queue
<1>11. ASSUME NEW w \in Workers, NEW k \in Key, HeadObject(w, k) PROVE TypeOK'
  <2>1. Present({k}) \subseteq Key
    BY DEF Present
  <2>2. todo' \in [Workers -> SUBSET Key]
    BY <1>11 DEF TypeOK, HeadObject
  <2>3. doomed' \in [Workers -> SUBSET Key] /\ fault' \in [Workers -> BOOLEAN]
    BY <1>11, <2>1 DEF TypeOK, HeadObject
  <2>4. QED
    BY <1>11, <2>2, <2>3 DEF TypeOK, HeadObject, queue
<1>12. ASSUME NEW w \in Workers, NEW k \in Key, DeleteObject(w, k) PROVE TypeOK'
  <2>1. [bucket EXCEPT ![k] = None] \in [Key -> Versions \cup {None}]
    BY DEF TypeOK
  <2>2. QED
    BY <1>12, <2>1, RequestType DEF TypeOK, DeleteObject, queue
<1>13. ASSUME NEW w \in Workers, UploadDone(w) PROVE TypeOK'
  <2>1. CASE Return(w, FALSE)
    BY <2>1, ReturnType
  <2>2. CASE /\ Goto(w, "reconcile")
             /\ scan' = [scan EXCEPT ![w] = Prefixes]
             /\ UNCHANGED <<src, bucket, queue, record, ver, dist, todo, doomed, fault>>
    BY <2>2 DEF TypeOK, Goto, States, queue
  <2>3. QED
    BY <1>13, <2>1, <2>2 DEF UploadDone
<1>14. ASSUME NEW w \in Workers, NEW f \in Families, NEW l \in Locations, ListStale(w, f, l)
       PROVE  TypeOK'
  BY <1>14 DEF TypeOK, ListStale, Present, PageKeys, queue
<1>15. ASSUME NEW w \in Workers, NEW f \in Families, NEW l \in Locations, ListPages(w, f, l)
       PROVE  TypeOK'
  <2>1. Present(PageKeys(f, l)) \subseteq Key
    BY DEF Present, PageKeys
  <2>2. scan' \in [Workers -> SUBSET Prefixes]
    BY <1>15 DEF TypeOK, ListPages
  <2>3. doomed' \in [Workers -> SUBSET Key]
    BY <1>15, <2>1 DEF TypeOK, ListPages
  <2>4. fault' \in [Workers -> BOOLEAN]
    BY <1>15 DEF TypeOK, ListPages
  <2>5. QED
    BY <1>15, <2>2, <2>3, <2>4 DEF TypeOK, ListPages, queue
<1>16. ASSUME NEW w \in Workers, ReconcileDone(w) PROVE TypeOK'
  <2> DEFINE l == Opposite(BuiltLocation(w))
  <2>1. CASE Return(w, FALSE)
    BY <2>1, ReturnType
  <2>2. CASE /\ Goto(w, "supersede")
             /\ todo' = [todo EXCEPT ![w] = {l} \X Direct]
             /\ scan' = [scan EXCEPT ![w] = Families \X {l}]
             /\ UNCHANGED <<src, bucket, queue, record, ver, dist, doomed, fault>>
    <3>1. l \in Locations
      BY DEF Opposite, Locations
    <3>2. {l} \X Direct \subseteq Key /\ Families \X {l} \subseteq Prefixes
      BY <3>1 DEF Key, Prefixes
    <3> HIDE DEF l
    <3>3. QED
      BY <2>2, <3>2 DEF TypeOK, Goto, States, queue
  <2>3. QED
    BY <1>16, <2>1, <2>2 DEF ReconcileDone
<1>17. ASSUME NEW w \in Workers, ClearDone(w) PROVE TypeOK'
  BY <1>17, ReturnType DEF TypeOK, ClearDone
<1>18. QED
  BY <1>1, <1>2, <1>3, <1>4, <1>5, <1>6, <1>7, <1>8, <1>9, <1>10, <1>11, <1>12, <1>13,
     <1>14, <1>15, <1>16, <1>17 DEF Next, Environment, Step

LEMMA InitType == Init => TypeOK
  BY EmptyDistType DEF Init, TypeOK, States

\* Every reachable state is well typed.
THEOREM TypeCorrect == Spec => []TypeOK
  BY InitType, TypeStep, PTL DEF Spec

-----------------------------------------------------------------------------
(* A record is held by at most one environment. *)

LEMMA HeldProgress ==
  ASSUME HeldOnce, NEW w \in Workers, pc[w] # "idle",
         record' = record, status' = status,
         \/ pc' = pc
         \/ \E p \in States \ {"idle"} : Goto(w, p), TypeOK
  PROVE  HeldOnce'
<1>1. \A u \in Workers : (pc'[u] = "idle") <=> (pc[u] = "idle")
  BY DEF Goto, TypeOK
<1>2. QED
  BY <1>1 DEF HeldOnce

LEMMA HeldRelease ==
  ASSUME TypeOK, HeldOnce, NEW w \in Workers, pc[w] # "idle", Forget(w),
         NEW s \in {"queued", "done", "dlq"},
         status' = [status EXCEPT ![record[w]] = s]
  PROVE  HeldOnce'
<1>1. record[w] \in Records /\ status[record[w]] = "busy"
  BY DEF HeldOnce, TypeOK
<1>2. pc'[w] = "idle" /\ record'[w] = None
  BY DEF Forget, Goto, TypeOK
<1>3. ASSUME NEW u \in Workers, u # w
      PROVE  pc'[u] = pc[u] /\ record'[u] = record[u] /\ record[u] # record[w]
  BY <1>1, <1>3, ConstantsAssumption DEF Forget, Goto, TypeOK, HeldOnce
<1>4. status'[record[w]] = s /\ \A r \in Records : r # record[w] => status'[r] = status[r]
  BY <1>1 DEF TypeOK
<1>5. \A u \in Workers : (pc'[u] = "idle") <=> (record'[u] = None)
  BY <1>2, <1>3 DEF HeldOnce
<1>6. \A u \in Workers : record'[u] # None => status'[record'[u]] = "busy"
  BY <1>2, <1>3, <1>4 DEF HeldOnce, TypeOK
<1>7. \A r \in Records : status'[r] = "busy" => \E u \in Workers : record'[u] = r
  <2> TAKE r \in Records
  <2> HAVE status'[r] = "busy"
  <2>1. r # record[w] /\ status[r] = "busy"
    BY <1>4
  <2>2. PICK u \in Workers : record[u] = r
    BY <2>1 DEF HeldOnce
  <2>3. QED
    BY <1>3, <2>1, <2>2
<1>8. \A w1, w2 \in Workers : record'[w1] = record'[w2] /\ record'[w1] # None => w1 = w2
  BY <1>2, <1>3 DEF HeldOnce
<1>9. QED
  BY <1>5, <1>6, <1>7, <1>8 DEF HeldOnce

LEMMA HeldReturn ==
  ASSUME TypeOK, HeldOnce, NEW w \in Workers, NEW ok \in BOOLEAN, pc[w] # "idle",
         Return(w, ok)
  PROVE  HeldOnce'
<1>1. \E s \in {"queued", "done", "dlq"} : status' = [status EXCEPT ![record[w]] = s]
  BY DEF Return, Requeue
<1>2. QED
  BY <1>1, HeldRelease DEF Return

LEMMA HeldStep ==
  ASSUME TypeOK, HeldOnce, [Next]_vars
  PROVE  HeldOnce'
<1>1. CASE UNCHANGED vars
  BY <1>1 DEF HeldOnce, vars, queue, handler
<1>2. ASSUME NEW r \in Records, NEW s \in {"queued"}, status[r] # "busy",
             status' = [status EXCEPT ![r] = s], UNCHANGED handler
      PROVE  HeldOnce'
  BY <1>2 DEF HeldOnce, TypeOK, handler
<1>3. ASSUME NEW r \in Records, \/ \E v \in Versions : PutSource(r, v)
                                \/ DeleteSource(r) \/ Redeliver(r)
      PROVE  HeldOnce'
  BY <1>2, <1>3 DEF PutSource, DeleteSource, Redeliver
<1>4. ASSUME NEW w \in Workers, NEW r \in Records, Receive(w, r) PROVE HeldOnce'
  <2>1. /\ pc[w] = "idle" /\ pc'[w] \in {"download", "remove"}
        /\ record'[w] = r /\ r # None
        /\ \A u \in Workers : u # w => pc'[u] = pc[u] /\ record'[u] = record[u]
    BY <1>4, ConstantsAssumption DEF Receive, Goto, TypeOK
  <2>2. /\ status[r] = "queued" /\ status'[r] = "busy"
        /\ \A x \in Records : x # r => status'[x] = status[x]
    BY <1>4 DEF Receive, TypeOK
  <2>3. \A u \in Workers : record[u] # r
    BY <2>1, <2>2 DEF HeldOnce
  <2>4. \A u \in Workers : (pc'[u] = "idle") <=> (record'[u] = None)
    BY <2>1 DEF HeldOnce
  <2>5. \A u \in Workers : record'[u] # None => status'[record'[u]] = "busy"
    BY <2>1, <2>2 DEF HeldOnce, TypeOK
  <2>6. \A x \in Records : status'[x] = "busy" => \E u \in Workers : record'[u] = x
    <3> TAKE x \in Records
    <3> HAVE status'[x] = "busy"
    <3>1. CASE x = r
      BY <2>1, <3>1
    <3>2. CASE x # r
      <4>1. PICK u \in Workers : record[u] = x
        BY <2>2, <3>2 DEF HeldOnce
      <4>2. u # w
        BY <2>1, <4>1, ConstantsAssumption DEF HeldOnce
      <4>3. QED
        BY <2>1, <4>1, <4>2
    <3>3. QED
      BY <3>1, <3>2
  <2>7. \A w1, w2 \in Workers : record'[w1] = record'[w2] /\ record'[w1] # None => w1 = w2
    BY <2>1, <2>3 DEF HeldOnce
  <2>8. QED
    BY <2>4, <2>5, <2>6, <2>7 DEF HeldOnce
<1>5. ASSUME NEW w \in Workers, Crash(w) PROVE HeldOnce'
  <2>1. \E s \in {"queued", "done", "dlq"} : status' = [status EXCEPT ![record[w]] = s]
    BY <1>5 DEF Crash, Requeue
  <2>2. QED
    BY <1>5, <2>1, HeldRelease DEF Crash
<1>6. ASSUME NEW w \in Workers, Step(w) PROVE HeldOnce'
  <2>1. pc[w] # "idle"
    BY <1>6 DEF Step, Download, Build, Raise, UploadFile, HeadObject,
                DeleteObject, UploadDone, ListStale, ListPages, ReconcileDone, ClearDone
  <2>2. CASE \E ok \in BOOLEAN : Return(w, ok)
    BY <2>1, <2>2, HeldReturn
  <2>3. CASE ~\E ok \in BOOLEAN : Return(w, ok)
    <3>1. record' = record /\ status' = status
      BY <1>6, <2>3 DEF Step, Download, Build, Raise, UploadFile, HeadObject,
           DeleteObject, UploadDone, ListStale, ListPages, ReconcileDone, ClearDone, queue
    <3>2. pc' = pc \/ \E p \in States \ {"idle"} : Goto(w, p)
      BY <1>6, <2>3 DEF Step, Download, Build, Raise, UploadFile, HeadObject,
           DeleteObject, UploadDone, ListStale, ListPages, ReconcileDone, ClearDone, States
    <3>3. QED
      BY <2>1, <3>1, <3>2, HeldProgress
  <2>4. QED
    BY <2>2, <2>3
<1>7. QED
  BY <1>1, <1>3, <1>4, <1>5, <1>6 DEF Next, Environment

LEMMA InitHeld == Init => HeldOnce
  BY DEF Init, HeldOnce

\* No record is handled twice at once, or lost while it is handled.
THEOREM HeldByOne == Spec => []HeldOnce
<1>1. Init => TypeOK /\ HeldOnce
  BY InitType, InitHeld
<1>2. TypeOK /\ HeldOnce /\ [Next]_vars => (TypeOK /\ HeldOnce)'
  BY TypeStep, HeldStep
<1>3. QED
  BY <1>1, <1>2, PTL DEF Spec
-----------------------------------------------------------------------------
(* Lemmas about keys and locations. *)

LEMMA KeyParts ==
  ASSUME NEW k \in Key
  PROVE  /\ k = <<k[1], k[2]>> /\ k[1] \in Locations
         /\ k[2] \in Direct \/ k[2] \in Pages
         /\ k[2] \in Direct <=> k[2] \notin Pages
  BY ConstantsAssumption DEF Key

LEMMA LocationType == \A v : LocationOf(v) \in Locations
  BY DEF LocationOf, Locations

LEMMA OutputKeysChar ==
  ASSUME NEW v \in Versions, NEW k \in Key
  PROVE  k \in OutputKeys(v) <=>
           k[1] = LocationOf(v) /\ k[2] \in (Direct \cup PagesOf[v]) \ Skipped
  BY KeyParts DEF OutputKeys

LEMMA OutputKeysType ==
  ASSUME NEW v \in Versions
  PROVE  OutputKeys(v) \subseteq Key
<1>1. PagesOf[v] \subseteq Pages
  BY ConstantsAssumption
<1>2. QED
  BY <1>1, LocationType DEF OutputKeys, Key

LEMMA DistOfValue ==
  ASSUME NEW v \in Versions, NEW k \in Key
  PROVE  /\ DistOf(v)[k] # None <=> k \in OutputKeys(v)
         /\ k \in OutputKeys(v) => DistOf(v)[k] = v
  BY ConstantsAssumption DEF DistOf

\* delete_superseded_outputs reads off dist/ the location the build chose.
LEMMA BuiltLocationCorrect ==
  ASSUME NEW w \in Workers, ver[w] \in Versions, dist[w] = DistOf(ver[w])
  PROVE  BuiltLocation(w) = LocationOf(ver[w])
<1>1. CASE LocationOf(ver[w]) = "unreleased"
  <2>1. PICK p \in Direct : p \notin Skipped
    BY ConstantsAssumption
  <2>2. <<"unreleased", p>> \in Key /\ <<"unreleased", p>> \in OutputKeys(ver[w])
    BY <1>1, <2>1 DEF Key, Locations, OutputKeys
  <2>3. dist[w][<<"unreleased", p>>] # None
    BY <2>2, DistOfValue
  <2>4. QED
    BY <1>1, <2>2, <2>3 DEF BuiltLocation
<1>2. CASE LocationOf(ver[w]) = "released"
  <2>1. \A k \in Key : dist[w][k] # None => k[1] = "released"
    BY <1>2, DistOfValue, OutputKeysChar
  <2>2. QED
    BY <1>2, <2>1 DEF BuiltLocation
<1>3. QED
  BY <1>1, <1>2, LocationType DEF Locations

LEMMA OppositeCorrect ==
  ASSUME NEW l \in Locations
  PROVE  /\ Opposite(l) \in Locations /\ Opposite(l) # l
         /\ \A m \in Locations : m # l => m = Opposite(l)
  BY DEF Opposite, Locations

-----------------------------------------------------------------------------
(* What an environment may delete, whatever the other environments do. *)

\* What the handler of w knows of its own lists; the bucket is not mentioned,
\* since any other environment may change it.
OwnInv(w) ==
  /\ InvBuild(w)
  /\ pc[w] = "upload" =>
       todo[w] \subseteq OutputKeys(ver[w]) /\ scan[w] = {} /\ doomed[w] = {}
  /\ pc[w] = "reconcile" =>
       todo[w] = {} /\ \A k \in doomed[w] : k[2] \in Pages /\ k \notin OutputKeys(ver[w])
  /\ pc[w] = "supersede" =>
       /\ \A k \in todo[w] \cup doomed[w] : k[1] # LocationOf(ver[w])
       /\ \A x \in scan[w] : x[2] # LocationOf(ver[w])
  /\ pc[w] = "remove" => kind[record[w]] = "removed"

LEMMA OwnForget ==
  ASSUME TypeOK, NEW w \in Workers, Forget(w)
  PROVE  OwnInv(w)'
<1>1. /\ pc'[w] = "idle" /\ todo'[w] = {} /\ scan'[w] = {} /\ doomed'[w] = {}
      /\ fault'[w] = FALSE
  BY DEF Forget, Goto, TypeOK
<1>2. QED
  BY <1>1 DEF OwnInv, InvBuild

\* What w does not change: the records it does not hold and the other handlers.
LEMMA OwnFrame ==
  ASSUME TypeOK, HeldOnce, NEW u \in Workers, OwnInv(u),
         /\ pc'[u] = pc[u] /\ record'[u] = record[u] /\ ver'[u] = ver[u]
         /\ dist'[u] = dist[u] /\ todo'[u] = todo[u] /\ scan'[u] = scan[u]
         /\ doomed'[u] = doomed[u] /\ fault'[u] = fault[u],
         \A r \in Records : status[r] = "busy" => kind'[r] = kind[r]
  PROVE  OwnInv(u)'
<1>1. pc[u] = "remove" => kind'[record[u]] = kind[record[u]]
  BY DEF HeldOnce, TypeOK
<1>2. InvBuild(u)'
  BY DEF OwnInv, InvBuild
<1>3. QED
  BY <1>1, <1>2 DEF OwnInv

LEMMA OthersFramed ==
  ASSUME TypeOK, NEW w \in Workers, NEW u \in Workers, u # w,
         Step(w) \/ Crash(w) \/ \E r \in Records : Receive(w, r)
  PROVE  /\ kind' = kind
         /\ pc'[u] = pc[u] /\ record'[u] = record[u] /\ ver'[u] = ver[u]
         /\ dist'[u] = dist[u] /\ todo'[u] = todo[u] /\ scan'[u] = scan[u]
         /\ doomed'[u] = doomed[u] /\ fault'[u] = fault[u]
<1> DEFINE Framed == /\ kind' = kind
                     /\ pc'[u] = pc[u] /\ record'[u] = record[u] /\ ver'[u] = ver[u]
                     /\ dist'[u] = dist[u] /\ todo'[u] = todo[u] /\ scan'[u] = scan[u]
                     /\ doomed'[u] = doomed[u] /\ fault'[u] = fault[u]
<1>1. CASE \/ Forget(w) /\ dist' = dist /\ kind' = kind
           \/ \E ok \in BOOLEAN : Return(w, ok)
  BY <1>1 DEF Return, Forget, Goto, TypeOK
<1>2. ASSUME NEW k \in Key, UploadFile(w, k) \/ HeadObject(w, k) \/ DeleteObject(w, k)
      PROVE  Framed
  BY <1>2 DEF UploadFile, HeadObject, DeleteObject, Request, TypeOK, queue
<1>3. CASE Download(w) \/ Build(w) \/ \E r \in Records : Receive(w, r)
  BY <1>3 DEF Download, Build, Receive, Goto, TypeOK, queue
<1>4. CASE UploadDone(w) \/ ReconcileDone(w)
  BY <1>1, <1>4 DEF UploadDone, ReconcileDone, Goto, TypeOK, queue
<1>5. ASSUME NEW f \in Families, NEW l \in Locations,
             ListStale(w, f, l) \/ ListPages(w, f, l)
      PROVE  Framed
  BY <1>5 DEF ListStale, ListPages, TypeOK, queue
<1>6. CASE Raise(w) \/ ClearDone(w) \/ Crash(w)
  BY <1>1, <1>6 DEF Raise, ClearDone, Crash, TypeOK
<1>7. QED
  BY <1>2, <1>3, <1>4, <1>5, <1>6 DEF Step

LEMMA OwnWork ==
  ASSUME TypeOK, HeldOnce, NEW w \in Workers, OwnInv(w),
         Step(w) \/ Crash(w) \/ \E r \in Records : Receive(w, r)
  PROVE  OwnInv(w)'
<1>1. CASE Forget(w) \/ \E ok \in BOOLEAN : Return(w, ok)
  BY <1>1, OwnForget DEF Return
<1>2. ASSUME NEW r \in Records, Receive(w, r) PROVE OwnInv(w)'
  <2>1. /\ todo[w] = {} /\ scan[w] = {} /\ doomed[w] = {} /\ ~fault[w]
        /\ doomed' = doomed /\ fault' = fault /\ kind' = kind /\ record'[w] = r
    BY <1>2 DEF Receive, OwnInv, InvBuild, TypeOK
  <2>2. CASE kind[r] = "created"
    <3>1. pc'[w] = "download" /\ todo' = todo /\ scan' = scan
      BY <1>2, <2>2 DEF Receive, Goto, TypeOK
    <3>2. QED
      BY <2>1, <3>1 DEF OwnInv, InvBuild
  <2>3. CASE kind[r] = "removed"
    <3>1. pc'[w] = "remove"
      BY <1>2, <2>3 DEF Receive, Goto, TypeOK
    <3>2. QED
      BY <2>1, <2>3, <3>1 DEF OwnInv, InvBuild
  <2>4. QED
    BY <2>2, <2>3 DEF TypeOK
<1>3. CASE Download(w)
  <2>1. todo[w] = {} /\ scan[w] = {} /\ doomed[w] = {} /\ ~fault[w]
    BY <1>3 DEF Download, OwnInv, InvBuild
  <2>2. /\ pc'[w] = "build" /\ ver'[w] \in Versions /\ dist'[w] = EmptyDist
        /\ todo' = todo /\ scan' = scan /\ doomed' = doomed /\ fault' = fault
    BY <1>3 DEF Download, Goto, TypeOK
  <2>3. QED
    BY <2>1, <2>2 DEF OwnInv, InvBuild
<1>4. CASE Build(w)
  <2>1. /\ todo[w] = {} /\ scan[w] = {} /\ doomed[w] = {}
        /\ dist[w] = EmptyDist /\ ver[w] \in Versions
    BY <1>4 DEF Build, OwnInv, InvBuild
  <2>2. /\ pc'[w] = "upload" /\ ver' = ver
        /\ dist'[w] = [k \in Key |-> IF k \in OutputKeys(ver[w]) THEN ver[w] ELSE dist[w][k]]
        /\ todo'[w] = {k \in Key : dist'[w][k] # None}
        /\ scan' = scan /\ doomed' = doomed
    BY <1>4 DEF Build, Goto, TypeOK
  <2>3. dist'[w] = DistOf(ver[w])
    BY <2>1, <2>2 DEF EmptyDist, DistOf
  <2>4. todo'[w] \subseteq OutputKeys(ver[w])
    BY <2>1, <2>2, <2>3, DistOfValue
  <2>5. InvBuild(w)'
    BY <2>1, <2>2, <2>3 DEF InvBuild, DistOf, OutputKeys
  <2>6. QED
    BY <2>1, <2>2, <2>4, <2>5 DEF OwnInv, OutputKeys
<1>5. ASSUME NEW k \in Key, UploadFile(w, k) PROVE OwnInv(w)'
  <2>1. /\ pc[w] = "upload" /\ todo'[w] = todo[w] \ {k}
        /\ UNCHANGED <<pc, ver, dist, scan, doomed>>
    BY <1>5 DEF UploadFile, TypeOK
  <2>2. QED
    BY <2>1 DEF OwnInv, InvBuild
<1>6. CASE UploadDone(w)
  <2>1. CASE /\ Goto(w, "reconcile")
             /\ UNCHANGED <<ver, dist, todo, doomed>>
    <3>1. pc[w] = "upload" /\ pc'[w] = "reconcile" /\ todo[w] = {} /\ doomed[w] = {}
      BY <1>6, <2>1 DEF UploadDone, Goto, TypeOK, OwnInv
    <3>2. QED
      BY <2>1, <3>1 DEF OwnInv, InvBuild
  <2>2. QED
    BY <1>1, <1>6, <2>1 DEF UploadDone
<1>7. ASSUME NEW f \in Families, NEW l \in Locations, ListStale(w, f, l) PROVE OwnInv(w)'
  <2> DEFINE stale == {k \in Present(PageKeys(f, l)) : dist[w][k] = None}
  <2>1. /\ pc[w] = "reconcile" /\ ver[w] \in Versions /\ dist[w] = DistOf(ver[w])
        /\ doomed'[w] = doomed[w] \cup stale
        /\ UNCHANGED <<pc, ver, dist, todo>>
    BY <1>7 DEF ListStale, TypeOK, OwnInv, InvBuild
  <2>2. \A k \in stale : k[2] \in Pages /\ k \notin OutputKeys(ver[w])
    BY <2>1, DistOfValue DEF Present, PageKeys
  <2> HIDE DEF stale
  <2>3. QED
    BY <2>1, <2>2 DEF OwnInv, InvBuild
<1>8. CASE ReconcileDone(w)
  <2> DEFINE l == Opposite(BuiltLocation(w))
  <2>1. CASE /\ Goto(w, "supersede")
             /\ todo' = [todo EXCEPT ![w] = {l} \X Direct]
             /\ scan' = [scan EXCEPT ![w] = Families \X {l}]
             /\ UNCHANGED <<ver, dist, doomed>>
    <3>1. /\ pc[w] = "reconcile" /\ doomed[w] = {} /\ ver[w] \in Versions
          /\ dist[w] = DistOf(ver[w])
      BY <1>8 DEF ReconcileDone, OwnInv, InvBuild
    <3>2. pc'[w] = "supersede" /\ todo'[w] = {l} \X Direct /\ scan'[w] = Families \X {l}
      BY <2>1 DEF Goto, TypeOK
    <3>3. l # LocationOf(ver[w])
      BY <3>1, BuiltLocationCorrect, LocationType, OppositeCorrect
    <3> HIDE DEF l
    <3>4. InvBuild(w)'
      BY <2>1, <3>1, <3>2 DEF InvBuild
    <3>5. QED
      BY <2>1, <3>1, <3>2, <3>3, <3>4 DEF OwnInv
  <2>2. QED
    BY <1>1, <1>8, <2>1 DEF ReconcileDone
<1>9. ASSUME NEW k \in Key, HeadObject(w, k) PROVE OwnInv(w)'
  <2>1. /\ pc[w] \in {"supersede", "remove"} /\ k \in todo[w] /\ todo'[w] = todo[w] \ {k}
        /\ UNCHANGED <<pc, record, kind, ver, dist, scan>>
        /\ doomed'[w] \subseteq doomed[w] \cup {k}
    BY <1>9 DEF HeadObject, Present, TypeOK, queue
  <2>2. QED
    BY <2>1 DEF OwnInv, InvBuild
<1>10. ASSUME NEW f \in Families, NEW l \in Locations, ListPages(w, f, l) PROVE OwnInv(w)'
  <2>1. /\ pc[w] \in {"supersede", "remove"} /\ <<f, l>> \in scan[w]
        /\ scan'[w] \subseteq scan[w]
        /\ UNCHANGED <<pc, record, kind, ver, dist, todo>>
    BY <1>10 DEF ListPages, TypeOK, queue
  <2>2. \A k \in doomed'[w] : k \in doomed[w] \/ k[1] = l
    BY <1>10 DEF ListPages, Present, PageKeys, TypeOK
  <2>3. pc[w] = "supersede" => l # LocationOf(ver[w])
    <3>1. <<f, l>>[2] = l
      OBVIOUS
    <3>2. QED
      BY <2>1, <3>1 DEF OwnInv
  <2>4. QED
    BY <2>1, <2>2, <2>3 DEF OwnInv, InvBuild
<1>11. ASSUME NEW k \in Key, DeleteObject(w, k) PROVE OwnInv(w)'
  <2>1. /\ pc[w] \in {"reconcile", "supersede", "remove"} /\ doomed'[w] \subseteq doomed[w]
        /\ UNCHANGED <<pc, record, kind, ver, dist, todo, scan>>
    BY <1>11 DEF DeleteObject, TypeOK, queue
  <2>2. QED
    BY <2>1 DEF OwnInv, InvBuild
<1>12. CASE Raise(w) \/ ClearDone(w) \/ Crash(w)
  BY <1>1, <1>12 DEF Raise, ClearDone, Crash, TypeOK
<1>13. QED
  BY <1>2, <1>3, <1>4, <1>5, <1>6, <1>7, <1>8, <1>9, <1>10, <1>11, <1>12 DEF Step

ManyInv == TypeOK /\ HeldOnce /\ \A w \in Workers : OwnInv(w)

LEMMA ManyStep ==
  ASSUME ManyInv, [Next]_vars
  PROVE  ManyInv'
<1>1. TypeOK' /\ HeldOnce'
  BY TypeStep, HeldStep DEF ManyInv
<1>2. ASSUME NEW u \in Workers PROVE OwnInv(u)'
  <2>1. CASE Environment \/ UNCHANGED vars
    <3>1. UNCHANGED handler /\ \A r \in Records : status[r] = "busy" => kind'[r] = kind[r]
      BY <2>1 DEF Environment, PutSource, DeleteSource, Redeliver, ManyInv, TypeOK, vars,
                  queue
    <3>2. QED
      BY <3>1, OwnFrame DEF ManyInv, handler
  <2>2. ASSUME NEW w \in Workers, Step(w) \/ Crash(w) \/ \E r \in Records : Receive(w, r)
        PROVE  OwnInv(u)'
    <3>1. CASE u = w
      BY <2>2, <3>1, OwnWork DEF ManyInv
    <3>2. CASE u # w
      BY <2>2, <3>2, OthersFramed, OwnFrame DEF ManyInv
    <3>3. QED
      BY <3>1, <3>2
  <2>3. QED
    BY <2>1, <2>2 DEF Next
<1>3. QED
  BY <1>1, <1>2 DEF ManyInv

\* Only an upload or a deletion changes the bucket.
LEMMA BucketWriters ==
  ASSUME Next, bucket' # bucket
  PROVE  \E w \in Workers, k \in Key : UploadFile(w, k) \/ DeleteObject(w, k)
<1>1. ~Environment
  BY DEF Environment, PutSource, DeleteSource, Redeliver
<1>2. PICK w \in Workers : Step(w)
  BY <1>1 DEF Next, Crash, Receive
<1>3. \A ok : ~Return(w, ok)
  BY DEF Return
<1>4. QED
  BY <1>2, <1>3
  DEF Step, Download, Build, Raise, HeadObject, UploadDone, ListStale,
      ListPages, ReconcileDone, ClearDone

LEMMA DeletesStep ==
  ASSUME ManyInv, [Next]_vars, NEW k \in Key, bucket[k] # None, bucket'[k] = None
  PROVE  \E w \in Workers :
           /\ k \in doomed[w] \ doomed'[w]
           /\ \/ record[w] # None /\ kind[record[w]] = "removed"
              \/ /\ ver[w] # None /\ k \notin OutputKeys(ver[w])
                 /\ k[1] # LocationOf(ver[w]) \/ k[2] \in Pages
<1>1. PICK w \in Workers, o \in Key : UploadFile(w, o) \/ DeleteObject(w, o)
  BY BucketWriters DEF vars
<1>2. ~UploadFile(w, o)
  <2>1. SUFFICES ASSUME UploadFile(w, o) PROVE FALSE
    OBVIOUS
  <2>2. dist[w][o] # None
    BY <2>1, DistOfValue DEF UploadFile, ManyInv, OwnInv, InvBuild
  <2>3. bucket' = [bucket EXCEPT ![o] = dist[w][o]]
    BY <2>1 DEF UploadFile, Request
  <2>4. QED
    BY <2>2, <2>3 DEF ManyInv, TypeOK
<1>3. DeleteObject(w, k)
  BY <1>1, <1>2 DEF DeleteObject, Request, ManyInv, TypeOK
<1>4. k \in doomed[w] /\ k \notin doomed'[w]
  BY <1>3 DEF DeleteObject, ManyInv, TypeOK
<1>5. CASE pc[w] = "remove"
  BY <1>4, <1>5 DEF ManyInv, HeldOnce, OwnInv
<1>6. CASE pc[w] \in {"reconcile", "supersede"}
  <2>1. ver[w] \in Versions /\ ver[w] # None
    BY <1>6, ConstantsAssumption DEF ManyInv, OwnInv, InvBuild
  <2>2. /\ k \notin OutputKeys(ver[w])
        /\ k[1] # LocationOf(ver[w]) \/ k[2] \in Pages
    BY <1>4, <1>6, <2>1, OutputKeysChar DEF ManyInv, OwnInv
  <2>3. QED
    BY <1>4, <2>1, <2>2
<1>7. QED
  BY <1>3, <1>5, <1>6 DEF DeleteObject

\* For any number of environments, at any interleaving of their requests: an
\* object is only deleted for a removal of the item, or as the superseded output
\* of another version, at the other location or a page.
THEOREM DeletesAreOfSuperseded == Spec => DeletesOnlySuperseded
<1>1. Init => ManyInv
  BY InitType, InitHeld DEF ManyInv, Init, OwnInv, InvBuild
<1>2. ManyInv /\ [Next]_vars => ManyInv'
  BY ManyStep
<1>3. ASSUME ManyInv, [Next]_vars
      PROVE  \A k \in Key :
               bucket[k] # None /\ bucket'[k] = None =>
                 \E w \in Workers :
                   /\ k \in doomed[w] \ doomed'[w]
                   /\ \/ record[w] # None /\ kind[record[w]] = "removed"
                      \/ /\ ver[w] # None /\ k \notin OutputKeys(ver[w])
                         /\ k[1] # LocationOf(ver[w]) \/ k[2] \in Pages
  BY <1>3, DeletesStep
<1>4. QED
  BY <1>1, <1>2, <1>3, PTL DEF Spec, DeletesOnlySuperseded
=============================================================================
