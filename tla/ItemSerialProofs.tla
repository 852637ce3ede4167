-------------------------- MODULE ItemSerialProofs --------------------------
(***************************************************************************)
(* Theorems about module ItemOutputs while the records of an item are      *)
(* handled one after the other: Serial says there is one environment, and  *)
(* is the hypothesis of every theorem here.                                *)
(***************************************************************************)
EXTENDS ItemOutputsProofs

\* What the handler of w knows between two requests.
ItemInv(w) == InvBuild(w) /\ InvUpload(w) /\ InvDelete(w)

-----------------------------------------------------------------------------
(* A lemma about prefixes. *)

\* Listing every prefix accounts for every page.
LEMMA PagePrefix ==
  ASSUME NEW k \in Key, k[2] \in Pages
  PROVE  <<FamilyOf[k[2]], k[1]>> \in Prefixes
  BY KeyParts, ConstantsAssumption DEF Prefixes

-----------------------------------------------------------------------------
(* The invariant is preserved by each action. *)

\* An idle environment has nothing pending.
LEMMA ForgetInv ==
  ASSUME TypeOK, NEW w \in Workers, Forget(w)
  PROVE  ItemInv(w)'
<1>1. /\ pc'[w] = "idle" /\ todo'[w] = {} /\ scan'[w] = {} /\ doomed'[w] = {}
      /\ fault'[w] = FALSE
  BY DEF Forget, Goto, TypeOK
<1>2. QED
  BY <1>1 DEF ItemInv, InvBuild, InvUpload, InvDelete

LEMMA ReturnInv ==
  ASSUME TypeOK, NEW w \in Workers, NEW ok, Return(w, ok)
  PROVE  ItemInv(w)'
  BY ForgetInv DEF Return

LEMMA SameInv ==
  ASSUME NEW w \in Workers, ItemInv(w), UNCHANGED <<bucket, handler>>
  PROVE  ItemInv(w)'
  BY DEF ItemInv, InvBuild, InvUpload, InvDelete, Accounted, handler

LEMMA ReceiveInv ==
  ASSUME TypeOK, NEW w \in Workers, NEW r \in Records, ItemInv(w), Receive(w, r)
  PROVE  ItemInv(w)'
<1>1. todo[w] = {} /\ scan[w] = {} /\ doomed[w] = {} /\ ~fault[w]
  BY DEF Receive, ItemInv, InvBuild
<1>2. doomed' = doomed /\ fault' = fault /\ bucket' = bucket
  BY DEF Receive
<1>3. CASE kind[r] = "created"
  <2>1. pc'[w] = "download" /\ todo' = todo /\ scan' = scan
    BY <1>3 DEF Receive, Goto, TypeOK
  <2>2. QED
    BY <1>1, <1>2, <2>1 DEF ItemInv, InvBuild, InvUpload, InvDelete
<1>4. CASE kind[r] = "removed"
  <2>1. pc'[w] = "remove" /\ todo'[w] = Locations \X Direct /\ scan'[w] = Prefixes
    BY <1>4 DEF Receive, Goto, TypeOK
  <2>2. \A k \in Key : Accounted(w, k)'
    BY <2>1, KeyParts, PagePrefix DEF Accounted
  <2>3. QED
    BY <2>1, <2>2 DEF ItemInv, InvBuild, InvUpload, InvDelete
<1>5. QED
  BY <1>3, <1>4 DEF TypeOK

LEMMA DownloadInv ==
  ASSUME TypeOK, NEW w \in Workers, ItemInv(w), Download(w)
  PROVE  ItemInv(w)'
<1>1. todo[w] = {} /\ scan[w] = {} /\ doomed[w] = {} /\ ~fault[w]
  BY DEF Download, ItemInv, InvBuild
<1>2. /\ pc'[w] = "build" /\ ver'[w] = src /\ src \in Versions
      /\ dist'[w] = EmptyDist
      /\ todo' = todo /\ scan' = scan /\ doomed' = doomed /\ fault' = fault
  BY DEF Download, Goto, TypeOK
<1>3. QED
  BY <1>1, <1>2 DEF ItemInv, InvBuild, InvUpload, InvDelete, EmptyDist

LEMMA BuildInv ==
  ASSUME TypeOK, NEW w \in Workers, ItemInv(w), Build(w)
  PROVE  ItemInv(w)'
<1>1. /\ todo[w] = {} /\ scan[w] = {} /\ doomed[w] = {} /\ ~fault[w]
      /\ dist[w] = EmptyDist /\ ver[w] \in Versions
  BY DEF Build, ItemInv, InvBuild
<1>2. /\ pc'[w] = "upload" /\ ver'[w] = ver[w]
      /\ dist'[w] = [k \in Key |-> IF k \in OutputKeys(ver[w]) THEN ver[w] ELSE dist[w][k]]
      /\ todo'[w] = {k \in Key : dist'[w][k] # None}
      /\ scan' = scan /\ doomed' = doomed /\ fault' = fault
  BY DEF Build, Goto, TypeOK
<1>3. dist'[w] = DistOf(ver[w])
  BY <1>1, <1>2 DEF EmptyDist, DistOf
<1>4. todo'[w] = OutputKeys(ver[w])
  BY <1>1, <1>2, <1>3, DistOfValue, OutputKeysType
<1>5. QED
  BY <1>1, <1>2, <1>3, <1>4 DEF ItemInv, InvBuild, InvUpload, InvDelete, DistOf, OutputKeys

LEMMA UploadFileInv ==
  ASSUME TypeOK, NEW w \in Workers, NEW k \in Key, ItemInv(w), UploadFile(w, k)
  PROVE  ItemInv(w)'
<1>1. /\ pc[w] = "upload" /\ ver[w] \in Versions /\ dist[w] = DistOf(ver[w])
      /\ k \in todo[w] /\ todo[w] \subseteq OutputKeys(ver[w])
      /\ scan[w] = {} /\ doomed[w] = {}
  BY DEF UploadFile, ItemInv, InvBuild, InvUpload
<1>2. /\ pc' = pc /\ ver' = ver /\ dist' = dist /\ scan' = scan /\ doomed' = doomed
      /\ todo'[w] = todo[w] \ {k}
  BY DEF UploadFile, TypeOK
<1>3. PICK landed \in BOOLEAN, raised \in BOOLEAN :
        /\ landed \/ raised
        /\ bucket' = IF landed THEN [bucket EXCEPT ![k] = dist[w][k]] ELSE bucket
        /\ fault' = [fault EXCEPT ![w] = @ \/ raised]
  BY DEF UploadFile, Request
<1>4. fault'[w] = (fault[w] \/ raised)
  BY <1>3 DEF TypeOK
<1>5. dist[w][k] = ver[w]
  BY <1>1, DistOfValue
<1>6. \/ fault'[w]
      \/ \A o \in OutputKeys(ver[w]) \ todo'[w] : bucket'[o] = ver[w]
  <2>1. SUFFICES ASSUME ~fault'[w], NEW o \in OutputKeys(ver[w]) \ todo'[w]
                 PROVE  bucket'[o] = ver[w]
    OBVIOUS
  <2>2. ~fault[w] /\ landed
    BY <1>3, <1>4, <2>1
  <2>3. o \in Key /\ bucket' = [bucket EXCEPT ![k] = dist[w][k]]
    BY <1>1, <1>3, <2>2, OutputKeysType
  <2>4. CASE o = k
    BY <1>5, <2>3, <2>4 DEF TypeOK
  <2>5. CASE o # k
    <3>1. bucket[o] = ver[w]
      BY <1>1, <1>2, <2>2, <2>5 DEF ItemInv, InvUpload
    <3>2. QED
      BY <2>3, <2>5, <3>1 DEF TypeOK
  <2>6. QED
    BY <2>4, <2>5
<1>7. InvBuild(w)'
  BY <1>1, <1>2 DEF InvBuild
<1>8. InvUpload(w)'
  BY <1>1, <1>2, <1>6 DEF InvUpload
<1>9. InvDelete(w)'
  BY <1>1, <1>2 DEF InvDelete
<1>10. QED
  BY <1>7, <1>8, <1>9 DEF ItemInv

LEMMA UploadDoneInv ==
  ASSUME TypeOK, NEW w \in Workers, ItemInv(w), UploadDone(w)
  PROVE  ItemInv(w)'
<1>1. CASE Return(w, FALSE)
  BY <1>1, ReturnInv
<1>2. CASE /\ ~fault[w]
           /\ Goto(w, "reconcile")
           /\ scan' = [scan EXCEPT ![w] = Prefixes]
           /\ UNCHANGED <<src, bucket, queue, record, ver, dist, todo, doomed, fault>>
  <2>1. /\ pc[w] = "upload" /\ todo[w] = {} /\ doomed[w] = {}
        /\ ver[w] \in Versions /\ dist[w] = DistOf(ver[w])
        /\ \A k \in OutputKeys(ver[w]) : bucket[k] = ver[w]
    BY <1>2 DEF UploadDone, ItemInv, InvBuild, InvUpload
  <2>2. pc'[w] = "reconcile" /\ scan'[w] = Prefixes
    BY <1>2 DEF Goto, TypeOK
  <2>3. \A k \in Key : k[2] \in Pages => Accounted(w, k)'
    BY <2>2, PagePrefix DEF Accounted
  <2>4. QED
    BY <1>2, <2>1, <2>2, <2>3 DEF ItemInv, InvBuild, InvUpload, InvDelete
<1>3. QED
  BY <1>1, <1>2 DEF UploadDone

LEMMA ListStaleInv ==
  ASSUME TypeOK, NEW w \in Workers, NEW f \in Families, NEW l \in Locations,
         ItemInv(w), ListStale(w, f, l)
  PROVE  ItemInv(w)'
<1> DEFINE stale == {k \in Present(PageKeys(f, l)) : dist[w][k] = None}
<1>1. /\ pc[w] = "reconcile" /\ ver[w] \in Versions /\ dist[w] = DistOf(ver[w])
      /\ todo[w] = {}
      /\ \A k \in OutputKeys(ver[w]) : bucket[k] = ver[w] /\ k \notin doomed[w]
  BY DEF ListStale, ItemInv, InvBuild, InvUpload, InvDelete
<1>2. /\ scan'[w] = scan[w] \ {<<f, l>>} /\ doomed'[w] = doomed[w] \cup stale
      /\ UNCHANGED <<bucket, pc, ver, dist, todo, fault>>
  BY DEF ListStale, TypeOK
<1>3. \A k \in OutputKeys(ver[w]) : k \notin stale
  BY <1>1, DistOfValue, OutputKeysType
<1>4. ASSUME NEW k \in Key \ OutputKeys(ver[w]), k[2] \in Pages, bucket[k] # None,
             Accounted(w, k)
      PROVE  Accounted(w, k)'
  <2>1. CASE <<FamilyOf[k[2]], k[1]>> = <<f, l>>
    <3>1. k \in PageKeys(f, l)
      BY <1>4, <2>1 DEF PageKeys
    <3>2. k \in stale
      BY <1>1, <1>4, <3>1, DistOfValue DEF Present
    <3>3. QED
      BY <1>2, <3>2 DEF Accounted
  <2>2. CASE <<FamilyOf[k[2]], k[1]>> # <<f, l>>
    BY <1>2, <1>4, <2>2 DEF Accounted
  <2>3. QED
    BY <2>1, <2>2
<1> HIDE DEF stale
<1>5. \/ fault[w]
      \/ \A k \in Key \ OutputKeys(ver[w]) :
           k[2] \in Pages /\ bucket[k] # None => Accounted(w, k)'
  BY <1>1, <1>4 DEF ItemInv, InvDelete
<1>6. InvBuild(w)'
  BY <1>1, <1>2 DEF InvBuild
<1>7. InvUpload(w)'
  BY <1>1, <1>2, <1>3 DEF InvUpload
<1>8. InvDelete(w)'
  BY <1>1, <1>2, <1>5 DEF InvDelete
<1>9. QED
  BY <1>6, <1>7, <1>8 DEF ItemInv

LEMMA ReconcileDoneInv ==
  ASSUME TypeOK, NEW w \in Workers, ItemInv(w), ReconcileDone(w)
  PROVE  ItemInv(w)'
<1> DEFINE l == Opposite(BuiltLocation(w))
<1>1. CASE Return(w, FALSE)
  BY <1>1, ReturnInv
<1>2. CASE /\ ~fault[w]
           /\ Goto(w, "supersede")
           /\ todo' = [todo EXCEPT ![w] = {l} \X Direct]
           /\ scan' = [scan EXCEPT ![w] = Families \X {l}]
           /\ UNCHANGED <<src, bucket, queue, record, ver, dist, doomed, fault>>
  <2>1. /\ pc[w] = "reconcile" /\ ver[w] \in Versions /\ dist[w] = DistOf(ver[w])
        /\ todo[w] = {} /\ scan[w] = {} /\ doomed[w] = {}
        /\ \A k \in OutputKeys(ver[w]) : bucket[k] = ver[w]
    BY DEF ReconcileDone, ItemInv, InvBuild, InvUpload, InvDelete
  <2>2. /\ pc'[w] = "supersede" /\ todo'[w] = {l} \X Direct /\ scan'[w] = Families \X {l}
    BY <1>2 DEF Goto, TypeOK
  <2>3. /\ l \in Locations /\ l # LocationOf(ver[w])
        /\ \A m \in Locations : m # LocationOf(ver[w]) => m = l
    BY <2>1, BuiltLocationCorrect, LocationType, OppositeCorrect
  <2> HIDE DEF l
  <2>4. \A k \in Key \ OutputKeys(ver[w]) : k[2] \in Pages => bucket[k] = None
    BY <1>2, <2>1 DEF ItemInv, InvDelete, Accounted
  <2>5. ASSUME NEW k \in Key, k[1] # LocationOf(ver[w]), bucket[k] # None
        PROVE  Accounted(w, k)'
    <3>1. k \notin OutputKeys(ver[w]) /\ k[1] = l
      BY <2>1, <2>3, <2>5, KeyParts, OutputKeysChar
    <3>2. k[2] \in Direct
      BY <2>4, <2>5, <3>1, KeyParts
    <3>3. k \in todo'[w]
      BY <2>2, <3>1, <3>2, KeyParts
    <3>4. QED
      BY <3>3 DEF Accounted
  <2>6. InvBuild(w)'
    BY <1>2, <2>1, <2>2 DEF InvBuild
  <2>7. InvUpload(w)'
    BY <1>2, <2>1, <2>2 DEF InvUpload
  <2>8. InvDelete(w)'
    <3>1. \A k \in todo'[w] : k[1] # LocationOf(ver[w])
      BY <2>2, <2>3
    <3>2. \A x \in scan'[w] : x[2] # LocationOf(ver[w])
      BY <2>2, <2>3
    <3>3. QED
      BY <1>2, <2>2, <2>4, <2>5, <3>1, <3>2 DEF InvDelete
  <2>9. QED
    BY <2>6, <2>7, <2>8 DEF ItemInv
<1>3. QED
  BY <1>1, <1>2 DEF ReconcileDone

\* Looking up one target: it leaves the list, and is doomed if it is there.
LEMMA TargetInv ==
  ASSUME TypeOK, NEW w \in Workers, ItemInv(w), pc[w] \in {"supersede", "remove"},
         doomed[w] = {},
         UNCHANGED <<bucket, pc, ver, dist>>,
         todo'[w] \subseteq todo[w], scan'[w] \subseteq scan[w],
         \A k \in doomed'[w] :
           k \in todo[w] \/ (k[2] \in Pages /\ <<FamilyOf[k[2]], k[1]>> \in scan[w]),
         doomed'[w] \subseteq Key,
         \/ fault'[w]
         \/ /\ ~fault[w]
            /\ \A k \in Key : bucket[k] # None /\ Accounted(w, k) => Accounted(w, k)'
  PROVE  ItemInv(w)'
<1>1. InvBuild(w)'
  BY DEF ItemInv, InvBuild
<1>2. CASE pc[w] = "supersede"
  <2>1. /\ ver[w] \in Versions
        /\ \A k \in OutputKeys(ver[w]) : bucket[k] = ver[w]
        /\ \A k \in todo[w] : k[1] # LocationOf(ver[w])
        /\ \A x \in scan[w] : x[2] # LocationOf(ver[w])
        /\ \A k \in Key \ OutputKeys(ver[w]) :
             k[1] = LocationOf(ver[w]) /\ k[2] \in Pages => bucket[k] = None
    BY <1>2 DEF ItemInv, InvBuild, InvUpload, InvDelete
  <2>2. \A k \in doomed'[w] : k[1] # LocationOf(ver[w])
    <3> TAKE k \in doomed'[w]
    <3>1. CASE k \in todo[w]
      BY <2>1, <3>1
    <3>2. CASE <<FamilyOf[k[2]], k[1]>> \in scan[w]
      <4>1. <<FamilyOf[k[2]], k[1]>>[2] # LocationOf(ver[w])
        BY <2>1, <3>2
      <4>2. QED
        BY <4>1
    <3>3. QED
      BY <3>1, <3>2
  <2>3. InvUpload(w)'
    BY <1>2, <2>1, <2>2, OutputKeysChar, OutputKeysType DEF InvUpload
  <2>4. InvDelete(w)'
    BY <1>2, <2>1 DEF ItemInv, InvDelete
  <2>5. QED
    BY <1>1, <2>3, <2>4 DEF ItemInv
<1>3. CASE pc[w] = "remove"
  <2>1. InvUpload(w)'
    BY <1>3 DEF InvUpload
  <2>2. InvDelete(w)'
    BY <1>3 DEF ItemInv, InvDelete
  <2>3. QED
    BY <1>1, <2>1, <2>2 DEF ItemInv
<1>4. QED
  BY <1>2, <1>3

LEMMA HeadObjectInv ==
  ASSUME TypeOK, NEW w \in Workers, NEW k \in Key, ItemInv(w), HeadObject(w, k)
  PROVE  ItemInv(w)'
<1>1. /\ pc[w] \in {"supersede", "remove"} /\ doomed[w] = {} /\ k \in todo[w]
      /\ todo'[w] = todo[w] \ {k} /\ scan' = scan
      /\ UNCHANGED <<bucket, pc, ver, dist>>
  BY DEF HeadObject, TypeOK
<1>2. CASE fault' = [fault EXCEPT ![w] = TRUE] /\ doomed' = doomed
  <2>1. fault'[w] /\ doomed'[w] = {}
    BY <1>1, <1>2 DEF TypeOK
  <2>2. QED
    BY <1>1, <2>1, TargetInv
<1>3. CASE doomed' = [doomed EXCEPT ![w] = Present({k})] /\ fault' = fault
  <2>1. doomed'[w] = Present({k})
    BY <1>3 DEF TypeOK
  <2>2. doomed'[w] \subseteq {k}
    BY <2>1 DEF Present
  <2>3. \A o \in Key : bucket[o] # None /\ Accounted(w, o) => Accounted(w, o)'
    BY <1>1, <2>1 DEF Accounted, Present
  <2>4. fault'[w] = fault[w] /\ fault[w] \in BOOLEAN
    BY <1>3 DEF TypeOK
  <2>5. QED
    BY <1>1, <2>2, <2>3, <2>4, TargetInv
<1>4. QED
  BY <1>2, <1>3 DEF HeadObject

LEMMA ListPagesInv ==
  ASSUME TypeOK, NEW w \in Workers, NEW f \in Families, NEW l \in Locations,
         ItemInv(w), ListPages(w, f, l)
  PROVE  ItemInv(w)'
<1>1. /\ pc[w] \in {"supersede", "remove"} /\ doomed[w] = {} /\ <<f, l>> \in scan[w]
      /\ scan'[w] = scan[w] \ {<<f, l>>} /\ todo' = todo
      /\ UNCHANGED <<bucket, pc, ver, dist>>
  BY DEF ListPages, TypeOK
<1>2. CASE fault' = [fault EXCEPT ![w] = TRUE] /\ doomed' = doomed
  <2>1. fault'[w] /\ doomed'[w] = {}
    BY <1>1, <1>2 DEF TypeOK
  <2>2. QED
    BY <1>1, <2>1, TargetInv
<1>3. CASE doomed' = [doomed EXCEPT ![w] = Present(PageKeys(f, l))] /\ fault' = fault
  <2>1. doomed'[w] = Present(PageKeys(f, l))
    BY <1>3 DEF TypeOK
  <2>2. \A o \in doomed'[w] :
          o \in Key /\ o[2] \in Pages /\ <<FamilyOf[o[2]], o[1]>> \in scan[w]
    BY <1>1, <2>1 DEF Present, PageKeys
  <2>3. ASSUME NEW o \in Key, bucket[o] # None, Accounted(w, o)
        PROVE  Accounted(w, o)'
    <3>1. CASE o \in todo[w]
      BY <1>1, <3>1 DEF Accounted
    <3>2. CASE o[2] \in Pages /\ <<FamilyOf[o[2]], o[1]>> \in scan[w]
      <4>1. CASE <<FamilyOf[o[2]], o[1]>> = <<f, l>>
        BY <2>1, <2>3, <3>2, <4>1 DEF Accounted, Present, PageKeys
      <4>2. CASE <<FamilyOf[o[2]], o[1]>> # <<f, l>>
        BY <1>1, <3>2, <4>2 DEF Accounted
      <4>3. QED
        BY <4>1, <4>2
    <3>3. QED
      BY <1>1, <2>3, <3>1, <3>2 DEF Accounted
  <2>4. fault'[w] = fault[w] /\ fault[w] \in BOOLEAN
    BY <1>3 DEF TypeOK
  <2>5. QED
    BY <1>1, <2>2, <2>3, <2>4, TargetInv
<1>4. QED
  BY <1>2, <1>3 DEF ListPages

\* What a handler deletes is none of the outputs it has uploaded.
LEMMA DoomedIsOld ==
  ASSUME TypeOK, NEW w \in Workers, ItemInv(w), NEW k \in doomed[w],
         pc[w] \in {"reconcile", "supersede"}
  PROVE  k \notin OutputKeys(ver[w])
  BY DEF ItemInv, InvUpload

LEMMA DeleteObjectInv ==
  ASSUME TypeOK, NEW w \in Workers, NEW k \in Key, ItemInv(w), DeleteObject(w, k)
  PROVE  ItemInv(w)'
<1>1. /\ pc[w] \in {"reconcile", "supersede", "remove"} /\ k \in doomed[w]
      /\ doomed'[w] = doomed[w] \ {k}
      /\ UNCHANGED <<pc, ver, dist, todo, scan>>
  BY DEF DeleteObject, TypeOK
<1>2. PICK landed \in BOOLEAN, raised \in BOOLEAN :
        /\ landed \/ raised
        /\ bucket' = IF landed THEN [bucket EXCEPT ![k] = None] ELSE bucket
        /\ fault' = [fault EXCEPT ![w] = @ \/ raised]
  BY DEF DeleteObject, Request
<1>3. fault'[w] = (fault[w] \/ raised)
  BY <1>2 DEF TypeOK
<1>4. \A o \in Key : o # k => bucket'[o] = bucket[o]
  BY <1>2 DEF TypeOK
<1>5. \A o \in Key : bucket[o] = None => bucket'[o] = None
  BY <1>2 DEF TypeOK
<1>6. ~fault'[w] => ~fault[w] /\ bucket'[k] = None
  BY <1>2, <1>3 DEF TypeOK
<1>7. ASSUME ~fault'[w], NEW o \in Key, bucket'[o] # None, Accounted(w, o)
      PROVE  Accounted(w, o)'
  BY <1>1, <1>6, <1>7 DEF Accounted
<1>8. InvBuild(w)'
  BY <1>1 DEF ItemInv, InvBuild
<1>9. InvUpload(w)'
  <2>1. CASE pc[w] = "remove"
    BY <1>1, <2>1 DEF InvUpload
  <2>2. CASE pc[w] # "remove"
    <3>1. /\ ver[w] \in Versions /\ k \notin OutputKeys(ver[w])
          /\ \A o \in OutputKeys(ver[w]) : bucket[o] = ver[w] /\ o \notin doomed[w]
      BY <1>1, <2>2 DEF ItemInv, InvBuild, InvUpload
    <3>2. \A o \in OutputKeys(ver[w]) : bucket'[o] = ver[w] /\ o \notin doomed'[w]
      BY <1>1, <1>4, <3>1, OutputKeysType
    <3>3. QED
      BY <1>1, <3>2 DEF InvUpload
  <2>3. QED
    BY <2>1, <2>2
<1>10. InvDelete(w)'
  <2>1. CASE pc[w] = "reconcile"
    BY <1>1, <1>5, <1>6, <1>7, <2>1 DEF ItemInv, InvDelete
  <2>2. CASE pc[w] = "supersede"
    BY <1>1, <1>5, <1>6, <1>7, <2>2 DEF ItemInv, InvDelete
  <2>3. CASE pc[w] = "remove"
    BY <1>1, <1>5, <1>6, <1>7, <2>3 DEF ItemInv, InvDelete
  <2>4. QED
    BY <1>1, <2>1, <2>2, <2>3
<1>11. QED
  BY <1>8, <1>9, <1>10 DEF ItemInv

LEMMA HandlerStep ==
  ASSUME Serial, TypeOK, HandlerInv, [Next]_vars
  PROVE  HandlerInv'
<1> SUFFICES ASSUME NEW w \in Workers PROVE ItemInv(w)'
  BY DEF HandlerInv, ItemInv
<1>1. ItemInv(w) /\ \A u \in Workers : u = w
  BY DEF HandlerInv, ItemInv, Serial
<1>2. CASE UNCHANGED <<bucket, handler>>
  BY <1>1, <1>2, SameInv
<1>3. CASE \E r \in Records : Receive(w, r)
  BY <1>1, <1>3, ReceiveInv
<1>4. CASE Crash(w)
  BY <1>4, ForgetInv DEF Crash
<1>5. CASE Step(w)
  BY <1>1, <1>5, DownloadInv, BuildInv, ReturnInv, UploadFileInv, UploadDoneInv,
     ListStaleInv, ReconcileDoneInv, HeadObjectInv, ListPagesInv, DeleteObjectInv
  DEF Step, Raise, ClearDone
<1>6. QED
  BY <1>1, <1>2, <1>3, <1>4, <1>5
  DEF Next, Environment, PutSource, DeleteSource, Redeliver, vars

LEMMA InitHandler == Init => HandlerInv
<1> SUFFICES ASSUME Init, NEW w \in Workers PROVE ItemInv(w)
  BY DEF HandlerInv, ItemInv
<1>1. /\ pc[w] = "idle" /\ todo[w] = {} /\ scan[w] = {} /\ doomed[w] = {}
      /\ fault[w] = FALSE
  BY DEF Init
<1>2. QED
  BY <1>1 DEF ItemInv, InvBuild, InvUpload, InvDelete

-----------------------------------------------------------------------------
(* The invariant holds at every request. *)

SerialInv == TypeOK /\ HeldOnce /\ HandlerInv

LEMMA AlwaysSerial ==
  ASSUME Serial
  PROVE  Spec => []SerialInv
<1>1. Init => SerialInv
  BY InitType, InitHeld, InitHandler DEF SerialInv
<1>2. SerialInv /\ [Next]_vars => SerialInv'
  BY TypeStep, HeldStep, HandlerStep DEF SerialInv
<1>3. QED
  BY <1>1, <1>2, PTL DEF Spec

\* The invariant of the handlers holds at every request, for any number of
\* records, versions, outputs and receives, while one environment handles them.
THEOREM SerialInvariant ==
  ASSUME Serial
  PROVE  Spec => [](TypeOK /\ HeldOnce /\ HandlerInv)
<1>1. SerialInv => TypeOK /\ HeldOnce /\ HandlerInv
  BY DEF SerialInv
<1>2. QED
  BY AlwaysSerial, <1>1, PTL

-----------------------------------------------------------------------------
(* Acknowledgement. *)

\* The only step that acknowledges a record is the end of its handling.
LEMMA AckStep ==
  ASSUME Serial, SerialInv, [Next]_vars, NEW w \in Workers, pc[w] # "idle",
         status'[record[w]] = "done"
  PROVE  ClearDone(w) /\ ~fault[w]
<1>1. record[w] \in Records /\ status[record[w]] = "busy" /\ \A u \in Workers : u = w
  BY DEF SerialInv, HeldOnce, TypeOK, Serial
<1>2. status' # status
  BY <1>1
<1>3. ASSUME NEW r \in Records PROVE ~Redeliver(r) /\ ~DeleteSource(r)
                                   /\ \A v \in Versions : ~PutSource(r, v)
  BY <1>1 DEF Redeliver, DeleteSource, PutSource, SerialInv, TypeOK
<1>4. ~Return(w, FALSE) /\ ~Crash(w)
  BY <1>1 DEF Return, Crash, Requeue, SerialInv, TypeOK
<1>5. \A r \in Records : ~Receive(w, r)
  BY DEF Receive
<1>6. ClearDone(w)
  <2>1. Next /\ ~Environment
    BY <1>2, <1>3 DEF vars, queue, Environment
  <2>2. Step(w)
    BY <1>1, <1>4, <1>5, <2>1 DEF Next
  <2>3. QED
    BY <1>2, <1>4, <2>2
    DEF Step, queue, Download, Build, Raise, UploadFile, HeadObject,
        DeleteObject, UploadDone, ListStale, ListPages, ReconcileDone
<1>7. ~fault[w]
  BY <1>4, <1>6 DEF ClearDone, SerialInv, TypeOK
<1>8. QED
  BY <1>6, <1>7

LEMMA SupersededIsImage ==
  ASSUME SerialInv, NEW w \in Workers, pc[w] = "supersede", ClearDone(w), ~fault[w]
  PROVE  IsImage(ver[w])
<1>1. /\ ver[w] \in Versions
      /\ \A k \in OutputKeys(ver[w]) : bucket[k] = ver[w]
      /\ \A k \in Key \ OutputKeys(ver[w]) :
            k[1] = LocationOf(ver[w]) /\ k[2] \in Pages => bucket[k] = None
      /\ \A k \in Key : k[1] # LocationOf(ver[w]) => bucket[k] = None
  BY DEF SerialInv, HandlerInv, InvBuild, InvUpload, InvDelete, Accounted, ClearDone
<1>2. ASSUME NEW k \in Key, k \notin OutputKeys(ver[w]), bucket[k] # None
      PROVE  k[1] = LocationOf(ver[w]) /\ k[2] \in Direct \cap Skipped
  BY <1>1, <1>2, KeyParts, OutputKeysChar
<1>3. QED
  BY <1>1, <1>2 DEF IsImage

\* An acknowledged ObjectCreated record leaves exactly the image of its version.
THEOREM PublishedWhenAcknowledged ==
  ASSUME Serial
  PROVE  Spec => AcknowledgedIsPublished
<1>1. ASSUME SerialInv, [Next]_vars
      PROVE  \A w \in Workers :
               pc[w] = "supersede" /\ status'[record[w]] = "done" => IsImage(ver[w])
  BY <1>1, AckStep, SupersededIsImage
<1>2. QED
  BY AlwaysSerial, <1>1, PTL DEF Spec, AcknowledgedIsPublished

\* An acknowledged ObjectRemoved record leaves nothing of the item.
THEOREM RemovedWhenAcknowledged ==
  ASSUME Serial
  PROVE  Spec => AcknowledgedIsRemoved
<1>1. ASSUME SerialInv, [Next]_vars
      PROVE  \A w \in Workers :
               pc[w] = "remove" /\ status'[record[w]] = "done"
                 => \A k \in Key : bucket[k] = None
  <2> SUFFICES ASSUME NEW w \in Workers, pc[w] = "remove", status'[record[w]] = "done"
               PROVE  \A k \in Key : bucket[k] = None
    OBVIOUS
  <2>1. ClearDone(w) /\ ~fault[w]
    BY <1>1, AckStep
  <2>2. QED
    BY <1>1, <2>1 DEF SerialInv, HandlerInv, InvDelete, Accounted, ClearDone
<1>2. QED
  BY AlwaysSerial, <1>1, PTL DEF Spec, AcknowledgedIsRemoved

-----------------------------------------------------------------------------
(* Make before break, and the catalogue. *)

\* Objects only disappear through DeleteObject.
LEMMA DeleteStep ==
  ASSUME Serial, SerialInv, [Next]_vars, NEW w \in Workers, NEW k \in Key,
         bucket[k] # None, bucket'[k] = None
  PROVE  DeleteObject(w, k)
<1>1. bucket' # bucket /\ \A u \in Workers : u = w
  BY DEF Serial
<1>2. ASSUME NEW o \in Key PROVE ~UploadFile(w, o)
  <2>1. SUFFICES ASSUME UploadFile(w, o) PROVE FALSE
    OBVIOUS
  <2>2. dist[w][o] # None
    BY <2>1, DistOfValue, OutputKeysType
    DEF UploadFile, SerialInv, HandlerInv, InvBuild, InvUpload
  <2>3. bucket' = [bucket EXCEPT ![o] = dist[w][o]]
    BY <1>1, <2>1 DEF UploadFile, Request
  <2>4. QED
    BY <2>2, <2>3 DEF SerialInv, TypeOK
<1>3. ASSUME NEW o \in Key, DeleteObject(w, o) PROVE o = k
  BY <1>3 DEF DeleteObject, Request, SerialInv, TypeOK
<1>4. \E o \in Key : DeleteObject(w, o)
  BY <1>1, <1>2, BucketWriters DEF vars
<1>5. QED
  BY <1>3, <1>4

LEMMA MakeBeforeBreakStep ==
  ASSUME Serial, SerialInv, [Next]_vars, NEW w \in Workers, NEW k \in Key,
         pc[w] \notin {"idle", "remove"}, bucket[k] # None, bucket'[k] = None
  PROVE  /\ \A o \in OutputKeys(ver[w]) : bucket[o] = ver[w]
         /\ k \notin OutputKeys(ver[w])
<1>1. DeleteObject(w, k)
  BY DeleteStep
<1>2. QED
  BY <1>1 DEF DeleteObject, SerialInv, HandlerInv, InvUpload

\* Nothing is deleted before everything new is uploaded, and none of that is.
THEOREM NewBeforeOld ==
  ASSUME Serial
  PROVE  Spec => MakeBeforeBreak
<1>1. ASSUME SerialInv, [Next]_vars
      PROVE  \A w \in Workers, k \in Key :
               /\ pc[w] \notin {"idle", "remove"}
               /\ bucket[k] # None /\ bucket'[k] = None
               => /\ \A o \in OutputKeys(ver[w]) : bucket[o] = ver[w]
                  /\ k \notin OutputKeys(ver[w])
  BY <1>1, MakeBeforeBreakStep
<1>2. QED
  BY AlwaysSerial, <1>1, PTL DEF Spec, MakeBeforeBreak

\* A copy that is complete and loses an object is the one being retired.
LEMMA CopiesShrink ==
  ASSUME Serial, SerialInv, [Next]_vars, NEW w \in Workers, NEW k \in Key,
         DeleteObject(w, k), CompleteCopies' # CompleteCopies
  PROVE  /\ \E l \in CompleteCopies : CompleteCopies' = CompleteCopies \ {l}
         /\ Withdrawing \/ \E l, other \in CompleteCopies :
                             l # other /\ CompleteCopies' = CompleteCopies \ {l}
<1>1. bucket' = [bucket EXCEPT ![k] = None]
  BY DEF CompleteCopies, DeleteObject, Request
<1>2. ASSUME NEW l \in Locations, NEW p \in Direct PROVE <<l, p>> \in Key
  BY DEF Key
<1>3. ASSUME NEW l \in Locations, NEW p \in Direct, k # <<l, p>>
      PROVE  bucket'[<<l, p>>] = bucket[<<l, p>>]
  BY <1>1, <1>2, <1>3 DEF SerialInv, TypeOK
<1>4. PICK p \in Direct \ Skipped : k[2] = p
  <2>1. SUFFICES ASSUME k[2] \notin Direct \ Skipped PROVE CompleteCopies' = CompleteCopies
    OBVIOUS
  <2>2. \A l \in Locations, q \in Direct \ Skipped : k # <<l, q>>
    BY <2>1
  <2>3. QED
    BY <1>3, <2>2 DEF CompleteCopies
<1> DEFINE l == k[1]
<1>5. l \in Locations /\ k = <<l, p>> /\ bucket'[k] = None
  BY <1>1, <1>4, KeyParts DEF SerialInv, TypeOK
<1>6. \A m \in Locations : m # l =>
        \A q \in Direct \ Skipped : bucket'[<<m, q>>] = bucket[<<m, q>>]
  BY <1>3, <1>5
<1>7. l \notin CompleteCopies'
  BY <1>4, <1>5 DEF CompleteCopies
<1>8. \A m \in Locations : m # l => (m \in CompleteCopies' <=> m \in CompleteCopies)
  BY <1>6 DEF CompleteCopies
<1>9. CompleteCopies \subseteq Locations /\ CompleteCopies' \subseteq Locations
  BY DEF CompleteCopies
<1>10. l \in CompleteCopies /\ CompleteCopies' = CompleteCopies \ {l}
  BY <1>5, <1>7, <1>8, <1>9
<1>11. CASE pc[w] = "remove"
  BY <1>10, <1>11 DEF Withdrawing
<1>12. CASE pc[w] \in {"reconcile", "supersede"}
  <2> DEFINE other == LocationOf(ver[w])
  <2>1. /\ ver[w] \in Versions /\ k \notin OutputKeys(ver[w])
        /\ \A o \in OutputKeys(ver[w]) : bucket[o] = ver[w]
    BY <1>12 DEF DeleteObject, SerialInv, HandlerInv, InvBuild, InvUpload
  <2>2. l # other
    BY <1>4, <1>5, <2>1, OutputKeysChar
  <2>3. \A q \in Direct \ Skipped : bucket[<<other, q>>] # None
    <3> TAKE q \in Direct \ Skipped
    <3>1. <<other, q>> \in OutputKeys(ver[w])
      BY DEF OutputKeys
    <3>2. QED
      BY <2>1, <3>1, ConstantsAssumption
  <2>4. other \in CompleteCopies
    BY <2>3, LocationType DEF CompleteCopies
  <2>5. QED
    BY <1>10, <2>2, <2>4
<1>13. QED
  BY <1>10, <1>11, <1>12 DEF DeleteObject

\* An upload makes at most its own location complete.
LEMMA CopiesGrow ==
  ASSUME Serial, SerialInv, NEW w \in Workers, NEW k \in Key, UploadFile(w, k),
         CompleteCopies' # CompleteCopies
  PROVE  \E l \in Locations \ CompleteCopies : CompleteCopies' = CompleteCopies \cup {l}
<1>1. bucket' = [bucket EXCEPT ![k] = dist[w][k]]
  BY DEF CompleteCopies, UploadFile, Request
<1>2. dist[w][k] # None
  BY DistOfValue, OutputKeysType
  DEF UploadFile, SerialInv, HandlerInv, InvBuild, InvUpload
<1>3. ASSUME NEW m \in Locations, NEW p \in Direct PROVE <<m, p>> \in Key
  BY DEF Key
<1> DEFINE l == k[1]
<1>4. l \in Locations
  BY KeyParts
<1>5. ASSUME NEW m \in Locations, NEW p \in Direct, m # l
      PROVE  bucket'[<<m, p>>] = bucket[<<m, p>>]
  <2>1. k # <<m, p>>
    BY <1>5
  <2>2. QED
    BY <1>1, <1>3, <2>1 DEF SerialInv, TypeOK
<1>6. ASSUME NEW m \in Locations, NEW p \in Direct, bucket[<<m, p>>] # None
      PROVE  bucket'[<<m, p>>] # None
  BY <1>1, <1>2, <1>3, <1>6 DEF SerialInv, TypeOK
<1>7. \A m \in Locations : m # l => (m \in CompleteCopies' <=> m \in CompleteCopies)
  BY <1>5 DEF CompleteCopies
<1>8. CompleteCopies \subseteq CompleteCopies'
  BY <1>6 DEF CompleteCopies
<1>9. CompleteCopies \subseteq Locations /\ CompleteCopies' \subseteq Locations
  BY DEF CompleteCopies
<1>10. QED
  BY <1>4, <1>7, <1>8, <1>9

\* The handlers implement module Catalogue: readers lose a copy only to a newer
\* one, or to the deletion of the item.
THEOREM CatalogueImplemented ==
  ASSUME Serial
  PROVE  Spec => ImplementsCatalogue
<1>1. ASSUME Init PROVE Readers!Init
  <2>1. \A l \in Locations, p \in Direct : <<l, p>> \in Key
    BY DEF Key
  <2>2. CompleteCopies = {}
    BY <1>1, <2>1, ConstantsAssumption DEF Init, CompleteCopies
  <2>3. Withdrawing = FALSE
    BY <1>1 DEF Init, Withdrawing
  <2>4. QED
    BY <2>2, <2>3 DEF Readers!Init
<1>2. ASSUME SerialInv, [Next]_vars
      PROVE  [Readers!Next]_<<CompleteCopies, Withdrawing>>
  <2>1. Withdrawing \in BOOLEAN /\ Withdrawing' \in BOOLEAN
    BY DEF Withdrawing
  <2>2. CASE CompleteCopies' = CompleteCopies
    BY <2>1, <2>2 DEF Readers!Next, Readers!Toggle
  <2>3. CASE CompleteCopies' # CompleteCopies
    <3>1. bucket' # bucket
      BY <2>3 DEF CompleteCopies
    <3>2. PICK w \in Workers, k \in Key : UploadFile(w, k) \/ DeleteObject(w, k)
      BY <1>2, <3>1, BucketWriters DEF vars
    <3>3. Withdrawing' = Withdrawing
      BY <3>2 DEF UploadFile, DeleteObject, Withdrawing
    <3>4. CASE UploadFile(w, k)
      BY <1>2, <2>3, <3>3, <3>4, CopiesGrow DEF Readers!Next, Readers!Appear
    <3>5. CASE DeleteObject(w, k)
      BY <1>2, <2>3, <3>3, <3>5, CopiesShrink
      DEF Readers!Next, Readers!Retire, Readers!Withdraw
    <3>6. QED
      BY <3>2, <3>4, <3>5
  <2>4. QED
    BY <2>2, <2>3
<1>3. QED
  BY <1>1, <1>2, AlwaysSerial, PTL DEF Spec, ImplementsCatalogue, Readers!Spec

-----------------------------------------------------------------------------
(* Once everything is acknowledged, the bucket follows the source. *)

OthersQuiet(w) ==
  \A r \in Records : r # record[w] => status[r] \in {"unsent", "done"}

\* A handler at work holds the latest version, unless a record announces a
\* later one.
FreshInv ==
  /\ \A w \in Workers : pc[w] = "remove" => kind[record[w]] = "removed"
  /\ \A w \in Workers :
       /\ pc[w] \in {"build", "upload", "reconcile", "supersede"}
       /\ NeverRemoved /\ OthersQuiet(w)
       => ver[w] = src
  /\ SettledIsImage

LEMMA AnnounceFresh ==
  ASSUME SerialInv, FreshInv, NEW r \in Records, status[r] # "busy",
         status' = [status EXCEPT ![r] = "queued"],
         \A x \in Records : x # r => kind'[x] = kind[x],
         UNCHANGED handler
  PROVE  FreshInv'
<1>1. status'[r] = "queued"
  BY DEF SerialInv, TypeOK
<1>2. ASSUME NEW w \in Workers, pc[w] # "idle" PROVE record[w] \in Records /\ record[w] # r
  BY <1>2 DEF SerialInv, HeldOnce, TypeOK
<1>3. \A w \in Workers : pc'[w] = "remove" => kind'[record'[w]] = "removed"
  BY <1>2 DEF FreshInv, handler
<1>4. \A w \in Workers : pc'[w] # "idle" => ~OthersQuiet(w)'
  BY <1>1, <1>2 DEF OthersQuiet, handler
<1>5. ~Settled'
  BY <1>1 DEF Settled
<1>6. QED
  BY <1>3, <1>4, <1>5 DEF FreshInv, SettledIsImage

LEMMA WorkFresh ==
  ASSUME SerialInv, FreshInv, NEW w \in Workers, \A u \in Workers : u = w,
         pc[w] # "idle", pc'[w] # "idle",
         pc'[w] = "remove" => pc[w] = "remove",
         UNCHANGED <<src, queue, record>>,
         \/ pc'[w] \in {"build", "upload", "reconcile", "supersede"} =>
              /\ pc[w] \in {"build", "upload", "reconcile", "supersede"}
              /\ ver' = ver
         \/ ver'[w] = src
  PROVE  FreshInv'
<1>1. ~Settled'
  BY DEF Settled
<1>2. NeverRemoved' = NeverRemoved /\ OthersQuiet(w)' = OthersQuiet(w)
  BY DEF NeverRemoved, OthersQuiet, queue
<1>3. QED
  BY <1>1, <1>2 DEF FreshInv, SettledIsImage, queue

LEMMA EndFresh ==
  ASSUME Serial, SerialInv, FreshInv, [Next]_vars, NEW w \in Workers, pc[w] # "idle",
         Forget(w), UNCHANGED <<src, bucket, kind>>,
         \A r \in Records : r # record[w] => status'[r] = status[r]
  PROVE  FreshInv'
<1>1. \A u \in Workers : u = w
  BY DEF Serial
<1>2. pc'[w] = "idle"
  BY DEF Forget, Goto, SerialInv, TypeOK
<1>3. ASSUME Settled', NeverRemoved PROVE IsImage(src)
  <2>1. record[w] \in Records /\ status[record[w]] = "busy"
    BY DEF SerialInv, HeldOnce, TypeOK
  <2>2. status'[record[w]] \in {"unsent", "done"}
    BY <1>3, <2>1 DEF Settled
  <2>3. status'[record[w]] = "done"
    <3>1. Crash(w) \/ \E ok \in BOOLEAN : Return(w, ok)
      <4>1. pc \in [Workers -> States]
        BY DEF SerialInv, TypeOK
      <4>2. pc' # pc
        BY <1>2
      <4>3. Next /\ ~Environment
        BY <4>2 DEF vars, handler, Environment, PutSource, DeleteSource, Redeliver
      <4>4. Step(w) \/ Crash(w)
        BY <1>1, <4>3 DEF Next, Receive
      <4>5. QED
        BY <1>2, <4>1, <4>2, <4>4
        DEF Step, Download, Build, Raise, UploadFile, HeadObject,
            DeleteObject, UploadDone, ListStale, ListPages, ReconcileDone, ClearDone,
            Goto
    <3>2. \E s \in {"queued", "dlq", "done"} : status' = [status EXCEPT ![record[w]] = s]
      BY <3>1 DEF Crash, Return, Requeue
    <3>3. QED
      BY <2>1, <2>2, <3>2 DEF SerialInv, TypeOK
  <2>4. ClearDone(w) /\ ~fault[w]
    BY <2>3, AckStep
  <2>5. OthersQuiet(w)
    BY <1>3 DEF Settled, OthersQuiet
  <2>6. pc[w] = "supersede"
    BY <1>3, <2>1, <2>4 DEF ClearDone, FreshInv, NeverRemoved
  <2>7. ver[w] = src
    BY <1>3, <2>5, <2>6 DEF FreshInv
  <2>8. QED
    BY <2>4, <2>6, <2>7, SupersededIsImage
<1>4. SettledIsImage'
  BY <1>3 DEF SettledIsImage, NeverRemoved, IsImage
<1>5. QED
  BY <1>1, <1>2, <1>4 DEF FreshInv

LEMMA FreshStep ==
  ASSUME Serial, SerialInv, FreshInv, [Next]_vars
  PROVE  FreshInv'
<1>1. CASE UNCHANGED vars
  <2>1. /\ NeverRemoved' = NeverRemoved /\ SettledIsImage' = SettledIsImage
        /\ \A w \in Workers : OthersQuiet(w)' = OthersQuiet(w)
    BY <1>1 DEF vars, queue, handler, NeverRemoved, SettledIsImage, Settled, OthersQuiet,
                IsImage
  <2>2. QED
    BY <1>1, <2>1 DEF FreshInv, vars, queue, handler
<1>2. CASE Environment
  <2>1. PICK r \in Records : \/ \E v \in Versions : PutSource(r, v)
                             \/ DeleteSource(r) \/ Redeliver(r)
    BY <1>2 DEF Environment
  <2>2. /\ status[r] # "busy" /\ status' = [status EXCEPT ![r] = "queued"]
        /\ UNCHANGED handler
    BY <2>1 DEF PutSource, DeleteSource, Redeliver
  <2>3. \A x \in Records : x # r => kind'[x] = kind[x]
    BY <2>1 DEF PutSource, DeleteSource, Redeliver, SerialInv, TypeOK
  <2>4. QED
    BY <2>2, <2>3, AnnounceFresh
<1>3. ASSUME NEW w \in Workers, Step(w) \/ Crash(w) \/ \E r \in Records : Receive(w, r)
      PROVE  FreshInv'
  <2>1. \A u \in Workers : u = w
    BY DEF Serial
  <2>2. ASSUME NEW r \in Records, Receive(w, r) PROVE FreshInv'
    <3>1. /\ pc'[w] = IF kind[r] = "created" THEN "download" ELSE "remove"
          /\ record'[w] = r /\ kind' = kind
      BY <2>2 DEF Receive, Goto, SerialInv, TypeOK
    <3>2. kind[r] = "created" \/ kind[r] = "removed"
      BY DEF SerialInv, TypeOK
    <3>3. ~Settled'
      BY <3>1, <3>2 DEF Settled
    <3>4. QED
      BY <2>1, <3>1, <3>2, <3>3 DEF FreshInv, SettledIsImage
  <2>3. CASE Crash(w)
    <3>1. \A r \in Records : r # record[w] => status'[r] = status[r]
      BY <2>3 DEF Crash, Requeue, SerialInv, TypeOK
    <3>2. QED
      BY <2>3, <3>1, EndFresh DEF Crash
  <2>4. ASSUME NEW ok \in BOOLEAN, Return(w, ok), pc[w] # "idle" PROVE FreshInv'
    <3>1. \A r \in Records : r # record[w] => status'[r] = status[r]
      BY <2>4 DEF Return, Requeue, SerialInv, TypeOK
    <3>2. QED
      BY <2>4, <3>1, EndFresh DEF Return
  <2>5. CASE Download(w)
    <3>1. /\ pc[w] = "download" /\ pc'[w] = "build" /\ ver'[w] = src
          /\ UNCHANGED <<src, queue, record>>
      BY <2>5 DEF Download, Goto, SerialInv, TypeOK
    <3>2. QED
      BY <2>1, <3>1, WorkFresh
  <2>6. CASE Build(w)
    <3>1. /\ pc[w] = "build" /\ pc'[w] = "upload" /\ ver' = ver
          /\ UNCHANGED <<src, queue, record>>
      BY <2>6 DEF Build, Goto, SerialInv, TypeOK
    <3>2. QED
      BY <2>1, <3>1, WorkFresh
  <2>7. CASE /\ pc[w] # "idle" /\ pc' = pc /\ ver' = ver
             /\ UNCHANGED <<src, queue, record>>
    BY <2>1, <2>7, WorkFresh
  <2>8. CASE UploadDone(w)
    <3>1. CASE Return(w, FALSE)
      BY <2>4, <2>8, <3>1 DEF UploadDone
    <3>2. CASE Goto(w, "reconcile") /\ UNCHANGED <<src, queue, record, ver>>
      <4>1. pc[w] = "upload" /\ pc'[w] = "reconcile"
        BY <2>8, <3>2 DEF UploadDone, Goto, SerialInv, TypeOK
      <4>2. QED
        BY <2>1, <3>2, <4>1, WorkFresh
    <3>3. QED
      BY <2>8, <3>1, <3>2 DEF UploadDone
  <2>9. CASE ReconcileDone(w)
    <3>1. CASE Return(w, FALSE)
      BY <2>4, <2>9, <3>1 DEF ReconcileDone
    <3>2. CASE Goto(w, "supersede") /\ UNCHANGED <<src, queue, record, ver>>
      <4>1. pc[w] = "reconcile" /\ pc'[w] = "supersede"
        BY <2>9, <3>2 DEF ReconcileDone, Goto, SerialInv, TypeOK
      <4>2. QED
        BY <2>1, <3>2, <4>1, WorkFresh
    <3>3. QED
      BY <2>9, <3>1, <3>2 DEF ReconcileDone
  <2>10. CASE Raise(w)
    BY <2>4, <2>10 DEF Raise
  <2>11. CASE ClearDone(w)
    BY <2>4, <2>11 DEF ClearDone, SerialInv, TypeOK
  <2>12. CASE \E f \in Families, l \in Locations : ListStale(w, f, l)
    BY <2>7, <2>12 DEF ListStale
  <2>13. CASE \/ \E k \in Key : UploadFile(w, k) \/ HeadObject(w, k) \/ DeleteObject(w, k)
              \/ \E f \in Families, l \in Locations : ListPages(w, f, l)
    BY <2>7, <2>13 DEF UploadFile, HeadObject, DeleteObject, ListPages
  <2>14. QED
    BY <1>3, <2>2, <2>3, <2>5, <2>6, <2>8, <2>9, <2>10, <2>11, <2>12, <2>13 DEF Step
<1>4. QED
  BY <1>1, <1>2, <1>3 DEF Next

\* Once every record is acknowledged the bucket is the image of the latest
\* source, in whatever order the records were delivered and redelivered.
THEOREM SettledFollows ==
  ASSUME Serial
  PROVE  Spec => []SettledIsImage
<1>1. Init => FreshInv
  BY DEF Init, FreshInv, SettledIsImage
<1>2. SerialInv /\ FreshInv /\ [Next]_vars => FreshInv'
  BY FreshStep
<1>3. FreshInv => SettledIsImage
  BY DEF FreshInv
<1>4. QED
  BY <1>1, <1>2, <1>3, AlwaysSerial, PTL DEF Spec
=============================================================================
