--------------------------- MODULE PipelineProofs ---------------------------
(***************************************************************************)
(* Theorems about modules ItemKeys and Pipeline: which layouts of the      *)
(* source bucket keep the items apart, and that nothing else is needed for *)
(* a record about one item to leave the others alone, for any collection,  *)
(* any number of environments and any batches.                             *)
(***************************************************************************)
EXTENDS Pipeline, TLAPS

-----------------------------------------------------------------------------
(* Layouts. *)

\* What a key is made of.
LEMMA OwnKeyForms ==
  ASSUME NEW x \in Items, NEW k \in OwnKeys(x)
  PROVE  \E l \in Locations :
           \/ \E f \in Flat : k = File(l, f, <<>>, StemOf[x])
           \/ \E f \in Tree : k = File(l, f, DirOf[x], StemOf[x])
           \/ \E f \in Paged, p \in Pages : k = File(l, f, DirOf[x], StemOf[x] \o p)
  BY DEF OwnKeys, DirectKeys, PageKeys

\* Of two directories in the same parent neither is on the path of the other.
LEMMA AppendedDirs ==
  ASSUME NEW root \in Seq(Name), NEW a \in Name, NEW b \in Name,
         IsPrefix(Append(root, a), Append(root, b))
  PROVE  a = b
<1>1. Len(Append(root, a)) = Len(root) + 1 /\ Len(Append(root, b)) = Len(root) + 1
  OBVIOUS
<1>2. SubSeq(Append(root, a), 1, Len(root) + 1) = SubSeq(Append(root, b), 1, Len(root) + 1)
  BY <1>1 DEF IsPrefix
<1>3. Append(root, a)[Len(root) + 1] = a /\ Append(root, b)[Len(root) + 1] = b
  OBVIOUS
<1>4. \A s \in Seq(Name) : Len(s) = Len(root) + 1
        => SubSeq(s, 1, Len(root) + 1)[Len(root) + 1] = s[Len(root) + 1]
  OBVIOUS
<1>5. Append(root, a) \in Seq(Name) /\ Append(root, b) \in Seq(Name)
  OBVIOUS
<1>6. QED
  BY <1>1, <1>2, <1>3, <1>4, <1>5

\* The directories on a path of an appended one.
LEMMA AppendedSet ==
  ASSUME NEW root \in Seq(Name), NEW e \in Name
  PROVE  ToSet(Append(root, e)) = ToSet(root) \cup {e}
<1> DEFINE s == Append(root, e)
<1>1. /\ DOMAIN s = 1..(Len(root) + 1) /\ DOMAIN root = 1..Len(root)
      /\ \A j \in 1..Len(root) : s[j] = root[j]
      /\ s[Len(root) + 1] = e
      /\ Len(root) \in Nat
  OBVIOUS
<1> HIDE DEF s
<1>2. DOMAIN s = DOMAIN root \cup {Len(root) + 1}
  BY <1>1
<1>3. ToSet(s) = ToSet(root) \cup {e}
  BY <1>1, <1>2 DEF ToSet
<1>4. QED
  BY <1>3 DEF s

\* One directory for each item, called like it, is a layout in which no key, no
\* glob and no directory of one item is another's.
THEOREM OwnDirectoriesAreApart ==
  ASSUME NEW root \in Seq(Name), OwnDirectories(root)
  PROVE  KeysApart /\ DirsApart
<1> USE NamesAssumption
<1>1. \A x \in Items : StemOf[x] \in Name /\ DirOf[x] \in Seq(Name)
  OBVIOUS
<1>2. ASSUME NEW x \in Items, NEW y \in Items, IsPrefix(DirOf[x], DirOf[y])
      PROVE  x = y
  <2>1. IsPrefix(Append(root, StemOf[x]), Append(root, StemOf[y]))
    BY <1>2 DEF OwnDirectories
  <2>2. StemOf[x] = StemOf[y]
    BY <1>1, <2>1, AppendedDirs
  <2>3. QED
    BY <2>2 DEF OwnDirectories
<1>3. \A x \in Items : IsPrefix(DirOf[x], DirOf[x])
  BY <1>1 DEF IsPrefix
<1>4. ASSUME NEW x \in Items, NEW y \in Items, x # y, NEW k \in OwnKeys(y)
      PROVE  k \notin OwnKeys(x) /\ ~Globbed(x, k)
  <2>1. DirOf[x] # DirOf[y] /\ StemOf[x] # StemOf[y] /\ ~IsPrefix(DirOf[x], DirOf[y])
    BY <1>2, <1>3, <1>4 DEF OwnDirectories
  <2>2. \/ k.kind \in Flat /\ k.name = StemOf[y]
        \/ k.kind \in Tree /\ k.dir = DirOf[y]
        \/ k.kind \in Paged /\ k.dir = DirOf[y]
    BY OwnKeyForms DEF File
  <2>3. k \in OwnKeys(x) =>
          \/ k.kind \in Flat /\ k.name = StemOf[x]
          \/ k.kind \in Tree /\ k.dir = DirOf[x]
          \/ k.kind \in Paged /\ k.dir = DirOf[x]
    BY OwnKeyForms DEF File
  <2>4. QED
    BY <2>1, <2>2, <2>3 DEF Globbed
<1>5. ASSUME NEW x \in Items, NEW y \in Items
      PROVE  StemOf[x] \in ToSet(DirOf[y]) <=> x = y
  <2>1. ToSet(Append(root, StemOf[y])) = ToSet(root) \cup {StemOf[y]}
    BY <1>1, AppendedSet
  <2>2. DirOf[y] = Append(root, StemOf[y]) /\ StemOf[x] \notin ToSet(root)
    BY DEF OwnDirectories
  <2>3. StemOf[x] = StemOf[y] => x = y
    BY DEF OwnDirectories
  <2>4. QED
    BY <2>1, <2>2, <2>3
<1>6. QED
  BY <1>4, <1>5 DEF KeysApart, DirsApart

-----------------------------------------------------------------------------
(* Builds. *)

\* Items that are apart have different names.
LEMMA StemsDiffer ==
  ASSUME DirsApart
  PROVE  \A x, y \in Items : StemOf[x] = StemOf[y] => x = y
  BY DEF DirsApart

\* The key k at the location l.
At(k, l) == [k EXCEPT !.loc = l]

\* What an object of a build is called before the partition.
LEMMA MadeForms ==
  ASSUME NEW x, NEW v, NEW k \in MadeOf(x, v)
  PROVE  \/ \E f \in Flat : k = File("released", f, <<>>, StemOf[x])
         \/ \E f \in Tree : k = File("released", f, DirOf[x], StemOf[x])
         \/ \E f \in Paged, p \in PagesOf[v] : k = File("released", f, DirOf[x], StemOf[x] \o p)
  BY DEF MadeOf, DirectKeys, PageKeys

\* The moves that concern an item are its own.
LEMMA MovedForItself ==
  ASSUME DirsApart, NEW x \in Items, NEW y \in Items, NEW v, NEW k \in MadeOf(x, v)
  PROVE  MovedFor(y, k) <=> x = y
<1>1. CASE \E f \in Flat : k = File("released", f, <<>>, StemOf[x])
  BY <1>1, StemsDiffer DEF MovedFor, File
<1>2. CASE \E f \in Tree : k = File("released", f, DirOf[x], StemOf[x])
  <2>1. k.kind \notin Flat /\ k.dir = DirOf[x]
    BY <1>2, NamesAssumption DEF File
  <2>2. QED
    BY <2>1 DEF MovedFor, DirsApart
<1>3. CASE \E f \in Paged, p \in PagesOf[v] : k = File("released", f, DirOf[x], StemOf[x] \o p)
  <2>1. k.kind \notin Flat /\ k.dir = DirOf[x]
    BY <1>3, NamesAssumption DEF File
  <2>2. QED
    BY <2>1 DEF MovedFor, DirsApart
<1>4. QED
  BY <1>1, <1>2, <1>3, MadeForms

\* The image of a version is what its build made, at the location of the version.
LEMMA ImageIsMade ==
  ASSUME NEW x, NEW v
  PROVE  ImageOf(x, v) = {At(k, LocationOf(v)) : k \in MadeOf(x, v)}
<1> DEFINE l == LocationOf(v)
<1>1. ASSUME NEW f, NEW d, NEW n
      PROVE  At(File("released", f, d, n), l) = File(l, f, d, n)
  BY DEF At, File
<1> HIDE DEF l
<1>2. ImageOf(x, v) = DirectKeys(x, l) \cup PageKeys(x, l, PagesOf[v])
  BY DEF ImageOf, l
<1>3. DirectKeys(x, l) = {At(k, l) : k \in DirectKeys(x, "released")}
  BY <1>1 DEF DirectKeys
<1>4. PageKeys(x, l, PagesOf[v]) = {At(k, l) : k \in PageKeys(x, "released", PagesOf[v])}
  BY <1>1 DEF PageKeys
<1>5. ImageOf(x, v) = {At(k, l) : k \in MadeOf(x, v)}
  BY <1>2, <1>3, <1>4 DEF MadeOf
<1>6. QED
  BY <1>5 DEF l

\* A build of several items is the union of their images.
LEMMA OutputsAreImages ==
  ASSUME DirsApart, NEW at, DOMAIN at \subseteq Items
  PROVE  Outputs(at) = UNION {{<<k, <<x, at[x]>>>> : k \in ImageOf(x, at[x])} : x \in DOMAIN at}
<1> DEFINE drafts == {x \in DOMAIN at : Partition /\ at[x] \in Unreleased}
           Placed(k) == IF \E x \in drafts : MovedFor(x, k)
                          THEN [k EXCEPT !.loc = "unreleased"] ELSE k
<1>1. ASSUME NEW x \in DOMAIN at, NEW k \in MadeOf(x, at[x])
      PROVE  Placed(k) = At(k, LocationOf(at[x]))
  <2>1. (\E y \in drafts : MovedFor(y, k)) <=> x \in drafts
    BY MovedForItself
  <2>2. CASE x \in drafts
    BY <2>1, <2>2 DEF At, LocationOf
  <2>3. CASE x \notin drafts
    <3>1. LocationOf(at[x]) = "released" /\ Placed(k) = k
      BY <2>1, <2>3 DEF LocationOf
    <3>2. k = [k EXCEPT !.loc = "released"]
      BY MadeForms DEF File
    <3>3. QED
      BY <3>1, <3>2 DEF At
  <2>4. QED
    BY <2>2, <2>3
<1>2. ASSUME NEW x \in DOMAIN at
      PROVE  {<<Placed(k), <<x, at[x]>>>> : k \in MadeOf(x, at[x])}
               = {<<k, <<x, at[x]>>>> : k \in ImageOf(x, at[x])}
  BY <1>1, ImageIsMade
<1>3. Outputs(at) = UNION {{<<Placed(k), <<x, at[x]>>>> : k \in MadeOf(x, at[x])} : x \in DOMAIN at}
  BY DEF Outputs
<1> HIDE DEF Placed, drafts
<1>4. QED
  BY <1>2, <1>3

\* On an empty dist/ the build of one item leaves its image, and nothing else.
LEMMA BuildOfOne ==
  ASSUME DirsApart, NEW h \in Items, NEW v \in Versions, NEW k \in Key
  PROVE  Copied(Empty, [x \in {h} |-> v])[k] = IF k \in ImageOf(h, v) THEN <<h, v>> ELSE None
<1> DEFINE at == [x \in {h} |-> v]
<1>1. DOMAIN at = {h} /\ at[h] = v
  OBVIOUS
<1> HIDE DEF at
<1>2. Outputs(at) = {<<q, <<h, v>>>> : q \in ImageOf(h, v)}
  BY <1>1, OutputsAreImages
<1>3. \A c : <<k, c>> \in Outputs(at) <=> k \in ImageOf(h, v) /\ c = <<h, v>>
  BY <1>2
<1>4. <<h, v>> \in Items \X Versions
  OBVIOUS
<1>5. CASE k \in ImageOf(h, v)
  <2>1. (CHOOSE c \in Items \X Versions : <<k, c>> \in Outputs(at)) = <<h, v>>
    BY <1>3, <1>4, <1>5
  <2>2. \E c \in Items \X Versions : <<k, c>> \in Outputs(at)
    BY <1>3, <1>4, <1>5
  <2>3. QED
    BY <1>5, <2>1, <2>2 DEF Copied, at
<1>6. CASE k \notin ImageOf(h, v)
  <2>1. ~ \E c \in Items \X Versions : <<k, c>> \in Outputs(at)
    BY <1>3, <1>6
  <2>2. QED
    BY <1>6, <2>1 DEF Copied, Empty, at
<1>7. QED
  BY <1>5, <1>6

\* The image of a version is among the item's keys, at the location of the version.
LEMMA ImageIsOwn ==
  ASSUME NEW h \in Items, NEW v \in Versions
  PROVE  /\ ImageOf(h, v) \subseteq OwnKeys(h)
         /\ \A k \in ImageOf(h, v) : k.loc = LocationOf(v)
<1> USE NamesAssumption
<1>1. LocationOf(v) \in Locations
  BY DEF LocationOf, Locations
<1>2. PagesOf[v] \subseteq Pages
  OBVIOUS
<1>3. PageKeys(h, LocationOf(v), PagesOf[v]) \subseteq PageKeys(h, LocationOf(v), Pages)
  BY <1>2 DEF PageKeys
<1>4. ImageOf(h, v) \subseteq OwnKeys(h)
  BY <1>1, <1>3 DEF ImageOf, OwnKeys
<1>5. \A k \in ImageOf(h, v) : k.loc = LocationOf(v)
  BY DEF ImageOf, DirectKeys, PageKeys, File
<1>6. QED
  BY <1>4, <1>5

\* A copy into any dist/ is again a dist/.
LEMMA CopiedType ==
  ASSUME NEW over \in [Key -> Content], NEW at
  PROVE  Copied(over, at) \in [Key -> Content]
<1>1. ASSUME NEW k \in Key, \E c \in Items \X Versions : <<k, c>> \in Outputs(at)
      PROVE  (CHOOSE c \in Items \X Versions : <<k, c>> \in Outputs(at)) \in Content
  BY <1>1 DEF Content
<1>2. QED
  BY <1>1 DEF Copied

-----------------------------------------------------------------------------
(* Type correctness. *)

\* Every step of the Lambda is a step of the batch loop, or none of its.
LEMMA StepsOfTheLoop ==
  ASSUME [Next]_vars
  PROVE  [Loop!Next]_loop
<1>1. CASE UNCHANGED vars
  BY <1>1 DEF vars
<1>2. CASE Environment
  BY <1>2 DEF Environment, DeleteSource, PutSource, Loop!Next
<1>3. ASSUME NEW w \in Workers, Between(w)
      PROVE  Loop!Next
  BY <1>3 DEF Between, Loop!Next, Loop!Step
<1>4. ASSUME NEW w \in Workers, Crash(w) \/ \E b \in Loop!Batches : Invoke(w, b)
      PROVE  Loop!Next
  BY <1>4 DEF Crash, Invoke, Loop!Next
<1>5. ASSUME NEW w \in Workers, Handle(w)
      PROVE  [Loop!Next]_loop
  <2>1. CASE Dispatch(w)
    BY <2>1 DEF Dispatch, Loop!Next, Loop!Step
  <2>2. CASE Download(w) \/ Build(w) \/ UploadDone(w) \/ Reconciled(w)
    BY <2>2 DEF Download, Build, UploadDone, Reconciled, Enter
  <2>3. CASE \E k \in Key : Upload(w, k) \/ Delete(w, k)
    BY <2>3 DEF Upload, Delete
  <2>4. CASE \E d \in 0..Budget : Finish(w, d) \/ Raise(w, d)
    BY <2>4 DEF Finish, Raise, Loop!Next, Loop!Step
  <2>5. QED
    BY <1>5, <2>1, <2>2, <2>3, <2>4 DEF Handle
<1>6. QED
  BY <1>1, <1>2, <1>3, <1>4, <1>5 DEF Next

\* A batch is a sequence of records.
LEMMA BatchIsSeq ==
  ASSUME NEW b \in Loop!Batches
  PROVE  b \in Seq(Records)
<1>1. PICK n \in 1..BatchSize : b \in [1..n -> Records]
  BY DEF Loop!Batches
<1>2. n \in Nat
  BY LoopAssumption
<1>3. QED
  BY <1>1, <1>2

\* A step of the loop keeps the types, where the record being handled is one of
\* the batch.
LEMMA LoopTypes ==
  ASSUME Loop!TypeOK, [Loop!Next]_loop,
         \A w \in Workers : phase[w] \in {"parse", "handle"} => i[w] <= Len(batch[w])
  PROVE  Loop!TypeOK'
<1> USE LoopAssumption DEF Loop!TypeOK
<1>1. CASE UNCHANGED loop
  BY <1>1 DEF loop
<1>2. ASSUME NEW w \in Workers, NEW b \in Loop!Batches, Loop!Invoke(w, b)
      PROVE  Loop!TypeOK'
  <2>1. b \in Seq(Records)
    BY BatchIsSeq
  <2>2. QED
    BY <1>2, <2>1 DEF Loop!Invoke, Loop!Phases
<1>3. ASSUME NEW w \in Workers, Loop!Report(w) \/ Loop!Crash(w)
      PROVE  Loop!TypeOK'
  <2>1. PICK back : Loop!Release(w, back)
    BY <1>3 DEF Loop!Report, Loop!Crash
  <2>2. context' \in [Workers -> Loop!Contexts]
    BY <1>3 DEF Loop!Report, Loop!Crash, Loop!Contexts
  <2>3. status' \in [Records -> {"queued", "inflight", "done", "dlq"}]
    BY <2>1 DEF Loop!Release
  <2>4. batch' \in [Workers -> Seq(Records)] /\ i' \in [Workers -> Nat \ {0}]
    BY <2>1 DEF Loop!Release
  <2>5. phase' \in [Workers -> Loop!Phases]
    BY <2>1 DEF Loop!Release, Loop!Phases
  <2>6. UNCHANGED <<receives, failures, remaining, token, succeeded>>
    BY <2>1 DEF Loop!Release
  <2>7. QED
    BY <2>2, <2>3, <2>4, <2>5, <2>6
<1>4. ASSUME NEW r \in Records, Loop!Redeliver(r)
      PROVE  Loop!TypeOK'
  BY <1>4 DEF Loop!Redeliver, Loop!invocation
<1>5. ASSUME NEW w \in Workers, Loop!SetupDone(w) \/ Loop!LoopDone(w)
      PROVE  Loop!TypeOK'
  BY <1>5 DEF Loop!SetupDone, Loop!LoopDone, Loop!queue, Loop!Phases
<1>6. ASSUME NEW w \in Workers, Loop!SetupFails(w) \/ Loop!TimeUp(w)
      PROVE  Loop!TypeOK'
  <2>1. Loop!Members(w) \subseteq Records /\ Loop!Unprocessed(w) \subseteq Records
    BY DEF Loop!Members, Loop!Unprocessed
  <2>2. failures' \in [Workers -> SUBSET Records]
    <3>1. PICK F \in SUBSET Records : failures' = [failures EXCEPT ![w] = F]
      <4>1. failures[w] \cup Loop!Unprocessed(w) \in SUBSET Records
        BY <2>1
      <4>2. Loop!Members(w) \in SUBSET Records
        BY <2>1
      <4>3. QED
        BY <1>6, <4>1, <4>2 DEF Loop!SetupFails, Loop!TimeUp
    <3>2. QED
      BY <3>1
  <2>3. phase' \in [Workers -> Loop!Phases]
    BY <1>6 DEF Loop!SetupFails, Loop!TimeUp, Loop!Phases
  <2>4. UNCHANGED <<status, receives, batch, i, remaining, context, token, succeeded>>
    BY <1>6 DEF Loop!SetupFails, Loop!TimeUp, Loop!queue
  <2>5. QED
    BY <2>2, <2>3, <2>4
<1>7. ASSUME NEW w \in Workers, Loop!Begin(w) \/ Loop!Parse(w)
      PROVE  Loop!TypeOK'
  <2>1. Loop!Current(w) \in Records
    <3>1. i[w] <= Len(batch[w])
      BY <1>7 DEF Loop!Begin, Loop!Parse
    <3>2. QED
      BY <3>1 DEF Loop!Current
  <2>2. context' \in [Workers -> Loop!Contexts] /\ token' \in [Workers -> Loop!Contexts]
    <3>1. <<Loop!Current(w), FALSE>> \in Loop!Contexts /\ <<Loop!Current(w), TRUE>> \in Loop!Contexts
      BY <2>1 DEF Loop!Contexts
    <3>2. PICK c \in Loop!Contexts, t \in Loop!Contexts :
            context' = [context EXCEPT ![w] = c] /\ token' = [token EXCEPT ![w] = t]
      <4>1. context[w] \in Loop!Contexts /\ token[w] \in Loop!Contexts
        OBVIOUS
      <4>2. CASE Loop!Begin(w)
        BY <3>1, <4>1, <4>2 DEF Loop!Begin
      <4>3. CASE Loop!Parse(w)
        <5>1. token' = [token EXCEPT ![w] = token[w]]
          BY <4>3 DEF Loop!Parse
        <5>2. QED
          BY <3>1, <4>1, <4>3, <5>1 DEF Loop!Parse
      <4>4. QED
        BY <1>7, <4>2, <4>3
    <3>3. QED
      BY <3>2
  <2>3. phase' \in [Workers -> Loop!Phases]
    BY <1>7 DEF Loop!Begin, Loop!Parse, Loop!Phases
  <2>4. UNCHANGED <<status, receives, batch, i, failures, remaining, succeeded>>
    BY <1>7 DEF Loop!Begin, Loop!Parse, Loop!queue
  <2>5. QED
    BY <2>2, <2>3, <2>4
<1>8. ASSUME NEW w \in Workers, NEW d \in 0..Budget, Loop!Handled(w, d) \/ Loop!Failed(w, d)
      PROVE  Loop!TypeOK'
  <2>1. Loop!Current(w) \in Records
    BY <1>8 DEF Loop!Handled, Loop!Failed, Loop!Current
  <2>2. failures' \in [Workers -> SUBSET Records] /\ succeeded' \in [Workers -> SUBSET Records]
    <3>1. failures[w] \cup {Loop!Current(w)} \in SUBSET Records
      BY <2>1
    <3>2. succeeded[w] \cup {Loop!Current(w)} \in SUBSET Records
      BY <2>1
    <3>3. QED
      BY <1>8, <3>1, <3>2 DEF Loop!Handled, Loop!Failed
  <2>3. Loop!EndRecord(w, d)
    BY <1>8 DEF Loop!Handled, Loop!Failed
  <2>4. remaining' \in [Workers -> Nat] /\ i' \in [Workers -> Nat \ {0}]
    BY <2>3 DEF Loop!EndRecord
  <2>5. context' \in [Workers -> Loop!Contexts] /\ phase' \in [Workers -> Loop!Phases]
    BY <2>3 DEF Loop!EndRecord, Loop!Phases
  <2>6. UNCHANGED <<status, receives, batch, token>>
    BY <2>3 DEF Loop!EndRecord, Loop!queue
  <2>7. QED
    BY <2>2, <2>4, <2>5, <2>6
<1>9. QED
  BY <1>1, <1>2, <1>3, <1>4, <1>5, <1>6, <1>7, <1>8 DEF Loop!Next, Loop!Step

-----------------------------------------------------------------------------
(* The calls of a record. *)

Inv == TypeOK /\ PipelineInv

\* The record of a call is announced.
LEMMA HandlingIsItem ==
  ASSUME Inv, NEW w \in Workers, stage[w] # "none"
  PROVE  /\ i[w] \in 1..Len(batch[w]) /\ batch[w][i[w]] \in Records
         /\ about[batch[w][i[w]]] # None
         /\ Handling(w) = about[batch[w][i[w]]].item
         /\ Handling(w) \in Items
<1>1. phase[w] = "handle"
  BY DEF Inv, PipelineInv, WorkerInv
<1>2. i[w] \in Nat \ {0} /\ batch[w] \in Seq(Records)
  BY DEF Inv, TypeOK, Loop!TypeOK
<1>3. i[w] \in 1..Len(batch[w])
  <2>1. i[w] <= Len(batch[w])
    BY <1>1 DEF Inv, PipelineInv, WorkerInv
  <2>2. QED
    BY <1>2, <2>1
<1>4. batch[w][i[w]] \in Records
  BY <1>2, <1>3
<1>5. about[batch[w][i[w]]] # None
  BY <1>3 DEF Inv, PipelineInv, WorkerInv
<1>6. about[batch[w][i[w]]].item \in Items
  BY <1>4, <1>5 DEF Inv, TypeOK, About
<1>7. QED
  BY <1>3, <1>4, <1>5, <1>6 DEF Handling

\* An environment keeps its invariant through the steps of others, the
\* announcement of records included.
LEMMA Frame ==
  ASSUME Inv, NEW u \in Workers,
         \A r \in Records : about[r] # None => about'[r] = about[r],
         batch'[u] = batch[u], i'[u] = i[u], phase'[u] = phase[u],
         stage'[u] = stage[u], got'[u] = got[u], dist'[u] = dist[u]
  PROVE  WorkerInv(u)' /\ (Handling(u)' = Handling(u))
<1>1. WorkerInv(u) /\ batch[u] \in Seq(Records)
  BY DEF Inv, PipelineInv, TypeOK, Loop!TypeOK
<1>2. \A j \in 1..Len(batch[u]) : about'[batch[u][j]] = about[batch[u][j]]
  BY <1>1 DEF WorkerInv
<1>3. Handling(u)' = Handling(u)
  BY <1>2, HandlingIsItem DEF Handling
<1>4. QED
  BY <1>1, <1>2, <1>3 DEF WorkerInv

\* Which of the variables a step of one environment may change.
Solo(w) ==
  /\ \A u \in Workers \ {w} :
       /\ batch'[u] = batch[u] /\ i'[u] = i[u] /\ phase'[u] = phase[u]
       /\ stage'[u] = stage[u] /\ got'[u] = got[u] /\ dist'[u] = dist[u]
  /\ about' = about

\* A step of one environment that keeps its own invariant keeps everyone's.
LEMMA Alone ==
  ASSUME Inv, NEW w \in Workers, Solo(w), WorkerInv(w)'
  PROVE  PipelineInv'
<1>1. ASSUME NEW u \in Workers
      PROVE  WorkerInv(u)'
  <2>1. CASE u = w
    BY <2>1
  <2>2. CASE u # w
    BY <2>2, Frame DEF Solo
  <2>3. QED
    BY <2>1, <2>2
<1>2. QED
  BY <1>1 DEF PipelineInv

\* A step that only moves the loop of w between two records.
LEMMA Idle ==
  ASSUME Inv, NEW w \in Workers, about' = about, UNCHANGED tmp,
         stage[w] = "none", phase'[w] # "handle",
         \A j \in 1..Len(batch'[w]) : about[batch'[w][j]] # None,
         phase'[w] = "parse" => i'[w] <= Len(batch'[w])
  PROVE  WorkerInv(w)'
BY DEF WorkerInv, tmp

\* A batch is only taken once all its records are announced.
LEMMA InvInvoke ==
  ASSUME Inv, NEW w \in Workers, NEW b \in Loop!Batches, Invoke(w, b)
  PROVE  PipelineInv'
<1> USE DEF Invoke, Loop!Invoke, store, tmp
<1>1. WorkerInv(w) /\ b \in Seq(Records)
  BY BatchIsSeq DEF Inv, PipelineInv
<1>2. /\ batch \in [Workers -> Seq(Records)] /\ i \in [Workers -> Nat \ {0}]
      /\ phase \in [Workers -> Loop!Phases]
  BY DEF Inv, TypeOK, Loop!TypeOK
<1>3. batch'[w] = b /\ phase'[w] = "setup"
  BY <1>2
<1>4. \A j \in 1..Len(b) : about[b[j]] # None
  BY <1>1
<1>5. stage[w] = "none"
  BY <1>1 DEF WorkerInv
<1>6. WorkerInv(w)'
  BY <1>3, <1>4, <1>5, Idle
<1>7. Solo(w)
  BY <1>2 DEF Solo
<1>8. QED
  BY <1>6, <1>7, Alone

\* A killed process holds no batch, whatever it leaves in dist/.
LEMMA InvCrash ==
  ASSUME Inv, NEW w \in Workers, Crash(w)
  PROVE  PipelineInv'
<1> USE DEF Crash, Loop!Crash, Loop!Release, store
<1>1. /\ batch \in [Workers -> Seq(Records)] /\ i \in [Workers -> Nat \ {0}]
      /\ phase \in [Workers -> Loop!Phases] /\ stage \in [Workers -> Stages]
      /\ got \in [Workers -> Versions \cup {None}]
  BY DEF Inv, TypeOK, Loop!TypeOK
<1>2. batch'[w] = <<>> /\ phase'[w] = "waiting" /\ stage'[w] = "none"
  BY <1>1
<1>3. WorkerInv(w)'
  BY <1>2 DEF WorkerInv
<1>4. Solo(w)
  BY <1>1 DEF Solo
<1>5. QED
  BY <1>3, <1>4, Alone

\* Between records no call is in progress.
LEMMA InvBetween ==
  ASSUME Inv, NEW w \in Workers, Between(w)
  PROVE  PipelineInv'
<1>1. /\ batch \in [Workers -> Seq(Records)] /\ i \in [Workers -> Nat \ {0}]
      /\ phase \in [Workers -> Loop!Phases]
  BY DEF Inv, TypeOK, Loop!TypeOK
<1>2. WorkerInv(w)
  BY DEF Inv, PipelineInv
<1>3. about' = about /\ UNCHANGED tmp
  BY DEF Between, store
<1>4. CASE Loop!SetupDone(w) \/ Loop!SetupFails(w) \/ Loop!TimeUp(w) \/ Loop!LoopDone(w)
  <2>1. phase[w] # "handle" /\ phase'[w] \in {"loop", "returned"} /\ batch' = batch /\ i' = i
    BY <1>1, <1>4 DEF Loop!SetupDone, Loop!SetupFails, Loop!TimeUp, Loop!LoopDone
  <2>2. \A u \in Workers \ {w} : phase'[u] = phase[u]
    BY <1>1, <1>4 DEF Loop!SetupDone, Loop!SetupFails, Loop!TimeUp, Loop!LoopDone
  <2>3. WorkerInv(w)'
    BY <1>2, <1>3, <2>1, Idle DEF WorkerInv
  <2>4. QED
    BY <1>3, <2>1, <2>2, <2>3, Alone DEF Solo, tmp
<1>5. CASE Loop!Begin(w)
  <2>1. /\ phase[w] = "loop" /\ phase'[w] = "parse" /\ batch' = batch /\ i' = i
        /\ i[w] <= Len(batch[w])
    BY <1>1, <1>5 DEF Loop!Begin
  <2>2. \A u \in Workers \ {w} : phase'[u] = phase[u]
    BY <1>1, <1>5 DEF Loop!Begin
  <2>3. WorkerInv(w)'
    BY <1>2, <1>3, <2>1, Idle DEF WorkerInv
  <2>4. QED
    BY <1>3, <2>1, <2>2, <2>3, Alone DEF Solo, tmp
<1>6. CASE Loop!Report(w)
  <2>1. /\ phase[w] = "returned" /\ phase'[w] = "waiting" /\ batch'[w] = <<>>
        /\ \A u \in Workers \ {w} : batch'[u] = batch[u] /\ i'[u] = i[u] /\ phase'[u] = phase[u]
    BY <1>1, <1>6 DEF Loop!Report, Loop!Release
  <2>2. stage[w] = "none"
    BY <1>2, <2>1 DEF WorkerInv
  <2>3. \A j \in 1..Len(batch'[w]) : about[batch'[w][j]] # None
    BY <2>1
  <2>4. WorkerInv(w)'
    BY <1>3, <2>1, <2>2, <2>3, Idle
  <2>5. QED
    BY <1>3, <2>1, <2>4, Alone DEF Solo, tmp
<1>7. QED
  BY <1>4, <1>5, <1>6 DEF Between

\* A parsed record of the batch goes into its first call.
LEMMA InvDispatch ==
  ASSUME Inv, NEW w \in Workers, Dispatch(w)
  PROVE  PipelineInv'
<1> USE DEF Dispatch, Loop!Parse, store
<1>1. phase \in [Workers -> Loop!Phases] /\ stage \in [Workers -> Stages]
  BY DEF Inv, TypeOK, Loop!TypeOK
<1>2. WorkerInv(w)
  BY DEF Inv, PipelineInv
<1>3. /\ phase[w] = "parse" /\ phase'[w] = "handle" /\ stage'[w] \in {"download", "remove"}
      /\ batch' = batch /\ i' = i /\ about' = about
  BY <1>1
<1>4. WorkerInv(w)'
  BY <1>2, <1>3 DEF WorkerInv
<1>5. Solo(w)
  BY <1>1 DEF Solo
<1>6. QED
  BY <1>4, <1>5, Alone

\* The download starts on an empty dist/.
LEMMA InvDownload ==
  ASSUME Inv, NEW w \in Workers, Download(w)
  PROVE  PipelineInv'
<1> USE DEF Download, Enter
<1>1. /\ stage \in [Workers -> Stages] /\ got \in [Workers -> Versions \cup {None}]
      /\ dist \in [Workers -> [Key -> Content]] /\ src \in [Items -> Versions \cup {None}]
  BY DEF Inv, TypeOK
<1>2. WorkerInv(w)
  BY DEF Inv, PipelineInv
<1>3. Handling(w) \in Items
  BY HandlingIsItem
<1>4. UNCHANGED loop /\ about' = about /\ stage[w] = "download"
  OBVIOUS
<1>5. stage'[w] = "build" /\ got'[w] \in Versions /\ dist'[w] = Empty
  BY <1>1, <1>3
<1>6. WorkerInv(w)'
  BY <1>2, <1>4, <1>5 DEF WorkerInv, loop, Empty
<1>7. Solo(w)
  BY <1>1, <1>4 DEF Solo, loop
<1>8. QED
  BY <1>6, <1>7, Alone

\* The build leaves the image of the version downloaded.
LEMMA InvBuild ==
  ASSUME DirsApart, Inv, NEW w \in Workers, Build(w)
  PROVE  PipelineInv'
<1> USE DEF Build, Enter
<1>1. stage \in [Workers -> Stages] /\ dist \in [Workers -> [Key -> Content]]
  BY DEF Inv, TypeOK
<1>2. WorkerInv(w)
  BY DEF Inv, PipelineInv
<1>3. UNCHANGED loop /\ about' = about /\ got' = got /\ stage[w] = "build"
  OBVIOUS
<1>4. Handling(w) \in Items /\ got[w] \in Versions /\ dist[w] = Empty
  BY <1>2, <1>3, HandlingIsItem DEF WorkerInv
<1>5. stage'[w] = "upload"
  BY <1>1
<1>6. Handling(w)' = Handling(w)
  BY <1>3, <1>5 DEF Handling, loop
<1>7. dist'[w] = Copied(Empty, [x \in {Handling(w)} |-> got[w]])
  BY <1>1, <1>4
<1>8. \A k \in Key : dist'[w][k] = IF k \in ImageOf(Handling(w), got[w])
                                    THEN <<Handling(w), got[w]>> ELSE None
  BY <1>4, <1>7, BuildOfOne
<1>9. WorkerInv(w)'
  BY <1>2, <1>3, <1>4, <1>5, <1>6, <1>8 DEF WorkerInv, loop
<1>10. Solo(w)
  BY <1>1, <1>3 DEF Solo, loop
<1>11. QED
  BY <1>9, <1>10, Alone

\* The calls that upload and delete leave dist/ as the build made it.
LEMMA InvCalls ==
  ASSUME Inv, NEW w \in Workers,
         \/ UploadDone(w) \/ Reconciled(w)
         \/ \E k \in Key : Upload(w, k) \/ Delete(w, k)
  PROVE  PipelineInv'
<1>1. stage \in [Workers -> Stages]
  BY DEF Inv, TypeOK
<1>2. WorkerInv(w)
  BY DEF Inv, PipelineInv
<1>3. UNCHANGED loop /\ about' = about /\ got' = got /\ dist' = dist
  BY DEF UploadDone, Reconciled, Upload, Delete, Enter, tmp
<1>4. /\ \A u \in Workers \ {w} : stage'[u] = stage[u]
      /\ \/ stage'[w] = stage[w]
         \/ stage[w] = "upload" /\ stage'[w] = "reconcile"
         \/ stage[w] = "reconcile" /\ stage'[w] = "supersede"
  BY <1>1 DEF UploadDone, Reconciled, Upload, Delete, Enter, tmp
<1>5. Handling(w)' = Handling(w)
  BY <1>3, <1>4 DEF Handling, loop
<1>6. WorkerInv(w)'
  BY <1>2, <1>3, <1>4, <1>5 DEF WorkerInv, loop
<1>7. Solo(w)
  BY <1>3, <1>4 DEF Solo, loop
<1>8. QED
  BY <1>6, <1>7, Alone

\* A record that ends, well or not, ends its call.
LEMMA InvEnd ==
  ASSUME Inv, NEW w \in Workers, \E d \in 0..Budget : Finish(w, d) \/ Raise(w, d)
  PROVE  PipelineInv'
<1>1. /\ batch \in [Workers -> Seq(Records)] /\ i \in [Workers -> Nat \ {0}]
      /\ phase \in [Workers -> Loop!Phases] /\ stage \in [Workers -> Stages]
      /\ got \in [Workers -> Versions \cup {None}] /\ dist \in [Workers -> [Key -> Content]]
  BY DEF Inv, TypeOK, Loop!TypeOK
<1>2. WorkerInv(w)
  BY DEF Inv, PipelineInv
<1>3. PICK d \in 0..Budget : Loop!EndRecord(w, d) /\ Leave(w)
  BY DEF Finish, Raise, Loop!Handled, Loop!Failed
<1>4. /\ phase'[w] = "loop" /\ batch' = batch
      /\ \A u \in Workers \ {w} : i'[u] = i[u] /\ phase'[u] = phase[u]
  BY <1>1, <1>3 DEF Loop!EndRecord
<1>5. /\ stage'[w] = "none" /\ about' = about
      /\ \A u \in Workers \ {w} : stage'[u] = stage[u] /\ got'[u] = got[u] /\ dist'[u] = dist[u]
  BY <1>1, <1>3 DEF Leave
<1>6. WorkerInv(w)'
  BY <1>2, <1>4, <1>5 DEF WorkerInv
<1>7. Solo(w)
  BY <1>4, <1>5 DEF Solo
<1>8. QED
  BY <1>6, <1>7, Alone

\* Announcing or returning a record changes none that is being handled.
LEMMA InvEnvironment ==
  ASSUME Inv, Environment
  PROVE  PipelineInv'
<1>1. UNCHANGED <<batch, i, phase, tmp>>
  BY DEF Environment, DeleteSource, PutSource, loop, Loop!Redeliver, Loop!invocation
<1>2. \A r \in Records : about[r] # None => about'[r] = about[r]
  <2>1. about \in [Records -> About]
    BY DEF Inv, TypeOK
  <2>2. QED
    BY <2>1 DEF Environment, DeleteSource, PutSource, Announce, store
<1>3. ASSUME NEW u \in Workers
      PROVE  WorkerInv(u)'
  BY <1>1, <1>2, Frame DEF tmp
<1>4. QED
  BY <1>3 DEF PipelineInv

\* Every step keeps the invariant of the environments.
LEMMA InvStep ==
  ASSUME DirsApart, Inv, [Next]_vars
  PROVE  PipelineInv'
<1>1. CASE UNCHANGED vars
  BY <1>1 DEF Inv, PipelineInv, WorkerInv, Handling, vars, loop, store, tmp
<1>2. CASE Environment
  BY <1>2, InvEnvironment
<1>3. ASSUME NEW w \in Workers, Handle(w)
      PROVE  PipelineInv'
  BY <1>3, InvDispatch, InvDownload, InvBuild, InvCalls, InvEnd DEF Handle
<1>4. ASSUME NEW w \in Workers, Between(w) \/ Crash(w) \/ \E b \in Loop!Batches : Invoke(w, b)
      PROVE  PipelineInv'
  BY <1>4, InvBetween, InvCrash, InvInvoke
<1>5. QED
  BY <1>1, <1>2, <1>3, <1>4 DEF Next

-----------------------------------------------------------------------------
(* The invariant. *)

\* The variables that are not the loop's.
StoreTypes ==
  /\ src \in [Items -> Versions \cup {None}]
  /\ bucket \in [Key -> Content]
  /\ about \in [Records -> About]
  /\ stage \in [Workers -> Stages]
  /\ got \in [Workers -> Versions \cup {None}]
  /\ dist \in [Workers -> [Key -> Content]]

\* An empty dist/ is a dist/, and an empty bucket a bucket.
LEMMA EmptyType == Empty \in [Key -> Content]
  BY DEF Empty, Content

\* Every step keeps the types of the objects, the records and /tmp.
LEMMA StoreStep ==
  ASSUME Inv, [Next]_vars
  PROVE  StoreTypes'
<1>1. StoreTypes
  BY DEF Inv, TypeOK, StoreTypes
<1> USE <1>1, EmptyType DEF StoreTypes
<1>2. CASE UNCHANGED vars \/ UNCHANGED <<store, tmp>>
  BY <1>2 DEF vars, store, tmp
<1>3. CASE Environment
  <2>1. ASSUME NEW r \in Records, NEW x \in Items, NEW k \in {"created", "removed"}, Announce(r, x, k)
        PROVE  about' \in [Records -> About]
    <3>1. [item |-> x, kind |-> k] \in About
      BY DEF About
    <3>2. QED
      BY <2>1, <3>1 DEF Announce
  <2>2. ASSUME NEW r \in Records, NEW x \in Items, DeleteSource(r, x)
        PROVE  StoreTypes'
    BY <2>1, <2>2 DEF DeleteSource, tmp
  <2>3. ASSUME NEW r \in Records, NEW x \in Items, NEW v \in Versions, PutSource(r, x, v)
        PROVE  StoreTypes'
    BY <2>1, <2>3 DEF PutSource, tmp
  <2>4. QED
    BY <1>2, <1>3, <2>2, <2>3 DEF Environment
<1>4. ASSUME NEW w \in Workers, Between(w) \/ \E b \in Loop!Batches : Invoke(w, b)
      PROVE  StoreTypes'
  BY <1>2, <1>4 DEF Between, Invoke
<1>5. ASSUME NEW w \in Workers, Crash(w)
      PROVE  StoreTypes'
  BY <1>5 DEF Crash, store, Stages
<1>6. ASSUME NEW w \in Workers, Handle(w)
      PROVE  StoreTypes'
  <2>1. CASE Dispatch(w)
    BY <2>1 DEF Dispatch, store, Stages
  <2>2. CASE Download(w)
    <3>1. src[Handling(w)] \in Versions
      BY <2>2, HandlingIsItem DEF Download
    <3>2. QED
      BY <2>2, <3>1 DEF Download, Enter, Stages
  <2>3. CASE Build(w)
    <3>1. Copied(dist[w], [x \in {Handling(w)} |-> got[w]]) \in [Key -> Content]
      BY CopiedType
    <3>2. dist' \in [Workers -> [Key -> Content]]
      BY <2>3, <3>1 DEF Build
    <3>3. QED
      BY <2>3, <3>2 DEF Build, Enter, Stages
  <2>4. CASE UploadDone(w)
    <3>1. \A k \in Key : dist[w][k] \in Content /\ bucket[k] \in Content
      OBVIOUS
    <3>2. bucket' \in [Key -> Content]
      BY <2>4, <3>1 DEF UploadDone
    <3>3. QED
      BY <2>4, <3>2 DEF UploadDone, Enter, Stages
  <2>5. ASSUME AllDeleted(w)
        PROVE  bucket' \in [Key -> Content]
    <3>1. None \in Content /\ \A k \in Key : bucket[k] \in Content
      BY DEF Content
    <3>2. QED
      BY <2>5, <3>1 DEF AllDeleted
  <2>6. CASE Reconciled(w)
    BY <2>5, <2>6 DEF Reconciled, Enter, Stages
  <2>7. ASSUME NEW k \in Key, Upload(w, k) \/ Delete(w, k)
        PROVE  StoreTypes'
    <3>1. None \in Content /\ dist[w][k] \in Content
      BY DEF Content
    <3>2. bucket' \in [Key -> Content]
      BY <2>7, <3>1 DEF Upload, Delete
    <3>3. QED
      BY <2>7, <3>2 DEF Upload, Delete, tmp
  <2>8. ASSUME NEW d \in 0..Budget, Finish(w, d) \/ Raise(w, d)
        PROVE  StoreTypes'
    <3>1. Leave(w) /\ bucket' \in [Key -> Content]
      BY <2>5, <2>8 DEF Finish, Raise
    <3>2. QED
      BY <3>1 DEF Leave, Stages
  <2>9. QED
    BY <1>6, <2>1, <2>2, <2>3, <2>4, <2>6, <2>7, <2>8 DEF Handle
<1>7. QED
  BY <1>2, <1>3, <1>4, <1>5, <1>6 DEF Next

\* The invariant holds at the start.
LEMMA InitInv == Init => Inv
<1> SUFFICES ASSUME Init PROVE Inv
  OBVIOUS
<1> USE LoopAssumption, EmptyType DEF Init, Loop!Init
<1>1. Loop!TypeOK
  BY DEF Loop!TypeOK, Loop!Phases, Loop!Contexts
<1>2. StoreTypes
  BY DEF StoreTypes, About, Stages
<1>3. PipelineInv
  BY DEF PipelineInv, WorkerInv
<1>4. QED
  BY <1>1, <1>2, <1>3 DEF Inv, TypeOK, StoreTypes, PipelineInv, WorkerInv

\* Every step keeps the invariant.
LEMMA Inductive ==
  ASSUME DirsApart, Inv, [Next]_vars
  PROVE  Inv'
<1>1. PipelineInv'
  BY InvStep
<1>2. StoreTypes'
  BY StoreStep
<1>3. Loop!TypeOK'
  <2>1. [Loop!Next]_loop
    BY StepsOfTheLoop
  <2>2. Loop!TypeOK
    BY DEF Inv, TypeOK
  <2>3. \A w \in Workers : phase[w] \in {"parse", "handle"} => i[w] <= Len(batch[w])
    BY DEF Inv, PipelineInv, WorkerInv
  <2>4. QED
    BY <2>1, <2>2, <2>3, LoopTypes
<1>4. QED
  BY <1>1, <1>2, <1>3 DEF Inv, TypeOK, StoreTypes, PipelineInv, WorkerInv

\* Where no directory is called like another item's stem, every variable is of its
\* kind and a record is in a call exactly while the batch loop handles it.
THEOREM PipelineTypes == DirsApart /\ Spec => []TypeOK
<1> SUFFICES ASSUME DirsApart PROVE Spec => []TypeOK
  OBVIOUS
<1>1. Init => Inv
  BY InitInv
<1>2. Inv /\ [Next]_vars => Inv'
  BY Inductive
<1>3. Inv => TypeOK
  BY DEF Inv
<1>4. QED
  BY <1>1, <1>2, <1>3, PTL DEF Spec

\* Where no directory is called like another item's stem, dist/ is exactly the
\* image of the version downloaded from the build of a record to its end, whatever
\* earlier records and killed invocations left in /tmp.
THEOREM DistIsOwnImage == DirsApart /\ Spec => []PipelineInv
<1> SUFFICES ASSUME DirsApart PROVE Spec => []PipelineInv
  OBVIOUS
<1>1. Init => Inv
  BY InitInv
<1>2. Inv /\ [Next]_vars => Inv'
  BY Inductive
<1>3. Inv => PipelineInv
  BY DEF Inv
<1>4. QED
  BY <1>1, <1>2, <1>3, PTL DEF Spec

-----------------------------------------------------------------------------
(* What a record does to the bucket. *)

\* The steps that change objects: an upload puts what the build made, a cleanup
\* removes what the call selects.
LEMMA BucketSteps ==
  ASSUME Inv, [Next]_vars, NEW k \in Key, bucket'[k] # bucket[k]
  PROVE  \E w \in Workers :
           \/ stage[w] = "upload" /\ dist[w][k] # None /\ bucket'[k] = dist[w][k]
           \/ k \in Selected(w) /\ bucket'[k] = None
<1>1. bucket \in [Key -> Content]
  BY DEF Inv, TypeOK
<1>2. bucket' # bucket
  OBVIOUS
<1>3. PICK w \in Workers : Handle(w)
  BY <1>2 DEF Next, Environment, DeleteSource, PutSource, Between, Crash, Invoke, vars, store
<1>4. CASE Dispatch(w) \/ Download(w) \/ Build(w)
  BY <1>2, <1>4 DEF Dispatch, Download, Build, store
<1>5. CASE UploadDone(w)
  BY <1>5 DEF UploadDone, Enter
<1>6. ASSUME AllDeleted(w)
      PROVE  k \in Selected(w) /\ bucket'[k] = None
  BY <1>6 DEF AllDeleted
<1>7. CASE Reconciled(w)
  BY <1>6, <1>7 DEF Reconciled
<1>8. ASSUME NEW q \in Key, Upload(w, q)
      PROVE  stage[w] = "upload" /\ dist[w][k] # None /\ bucket'[k] = dist[w][k]
  BY <1>1, <1>8 DEF Upload
<1>9. ASSUME NEW q \in Key, Delete(w, q)
      PROVE  k \in Selected(w) /\ bucket'[k] = None
  BY <1>1, <1>9 DEF Delete
<1>10. ASSUME NEW d \in 0..Budget, Finish(w, d) \/ Raise(w, d)
       PROVE  k \in Selected(w) /\ bucket'[k] = None
  BY <1>2, <1>6, <1>10 DEF Finish, Raise
<1>11. QED
  BY <1>3, <1>4, <1>5, <1>7, <1>8, <1>9, <1>10 DEF Handle

\* What a build leaves in dist/ is its item's, at the location of the version.
LEMMA BuiltIsOwn ==
  ASSUME Inv, NEW w \in Workers, stage[w] \in {"upload", "reconcile", "supersede"},
         NEW k \in Key, dist[w][k] # None
  PROVE  /\ Handling(w) \in Items /\ got[w] \in Versions
         /\ k \in ImageOf(Handling(w), got[w]) /\ k \in OwnKeys(Handling(w))
         /\ k.loc = LocationOf(got[w])
         /\ dist[w][k] = <<Handling(w), got[w]>>
<1>1. Handling(w) \in Items
  BY HandlingIsItem
<1>2. /\ got[w] \in Versions /\ k \in ImageOf(Handling(w), got[w])
      /\ dist[w][k] = <<Handling(w), got[w]>>
  BY DEF Inv, PipelineInv, WorkerInv
<1>3. QED
  BY <1>1, <1>2, ImageIsOwn

\* Where keys and globs of the items are apart a call selects no key of another item.
LEMMA SelectedIsApart ==
  ASSUME KeysApart, Inv, NEW w \in Workers, NEW x \in Items, Handling(w) # x,
         NEW k \in OwnKeys(x)
  PROVE  k \notin Selected(w)
<1> SUFFICES ASSUME k \in Selected(w) PROVE FALSE
  OBVIOUS
<1>1. stage[w] # "none"
  BY DEF Selected
<1>2. Handling(w) \in Items
  BY <1>1, HandlingIsItem
<1>3. k \notin OwnKeys(Handling(w)) /\ ~Globbed(Handling(w), k)
  BY <1>2 DEF KeysApart
<1>4. PICK l \in Locations : k \in DirectKeys(Handling(w), l)
  BY <1>3 DEF Selected, Reach, Locations, Opposite
<1>5. QED
  BY <1>3, <1>4 DEF OwnKeys

\* OthersUntouched for one step.
LEMMA OtherIsUntouched ==
  ASSUME KeysApart, Inv, [Next]_vars,
         NEW x \in Items, \A w \in Workers : Handling(w) # x, NEW k \in OwnKeys(x)
  PROVE  bucket'[k] = bucket[k]
<1>1. k \in Key
  BY DEF Key
<1>2. ASSUME NEW w \in Workers, stage[w] = "upload", dist[w][k] # None
      PROVE  FALSE
  <2>1. Handling(w) \in Items /\ k \in OwnKeys(Handling(w))
    BY <1>1, <1>2, BuiltIsOwn
  <2>2. QED
    BY <2>1 DEF KeysApart
<1>3. \A w \in Workers : k \notin Selected(w)
  BY SelectedIsApart
<1>4. QED
  BY <1>1, <1>2, <1>3, BucketSteps

\* Where directories, keys and globs of the items are apart, no step of any
\* environment changes an object of an item none of them handles a record about.
THEOREM OthersAreUntouched == KeysApart /\ DirsApart /\ Spec => OthersUntouched
<1> SUFFICES ASSUME KeysApart, DirsApart PROVE Spec => OthersUntouched
  OBVIOUS
<1>1. Init => Inv
  BY InitInv
<1>2. Inv /\ [Next]_vars => Inv'
  BY Inductive
<1>3. Inv /\ [Next]_vars =>
        [\A x \in Items : (\A w \in Workers : Handling(w) # x) =>
           \A k \in OwnKeys(x) : bucket'[k] = bucket[k]]_vars
  BY OtherIsUntouched
<1>4. QED
  BY <1>1, <1>2, <1>3, PTL DEF Spec, OthersUntouched

\* The build that wrote unreleased/ is one of a draft, and the other way round.
LEMMA BuiltWhereItBelongs ==
  ASSUME Inv, NEW w \in Workers, stage[w] = "supersede", NEW k \in Key, dist[w][k] # None
  PROVE  BuiltLocation(w) = k.loc
<1>1. \A q \in Key : dist[w][q] # None => q.loc = LocationOf(got[w])
  BY BuiltIsOwn
<1>2. LocationOf(got[w]) \in Locations
  BY DEF LocationOf, Locations
<1>3. QED
  BY <1>1, <1>2 DEF BuiltLocation, Locations

\* CleanupMatchesUpload for one step.
LEMMA CleanupSparesUpload ==
  ASSUME KeysApart, Inv, [Next]_vars,
         NEW w \in Workers, stage[w] = "supersede",
         \A v \in Workers \ {w} : Handling(v) # Handling(w),
         NEW k \in Key, dist[w][k] # None, bucket'[k] = None
  PROVE  bucket[k] = None
<1> SUFFICES ASSUME bucket'[k] # bucket[k] PROVE FALSE
  OBVIOUS
<1>1. Handling(w) \in Items /\ k \in OwnKeys(Handling(w))
  BY BuiltIsOwn
<1>2. PICK v \in Workers : \/ dist[v][k] # None /\ bucket'[k] = dist[v][k]
                          \/ k \in Selected(v)
  BY BucketSteps
<1>3. k \in Selected(v)
  BY <1>2
<1>4. v = w
  BY <1>1, <1>3, SelectedIsApart
<1>5. k \in Reach(Handling(w), Opposite(BuiltLocation(w)))
  BY <1>3, <1>4 DEF Selected
<1>6. k.loc = Opposite(BuiltLocation(w))
  BY <1>5 DEF Reach, DirectKeys, File
<1>7. BuiltLocation(w) = k.loc
  BY BuiltWhereItBelongs
<1>8. QED
  BY <1>6, <1>7 DEF Opposite

\* Where directories, keys and globs of the items are apart, clearing the opposite
\* location deletes nothing of what the same build has uploaded.
THEOREM CleanupIsMatched == KeysApart /\ DirsApart /\ Spec => CleanupMatchesUpload
<1> SUFFICES ASSUME KeysApart, DirsApart PROVE Spec => CleanupMatchesUpload
  OBVIOUS
<1>1. Init => Inv
  BY InitInv
<1>2. Inv /\ [Next]_vars => Inv'
  BY Inductive
<1>3. Inv /\ [Next]_vars =>
        [\A w \in Workers :
           /\ stage[w] = "supersede"
           /\ \A v \in Workers \ {w} : Handling(v) # Handling(w)
           => \A k \in Key : dist[w][k] # None /\ bucket'[k] = None => bucket[k] = None]_vars
  BY CleanupSparesUpload
<1>4. QED
  BY <1>1, <1>2, <1>3, PTL DEF Spec, CleanupMatchesUpload

\* DraftsStayApart through one step.
LEMMA DraftsStep ==
  ASSUME Inv, DraftsStayApart, [Next]_vars
  PROVE  DraftsStayApart'
<1> SUFFICES ASSUME NEW k \in Key, bucket'[k] # None, bucket'[k][2] \in Unreleased, Partition
             PROVE  k.loc = "unreleased"
  BY DEF DraftsStayApart
<1>1. CASE bucket'[k] = bucket[k]
  BY <1>1 DEF DraftsStayApart
<1>2. CASE bucket'[k] # bucket[k]
  <2>1. PICK w \in Workers : stage[w] = "upload" /\ dist[w][k] # None /\ bucket'[k] = dist[w][k]
    BY <1>2, BucketSteps
  <2>2. k.loc = LocationOf(got[w]) /\ bucket'[k] = <<Handling(w), got[w]>>
    BY <2>1, BuiltIsOwn
  <2>3. QED
    BY <2>2 DEF LocationOf
<1>3. QED
  BY <1>1, <1>2

\* Where no directory is called like another item's stem, no object made from an
\* unreleased version is ever outside unreleased/.
THEOREM DraftsAreApart == DirsApart /\ Spec => []DraftsStayApart
<1> SUFFICES ASSUME DirsApart PROVE Spec => []DraftsStayApart
  OBVIOUS
<1>1. Init => Inv /\ DraftsStayApart
  BY InitInv DEF Init, Empty, DraftsStayApart
<1>2. Inv /\ DraftsStayApart /\ [Next]_vars => (Inv /\ DraftsStayApart)'
  BY Inductive, DraftsStep
<1>3. QED
  BY <1>1, <1>2, PTL DEF Spec

\* Where no directory is called like another item's stem, a build of any of the
\* sources together puts the outputs of each item where a build of that item alone
\* puts them.
THEOREM BuildsAreApart == DirsApart /\ Spec => []BuildsAreSeparate
<1> SUFFICES ASSUME DirsApart PROVE Spec => []BuildsAreSeparate
  OBVIOUS
<1>1. BuildsAreSeparate
  <2>1. SUFFICES ASSUME NEW S \in SUBSET {x \in Items : src[x] # None}
                 PROVE  Outputs([x \in S |-> src[x]]) =
                          UNION {{<<k, <<x, src[x]>>>> : k \in ImageOf(x, src[x])} : x \in S}
    BY DEF BuildsAreSeparate
  <2> DEFINE at == [x \in S |-> src[x]]
  <2>2. DOMAIN at = S /\ \A x \in S : at[x] = src[x]
    OBVIOUS
  <2> HIDE DEF at
  <2>3. Outputs(at) = UNION {{<<k, <<x, at[x]>>>> : k \in ImageOf(x, at[x])} : x \in S}
    BY <2>2, OutputsAreImages
  <2>4. Outputs(at) = UNION {{<<k, <<x, src[x]>>>> : k \in ImageOf(x, src[x])} : x \in S}
    BY <2>2, <2>3
  <2>5. QED
    BY <2>4 DEF at
<1>2. QED
  BY <1>1, PTL

-----------------------------------------------------------------------------
(* The parts together. *)

\* What the records do to the store changes nothing in how their batches are taken,
\* worked through and answered: the Lambda implements the batch loop, in any layout.
THEOREM PipelineRunsTheLoop == Spec => Loop!Spec
<1>1. Init => Loop!Init
  BY DEF Init
<1>2. [Next]_vars => [Loop!Next]_(Loop!vars)
  <2>1. UNCHANGED loop => UNCHANGED Loop!vars
    BY DEF loop, Loop!vars, Loop!queue, Loop!invocation
  <2>2. QED
    BY <2>1, StepsOfTheLoop
<1>3. QED
  BY <1>1, <1>2, PTL DEF Spec, Loop!Spec

\* In the layout of the repository's examples, one directory for each item and
\* called like it, dist/ is exact, drafts and builds stay apart, and no record
\* touches another item or deletes what its own build uploaded.
THEOREM OwnDirectoriesSuffice ==
  ASSUME NEW root \in Seq(Name), OwnDirectories(root)
  PROVE  Spec => /\ [](TypeOK /\ PipelineInv /\ DraftsStayApart /\ BuildsAreSeparate)
                 /\ OthersUntouched /\ CleanupMatchesUpload
<1>1. KeysApart /\ DirsApart
  BY OwnDirectoriesAreApart
<1>2. Spec => []TypeOK
  BY <1>1, PipelineTypes
<1>3. Spec => []PipelineInv
  BY <1>1, DistIsOwnImage
<1>4. Spec => []DraftsStayApart
  BY <1>1, DraftsAreApart
<1>5. Spec => []BuildsAreSeparate
  BY <1>1, BuildsAreApart
<1>6. Spec => OthersUntouched
  BY <1>1, OthersAreUntouched
<1>7. Spec => CleanupMatchesUpload
  BY <1>1, CleanupIsMatched
<1>8. QED
  BY <1>2, <1>3, <1>4, <1>5, <1>6, <1>7, PTL
=============================================================================
