--------------------------- MODULE AntBuildProofs ---------------------------
(***************************************************************************)
(* What module AntBuild promises of its builds, for any items, versions    *)
(* and number of builds: the types in every configuration, and the rest    *)
(* in those that start afresh (FreshConfigs).                              *)
(*                                                                         *)
(* The argument is BuildInv: at each position of the plan, dist-pending/   *)
(* and tmp/ hold what the positions before it made of the present sources  *)
(* (PendingSound), all of it where errors fail the build                   *)
(* (PendingComplete), and dist/ is empty, or as it was, up to the copy     *)
(* (DistInv).  One lemma per position shows that a build that goes on      *)
(* keeps it; one that stops, by an error or killed, promises nothing but   *)
(* what dist/ held before.                                                 *)
(***************************************************************************)
EXTENDS AntBuild, TLAPS

\* The plan of full.
LEMMA FullPlan ==
  ASSUME config.target = "full"
  PROVE  /\ Len(Plan) = 13
         /\ Plan[1] = "cleanup" /\ Plan[2] = "create-pages" /\ Plan[3] = "transform-pages"
         /\ Plan[4] = "html" /\ Plan[5] = "delete-tmp" /\ Plan[6] = "metadata"
         /\ Plan[7] = "json" /\ Plan[8] = "solr-json" /\ Plan[9] = "dp-json"
         /\ Plan[10] = "relocate" /\ Plan[11] = "partition" /\ Plan[12] = "copy" /\ Plan[13] = "cleanup"
<1> DEFINE p == <<"cleanup">> \o MetadataAndTranscripts \o Json \o Release
<1>1. Plan = p
  BY DEF Plan
<1>2. /\ Len(p) = 13
      /\ p[1] = "cleanup" /\ p[2] = "create-pages" /\ p[3] = "transform-pages"
      /\ p[4] = "html" /\ p[5] = "delete-tmp" /\ p[6] = "metadata"
      /\ p[7] = "json" /\ p[8] = "solr-json" /\ p[9] = "dp-json"
      /\ p[10] = "relocate" /\ p[11] = "partition" /\ p[12] = "copy" /\ p[13] = "cleanup"
  BY DEF MetadataAndTranscripts, Transcripts, Metadata, Json, Release
<1> HIDE DEF p
<1>3. QED
  BY <1>1, <1>2, Zenon

\* The plan of full-metadata-update.
LEMMA MetadataPlan ==
  ASSUME config.target # "full"
  PROVE  /\ Len(Plan) = 8 /\ Plan[1] = "metadata"
         /\ Plan[2] = "json" /\ Plan[3] = "solr-json" /\ Plan[4] = "dp-json"
         /\ Plan[5] = "relocate" /\ Plan[6] = "partition" /\ Plan[7] = "copy" /\ Plan[8] = "cleanup"
<1> DEFINE p == Metadata \o Json \o Release
<1>1. Plan = p
  BY DEF Plan
<1>2. /\ Len(p) = 8 /\ p[1] = "metadata"
      /\ p[2] = "json" /\ p[3] = "solr-json" /\ p[4] = "dp-json"
      /\ p[5] = "relocate" /\ p[6] = "partition" /\ p[7] = "copy" /\ p[8] = "cleanup"
  BY DEF Metadata, Json, Release
<1> HIDE DEF p
<1>3. QED
  BY <1>1, <1>2, Zenon

\* The step of a running build, by its position.
LEMMA StepNames ==
  ASSUME config \in Config, pc \in 1..Len(Plan)
  PROVE  /\ Step \in 1..13 /\ (config.target # "full" => Step \in 6..13)
         /\ Plan[pc] = "cleanup" <=> Step \in {1, 13}
         /\ Plan[pc] = "create-pages" <=> Step = 2
         /\ Plan[pc] = "transform-pages" <=> Step = 3
         /\ Plan[pc] = "html" <=> Step = 4
         /\ Plan[pc] = "delete-tmp" <=> Step = 5
         /\ Plan[pc] = "metadata" <=> Step = 6
         /\ Plan[pc] = "json" <=> Step = 7
         /\ Plan[pc] = "solr-json" <=> Step = 8
         /\ Plan[pc] = "dp-json" <=> Step = 9
         /\ Plan[pc] = "relocate" <=> Step = 10
         /\ Plan[pc] = "partition" <=> Step = 11
         /\ Plan[pc] = "copy" <=> Step = 12
         /\ pc = Len(Plan) <=> Step = 13
<1>1. CASE config.target = "full"
  <2>1. Len(Plan) = 13 /\ Step = pc
    BY <1>1, FullPlan, Zenon DEF Step
  <2>2. pc \in {1, 2, 3, 4, 5, 6, 7, 8, 9, 10, 11, 12, 13}
    BY <2>1
  <2>3. QED
    BY <1>1, <2>1, <2>2, FullPlan
<1>2. CASE config.target # "full"
  <2>1. Len(Plan) = 8 /\ Step = pc + 5
    BY <1>2, MetadataPlan DEF Step
  <2>2. pc \in {1, 2, 3, 4, 5, 6, 7, 8}
    BY <2>1
  <2>3. QED
    BY <1>2, <2>1, <2>2, MetadataPlan
<1>3. QED
  BY <1>1, <1>2

\* How a step leaves the position: at the next, or after the last one at the end.
LEMMA Advanced ==
  ASSUME config \in Config, RunInv, result = "running", config' = config, Advance
  PROVE  \/ Step \in 1..12 /\ Step' = Step + 1 /\ result' = "running" /\ pc' \in 1..Len(Plan)
         \/ Step = 13 /\ result' = "ok" /\ pc' = 0
<1>1. pc \in 1..Len(Plan) /\ Len(Plan) \in Nat
  BY FullPlan, MetadataPlan DEF RunInv
<1>2. Step \in 1..13 /\ (pc = Len(Plan) <=> Step = 13)
  BY <1>1, StepNames
<1>3. CASE pc < Len(Plan)
  <2>1. pc' = pc + 1 /\ result' = "running"
    BY <1>3 DEF Advance
  <2>2. Step' = Step + 1
    BY <1>1, <2>1 DEF Step
  <2>3. QED
    BY <1>1, <1>2, <1>3, <2>1, <2>2
<1>4. CASE pc = Len(Plan)
  BY <1>2, <1>4, <1>1 DEF Advance
<1>5. QED
  BY <1>1, <1>3, <1>4

-----------------------------------------------------------------------------
(* Type correctness. *)

\* The plan depends on the configuration alone.
LEMMA SamePlan == config' = config => Plan' = Plan
  BY DEF Plan

\* A step that advances or aborts stays in the plan.
LEMMA PositionType ==
  ASSUME config \in Config, RunInv, result = "running", config' = config, Advance \/ Abort
  PROVE  /\ pc' \in 0..Len(Plan)' /\ RunInv'
         /\ result' \in {"none", "running", "ok", "failed", "killed"}
<1>1. Len(Plan) \in Nat /\ Plan' = Plan
  BY FullPlan, MetadataPlan, SamePlan
<1>2. CASE Abort
  BY <1>1, <1>2 DEF Abort, RunInv
<1>3. CASE Advance
  BY <1>1, <1>3, Advanced DEF RunInv
<1>4. QED
  BY <1>2, <1>3

\* What an XSLT task makes is a version, where what it makes it from is one.
LEMMA MadeType ==
  ASSUME pending \in [Pending -> Versions \cup {None}], NEW t, NEW k, NEW done,
         NEW version, \A i \in done : version[i] \in Versions \cup {None}
  PROVE  Made(t, k, done, version) \in [Pending -> Versions \cup {None}]
  BY DEF Made

\* CoreXml and the pages of an item are files of its own.
LEMMA TreeType ==
  ASSUME NEW k \in Kinds, NEW i \in Items
  PROVE  <<Tree(k), k, i>> \in Pending
  BY DEF Tree, Trees, Pending, Locations

\* A move leaves versions.
LEMMA MoveType ==
  ASSUME pending \in [Pending -> Versions \cup {None}], NEW kinds
  PROVE  AfterMove(kinds) \in [Pending -> Versions \cup {None}]
<1>1. ASSUME NEW a \in Pending
      PROVE  <<"released", a[2], a[3]>> \in Pending
  BY DEF Pending, Trees, Locations
<1>2. QED
  BY <1>1 DEF AfterMove

\* Every step of a build keeps the types.
LEMMA TypeStep ==
  ASSUME TypeOK, RunInv, [Next]_vars
  PROVE  TypeOK' /\ RunInv'
<1> USE BuildAssumption DEF TypeOK
<1>1. CASE UNCHANGED vars
  BY <1>1, SamePlan DEF vars, job, RunInv
<1>2. ASSUME NEW S \in SUBSET Items, NEW edited \in [S -> Versions], Start(S, edited)
      PROVE  TypeOK' /\ RunInv'
  <2>1. Plan' = Plan
    BY <1>2, SamePlan DEF Start
  <2>2. pc' \in 0..Len(Plan)' /\ RunInv'
    <3>1. pc' = 1
      BY <1>2 DEF Start
    <3>2. 1 \in 0..Len(Plan) /\ 1 \in 1..Len(Plan)
      BY FullPlan, MetadataPlan
    <3>3. pc' \in 0..Len(Plan') /\ pc' \in 1..Len(Plan')
      BY <2>1, <3>1, <3>2, Zenon
    <3>4. QED
      BY <3>3, Zenon DEF RunInv
  <2>3. src' \in [Items -> Versions]
    BY <1>2 DEF Start
  <2>4. dist' \in [Dist -> Versions \cup {None}] /\ pending' \in [Pending -> Versions \cup {None}]
    BY <1>2 DEF Start
  <2>5. /\ config' \in Config /\ chunks' \in [Items -> Versions \cup {None}]
        /\ files' \in SUBSET Items /\ builds' \in Nat /\ result' = "running"
    BY <1>2 DEF Start
  <2>6. QED
    BY <2>2, <2>3, <2>4, <2>5
<1> DEFINE Position == /\ result = "running" /\ (Advance \/ Abort) /\ UNCHANGED <<src, job>>
<1>3. ASSUME Position, dist' \in [Dist -> Versions \cup {None}],
             pending' \in [Pending -> Versions \cup {None}], chunks' \in [Items -> Versions \cup {None}]
      PROVE  TypeOK' /\ RunInv'
  BY <1>3, PositionType DEF job
<1>4. CASE CreatePages
  BY <1>3, <1>4 DEF CreatePages, At, Xslt
<1>5. CASE TransformPages
  <2>1. PICK done : Xslt({i \in Items : chunks[i] # None}, done) /\ done \subseteq Items
                    /\ pending' = Made(Tree("page-xml"), "page-xml", done, chunks)
    BY <1>5 DEF TransformPages
  <2>2. pending' \in [Pending -> Versions \cup {None}]
    BY <2>1, MadeType
  <2>3. QED
    BY <1>3, <1>5, <2>1, <2>2 DEF TransformPages, At, Xslt
<1>6. CASE Html
  <2> DEFINE page == [i \in Items |-> pending[<<Tree("page-xml"), "page-xml", i>>]]
         paged == {i \in files : page[i] # None /\ \E j \in Items : chunks[j] # None}
  <2>1. PICK done \in SUBSET paged :
                           /\ Xslt(paged, done)
                           /\ pending' = Made("www", "html", done, page)
                           /\ chunks' = IF done = paged \/ ~config.failOnError
                                          THEN [i \in Items |-> None] ELSE chunks
    BY <1>6 DEF Html
  <2>2. \A i \in Items : page[i] \in Versions \cup {None}
    BY TreeType DEF Kinds
  <2> HIDE DEF page
  <2>3. pending' \in [Pending -> Versions \cup {None}]
    BY <2>1, <2>2, MadeType
  <2>4. chunks' \in [Items -> Versions \cup {None}]
    BY <2>1
  <2>5. QED
    BY <1>3, <1>6, <2>1, <2>3, <2>4 DEF Html, At, Xslt
<1>7. CASE DeleteTmp \/ Cleanup
  BY <1>3, <1>7 DEF DeleteTmp, Cleanup, At
<1>8. CASE MakeMetadata
  <2>1. PICK done \in SUBSET files :
          /\ Xslt(files, done)
          /\ pending' = [a \in Pending |->
               IF a[1] = "released" /\ a[2] = "items" /\ a[3] \in files /\ "items" \notin config.skips
                 THEN src[a[3]]
                 ELSE Made(Tree("core-xml"), "core-xml", done, src)[a]]
    BY <1>8 DEF MakeMetadata
  <2>2. Made(Tree("core-xml"), "core-xml", done, src) \in [Pending -> Versions \cup {None}]
    BY MadeType
  <2>3. pending' \in [Pending -> Versions \cup {None}]
    BY <2>1, <2>2
  <2>4. QED
    BY <1>3, <1>8, <2>1, <2>3 DEF MakeMetadata, At, Xslt
<1>9. ASSUME NEW k \in Flat, MakeJson(k)
      PROVE  TypeOK' /\ RunInv'
  <2> DEFINE core == [i \in Items |-> CoreXml(i)]
  <2>1. PICK present, done : Xslt(present, done) /\ done \subseteq Items
                             /\ pending' = Made("released", k, done, core)
    BY <1>9 DEF MakeJson
  <2>2. \A i \in Items : core[i] \in Versions \cup {None}
    BY TreeType DEF Kinds, CoreXml
  <2> HIDE DEF core
  <2>3. pending' \in [Pending -> Versions \cup {None}]
    BY <2>1, <2>2, MadeType
  <2>4. QED
    BY <1>3, <1>9, <2>1, <2>3 DEF MakeJson, At, Xslt
<1>10. CASE Relocate
  <2>1. \A a \in Pending : <<"www", a[2], a[3]>> \in Pending
    BY DEF Pending, Trees
  <2>2. pending' \in [Pending -> Versions \cup {None}]
    BY <1>10, <2>1 DEF Relocate
  <2>3. QED
    BY <1>3, <1>10, <2>2 DEF Relocate, At
<1>11. CASE PartitionUnreleased
  <2>1. pending' \in [Pending -> Versions \cup {None}]
    BY <1>11, MoveType DEF PartitionUnreleased
  <2>2. QED
    BY <1>3, <1>11, <2>1 DEF PartitionUnreleased, At
<1>12. CASE CopyToDist
  <2>1. Dist \subseteq Pending
    BY DEF Dist, Pending, Trees
  <2>2. QED
    BY <1>3, <1>12, <2>1 DEF CopyToDist, At
<1>13. CASE Kill
  <2>1. Len(Plan) \in {8, 13} /\ Plan' = Plan
    BY <1>13, FullPlan, MetadataPlan, SamePlan DEF Kill, job
  <2>2. QED
    BY <1>13, <2>1 DEF Kill, job, RunInv
<1>14. QED
  BY <1>1, <1>2, <1>4, <1>5, <1>6, <1>7, <1>8, <1>9, <1>10, <1>11, <1>12, <1>13 DEF Next

\* The types hold at the start.
LEMMA InitType == Init => TypeOK /\ RunInv
<1> SUFFICES ASSUME Init PROVE TypeOK /\ RunInv
  OBVIOUS
<1>1. Len(Plan) \in {8, 13}
  BY FullPlan, MetadataPlan
<1>2. QED
  BY <1>1, BuildAssumption DEF Init, TypeOK, RunInv

\* Every variable of the build is of its kind, in every configuration.
THEOREM BuildTypes == Spec => []TypeOK
<1>1. TypeOK /\ RunInv /\ [Next]_vars => (TypeOK /\ RunInv)'
  BY TypeStep
<1>2. QED
  BY InitType, <1>1, PTL DEF Spec

-----------------------------------------------------------------------------
(* The inductive invariant, one lemma per position of a build. *)

IInv == TypeOK /\ BuildInv /\ Fresh(config)

\* A build at position n goes on to the next.
Forward(n) ==
  /\ IInv /\ result = "running" /\ Step = n
  /\ result' = "running" /\ Step' = n + 1 /\ RunInv'
  /\ UNCHANGED <<src, job>>

\* What any step of a running build that does not end it does to its position.
LEMMA Onward ==
  ASSUME IInv, result = "running", UNCHANGED <<src, job>>, Advance, NEW n \in 1..12, Step = n
  PROVE  Forward(n)
<1>1. config \in Config /\ config' = config /\ RunInv
  BY DEF IInv, TypeOK, BuildInv, job
<1>2. Step' = n + 1 /\ result' = "running" /\ pc' \in 1..Len(Plan) /\ Plan' = Plan
  BY <1>1, Advanced, SamePlan
<1>3. QED
  BY <1>2 DEF Forward, RunInv

\* A build that fails or is killed leaves dist/ as it is, and nothing is promised of
\* the rest.
LEMMA Stopped ==
  ASSUME IInv, result' \in {"failed", "killed"}, UNCHANGED src, UNCHANGED job, UNCHANGED dist
  PROVE  BuildInv'
<1>1. ~Copied' /\ result' # "running"
  BY DEF Copied
<1>2. DistInv'
  BY <1>1 DEF IInv, BuildInv, DistInv, LocationOf, job
<1>3. QED
  BY <1>1, <1>2 DEF BuildInv, RunInv, PendingSound, SourcesSound, PendingComplete

\* Before the copy, dist/ stays as it is.
LEMMA DistKept ==
  ASSUME NEW n \in 1..11, Forward(n), dist' = dist
  PROVE  DistInv'
<1>1. ~Copied /\ ~Copied' /\ config' = config
  BY DEF Copied, Forward, job
<1>2. QED
  BY <1>1 DEF Forward, IInv, BuildInv, DistInv, LocationOf

\* The soundness of dist-pending/ and tmp/ after a step, from that of each file.
LEMMA SoundNext ==
  ASSUME NEW n \in 1..12, Forward(n),
         \A t \in Trees, k \in Kinds, i \in Items :
           pending'[<<t, k, i>>] # None /\ (t = "tmp" => config.target = "full") =>
             /\ Belongs(t, k, i, pending'[<<t, k, i>>], n + 1)
             /\ t = "unreleased" => pending'[<<"released", k, i>>] = None
  PROVE  PendingSound'
<1>1. config' = config /\ files' = files /\ src' = src /\ Step' = n + 1
  BY DEF Forward, job
<1>2. QED
  BY <1>1 DEF PendingSound, Belongs, LocationOf

\* What belongs at a position still does at the next, but for the relocation and
\* the partition.
LEMMA BelongsOn ==
  ASSUME NEW n \in (2..9) \cup {12}, NEW t, NEW k, NEW i, NEW v, Belongs(t, k, i, v, n)
  PROVE  Belongs(t, k, i, v, n + 1)
  BY DEF Belongs

\* Every file found at position n > 1 belongs there.
LEMMA SoundAt ==
  ASSUME NEW n \in 2..12, Forward(n), NEW t \in Trees, NEW k \in Kinds, NEW i \in Items,
         pending[<<t, k, i>>] # None, t = "tmp" => config.target = "full"
  PROVE  /\ Belongs(t, k, i, pending[<<t, k, i>>], n)
         /\ t = "unreleased" => pending[<<"released", k, i>>] = None
  BY DEF Forward, IInv, BuildInv, PendingSound

\* A file of an XSLT task is what the task made of its item, or the one before.
LEMMA MadeAt ==
  ASSUME NEW T, NEW K, NEW D, NEW version, NEW t \in Trees, NEW k \in Kinds, NEW i \in Items
  PROVE  Made(T, K, D, version)[<<t, k, i>>] =
           IF t = T /\ k = K /\ i \in D THEN version[i] ELSE pending[<<t, k, i>>]
<1>1. <<t, k, i>> \in Pending
  BY DEF Pending
<1>2. QED
  BY <1>1 DEF Made

\* A step that leaves dist-pending/ and tmp/ alone keeps them sound.
LEMMA KeptSound ==
  ASSUME NEW n \in (2..9) \cup {12}, Forward(n), pending' = pending
  PROVE  PendingSound'
<1>1. n \in 1..12 /\ n \in 2..12
  OBVIOUS
<1>2. ASSUME NEW t \in Trees, NEW k \in Kinds, NEW i \in Items,
             pending'[<<t, k, i>>] # None, t = "tmp" => config.target = "full"
      PROVE  /\ Belongs(t, k, i, pending'[<<t, k, i>>], n + 1)
             /\ t = "unreleased" => pending'[<<"released", k, i>>] = None
  BY <1>1, <1>2, SoundAt, BelongsOn, Zenon
<1>3. QED
  BY <1>1, <1>2, SoundNext, Zenon

\* An XSLT task that makes what belongs there keeps what there is sound.
LEMMA GrowSound ==
  ASSUME NEW n \in 2..9, Forward(n), NEW T \in Trees \ {"unreleased"}, NEW K, NEW D, NEW version,
         pending' = Made(T, K, D, version),
         \A i \in D : version[i] # None => Belongs(T, K, i, version[i], n + 1)
  PROVE  PendingSound'
<1>1. ASSUME NEW t \in Trees, NEW k \in Kinds, NEW i \in Items,
             pending'[<<t, k, i>>] # None, t = "tmp" => config.target = "full"
      PROVE  /\ Belongs(t, k, i, pending'[<<t, k, i>>], n + 1)
             /\ t = "unreleased" => pending'[<<"released", k, i>>] = None
  <2>1. CASE t = T /\ k = K /\ i \in D
    BY <1>1, <2>1, MadeAt
  <2>2. CASE ~(t = T /\ k = K /\ i \in D)
    <3>1. pending'[<<t, k, i>>] = pending[<<t, k, i>>]
      BY <2>2, MadeAt
    <3>2. Belongs(t, k, i, pending[<<t, k, i>>], n)
      <4>1. pending[<<t, k, i>>] # None /\ n \in 2..12
        BY <1>1, <3>1
      <4>2. QED
        BY <1>1, <4>1, SoundAt, Zenon
    <3>3. t # "unreleased"
      BY <3>2 DEF Belongs
    <3>4. QED
      BY <3>1, <3>2, <3>3, BelongsOn
  <2>3. QED
    BY <2>1, <2>2
<1>2. n \in 1..12
  OBVIOUS
<1>3. QED
  BY <1>1, <1>2, SoundNext, Zenon

\* The completeness of what is made, after a step.
LEMMA CompleteNext ==
  ASSUME NEW n \in 1..12, Forward(n),
         config.failOnError =>
           \A i \in files :
             /\ n \in {2, 3} /\ src[i] \in Transcribed => chunks'[i] = src[i]
             /\ n = 3 /\ src[i] \in Transcribed => pending'[<<Tree("page-xml"), "page-xml", i>>] = src[i]
             /\ n \in 6..10 => pending'[<<Tree("core-xml"), "core-xml", i>>] = src[i]
             /\ n < 12 => \A k \in KindsOf(src[i]) :
                  MadeBy(k) <= n + 1 => pending'[<<Tray(k, src[i], n + 1), k, i>>] = src[i]
  PROVE  PendingComplete'
<1>1. config' = config /\ files' = files /\ src' = src /\ Step' = n + 1
  BY DEF Forward, job
<1> SUFFICES ASSUME config.failOnError, NEW i \in files
             PROVE  (/\ Step \in {3, 4} /\ src[i] \in Transcribed => chunks[i] = src[i]
                     /\ Step = 4 /\ src[i] \in Transcribed => pending[<<Tree("page-xml"), "page-xml", i>>] = src[i]
                     /\ Step \in 7..11 => CoreXml(i) = src[i]
                     /\ \A k \in KindsOf(src[i]) :
                          MadeBy(k) <= Step /\ Step < 13 =>
                            pending[<<Tray(k, src[i], Step), k, i>>] = src[i])'
  BY <1>1 DEF PendingComplete
<1>2. KindsOf(src[i])' = KindsOf(src[i]) /\ Tree("page-xml")' = Tree("page-xml")
      /\ Tree("core-xml")' = Tree("core-xml")
  BY <1>1 DEF KindsOf, Tree
<1>3. (Step \in {3, 4} /\ src[i] \in Transcribed => chunks[i] = src[i])'
  <2>1. n \in {2, 3} /\ src[i] \in Transcribed => chunks'[i] = src[i]
    OBVIOUS
  <2>2. QED
    BY <1>1, <2>1
<1>4. (Step = 4 /\ src[i] \in Transcribed => pending[<<Tree("page-xml"), "page-xml", i>>] = src[i])'
  <2>1. n = 3 /\ src[i] \in Transcribed => pending'[<<Tree("page-xml"), "page-xml", i>>] = src[i]
    BY Zenon
  <2>2. QED
    BY <1>1, <1>2, <2>1
<1>5. (Step \in 7..11 => CoreXml(i) = src[i])'
  <2>1. n \in 6..10 => pending'[<<Tree("core-xml"), "core-xml", i>>] = src[i]
    BY Zenon
  <2>2. QED
    BY <1>1, <1>2, <2>1 DEF CoreXml
<1>6. ASSUME NEW k \in KindsOf(src[i])', MadeBy(k) <= Step', Step' < 13
      PROVE  pending'[<<Tray(k, src[i], Step)', k, i>>] = src[i]
  <2>1. Tray(k, src[i], Step)' = Tray(k, src[i], n + 1)
    BY <1>1 DEF Tray, LocationOf
  <2>2. MadeBy(k) <= n + 1 /\ n < 12 /\ k \in KindsOf(src[i])
    BY <1>1, <1>2, <1>6
  <2>3. QED
    BY <2>1, <2>2
<1>7. QED
  BY <1>1, <1>3, <1>4, <1>5, <1>6 DEF MadeBy

\* While html/ is in www/, outputs once made stay where they are: it is enough to
\* look at the kind that the position makes.
LEMMA GrowComplete ==
  ASSUME NEW n \in 1..9, Forward(n), NEW i \in files, config.failOnError,
         \A t \in {"www", "released"}, k \in Kinds : pending'[<<t, k, i>>] \in {pending[<<t, k, i>>], src[i]},
         \A k \in KindsOf(src[i]) :
           MadeBy(k) = n + 1 => pending'[<<IF k = "html" THEN "www" ELSE "released", k, i>>] = src[i]
  PROVE  \A k \in KindsOf(src[i]) :
           MadeBy(k) <= n + 1 => pending'[<<Tray(k, src[i], n + 1), k, i>>] = src[i]
<1> TAKE k \in KindsOf(src[i])
<1>1. k \in Kinds /\ MadeBy(k) \in Nat
  BY DEF KindsOf, Kinds, MadeBy
<1>2. /\ Tray(k, src[i], n + 1) = (IF k = "html" THEN "www" ELSE "released")
      /\ Tray(k, src[i], n) = Tray(k, src[i], n + 1)
  BY DEF Tray
<1>3. CASE MadeBy(k) <= n
  <2>1. n = Step /\ Step < 13 /\ result = "running" /\ PendingComplete
    BY DEF Forward, IInv, BuildInv
  <2>2. pending[<<Tray(k, src[i], n), k, i>>] = src[i]
    BY <1>3, <2>1 DEF PendingComplete
  <2>3. QED
    BY <1>1, <1>2, <2>2
<1>4. CASE MadeBy(k) = n + 1
  BY <1>2, <1>4
<1>5. QED
  BY <1>1, <1>3, <1>4

\* The invariant after a step is that of its parts.
LEMMA Together ==
  ASSUME NEW n \in 1..12, Forward(n), PendingSound', SourcesSound', PendingComplete', DistInv'
  PROVE  BuildInv'
  BY DEF Forward, BuildInv

\* Position 1: after the first cleanup there is nothing.
LEMMA CleanupFirst ==
  ASSUME Forward(1), Cleanup
  PROVE  BuildInv'
<1>1. config \in Config /\ config' = config /\ files' = files /\ src' = src /\ dist' = dist /\ Step' = 2
  BY DEF Forward, IInv, TypeOK, job, Cleanup
<1>2. \A t \in Trees, k \in Kinds, i \in Items : pending'[<<t, k, i>>] = None
  BY DEF Cleanup, Pending
<1>3. PendingSound'
  <2>1. 1 \in 1..12
    OBVIOUS
  <2>2. QED
    BY <1>2, <2>1, SoundNext, Zenon
<1>4. SourcesSound'
  BY <1>1 DEF SourcesSound, Cleanup
<1>5. PendingComplete'
  <2>1. \A k \in Kinds : ~(MadeBy(k) <= 2)
    BY DEF Kinds, MadeBy
  <2>2. (\A v : KindsOf(v)' \subseteq Kinds) /\ (\A k : MadeBy(k)' = MadeBy(k))
    BY DEF KindsOf, MadeBy
  <2>3. QED
    BY <1>1, <2>1, <2>2 DEF PendingComplete
<1>6. DistInv'
  BY <1>1, DistKept
<1>7. QED
  BY <1>3, <1>4, <1>5, <1>6, Together

\* Position 2: the chunks are those of the sources.
LEMMA CreatePagesStep ==
  ASSUME Forward(2), CreatePages
  PROVE  BuildInv'
<1>1. /\ TypeOK /\ config' = config /\ files' = files /\ src' = src /\ dist' = dist
      /\ pending' = pending /\ Step' = 3 /\ files \subseteq Items
  BY DEF Forward, IInv, TypeOK, job, CreatePages
<1>2. PICK done \in SUBSET files :
        /\ config.failOnError => done = files
        /\ chunks' = [i \in Items |-> IF i \in done /\ src[i] \in Transcribed THEN src[i] ELSE None]
  BY DEF CreatePages, Xslt, Forward, Abort
<1>3. PendingSound'
  BY <1>1, KeptSound
<1>4. SourcesSound'
  BY <1>1, <1>2 DEF SourcesSound
<1>5. PendingComplete'
  <2>1. \A k \in Kinds : ~(MadeBy(k) <= 3)
    BY DEF Kinds, MadeBy
  <2>2. (\A v : KindsOf(v)' \subseteq Kinds) /\ (\A k : MadeBy(k)' = MadeBy(k))
    BY DEF KindsOf, MadeBy
  <2>3. QED
    BY <1>1, <1>2, <2>1, <2>2 DEF PendingComplete
<1>6. DistInv'
  BY <1>1, DistKept
<1>7. QED
  BY <1>3, <1>4, <1>5, <1>6, Together

\* The chunks of transform-pages and html are of the present sources.
LEMMA ChunkAt ==
  ASSUME NEW n \in 2..5, Forward(n), NEW i \in Items, chunks[i] # None
  PROVE  config.target = "full" /\ i \in files /\ chunks[i] = src[i] /\ src[i] \in Transcribed
<1>1. config \in Config /\ pc \in 1..Len(Plan) /\ Step = n /\ result = "running" /\ SourcesSound
  BY DEF Forward, IInv, BuildInv, TypeOK, RunInv
<1>2. config.target = "full"
  BY <1>1, StepNames
<1>3. QED
  BY <1>1, <1>2 DEF SourcesSound

\* Position 3: the pages are those of the chunks.
LEMMA TransformPagesStep ==
  ASSUME Forward(3), TransformPages
  PROVE  BuildInv'
<1> DEFINE T == Tree("page-xml")
           chunked == {i \in Items : chunks[i] # None}
<1>1. /\ TypeOK /\ config' = config /\ files' = files /\ src' = src /\ dist' = dist
      /\ chunks' = chunks /\ Step' = 4 /\ files \subseteq Items /\ result = "running" /\ Step = 3
      /\ PendingComplete /\ SourcesSound
  BY DEF Forward, IInv, TypeOK, BuildInv, job, TransformPages
<1>2. PICK done \in SUBSET chunked :
        /\ config.failOnError => done = chunked
        /\ pending' = Made(T, "page-xml", done, chunks)
  BY DEF TransformPages, Xslt, Forward, Abort
<1>3. T \in Trees \ {"unreleased"}
  BY DEF Tree, Trees, Locations
<1>4. \A i \in chunked : config.target = "full" /\ i \in files /\ chunks[i] = src[i] /\ src[i] \in Transcribed
  BY <1>1, ChunkAt
<1>5. PendingSound'
  <2>1. \A i \in done : Belongs(T, "page-xml", i, chunks[i], 3 + 1)
    BY <1>2, <1>4 DEF Belongs, Tree
  <2>2. 3 \in 2..9
    OBVIOUS
  <2>3. QED
    BY <1>2, <1>3, <2>1, <2>2, GrowSound, Zenon
<1>6. SourcesSound'
  BY <1>1 DEF SourcesSound
<1>7. PendingComplete'
  <2>1. SUFFICES ASSUME config.failOnError, NEW i \in files
                 PROVE  /\ src[i] \in Transcribed => chunks[i] = src[i] /\ pending'[<<T, "page-xml", i>>] = src[i]
                        /\ \A k \in KindsOf(src[i]) :
                             MadeBy(k) <= 3 + 1 => pending'[<<Tray(k, src[i], 3 + 1), k, i>>] = src[i]
    BY <1>1, CompleteNext
  <2>2. i \in Items /\ src[i] \in Versions /\ src[i] # None
    BY <1>1, BuildAssumption DEF TypeOK
  <2>3. src[i] \in Transcribed => chunks[i] = src[i] /\ i \in done
    BY <1>1, <1>2, <2>1, <2>2 DEF PendingComplete
  <2>4. src[i] \in Transcribed => pending'[<<T, "page-xml", i>>] = src[i]
    BY <1>2, <1>3, <2>2, <2>3, MadeAt DEF Kinds
  <2>5. \A t \in {"www", "released"}, k \in Kinds : pending'[<<t, k, i>>] \in {pending[<<t, k, i>>], src[i]}
    BY <1>2, <1>4, <2>2, MadeAt DEF Trees, Locations
  <2>6. ASSUME NEW k \in KindsOf(src[i]), MadeBy(k) = 3 + 1
        PROVE  pending'[<<IF k = "html" THEN "www" ELSE "released", k, i>>] = src[i]
    <3>1. k = "page-xml" /\ src[i] \in Transcribed /\ T = "released"
      BY <2>6 DEF KindsOf, Kinds, MadeBy, Tree
    <3>2. QED
      BY <2>4, <3>1
  <2>7. 3 \in 1..9
    OBVIOUS
  <2>8. QED
    BY <2>1, <2>3, <2>4, <2>5, <2>6, <2>7, GrowComplete, Zenon
<1>8. DistInv'
  BY <1>1, DistKept
<1>9. QED
  BY <1>5, <1>6, <1>7, <1>8, Together

\* Position 4: the HTML is that of the pages.
LEMMA HtmlStep ==
  ASSUME Forward(4), Html
  PROVE  BuildInv'
<1> DEFINE T == Tree("page-xml")
           page == [i \in Items |-> pending[<<T, "page-xml", i>>]]
           paged == {i \in files : page[i] # None /\ \E j \in Items : chunks[j] # None}
<1>1. /\ TypeOK /\ config' = config /\ files' = files /\ src' = src /\ dist' = dist
      /\ Step' = 5 /\ files \subseteq Items /\ result = "running" /\ Step = 4
      /\ PendingComplete /\ SourcesSound
  BY DEF Forward, IInv, TypeOK, BuildInv, job, Html
<1>2. config.target = "full"
  <2>1. config \in Config /\ pc \in 1..Len(Plan)
    BY DEF Forward, IInv, TypeOK, BuildInv, RunInv
  <2>2. QED
    BY <1>1, <2>1, StepNames
<1>3. PICK done \in SUBSET paged :
        /\ config.failOnError => done = paged
        /\ pending' = Made("www", "html", done, page)
        /\ chunks' = IF done = paged \/ ~config.failOnError THEN [i \in Items |-> None] ELSE chunks
  BY DEF Html, Xslt, Forward, Abort
<1>4. T \in Trees
  BY DEF Tree, Trees, Locations
<1>5. /\ \A i \in paged : i \in files /\ page[i] # None
      /\ \A i \in files : page[i] # None /\ chunks[i] # None => i \in paged
      /\ \A i \in Items : page[i] = pending[<<T, "page-xml", i>>]
  BY <1>1
<1> HIDE DEF paged, page
<1>6. ASSUME NEW i \in paged
      PROVE  i \in Items /\ i \in files /\ page[i] = src[i] /\ src[i] \in Transcribed
  <2>1. i \in Items /\ i \in files /\ page[i] = pending[<<T, "page-xml", i>>] /\ page[i] # None
    BY <1>1, <1>5
  <2>2. 4 \in 2..12 /\ "page-xml" \in Kinds
    BY DEF Kinds
  <2>3. Belongs(T, "page-xml", i, pending[<<T, "page-xml", i>>], 4)
    BY <1>2, <1>4, <2>1, <2>2, SoundAt, Zenon
  <2>4. QED
    BY <2>1, <2>3 DEF Belongs
<1>7. PendingSound'
  <2>1. \A i \in done : Belongs("www", "html", i, page[i], 4 + 1)
    BY <1>2, <1>3, <1>6 DEF Belongs
  <2>2. 4 \in 2..9 /\ "www" \in Trees \ {"unreleased"}
    BY DEF Trees
  <2>3. QED
    BY <1>3, <2>1, <2>2, GrowSound, Zenon
<1>8. SourcesSound'
  BY <1>1, <1>3 DEF SourcesSound
<1>9. PendingComplete'
  <2>1. SUFFICES ASSUME config.failOnError, NEW i \in files
                 PROVE  \A k \in KindsOf(src[i]) :
                          MadeBy(k) <= 4 + 1 => pending'[<<Tray(k, src[i], 4 + 1), k, i>>] = src[i]
    BY <1>1, CompleteNext
  <2>2. i \in Items /\ src[i] \in Versions /\ src[i] # None
    BY <1>1, BuildAssumption DEF TypeOK
  <2>3. src[i] \in Transcribed => i \in done
    BY <1>1, <1>3, <1>5, <2>1, <2>2 DEF PendingComplete
  <2>4. ASSUME NEW t \in {"www", "released"}, NEW k \in Kinds
        PROVE  pending'[<<t, k, i>>] = IF t = "www" /\ k = "html" /\ i \in done THEN page[i] ELSE pending[<<t, k, i>>]
    BY <1>3, <2>2, MadeAt DEF Trees, Locations
  <2>5. \A t \in {"www", "released"}, k \in Kinds : pending'[<<t, k, i>>] \in {pending[<<t, k, i>>], src[i]}
    BY <1>3, <1>6, <2>4
  <2>6. ASSUME NEW k \in KindsOf(src[i]), MadeBy(k) = 4 + 1
        PROVE  pending'[<<IF k = "html" THEN "www" ELSE "released", k, i>>] = src[i]
    <3>1. k = "html" /\ k \in Kinds /\ src[i] \in Transcribed
      BY <2>6 DEF KindsOf, Kinds, MadeBy
    <3>2. QED
      BY <1>3, <1>6, <2>3, <2>4, <3>1
  <2>7. 4 \in 1..9
    OBVIOUS
  <2>8. QED
    BY <2>1, <2>5, <2>6, <2>7, GrowComplete, Zenon
<1>10. DistInv'
  BY <1>1, DistKept
<1>11. QED
  BY <1>7, <1>8, <1>9, <1>10, Together

\* Position 5: delete-tmp leaves what is going to dist/.
LEMMA DeleteTmpStep ==
  ASSUME Forward(5), DeleteTmp
  PROVE  BuildInv'
<1>1. /\ TypeOK /\ config' = config /\ files' = files /\ src' = src /\ dist' = dist
      /\ Step' = 6 /\ files \subseteq Items /\ result = "running" /\ Step = 5
  BY DEF Forward, IInv, TypeOK, job, DeleteTmp
<1>2. \A t \in Trees, k \in Kinds, i \in Items :
        pending'[<<t, k, i>>] = IF t = "tmp" THEN None ELSE pending[<<t, k, i>>]
  BY DEF DeleteTmp, Pending
<1>3. PendingSound'
  <2>1. ASSUME NEW t \in Trees, NEW k \in Kinds, NEW i \in Items,
               pending'[<<t, k, i>>] # None, t = "tmp" => config.target = "full"
        PROVE  /\ Belongs(t, k, i, pending'[<<t, k, i>>], 5 + 1)
               /\ t = "unreleased" => pending'[<<"released", k, i>>] = None
    <3>1. pending'[<<t, k, i>>] = pending[<<t, k, i>>] /\ pending[<<t, k, i>>] # None
      BY <1>2, <2>1
    <3>2. 5 \in 2..12 /\ 5 \in (2..9) \cup {12}
      OBVIOUS
    <3>3. Belongs(t, k, i, pending[<<t, k, i>>], 5)
      BY <2>1, <3>1, <3>2, SoundAt, Zenon
    <3>4. t # "unreleased"
      BY <3>3 DEF Belongs
    <3>5. QED
      BY <3>1, <3>2, <3>3, <3>4, BelongsOn, Zenon
  <2>2. 5 \in 1..12
    OBVIOUS
  <2>3. QED
    BY <2>1, <2>2, SoundNext, Zenon
<1>4. SourcesSound'
  BY <1>1 DEF SourcesSound, DeleteTmp
<1>5. PendingComplete'
  <2>1. SUFFICES ASSUME config.failOnError, NEW i \in files
                 PROVE  \A k \in KindsOf(src[i]) :
                          MadeBy(k) <= 5 + 1 => pending'[<<Tray(k, src[i], 5 + 1), k, i>>] = src[i]
    BY <1>1, CompleteNext
  <2>2. \A t \in {"www", "released"}, k \in Kinds : pending'[<<t, k, i>>] \in {pending[<<t, k, i>>], src[i]}
    BY <1>1, <1>2 DEF Trees, Locations
  <2>3. \A k \in KindsOf(src[i]) :
           MadeBy(k) = 5 + 1 => pending'[<<IF k = "html" THEN "www" ELSE "released", k, i>>] = src[i]
    BY DEF KindsOf, Kinds, MadeBy
  <2>4. 5 \in 1..9
    OBVIOUS
  <2>5. QED
    BY <2>1, <2>2, <2>3, <2>4, GrowComplete, Zenon
<1>6. DistInv'
  BY <1>1, DistKept
<1>7. QED
  BY <1>3, <1>4, <1>5, <1>6, Together

\* Position 6: the core-xml is that of the sources; one that was there before and
\* is not made again is of the present source too, or the build has failed.
LEMMA MetadataStep ==
  ASSUME Forward(6), MakeMetadata
  PROVE  BuildInv'
<1> DEFINE T == Tree("core-xml")
<1>1. /\ TypeOK /\ config' = config /\ files' = files /\ src' = src /\ dist' = dist
      /\ Step' = 7 /\ files \subseteq Items /\ result = "running" /\ Step = 6
      /\ PendingSound /\ SourcesSound /\ Fresh(config) /\ chunks' = chunks
  BY DEF Forward, IInv, TypeOK, BuildInv, job, MakeMetadata
<1>2. PICK done \in SUBSET files :
        /\ config.failOnError => done = files
        /\ pending' = [a \in Pending |->
             IF a[1] = "released" /\ a[2] = "items" /\ a[3] \in files /\ "items" \notin config.skips
               THEN src[a[3]]
               ELSE Made(T, "core-xml", done, src)[a]]
  BY DEF MakeMetadata, Xslt, Forward, Abort
<1>3. T \in {"tmp", "released"} /\ T \in Trees
  BY DEF Tree, Trees, Locations
<1>4. \A i \in files : i \in Items /\ src[i] \in Versions /\ src[i] # None
  BY <1>1, BuildAssumption DEF TypeOK
<1>5. ASSUME NEW t \in Trees, NEW k \in Kinds, NEW i \in Items
      PROVE  pending'[<<t, k, i>>] =
               IF t = "released" /\ k = "items" /\ i \in files /\ "items" \notin config.skips THEN src[i]
               ELSE IF t = T /\ k = "core-xml" /\ i \in done THEN src[i]
               ELSE pending[<<t, k, i>>]
  <2>1. <<t, k, i>> \in Pending
    BY DEF Pending
  <2> HIDE DEF T
  <2>2. QED
    BY <1>2, <2>1, MadeAt
<1>6. PendingSound'
  <2>1. ASSUME NEW t \in Trees, NEW k \in Kinds, NEW i \in Items,
               pending'[<<t, k, i>>] # None, t = "tmp" => config.target = "full"
        PROVE  /\ Belongs(t, k, i, pending'[<<t, k, i>>], 6 + 1)
               /\ t = "unreleased" => pending'[<<"released", k, i>>] = None
    <3>1. CASE t = "released" /\ k = "items" /\ i \in files /\ "items" \notin config.skips
      <4>1. pending'[<<t, k, i>>] = src[i]
        BY <1>5, <3>1
      <4>2. QED
        BY <3>1, <4>1 DEF Belongs
    <3>2. CASE t = T /\ k = "core-xml" /\ i \in done
      <4>1. pending'[<<t, k, i>>] = src[i] /\ i \in files /\ t # "unreleased" /\ t # "www"
        BY <1>2, <1>3, <1>5, <3>2
      <4>2. QED
        BY <3>2, <4>1 DEF Belongs, Tree
    <3>3. CASE pending'[<<t, k, i>>] = pending[<<t, k, i>>]
      <4>1. 6 \in 2..12 /\ 6 \in (2..9) \cup {12} /\ pending[<<t, k, i>>] # None
        BY <2>1, <3>3
      <4>2. Belongs(t, k, i, pending[<<t, k, i>>], 6)
        BY <2>1, <4>1, SoundAt, Zenon
      <4>3. t # "unreleased"
        BY <4>2 DEF Belongs
      <4>4. QED
        BY <3>3, <4>1, <4>2, <4>3, BelongsOn, Zenon
    <3>4. QED
      BY <1>5, <3>1, <3>2, <3>3
  <2>2. 6 \in 1..12
    OBVIOUS
  <2>3. QED
    BY <2>1, <2>2, SoundNext, Zenon
<1>7. ASSUME NEW i \in files
      PROVE  /\ i \in done => pending'[<<T, "core-xml", i>>] = src[i]
             /\ pending'[<<T, "core-xml", i>>] # None => pending'[<<T, "core-xml", i>>] = src[i]
  <2>1. "core-xml" \in Kinds /\ i \in Items
    BY <1>4 DEF Kinds
  <2>2. pending'[<<T, "core-xml", i>>] = IF i \in done THEN src[i] ELSE pending[<<T, "core-xml", i>>]
    BY <1>3, <1>5, <2>1
  <2>3. CASE i \in done
    BY <2>2, <2>3
  <2>4. CASE i \notin done /\ pending[<<T, "core-xml", i>>] # None
    <3>1. ~config.failOnError
      BY <1>2, <2>4
    <3>2. T = "tmp" => config.target = "full"
      BY <1>1, <3>1 DEF Fresh, Tree
    <3>3. 6 \in 2..12
      OBVIOUS
    <3>4. Belongs(T, "core-xml", i, pending[<<T, "core-xml", i>>], 6)
      BY <1>3, <2>1, <2>4, <3>2, <3>3, SoundAt, Zenon
    <3>5. QED
      BY <2>2, <2>4, <3>4 DEF Belongs
  <2>5. QED
    BY <2>2, <2>3, <2>4
<1>8. SourcesSound'
  <2>1. Tree("core-xml")' = T
    BY <1>1 DEF Tree
  <2>2. QED
    BY <1>1, <1>7, <2>1 DEF SourcesSound, CoreXml
<1>9. PendingComplete'
  <2>1. SUFFICES ASSUME config.failOnError, NEW i \in files
                 PROVE  /\ pending'[<<T, "core-xml", i>>] = src[i]
                        /\ \A k \in KindsOf(src[i]) :
                             MadeBy(k) <= 6 + 1 => pending'[<<Tray(k, src[i], 6 + 1), k, i>>] = src[i]
    BY <1>1, CompleteNext
  <2>2. i \in done /\ i \in Items
    BY <1>2, <1>4, <2>1
  <2>3. \A t \in {"www", "released"}, k \in Kinds : pending'[<<t, k, i>>] \in {pending[<<t, k, i>>], src[i]}
    BY <1>5, <2>2 DEF Trees, Locations
  <2>4. ASSUME NEW k \in KindsOf(src[i]), MadeBy(k) = 6 + 1
        PROVE  pending'[<<IF k = "html" THEN "www" ELSE "released", k, i>>] = src[i]
    <3>1. k \in {"core-xml", "items"} /\ k \in Kinds /\ k \notin config.skips
      BY <2>4 DEF KindsOf, Kinds, MadeBy
    <3>2. k = "core-xml" => T = "released"
      BY <3>1 DEF Tree
    <3>3. "released" \in Trees
      BY DEF Trees, Locations
    <3>4. QED
      BY <1>5, <2>2, <3>1, <3>2, <3>3
  <2>5. 6 \in 1..9
    OBVIOUS
  <2>6. \A k \in KindsOf(src[i]) :
          MadeBy(k) <= 6 + 1 => pending'[<<Tray(k, src[i], 6 + 1), k, i>>] = src[i]
    BY <2>1, <2>3, <2>4, <2>5, GrowComplete, Zenon
  <2>7. QED
    BY <1>7, <2>2, <2>6
<1>10. DistInv'
  BY <1>1, DistKept
<1>11. QED
  BY <1>6, <1>8, <1>9, <1>10, Together

\* Positions 7 to 9: the JSON is that of the core-xml.
LEMMA JsonStep ==
  ASSUME NEW n \in 7..9, Forward(n), NEW j \in Flat, MadeBy(j) = n + 1, MakeJson(j)
  PROVE  BuildInv'
<1> DEFINE T == Tree("core-xml")
           core == [i \in Items |-> CoreXml(i)]
           present == {i \in files : core[i] # None}
<1>1. /\ TypeOK /\ config' = config /\ files' = files /\ src' = src /\ dist' = dist
      /\ Step' = n + 1 /\ files \subseteq Items /\ result = "running" /\ Step = n
      /\ PendingComplete /\ SourcesSound /\ chunks' = chunks
  BY DEF Forward, IInv, TypeOK, BuildInv, job, MakeJson
<1>2. PICK done \in SUBSET present :
        /\ config.failOnError => done = present
        /\ pending' = Made("released", j, done, core)
  BY DEF MakeJson, Xslt, Forward, Abort
<1>3. /\ \A i \in present : i \in files /\ core[i] # None
      /\ \A i \in files : core[i] # None => i \in present
      /\ \A i \in Items : core[i] = pending[<<T, "core-xml", i>>]
  BY <1>1 DEF CoreXml
<1> HIDE DEF core, present
<1>4. \A i \in present : i \in Items /\ i \in files /\ core[i] = src[i]
  <2>1. \A i \in files : CoreXml(i) # None => CoreXml(i) = src[i]
    BY <1>1 DEF SourcesSound
  <2>2. QED
    BY <1>1, <1>3, <2>1 DEF CoreXml
<1>5. j \in Kinds /\ j \notin {"core-xml", "items", "html", "page-xml"}
  BY DEF Flat, Kinds
<1>6. T \in Trees /\ "released" \in Trees \ {"unreleased"} /\ "www" \in Trees
  BY DEF Tree, Trees, Locations
<1>7. j \notin config.skips
  BY <1>1, <1>5 DEF TypeOK, Config
<1>8. PendingSound'
  <2>1. \A i \in done : Belongs("released", j, i, core[i], n + 1)
    BY <1>2, <1>4, <1>5, <1>7 DEF Belongs
  <2>2. n \in 2..9
    OBVIOUS
  <2>3. QED
    BY <1>2, <1>6, <2>1, <2>2, GrowSound, Zenon
<1>9. ASSUME NEW t \in Trees, NEW k \in Kinds, NEW i \in Items
      PROVE  pending'[<<t, k, i>>] = IF t = "released" /\ k = j /\ i \in done THEN core[i] ELSE pending[<<t, k, i>>]
  BY <1>2, MadeAt
<1>10. \A i \in files : pending'[<<T, "core-xml", i>>] = pending[<<T, "core-xml", i>>]
  <2>1. "core-xml" \in Kinds
    BY DEF Kinds
  <2>2. QED
    BY <1>1, <1>5, <1>6, <1>9, <2>1
<1>11. SourcesSound'
  <2>1. Tree("core-xml")' = T
    BY <1>1 DEF Tree
  <2>2. QED
    BY <1>1, <1>10, <2>1 DEF SourcesSound, CoreXml
<1>12. PendingComplete'
  <2>1. SUFFICES ASSUME config.failOnError, NEW i \in files
                 PROVE  /\ pending'[<<T, "core-xml", i>>] = src[i]
                        /\ \A k \in KindsOf(src[i]) :
                             MadeBy(k) <= n + 1 => pending'[<<Tray(k, src[i], n + 1), k, i>>] = src[i]
    BY <1>1, CompleteNext
  <2>2. i \in Items /\ src[i] \in Versions /\ src[i] # None
    BY <1>1, BuildAssumption DEF TypeOK
  <2>3. pending[<<T, "core-xml", i>>] = src[i]
    <3>1. n \in 7..11
      OBVIOUS
    <3>2. CoreXml(i) = src[i]
      BY <1>1, <2>1, <3>1 DEF PendingComplete
    <3>3. QED
      BY <3>2 DEF CoreXml
  <2>4. i \in done /\ core[i] = src[i]
    BY <1>2, <1>3, <2>1, <2>2, <2>3
  <2>5. \A t \in {"www", "released"}, k \in Kinds : pending'[<<t, k, i>>] \in {pending[<<t, k, i>>], src[i]}
    BY <1>6, <1>9, <2>2, <2>4
  <2>6. ASSUME NEW k \in KindsOf(src[i]), MadeBy(k) = n + 1
        PROVE  pending'[<<IF k = "html" THEN "www" ELSE "released", k, i>>] = src[i]
    <3>1. k = j
      BY <2>6 DEF KindsOf, Kinds, MadeBy, Flat
    <3>2. QED
      BY <1>5, <1>6, <1>9, <2>2, <2>4, <3>1
  <2>7. n \in 1..9
    OBVIOUS
  <2>8. \A k \in KindsOf(src[i]) :
          MadeBy(k) <= n + 1 => pending'[<<Tray(k, src[i], n + 1), k, i>>] = src[i]
    BY <2>1, <2>5, <2>6, <2>7, GrowComplete, Zenon
  <2>9. QED
    BY <1>10, <2>3, <2>8
<1>13. DistInv'
  BY <1>1, DistKept
<1>14. QED
  BY <1>8, <1>11, <1>12, <1>13, Together

\* Position 10: the HTML takes its place in the released layout.
LEMMA RelocateStep ==
  ASSUME Forward(10), Relocate
  PROVE  BuildInv'
<1> DEFINE T == Tree("core-xml")
<1>1. /\ TypeOK /\ config' = config /\ files' = files /\ src' = src /\ dist' = dist
      /\ Step' = 11 /\ files \subseteq Items /\ result = "running" /\ Step = 10
      /\ PendingComplete /\ SourcesSound /\ chunks' = chunks
  BY DEF Forward, IInv, TypeOK, BuildInv, job, Relocate
<1>2. ASSUME NEW t \in Trees, NEW k \in Kinds, NEW i \in Items
      PROVE  pending'[<<t, k, i>>] =
               IF t = "www" THEN None
               ELSE IF t = "released" /\ pending[<<"www", k, i>>] # None THEN pending[<<"www", k, i>>]
               ELSE pending[<<t, k, i>>]
  <2>1. <<t, k, i>> \in Pending
    BY DEF Pending
  <2>2. QED
    BY <2>1 DEF Relocate
<1>3. {"www", "released", T} \subseteq Trees /\ T \in {"tmp", "released"} /\ "core-xml" \in Kinds
  BY DEF Tree, Trees, Locations, Kinds
<1>4. ASSUME NEW k \in Kinds, NEW i \in Items, pending[<<"www", k, i>>] # None
      PROVE  k = "html" /\ Belongs("www", k, i, pending[<<"www", k, i>>], 10)
  <2>1. 10 \in 2..12
    OBVIOUS
  <2>2. Belongs("www", k, i, pending[<<"www", k, i>>], 10)
    BY <1>3, <1>4, <2>1, SoundAt
  <2>3. QED
    BY <2>2 DEF Belongs
<1>5. PendingSound'
  <2>1. ASSUME NEW t \in Trees, NEW k \in Kinds, NEW i \in Items,
               pending'[<<t, k, i>>] # None, t = "tmp" => config.target = "full"
        PROVE  /\ Belongs(t, k, i, pending'[<<t, k, i>>], 10 + 1)
               /\ t = "unreleased" => pending'[<<"released", k, i>>] = None
    <3>1. CASE t = "released" /\ pending[<<"www", k, i>>] # None
      <4>1. Belongs("www", k, i, pending[<<"www", k, i>>], 10) /\ k = "html"
        BY <1>4, <3>1
      <4>2. k \notin config.skips
        BY <1>1, <4>1 DEF TypeOK, Config
      <4>3. pending'[<<t, k, i>>] = pending[<<"www", k, i>>]
        BY <1>2, <3>1
      <4>4. QED
        BY <3>1, <4>1, <4>2, <4>3 DEF Belongs
    <3>2. CASE ~(t = "released" /\ pending[<<"www", k, i>>] # None)
      <4>1. pending'[<<t, k, i>>] = pending[<<t, k, i>>] /\ pending[<<t, k, i>>] # None /\ t # "www"
        BY <1>2, <2>1, <3>2
      <4>2. 10 \in 2..12
        OBVIOUS
      <4>3. Belongs(t, k, i, pending[<<t, k, i>>], 10)
        BY <2>1, <4>1, <4>2, SoundAt, Zenon
      <4>4. Belongs(t, k, i, pending[<<t, k, i>>], 10 + 1) /\ t # "unreleased"
        BY <4>1, <4>3 DEF Belongs
      <4>5. QED
        BY <4>1, <4>4
    <3>3. QED
      BY <3>1, <3>2
  <2>2. 10 \in 1..12
    OBVIOUS
  <2>3. QED
    BY <2>1, <2>2, SoundNext, Zenon
<1>6. ASSUME NEW k \in Kinds \ {"html"}, NEW i \in Items, NEW t \in Trees \ {"www"}
      PROVE  pending'[<<t, k, i>>] = pending[<<t, k, i>>]
  BY <1>2, <1>4
<1>7. \A i \in files : pending'[<<T, "core-xml", i>>] = pending[<<T, "core-xml", i>>]
  BY <1>1, <1>3, <1>6
<1>8. SourcesSound'
  <2>1. Tree("core-xml")' = T
    BY <1>1 DEF Tree
  <2>2. QED
    BY <1>1, <1>7, <2>1 DEF SourcesSound, CoreXml
<1>9. PendingComplete'
  <2>1. SUFFICES ASSUME config.failOnError, NEW i \in files
                 PROVE  /\ pending'[<<T, "core-xml", i>>] = src[i]
                        /\ \A k \in KindsOf(src[i]) :
                             MadeBy(k) <= 10 + 1 => pending'[<<Tray(k, src[i], 10 + 1), k, i>>] = src[i]
    BY <1>1, CompleteNext
  <2>2. i \in Items /\ src[i] \in Versions /\ src[i] # None
    BY <1>1, BuildAssumption DEF TypeOK
  <2>3. CoreXml(i) = src[i] /\ \A k \in KindsOf(src[i]) :
           MadeBy(k) <= 10 => pending[<<Tray(k, src[i], 10), k, i>>] = src[i]
    BY <1>1, <2>1 DEF PendingComplete
  <2>4. ASSUME NEW k \in KindsOf(src[i])
        PROVE  pending'[<<Tray(k, src[i], 10 + 1), k, i>>] = src[i]
    <3>1. k \in Kinds /\ MadeBy(k) <= 10
      BY DEF KindsOf, Kinds, MadeBy
    <3>2. Tray(k, src[i], 10 + 1) = "released" /\ Tray(k, src[i], 10) = IF k = "html" THEN "www" ELSE "released"
      BY DEF Tray
    <3>3. pending[<<IF k = "html" THEN "www" ELSE "released", k, i>>] = src[i]
      BY <2>3, <3>1, <3>2
    <3>4. QED
      BY <1>2, <1>3, <1>6, <2>2, <3>1, <3>2, <3>3
  <2>5. QED
    BY <1>7, <2>3, <2>4 DEF CoreXml
<1>10. DistInv'
  BY <1>1, DistKept
<1>11. QED
  BY <1>5, <1>8, <1>9, <1>10, Together

\* At position 11 the core-xml tells a version made by this build, and its release.
LEMMA StemsAt ==
  ASSUME Forward(11), NEW i \in Items
  PROVE  /\ i \in Stems /\ i \in files => src[i] \in Unreleased
         /\ config.failOnError /\ i \in files => (i \in Stems <=> src[i] \in Unreleased)
<1>1. SourcesSound /\ PendingComplete /\ result = "running" /\ Step = 11
  BY DEF Forward, IInv, BuildInv
<1>2. i \in files /\ CoreXml(i) # None => CoreXml(i) = src[i]
  BY <1>1 DEF SourcesSound
<1>3. config.failOnError /\ i \in files => CoreXml(i) = src[i]
  <2>1. 11 \in 7..11
    OBVIOUS
  <2>2. QED
    BY <1>1, <2>1 DEF PendingComplete
<1>4. None \notin Unreleased
  BY BuildAssumption
<1>5. QED
  BY <1>2, <1>3, <1>4 DEF Stems

\* Position 11: the outputs of the drafts, and only those, leave the released
\* layout.
LEMMA MoveStep ==
  ASSUME Forward(11), UNCHANGED <<chunks, dist>>, config.partition, NEW K,
         config.failOnError => K = Kinds, pending' = AfterMove(K)
  PROVE  BuildInv'
<1> DEFINE T == Tree("core-xml")
           Leaves(k, i) == k \in K \ config.skips /\ i \in Stems /\ pending[<<"released", k, i>>] # None
<1>1. /\ TypeOK /\ config' = config /\ files' = files /\ src' = src /\ dist' = dist
      /\ Step' = 12 /\ files \subseteq Items /\ result = "running" /\ Step = 11
      /\ PendingComplete /\ SourcesSound /\ chunks' = chunks
  BY DEF Forward, IInv, TypeOK, BuildInv, job
<1>2. {"www", "released", "unreleased", T} \subseteq Trees /\ T \in {"tmp", "released"} /\ "core-xml" \in Kinds
  BY DEF Tree, Trees, Locations, Kinds
<1>3. ASSUME NEW t \in Trees, NEW k \in Kinds, NEW i \in Items
      PROVE  pending'[<<t, k, i>>] =
               IF ~Leaves(k, i) THEN pending[<<t, k, i>>]
               ELSE IF t = "released" THEN None
               ELSE IF t = "unreleased" /\ (k \in Flat \/ pending[<<t, k, i>>] = None)
                 THEN pending[<<"released", k, i>>]
               ELSE pending[<<t, k, i>>]
  <2>1. <<t, k, i>> \in Pending
    BY DEF Pending
  <2>2. QED
    BY <2>1 DEF AfterMove
<1> HIDE DEF Leaves
<1>4. ASSUME NEW t \in Trees, NEW k \in Kinds, NEW i \in Items,
             pending[<<t, k, i>>] # None, t = "tmp" => config.target = "full"
      PROVE  Belongs(t, k, i, pending[<<t, k, i>>], 11) /\ t \notin {"www", "unreleased"}
  <2>1. 11 \in 2..12
    OBVIOUS
  <2>2. Belongs(t, k, i, pending[<<t, k, i>>], 11)
    BY <1>4, <2>1, SoundAt, Zenon
  <2>3. QED
    BY <2>2 DEF Belongs
<1>5. PendingSound'
  <2>1. ASSUME NEW t \in Trees, NEW k \in Kinds, NEW i \in Items,
               pending'[<<t, k, i>>] # None, t = "tmp" => config.target = "full"
        PROVE  /\ Belongs(t, k, i, pending'[<<t, k, i>>], 11 + 1)
               /\ t = "unreleased" => pending'[<<"released", k, i>>] = None
    <3>1. CASE t = "unreleased"
      <4>1. pending[<<t, k, i>>] = None
        BY <1>4, <3>1
      <4>2. Leaves(k, i) /\ pending'[<<t, k, i>>] = pending[<<"released", k, i>>]
        BY <1>3, <2>1, <3>1, <4>1
      <4>3. pending[<<"released", k, i>>] # None /\ i \in Stems
        BY <4>2 DEF Leaves
      <4>4. Belongs("released", k, i, pending[<<"released", k, i>>], 11)
        BY <1>2, <1>4, <4>3
      <4>5. src[i] \in Unreleased
        BY <4>3, <4>4, StemsAt DEF Belongs
      <4>6. Belongs(t, k, i, pending[<<"released", k, i>>], 11 + 1)
        BY <3>1, <4>4, <4>5 DEF Belongs, LocationOf
      <4>7. pending'[<<"released", k, i>>] = None
        BY <1>2, <1>3, <4>2
      <4>8. QED
        BY <4>2, <4>6, <4>7
    <3>2. CASE t # "unreleased"
      <4>1. pending'[<<t, k, i>>] = pending[<<t, k, i>>] /\ (t = "released" => ~Leaves(k, i))
        BY <1>3, <2>1, <3>2
      <4>2. Belongs(t, k, i, pending[<<t, k, i>>], 11) /\ t # "www"
        BY <1>4, <2>1, <4>1
      <4>3. t = "released" /\ config.failOnError => src[i] \notin Unreleased
        BY <2>1, <4>1, <4>2, StemsAt DEF Leaves, Belongs
      <4>4. Belongs(t, k, i, pending[<<t, k, i>>], 11 + 1)
        BY <3>2, <4>2, <4>3 DEF Belongs, LocationOf
      <4>5. QED
        BY <3>2, <4>1, <4>4
    <3>3. QED
      BY <3>1, <3>2
  <2>2. 11 \in 1..12
    OBVIOUS
  <2>3. QED
    BY <2>1, <2>2, SoundNext, Zenon
<1>6. \A i \in files : pending'[<<T, "core-xml", i>>] \in {pending[<<T, "core-xml", i>>], None}
  BY <1>1, <1>2, <1>3
<1>7. SourcesSound'
  <2>1. Tree("core-xml")' = T
    BY <1>1 DEF Tree
  <2>2. \A i \in files : pending[<<T, "core-xml", i>>] # None => pending[<<T, "core-xml", i>>] = src[i]
    BY <1>1 DEF SourcesSound, CoreXml
  <2>3. QED
    BY <1>1, <1>6, <2>1, <2>2 DEF SourcesSound, CoreXml
<1>8. PendingComplete'
  <2>1. SUFFICES ASSUME config.failOnError, NEW i \in files
                 PROVE  \A k \in KindsOf(src[i]) :
                          MadeBy(k) <= 11 + 1 => pending'[<<Tray(k, src[i], 11 + 1), k, i>>] = src[i]
    BY <1>1, CompleteNext
  <2>2. i \in Items /\ src[i] \in Versions /\ src[i] # None
    BY <1>1, BuildAssumption DEF TypeOK
  <2>3. ASSUME NEW k \in KindsOf(src[i])
        PROVE  pending'[<<Tray(k, src[i], 11 + 1), k, i>>] = src[i]
    <3>1. k \in Kinds /\ k \notin config.skips /\ MadeBy(k) <= 11
      BY DEF KindsOf, Kinds, MadeBy
    <3>2. Tray(k, src[i], 11) = "released" /\ Tray(k, src[i], 11 + 1) = LocationOf(src[i])
      BY DEF Tray
    <3>3. pending[<<"released", k, i>>] = src[i]
      BY <1>1, <2>1, <3>1, <3>2 DEF PendingComplete
    <3>4. Leaves(k, i) <=> src[i] \in Unreleased
      BY <2>1, <2>2, <3>1, <3>3, StemsAt DEF Leaves
    <3>5. pending[<<"unreleased", k, i>>] = None
      BY <1>2, <1>4, <2>2, <3>1
    <3>6. pending'[<<LocationOf(src[i]), k, i>>] = src[i]
      BY <1>2, <1>3, <2>2, <3>1, <3>3, <3>4, <3>5 DEF LocationOf
    <3>7. QED
      BY <3>2, <3>6
  <2>4. QED
    BY <2>3
<1>9. DistInv'
  BY <1>1, DistKept
<1>10. QED
  BY <1>5, <1>7, <1>8, <1>9, Together

\* Position 11 with the partition off: all stays released.
LEMMA NoMoveStep ==
  ASSUME Forward(11), UNCHANGED <<chunks, dist, pending>>, ~config.partition
  PROVE  BuildInv'
<1>1. /\ TypeOK /\ config' = config /\ files' = files /\ src' = src /\ dist' = dist
      /\ Step' = 12 /\ files \subseteq Items /\ result = "running" /\ Step = 11
      /\ PendingComplete /\ SourcesSound
  BY DEF Forward, IInv, TypeOK, BuildInv, job
<1>2. PendingSound'
  <2>1. ASSUME NEW t \in Trees, NEW k \in Kinds, NEW i \in Items,
               pending'[<<t, k, i>>] # None, t = "tmp" => config.target = "full"
        PROVE  /\ Belongs(t, k, i, pending'[<<t, k, i>>], 11 + 1)
               /\ t = "unreleased" => pending'[<<"released", k, i>>] = None
    <3>1. 11 \in 2..12 /\ pending[<<t, k, i>>] # None
      BY <2>1
    <3>2. Belongs(t, k, i, pending[<<t, k, i>>], 11)
      BY <2>1, <3>1, SoundAt, Zenon
    <3>3. QED
      BY <3>2 DEF Belongs, LocationOf
  <2>2. 11 \in 1..12
    OBVIOUS
  <2>3. QED
    BY <2>1, <2>2, SoundNext, Zenon
<1>3. SourcesSound'
  BY <1>1 DEF SourcesSound, CoreXml, Tree
<1>4. PendingComplete'
  <2>1. SUFFICES ASSUME config.failOnError, NEW i \in files
                 PROVE  \A k \in KindsOf(src[i]) :
                          MadeBy(k) <= 11 + 1 => pending'[<<Tray(k, src[i], 11 + 1), k, i>>] = src[i]
    BY <1>1, CompleteNext
  <2>2. ASSUME NEW k \in KindsOf(src[i])
        PROVE  pending'[<<Tray(k, src[i], 11 + 1), k, i>>] = src[i]
    <3>1. MadeBy(k) <= 11
      BY DEF KindsOf, Kinds, MadeBy
    <3>2. Tray(k, src[i], 11) = "released" /\ Tray(k, src[i], 11 + 1) = "released"
      BY DEF Tray, LocationOf
    <3>3. pending[<<"released", k, i>>] = src[i]
      BY <1>1, <2>1, <3>1, <3>2 DEF PendingComplete
    <3>4. QED
      BY <3>2, <3>3
  <2>3. QED
    BY <2>2
<1>5. DistInv'
  BY <1>1, DistKept
<1>6. QED
  BY <1>2, <1>3, <1>4, <1>5, Together

\* Position 12: dist/ has what this build made, and in the Lambda nothing else.
LEMMA CopyStep ==
  ASSUME Forward(12), CopyToDist
  PROVE  BuildInv'
<1>1. /\ TypeOK /\ config' = config /\ files' = files /\ src' = src /\ pending' = pending
      /\ Step' = 13 /\ files \subseteq Items /\ result = "running" /\ Step = 12 /\ result' = "running"
      /\ PendingComplete /\ SourcesSound /\ DistInv /\ chunks' = chunks
  BY DEF Forward, IInv, TypeOK, BuildInv, job, CopyToDist
<1>2. ASSUME NEW l \in Locations, NEW k \in Kinds, NEW i \in Items
      PROVE  dist'[<<l, k, i>>] = IF pending[<<l, k, i>>] # None THEN pending[<<l, k, i>>] ELSE dist[<<l, k, i>>]
  <2>1. <<l, k, i>> \in Dist
    BY DEF Dist
  <2>2. QED
    BY <2>1 DEF CopyToDist
<1>3. ASSUME NEW l \in Locations, NEW k \in Kinds, NEW i \in Items, pending[<<l, k, i>>] # None
      PROVE  /\ Belongs(l, k, i, pending[<<l, k, i>>], 12)
             /\ l = "unreleased" => pending[<<"released", k, i>>] = None
  <2>1. 12 \in 2..12 /\ l \in Trees /\ l # "tmp"
    BY DEF Trees, Locations
  <2>2. QED
    BY <1>3, <2>1, SoundAt, Zenon
<1>4. \A v : KindsOf(v)' = KindsOf(v) /\ LocationOf(v)' = LocationOf(v)
  BY <1>1 DEF KindsOf, LocationOf
<1>5. PendingSound'
  BY <1>1, KeptSound
<1>6. SourcesSound'
  BY <1>1 DEF SourcesSound, CoreXml, Tree
<1>7. PendingComplete'
  BY <1>1, CompleteNext
<1>8. DistInv'
  <2>1. Copied' /\ ~Copied
    BY <1>1 DEF Copied
  <2>2. ASSUME config.cleans, NEW l \in Locations, NEW k \in Kinds, NEW i \in Items, dist'[<<l, k, i>>] # None
        PROVE  /\ i \in files /\ dist'[<<l, k, i>>] = src[i] /\ k \in KindsOf(src[i])
               /\ l = "unreleased" => LocationOf(src[i]) = l /\ dist'[<<"released", k, i>>] = None
    <3>1. "released" \in Locations
      BY DEF Locations
    <3>2. \A m \in Locations : dist[<<m, k, i>>] = None
      <4>1. \A m \in Locations : <<m, k, i>> \in Dist
        BY DEF Dist
      <4>2. QED
        BY <1>1, <2>1, <2>2, <4>1 DEF DistInv
    <3>3. pending[<<l, k, i>>] # None /\ dist'[<<l, k, i>>] = pending[<<l, k, i>>]
      BY <1>2, <2>2, <3>2
    <3>4. /\ Belongs(l, k, i, pending[<<l, k, i>>], 12)
          /\ l = "unreleased" => pending[<<"released", k, i>>] = None
      BY <1>3, <3>3
    <3>5. i \in files /\ dist'[<<l, k, i>>] = src[i] /\ k \in KindsOf(src[i])
      BY <3>3, <3>4 DEF Belongs, KindsOf, Locations
    <3>6. l = "unreleased" => LocationOf(src[i]) = l /\ dist'[<<"released", k, i>>] = None
      BY <1>2, <3>1, <3>2, <3>4 DEF Belongs
    <3>7. QED
      BY <3>5, <3>6
  <2>3. ASSUME config.failOnError, NEW l \in Locations, NEW k \in Kinds, NEW i \in files,
               k \in KindsOf(src[i]), l = LocationOf(src[i])
        PROVE  dist'[<<l, k, i>>] = src[i]
    <3>1. i \in Items /\ src[i] # None
      BY <1>1, BuildAssumption DEF TypeOK
    <3>2. MadeBy(k) <= 12 /\ Tray(k, src[i], 12) = l
      BY <2>3 DEF KindsOf, Kinds, MadeBy, Tray
    <3>3. pending[<<l, k, i>>] = src[i]
      BY <1>1, <2>3, <3>2 DEF PendingComplete
    <3>4. QED
      BY <1>2, <3>1, <3>3
  <2>4. ASSUME config.failOnError, NEW l \in Locations, NEW k \in Kinds, NEW i \in Items, dist'[<<l, k, i>>] # None
        PROVE  l = LocationOf(dist'[<<l, k, i>>])
    <3>1. CASE pending[<<l, k, i>>] # None
      <4>1. dist'[<<l, k, i>>] = pending[<<l, k, i>>] /\ Belongs(l, k, i, pending[<<l, k, i>>], 12)
        BY <1>2, <1>3, <3>1
      <4>2. l = LocationOf(pending[<<l, k, i>>])
        BY <2>4, <4>1 DEF Belongs, Locations
      <4>3. QED
        BY <4>1, <4>2
    <3>2. CASE pending[<<l, k, i>>] = None
      <4>1. <<l, k, i>> \in Dist /\ dist'[<<l, k, i>>] = dist[<<l, k, i>>]
        BY <1>2, <3>2 DEF Dist
      <4>2. QED
        BY <1>1, <2>4, <4>1 DEF DistInv
    <3>3. QED
      BY <3>1, <3>2
  <2>5. \A a \in Dist : /\ a = <<a[1], a[2], a[3]>>
                        /\ a[1] \in Locations /\ a[2] \in Kinds /\ a[3] \in Items
    BY DEF Dist
  <2>6. config.failOnError => \A a \in Dist : Image(a)' => dist'[a] = src[a[3]]
    BY <1>1, <1>4, <2>3, <2>5 DEF Image
  <2>7. config.failOnError => \A a \in Dist : dist'[a] # None => a[1] = LocationOf(dist'[a])
    BY <2>4, <2>5
  <2>8. QED
    BY <1>1, <1>4, <2>1, <2>2, <2>6, <2>7 DEF DistInv
<1>9. QED
  BY <1>5, <1>6, <1>7, <1>8, Together

\* Position 13: the last cleanup ends the build and leaves dist/ as copied.
LEMMA CleanupLast ==
  ASSUME IInv, result = "running", Step = 13, Cleanup, result' = "ok", pc' = 0
  PROVE  BuildInv'
<1>1. config' = config /\ files' = files /\ src' = src /\ dist' = dist /\ DistInv
  BY DEF IInv, BuildInv, job, Cleanup
<1>2. Copied /\ Copied'
  BY DEF Copied
<1>3. DistInv'
  BY <1>1, <1>2 DEF DistInv, KindsOf, LocationOf, Image
<1>4. QED
  BY <1>3 DEF BuildInv, RunInv, PendingSound, SourcesSound, PendingComplete

\* A build starts with nothing of the builds before it that it will not replace:
\* full deletes its temporary files first, and full-metadata-update runs on what
\* clean_dist has emptied.
LEMMA StartStep ==
  ASSUME IInv, NEW S \in SUBSET Items, NEW edited \in [S -> Versions], Start(S, edited), RunInv'
  PROVE  BuildInv'
<1>1. /\ TypeOK /\ config' = config /\ result' = "running" /\ pc' = 1 /\ DistInv /\ Fresh(config)
      /\ config \in Config
  BY DEF Start, IInv, BuildInv, TypeOK
<1>2. Step' = IF config.target = "full" THEN 1 ELSE 6
  BY <1>1 DEF Step
<1>3. config.cleans => \A t \in Trees, k \in Kinds, i \in Items : t # "tmp" => pending'[<<t, k, i>>] = None
  BY <1>1 DEF Start, Pending
<1>4. PendingSound'
  BY <1>1, <1>2, <1>3 DEF PendingSound, Fresh
<1>5. SourcesSound'
  BY <1>1, <1>2 DEF SourcesSound
<1>6. PendingComplete'
  <2>1. \A v : \A k \in KindsOf(v) :
          MadeBy(k) >= 4 /\ (config.target # "full" => MadeBy(k) >= 7)
    BY DEF KindsOf, Kinds, MadeBy
  <2>2. \A v : KindsOf(v)' = KindsOf(v)
    BY <1>1 DEF KindsOf
  <2>3. \A k : MadeBy(k)' = MadeBy(k)
    BY DEF MadeBy
  <2>4. \A v : \A k \in KindsOf(v)' : MadeBy(k) \in Nat
    BY DEF KindsOf, Kinds, MadeBy
  <2>5. QED
    BY <1>1, <1>2, <2>1, <2>2, <2>3, <2>4 DEF PendingComplete
<1>7. DistInv'
  <2>1. ~Copied'
    BY <1>1, <1>2 DEF Copied
  <2>2. config.cleans => \A a \in Dist : dist'[a] = None
    BY DEF Start
  <2>3. ~config.cleans => \A a \in Dist : dist'[a] = dist[a]
    BY DEF Start
  <2>4. config.failOnError => \A a \in Dist : dist'[a] # None => a[1] = LocationOf(dist'[a])
    BY <1>1, <2>2, <2>3 DEF DistInv
  <2>5. \A v : LocationOf(v)' = LocationOf(v)
    BY <1>1 DEF LocationOf
  <2>6. QED
    BY <1>1, <2>1, <2>2, <2>4, <2>5 DEF DistInv
<1>8. QED
  BY <1>4, <1>5, <1>6, <1>7 DEF BuildInv

-----------------------------------------------------------------------------
(* The theorems. *)

\* Every step of a build keeps the invariant.
LEMMA BuildStep ==
  ASSUME IInv, [Next]_vars
  PROVE  IInv'
<1>1. TypeOK' /\ RunInv'
  BY TypeStep DEF IInv, BuildInv
<1>2. config' = config
  BY DEF Next, vars, job, Start, CreatePages, TransformPages, Html, DeleteTmp, MakeMetadata,
         MakeJson, Relocate, PartitionUnreleased, CopyToDist, Cleanup, Kill
<1>3. Fresh(config)'
  BY <1>2 DEF IInv, Fresh
<1> SUFFICES BuildInv'
  BY <1>1, <1>3 DEF IInv
<1>4. CASE UNCHANGED vars
  <2>1. /\ config' = config /\ files' = files /\ src' = src /\ chunks' = chunks /\ pending' = pending
        /\ dist' = dist /\ pc' = pc /\ result' = result
    BY <1>4 DEF vars, job
  <2>2. PendingSound /\ SourcesSound /\ PendingComplete /\ DistInv
    BY DEF IInv, BuildInv
  <2>3. Step' = Step /\ (Copied' <=> Copied)
    BY <2>1 DEF Step, Copied
  <2>4. PendingSound'
    BY <2>1, <2>2, <2>3 DEF PendingSound, Belongs, LocationOf
  <2>5. SourcesSound'
    BY <2>1, <2>2, <2>3 DEF SourcesSound, CoreXml, Tree
  <2>6. PendingComplete'
    <3>1. \A v : KindsOf(v)' = KindsOf(v)
      BY <2>1 DEF KindsOf
    <3>2. \A k, v : Tray(k, v, Step)' = Tray(k, v, Step)
      BY <2>1, <2>3 DEF Tray, LocationOf
    <3>3. \A k : MadeBy(k)' = MadeBy(k) /\ Tree(k)' = Tree(k)
      BY <2>1 DEF MadeBy, Tree
    <3>4. \A i : CoreXml(i)' = CoreXml(i)
      BY <2>1, <3>3 DEF CoreXml
    <3>5. QED
      BY <2>1, <2>2, <2>3, <3>1, <3>2, <3>3, <3>4 DEF PendingComplete
  <2>7. DistInv'
    BY <2>1, <2>2, <2>3 DEF DistInv, KindsOf, LocationOf, Image
  <2>8. QED
    BY <1>1, <2>4, <2>5, <2>6, <2>7, Zenon DEF BuildInv
<1>5. ASSUME NEW S \in SUBSET Items, NEW edited \in [S -> Versions], Start(S, edited)
      PROVE  BuildInv'
  BY <1>1, <1>5, StartStep
<1>6. CASE Kill
  <2>1. result' \in {"failed", "killed"} /\ UNCHANGED src /\ UNCHANGED dist /\ UNCHANGED job
    BY <1>6 DEF Kill
  <2>2. QED
    BY <2>1, Stopped
<1> DEFINE Other ==
      \/ CreatePages \/ TransformPages \/ Html \/ DeleteTmp \/ MakeMetadata
      \/ \E k \in Flat : MakeJson(k)
      \/ Relocate \/ PartitionUnreleased \/ CopyToDist \/ Cleanup
<1>7. ASSUME Other
      PROVE  /\ result = "running" /\ (Advance \/ Abort)
             /\ UNCHANGED src /\ UNCHANGED job
             /\ ~CopyToDist => UNCHANGED dist
             /\ CopyToDist => Advance
  BY <1>7, Zenon DEF At, Xslt, CreatePages, TransformPages, Html, DeleteTmp, MakeMetadata,
              MakeJson, Relocate, PartitionUnreleased, CopyToDist, Cleanup
<1>8. CASE Other /\ ~Advance
  <2>1. result' \in {"failed", "killed"} /\ UNCHANGED dist
    BY <1>7, <1>8 DEF Abort
  <2>2. QED
    BY <1>7, <1>8, <2>1, Stopped
<1>9. ASSUME Other, Advance
      PROVE  BuildInv'
  <2>1. config \in Config /\ pc \in 1..Len(Plan)
    BY <1>7, <1>9 DEF IInv, BuildInv, TypeOK, RunInv
  <2>2. Step \in 1..13
    BY <2>1, StepNames
  <2>3. \/ Step \in 1..12
        \/ Step = 13 /\ result' = "ok" /\ pc' = 0
    BY <1>2, <1>7, <1>9, <2>1, Advanced DEF IInv, BuildInv
  <2>4. ASSUME NEW n \in 1..12, Step = n
        PROVE  Forward(n)
    BY <1>7, <1>9, <2>4, Onward
  <2>5. CASE CreatePages
    <3>1. Step = 2
      BY <2>1, <2>5, StepNames DEF CreatePages, At
    <3>2. QED
      BY <2>4, <2>5, <3>1, CreatePagesStep
  <2>6. CASE TransformPages
    <3>1. Step = 3
      BY <2>1, <2>6, StepNames DEF TransformPages, At
    <3>2. QED
      BY <2>4, <2>6, <3>1, TransformPagesStep
  <2>7. CASE Html
    <3>1. Step = 4
      BY <2>1, <2>7, StepNames DEF Html, At
    <3>2. QED
      BY <2>4, <2>7, <3>1, HtmlStep
  <2>8. CASE DeleteTmp
    <3>1. Step = 5
      BY <2>1, <2>8, StepNames DEF DeleteTmp, At
    <3>2. QED
      BY <2>4, <2>8, <3>1, DeleteTmpStep
  <2>9. CASE MakeMetadata
    <3>1. Step = 6
      BY <2>1, <2>9, StepNames DEF MakeMetadata, At
    <3>2. QED
      BY <2>4, <2>9, <3>1, MetadataStep
  <2>10. ASSUME NEW k \in Flat, MakeJson(k)
         PROVE  BuildInv'
    <3>1. Plan[pc] = k
      BY <2>10 DEF MakeJson, At
    <3>2. Step \in 7..9 /\ MadeBy(k) = Step + 1
      BY <2>1, <3>1, StepNames DEF Flat, MadeBy
    <3>3. QED
      BY <2>4, <2>10, <3>2, JsonStep
  <2>11. CASE Relocate
    <3>1. Step = 10
      BY <2>1, <2>11, StepNames DEF Relocate, At
    <3>2. QED
      BY <2>4, <2>11, <3>1, RelocateStep
  <2>12. CASE PartitionUnreleased
    <3>1. Step = 11
      BY <2>1, <2>12, StepNames DEF PartitionUnreleased, At
    <3>2. Forward(11) /\ UNCHANGED chunks /\ UNCHANGED dist /\ result' = "running"
      BY <2>4, <2>12, <3>1 DEF PartitionUnreleased, Forward
    <3>3. CASE ~config.partition
      BY <2>12, <3>2, <3>3, NoMoveStep DEF PartitionUnreleased
    <3>4. ASSUME config.partition, NEW K, config.failOnError => K = Kinds,
                 pending' = AfterMove(K)
          PROVE  BuildInv'
      BY <3>2, <3>4, MoveStep
    <3>5. CASE config.partition /\ pending' = AfterMove(Kinds)
      BY <3>4, <3>5
    <3>6. CASE config.partition /\ ~config.failOnError /\ \E K : pending' = AfterMove(K)
      BY <3>4, <3>6
    <3>7. (\E n \in 0..(Len(Moves) - 1) : pending' = AfterMove({Moves[m] : m \in 1..n}))
            => \E K : pending' = AfterMove(K)
      BY Zenon
    <3>8. config.failOnError => ~Abort
      BY <3>2 DEF Abort
    <3>9. QED
      BY <2>12, <3>3, <3>5, <3>6, <3>7, <3>8, Zenon DEF PartitionUnreleased
  <2>13. CASE CopyToDist
    <3>1. Step = 12
      BY <2>1, <2>13, StepNames DEF CopyToDist, At
    <3>2. QED
      BY <2>4, <2>13, <3>1, CopyStep
  <2>14. CASE Cleanup
    <3>1. Step = 1 \/ Step = 13
      BY <2>1, <2>14, StepNames DEF Cleanup, At
    <3>2. QED
      BY <1>7, <1>9, <2>3, <2>4, <2>14, <3>1, CleanupFirst, CleanupLast
  <2>15. QED
    BY <1>9, <2>5, <2>6, <2>7, <2>8, <2>9, <2>10, <2>11, <2>12, <2>13, <2>14
<1>10. QED
  <2>1. CASE Next
    <3>1. Other \/ Kill \/ \E S \in SUBSET Items \ {{}} : \E edited \in [S -> Versions] : Start(S, edited)
      BY <2>1, Zenon DEF Next
    <3>2. QED
      BY <1>5, <1>6, <1>8, <1>9, <3>1, Zenon
  <2>2. QED
    BY <1>4, <2>1


\* Every initial state satisfies it, if the configurations start afresh.
LEMMA BuildStart ==
  ASSUME FreshConfigs, Init
  PROVE  IInv
<1>1. TypeOK /\ RunInv
  BY InitType
<1>2. Fresh(config)
  BY DEF FreshConfigs, Init
<1>3. result # "running" /\ ~Copied
  BY DEF Init, Copied
<1>4. DistInv
  BY <1>3 DEF DistInv, Init
<1>5. BuildInv
  BY <1>1, <1>3, <1>4 DEF BuildInv, PendingSound, SourcesSound, PendingComplete
<1>6. QED
  BY <1>1, <1>2, <1>5 DEF IInv

\* A build works on the present sources only: what it finds and makes is of them and
\* in its place at every step, and complete if errors fail the build.
THEOREM BuildInvariant == FreshConfigs /\ Spec => []BuildInv
<1>1. IInv /\ [Next]_vars => IInv'
  BY BuildStep
<1>2. IInv => BuildInv
  BY DEF IInv
<1>3. FreshConfigs /\ Init => IInv
  BY BuildStart
<1>4. QED
  BY <1>1, <1>2, <1>3, PTL DEF Spec

\* No draft is ever in the released layout of dist/, and no released version in
\* unreleased/.
THEOREM PartitionIsSound == FreshConfigs /\ Spec => []PartitionSound
<1>1. BuildInv => PartitionSound
  BY DEF BuildInv, DistInv, PartitionSound
<1>2. QED
  BY <1>1, BuildInvariant, PTL

\* After a successful build every output asked for is in dist/, of the source as it
\* is, where its release status says.
THEOREM SuccessIsComplete == FreshConfigs /\ Spec => []BuildIsComplete
<1>1. BuildInv => BuildIsComplete
  BY DEF BuildInv, DistInv, Copied, BuildIsComplete
<1>2. QED
  BY <1>1, BuildInvariant, PTL

\* A file a successful build leaves in a dist/ that was empty.
LEMMA DistFiles ==
  ASSUME BuildInv, config.cleans, result = "ok",
         NEW l \in Locations, NEW k \in Kinds, NEW i \in Items, dist[<<l, k, i>>] # None
  PROVE  /\ i \in files /\ dist[<<l, k, i>>] = src[i] /\ k \in KindsOf(src[i])
         /\ l = "unreleased" => LocationOf(src[i]) = l /\ dist[<<"released", k, i>>] = None
<1>1. DistInv /\ Copied
  BY DEF BuildInv, Copied
<1>2. QED
  BY <1>1 DEF DistInv

\* In the Lambda what is in dist/ then belongs to the record's item and its source,
\* in one location, even when XSLT errors are tolerated.
THEOREM DistIsOwn == FreshConfigs /\ Spec => []BuildIsOwn
<1>1. BuildInv => BuildIsOwn
  <2>1. SUFFICES ASSUME BuildInv, config.cleans, result = "ok",
                        NEW l \in Locations, NEW k \in Kinds, NEW i \in Items, dist[<<l, k, i>>] # None
                 PROVE  /\ i \in files
                        /\ dist[<<l, k, i>>] = src[i] /\ k \in KindsOf(src[i])
                        /\ l = "unreleased" => l = LocationOf(src[i])
                        /\ \A m \in Locations \ {l} : dist[<<m, k, i>>] = None
    BY DEF BuildIsOwn
  <2>2. \A m \in Locations : dist[<<m, k, i>>] # None =>
          /\ i \in files /\ dist[<<m, k, i>>] = src[i] /\ k \in KindsOf(src[i])
          /\ m = "unreleased" => LocationOf(src[i]) = m /\ dist[<<"released", k, i>>] = None
    BY <2>1, DistFiles
  <2>3. \A m \in Locations \ {l} : dist[<<m, k, i>>] = None
    BY <2>1, <2>2 DEF Locations
  <2>4. QED
    BY <2>1, <2>2, <2>3
<1>2. QED
  BY <1>1, BuildInvariant, PTL

\* Together: in the Lambda, where errors fail the build, dist/ is exactly the outputs
\* of the record's item.
THEOREM DistIsExact == FreshConfigs /\ Spec => []BuildIsExact
<1>1. BuildIsComplete /\ BuildInv => BuildIsExact
  <2>1. SUFFICES ASSUME BuildInv, BuildIsComplete, config.failOnError, config.cleans, result = "ok",
                        NEW l \in Locations, NEW k \in Kinds, NEW i \in Items
                 PROVE  dist[<<l, k, i>>] = IF Image(<<l, k, i>>) THEN src[i] ELSE None
    BY DEF BuildIsExact, Dist
  <2>2. <<l, k, i>> \in Dist
    BY DEF Dist
  <2>3. CASE Image(<<l, k, i>>)
    BY <2>1, <2>2, <2>3 DEF BuildIsComplete
  <2>4. CASE ~Image(<<l, k, i>>)
    <3>1. SUFFICES ASSUME dist[<<l, k, i>>] # None
                   PROVE  FALSE
      BY <2>4
    <3>2. i \in files /\ dist[<<l, k, i>>] = src[i] /\ k \in KindsOf(src[i])
      BY <2>1, <3>1, DistFiles
    <3>3. l = LocationOf(src[i])
      BY <2>1, <2>2, <3>1, <3>2 DEF BuildInv, DistInv
    <3>4. QED
      BY <2>4, <3>2, <3>3 DEF Image
  <2>5. QED
    BY <2>3, <2>4
<1>2. QED
  BY <1>1, SuccessIsComplete, BuildInvariant, PTL

=============================================================================
