------------------------------ MODULE AntBuild ------------------------------
(***************************************************************************)
(* One build of build.xml after the other in the same workspace, with      *)
(* ENVIRONMENT=local: the targets full and full-metadata-update, from the  *)
(* sources to dist/, and partition_unreleased.py in between.               *)
(*                                                                         *)
(* The outputs of an item are abstracted to the version of its source they *)
(* were made from, and the pages of an item to one.  An XSLT step handles  *)
(* some items and fails on others; the process may be killed at any step.  *)
(* What the Lambda then does with dist/ is module ItemOutputs.             *)
(***************************************************************************)
EXTENDS Naturals, Sequences

CONSTANTS
  Items,       \* items, by the stem of their TEI file
  Versions,    \* contents a TEI file takes over time
  None,        \* no file
  Unreleased,  \* versions whose core-xml says itemReleased=false
  Transcribed, \* versions with pages to transcribe
  Configs,     \* configurations to build with; see Config
  MaxBuilds    \* bound on the builds

\* The environment variables the build reads: ANT_TARGET, the SKIP_*_COPY flags
\* that are set, ENABLE_UNRELEASED_PARTITION and XSLT_FAIL_ON_ERROR; and whether
\* clean_dist runs before a build: in the Lambda, not in the local runner.
Config ==
  [target : {"full", "full-metadata-update"},
   skips : SUBSET {"core-xml", "page-xml", "items"},
   partition : BOOLEAN, failOnError : BOOLEAN, cleans : BOOLEAN]

ASSUME BuildAssumption ==
  /\ None \notin Versions
  /\ Unreleased \subseteq Versions /\ Transcribed \subseteq Versions
  /\ Configs \subseteq Config
  /\ MaxBuilds \in Nat

VARIABLES
  config,  \* configuration of the workspace's builds
  src,     \* [Items -> version of the TEI file]
  chunks,  \* [Items -> version of the chunks in chunk/, or None]
  pending, \* [Pending -> version of the files in dist-pending/ and tmp/, or None]
  dist,    \* [Dist -> version of the files in dist/, or None]
  files,   \* the items files-to-process matches
  pc,      \* step of the plan, 0 between builds
  result,  \* how the last build ended, or "running"
  builds   \* builds so far

job  == <<config, files, builds>>
vars == <<src, chunks, pending, dist, pc, result, job>>

Kinds == {"core-xml", "json", "solr-json", "dp-json", "html", "page-xml", "items"}

Flat == {"json", "solr-json", "dp-json"}  \* one directory for all items

Locations == {"released", "unreleased"}

\* tmp/ and dist-pending/www/ are left out of dist/ (www/ is emptied into
\* html/ before the copy).
Trees == Locations \cup {"tmp", "www"}

Pending == Trees \X Kinds \X Items

Dist == Locations \X Kinds \X Items

\* {core-xml,page-xml}.pending.dir: tmp/ when its flag keeps it from the outputs.
Tree(k) == IF k \in config.skips THEN "tmp" ELSE "released"

CoreXml(i) == pending[<<Tree("core-xml"), "core-xml", i>>]

Transcripts == <<"create-pages", "transform-pages", "html", "delete-tmp">>

Metadata == <<"metadata">>

\* Fault (a run must notice it): the temporary files go after metadata is made.
MetadataFirst == Metadata \o Transcripts

MetadataAndTranscripts == Transcripts \o Metadata

Json == <<"json", "solr-json", "dp-json">>

Release == <<"relocate", "partition", "copy", "cleanup">>

\* The targets in the order their depends lists make Ant run them.
Plan ==
  IF config.target = "full" THEN <<"cleanup">> \o MetadataAndTranscripts \o Json \o Release
                     ELSE Metadata \o Json \o Release

At(step) == result = "running" /\ Plan[pc] = step

\* Fault: the build does not end.
AdvanceOnly == pc' = pc + 1 /\ UNCHANGED result

Advance ==
  IF pc < Len(Plan) THEN pc' = pc + 1 /\ UNCHANGED result
                    ELSE pc' = 0 /\ result' = "ok"

Abort == pc' = 0 /\ result' = "failed"

-----------------------------------------------------------------------------

Init ==
  /\ config \in Configs
  /\ src \in [Items -> Versions]
  /\ chunks = [i \in Items |-> None]
  /\ pending = [a \in Pending |-> None]
  /\ dist = [a \in Dist |-> None]
  /\ files = {}
  /\ pc = 0
  /\ result = "none"
  /\ builds = 0

\* Fault: a build starts on what the last one left.
StartDirty(S, edited) ==
  /\ result # "running"
  /\ builds < MaxBuilds
  /\ builds' = builds + 1
  /\ files' = S
  /\ src' = [i \in Items |-> IF i \in S THEN edited[i] ELSE src[i]]
  /\ pc' = 1
  /\ result' = "running"
  /\ UNCHANGED <<config, chunks, pending, dist>>

\* Sources are edited between builds.  clean_dist empties dist/ and
\* dist-pending/, but neither tmp/ nor chunk/.
Start(S, edited) ==
  /\ result # "running"
  /\ builds < MaxBuilds
  /\ builds' = builds + 1
  /\ files' = S
  /\ src' = [i \in Items |-> IF i \in S THEN edited[i] ELSE src[i]]
  /\ pc' = 1
  /\ result' = "running"
  /\ dist' = [a \in Dist |-> IF config.cleans THEN None ELSE dist[a]]
  /\ pending' = [a \in Pending |-> IF config.cleans /\ a[1] # "tmp" THEN None ELSE pending[a]]
  /\ UNCHANGED <<config, chunks>>

\* An XSLT task over the items of inputs ends with the outputs of done made:
\* all of them, or, when it fails on some, the rest if failures are tolerated,
\* and any part of the rest if the first failure aborts the build.
Xslt(inputs, done) ==
  \/ done = inputs /\ Advance
  \/ done # inputs /\ ~config.failOnError /\ Advance
  \/ done # inputs /\ config.failOnError /\ Abort

\* Files of kind k appear in tree t, version[i] for every item i of done.
Made(t, k, done, version) ==
  [a \in Pending |->
     IF a[1] = t /\ a[2] = k /\ a[3] \in done THEN version[a[3]] ELSE pending[a]]

\* pagify.xsl over the sources; delete-chunk.dir first.
CreatePages ==
  /\ At("create-pages")
  /\ \E done \in SUBSET files :
       /\ Xslt(files, done)
       /\ chunks' = [i \in Items |->
            IF i \in done /\ src[i] \in Transcribed THEN src[i] ELSE None]
  /\ UNCHANGED <<src, pending, dist, job>>

\* pagify.xsl over the chunks; without chunks nothing is run.
TransformPages ==
  /\ At("transform-pages")
  /\ LET chunked == {i \in Items : chunks[i] # None}
     IN  \E done \in SUBSET chunked :
           /\ Xslt(chunked, done)
           /\ pending' = Made(Tree("page-xml"), "page-xml", done, chunks)
  /\ UNCHANGED <<src, chunks, dist, job>>

\* msTeiTrans.xsl over the pages of the items of this build, then
\* delete-chunk.dir; _transform-pages skips it when there are no chunks.
Html ==
  /\ At("html")
  /\ LET page == [i \in Items |-> pending[<<Tree("page-xml"), "page-xml", i>>]]
         paged == {i \in files : page[i] # None /\ \E j \in Items : chunks[j] # None}
     IN  \E done \in SUBSET paged :
           /\ Xslt(paged, done)
           /\ pending' = Made("www", "html", done, page)
           /\ chunks' = IF done = paged \/ ~config.failOnError
                          THEN [i \in Items |-> None] ELSE chunks
  /\ UNCHANGED <<src, dist, job>>

DeleteTmp ==
  /\ At("delete-tmp")
  /\ Advance
  /\ pending' = [a \in Pending |-> IF a[1] = "tmp" THEN None ELSE pending[a]]
  /\ chunks' = [i \in Items |-> None]
  /\ UNCHANGED <<src, dist, job>>

\* The TEI itself is copied unless its flag is set, then msTeiPreFilter.xsl.
MakeMetadata ==
  /\ At("metadata")
  /\ \E done \in SUBSET files :
       /\ Xslt(files, done)
       /\ pending' = [a \in Pending |->
            IF a[1] = "released" /\ a[2] = "items" /\ a[3] \in files /\ "items" \notin config.skips
              THEN src[a[3]]
              ELSE Made(Tree("core-xml"), "core-xml", done, src)[a]]
  /\ UNCHANGED <<src, chunks, dist, job>>

\* viewer-json.xsl, solr-json.xsl and dp-json.xsl over the core-xml of this
\* build's items.
MakeJson(k) ==
  /\ At(k)
  /\ LET core == [i \in Items |-> CoreXml(i)]
         present == {i \in files : core[i] # None}
     IN  \E done \in SUBSET present :
           /\ Xslt(present, done)
           /\ pending' = Made("released", k, done, core)
  /\ UNCHANGED <<src, chunks, dist, job>>

\* _relocate-html-output
Relocate ==
  /\ At("relocate")
  /\ Advance
  /\ pending' = [a \in Pending |->
       IF a[1] = "www" THEN None
       ELSE IF a[1] = "released" /\ pending[<<"www", a[2], a[3]>>] # None
         THEN pending[<<"www", a[2], a[3]>>]
       ELSE pending[a]]
  /\ UNCHANGED <<src, chunks, dist, job>>

\* find_unreleased_stems: the items whose core-xml is there and says so.
Stems == {i \in Items : CoreXml(i) \in Unreleased}

\* The move_flat and move_nested calls of main, in order; the skipped kinds are
\* not in dist-pending/ and are not moved.
Moves == <<"dp-json", "solr-json", "json", "core-xml", "html", "page-xml", "items">>

\* Fault: the outputs are copied, not moved.
AfterCopying(kinds) ==
  [a \in Pending |->
     IF a[1] = "unreleased" /\ a[2] \in kinds \ config.skips /\ a[3] \in Stems
       THEN pending[<<"released", a[2], a[3]>>] ELSE pending[a]]

\* Fault: the files are moved, the directories stay.
AfterMovingFiles(kinds) ==
  [a \in Pending |->
     IF a[2] \notin Flat \cap kinds \/ a[3] \notin Stems THEN pending[a]
     ELSE IF a[1] = "released" THEN None
     ELSE IF a[1] = "unreleased" THEN pending[<<"released", a[2], a[3]>>]
     ELSE pending[a]]

\* A file replaces the one at its destination; a directory that is already
\* there receives the moved one inside itself, out of every reader's sight.
AfterMove(kinds) ==
  [a \in Pending |->
     LET from == pending[<<"released", a[2], a[3]>>]
     IN  IF a[2] \notin kinds \ config.skips \/ a[3] \notin Stems \/ from = None THEN pending[a]
         ELSE IF a[1] = "released" THEN None
         ELSE IF a[1] = "unreleased" /\ (a[2] \in Flat \/ pending[a] = None) THEN from
         ELSE pending[a]]

\* _partition-unreleased; the script may die between two moves.
PartitionUnreleased ==
  /\ At("partition")
  /\ \/ /\ ~config.partition
        /\ Advance
        /\ UNCHANGED pending
     \/ /\ config.partition
        /\ Advance
        /\ pending' = AfterMove(Kinds)
     \/ /\ config.partition
        /\ \E n \in 0..(Len(Moves) - 1) :
             pending' = AfterMove({Moves[m] : m \in 1..n})
        /\ IF config.failOnError THEN Abort ELSE Advance
  /\ UNCHANGED <<src, chunks, dist, job>>

CopyToDist ==
  /\ At("copy")
  /\ Advance
  /\ dist' = [a \in Dist |-> IF pending[a] # None THEN pending[a] ELSE dist[a]]
  /\ UNCHANGED <<src, chunks, pending, job>>

Cleanup ==
  /\ At("cleanup")
  /\ Advance
  /\ pending' = [a \in Pending |-> None]
  /\ chunks' = [i \in Items |-> None]
  /\ UNCHANGED <<src, dist, job>>

\* The process is killed; external to the repository.
Kill ==
  /\ result = "running"
  /\ result' = "killed"
  /\ pc' = 0
  /\ UNCHANGED <<src, chunks, pending, dist, job>>

Next ==
  \/ \E S \in SUBSET Items \ {{}} : \E edited \in [S -> Versions] : Start(S, edited)
  \/ CreatePages \/ TransformPages \/ Html \/ DeleteTmp
  \/ MakeMetadata \/ \E k \in Flat : MakeJson(k)
  \/ Relocate \/ PartitionUnreleased \/ CopyToDist \/ Cleanup
  \/ Kill

Spec == Init /\ [][Next]_vars

-----------------------------------------------------------------------------

TypeOK ==
  /\ config \in Config
  /\ src \in [Items -> Versions]
  /\ chunks \in [Items -> Versions \cup {None}]
  /\ pending \in [Pending -> Versions \cup {None}]
  /\ dist \in [Dist -> Versions \cup {None}]
  /\ files \in SUBSET Items
  /\ pc \in 0..Len(Plan)
  /\ result \in {"none", "running", "ok", "failed", "killed"}
  /\ builds \in Nat

LocationOf(v) == IF config.partition /\ v \in Unreleased THEN "unreleased" ELSE "released"

\* What a build of version v makes for the outputs.
KindsOf(v) ==
  (IF config.target = "full" /\ v \in Transcribed THEN Kinds ELSE Kinds \ {"html", "page-xml"})
    \ config.skips

Image(a) ==
  /\ a[3] \in files
  /\ a[2] \in KindsOf(src[a[3]])
  /\ a[1] = LocationOf(src[a[3]])

\* A successful build has put every output of every item it was asked for where
\* the item's release status says, from the source as it is: whatever failed or
\* killed builds left in the workspace.
BuildIsComplete ==
  config.failOnError /\ result = "ok" =>
    \A a \in Dist : Image(a) => dist[a] = src[a[3]]

\* In the Lambda dist/ then holds nothing else: no output of another record's
\* item and none in the other location.  ItemOutputs!Build relies on both.
BuildIsExact ==
  config.failOnError /\ config.cleans /\ result = "ok" =>
    \A a \in Dist : dist[a] = IF Image(a) THEN src[a[3]] ELSE None

\* Even when XSLT errors are tolerated, what the Lambda finds in dist/ belongs
\* to the record's item and to the source it downloaded, is in one location
\* only, and is kept out of the released layout only if the item is unreleased.
BuildIsOwn ==
  config.cleans /\ result = "ok" =>
    \A l \in Locations, k \in Kinds, i \in Items :
      LET v == dist[<<l, k, i>>]
      IN  v # None =>
            /\ i \in files
            /\ v = src[i] /\ k \in KindsOf(v)
            /\ l = "unreleased" => l = LocationOf(v)
            /\ \A m \in Locations \ {l} : dist[<<m, k, i>>] = None

\* With the partition on, no version that is unreleased is ever in the released
\* layout of dist/, nor a released one in unreleased/, if errors fail the build.
PartitionSound ==
  config.partition /\ config.failOnError =>
    \A a \in Dist : dist[a] # None => a[1] = LocationOf(dist[a])

-----------------------------------------------------------------------------
(* The inductive invariant behind the properties. *)

\* The position of a build in the plan of full, of which full-metadata-update is
\* the part from "metadata", the sixth step, on.
Step == IF config.target = "full" THEN pc ELSE pc + 5

\* The position from which the outputs of kind k are there.
MadeBy(k) ==
  CASE k = "page-xml" -> 4 [] k = "html" -> 5 [] k \in {"core-xml", "items"} -> 7
    [] k = "json" -> 8 [] k = "solr-json" -> 9 [] k = "dp-json" -> 10

\* What there may be of item i in tree t as kind k at position n: something made of
\* its present source, with html in www/ up to its relocation, nothing in
\* unreleased/ up to the partition, and from then on drafts only.
Belongs(t, k, i, v, n) ==
  /\ i \in files /\ v = src[i]
  /\ k \in {"html", "page-xml"} => config.target = "full" /\ v \in Transcribed
  /\ t = "tmp" => k \in config.skips
  /\ t = "www" => k = "html" /\ n <= 10
  /\ t = "released" => k \notin config.skips /\ (k = "html" => n > 10)
  /\ t = "released" /\ n > 11 /\ config.failOnError => LocationOf(v) = t
  /\ t = "unreleased" => k \notin config.skips /\ n > 11 /\ LocationOf(v) = t

\* Where the outputs of a version v are, if errors fail the build.
Tray(k, v, n) ==
  IF k = "html" /\ n <= 10 THEN "www" ELSE IF n <= 11 THEN "released" ELSE LocationOf(v)

RunInv == result = "running" => pc \in 1..Len(Plan)

\* From the first cleanup on, or in full-metadata-update from clean_dist on, which
\* spares tmp/, all there is was made by this build.
PendingSound ==
  result = "running" /\ Step > 1 =>
    \A t \in Trees, k \in Kinds, i \in Items :
      pending[<<t, k, i>>] # None /\ (t = "tmp" => config.target = "full") =>
        /\ Belongs(t, k, i, pending[<<t, k, i>>], Step)
        /\ t = "unreleased" => pending[<<"released", k, i>>] = None

\* So are the chunks, and the core-xml the JSON is made from.
SourcesSound ==
  /\ result = "running" /\ config.target = "full" /\ Step > 1 =>
       \A i \in Items : chunks[i] # None => i \in files /\ chunks[i] = src[i] /\ src[i] \in Transcribed
  /\ result = "running" /\ Step > 6 =>
       \A i \in files : CoreXml(i) # None => CoreXml(i) = src[i]

\* Where errors fail the build, all that is made by now is there.
PendingComplete ==
  result = "running" /\ config.failOnError =>
    \A i \in files :
      /\ Step \in {3, 4} /\ src[i] \in Transcribed => chunks[i] = src[i]
      /\ Step = 4 /\ src[i] \in Transcribed => pending[<<Tree("page-xml"), "page-xml", i>>] = src[i]
      /\ Step \in 7..11 => CoreXml(i) = src[i]
      /\ \A k \in KindsOf(src[i]) :
           MadeBy(k) <= Step /\ Step < 13 => pending[<<Tray(k, src[i], Step), k, i>>] = src[i]

Copied == result = "ok" \/ (result = "running" /\ Step = 13)

\* In the Lambda dist/ is empty up to the copy.
DistInv ==
  /\ config.cleans /\ result = "running" /\ ~Copied => \A a \in Dist : dist[a] = None
  /\ config.cleans /\ Copied =>
       \A l \in Locations, k \in Kinds, i \in Items :
         LET v == dist[<<l, k, i>>]
         IN  v # None =>
               /\ i \in files /\ v = src[i] /\ k \in KindsOf(v)
               /\ l = "unreleased" => LocationOf(v) = l /\ dist[<<"released", k, i>>] = None
  /\ config.failOnError /\ Copied => \A a \in Dist : Image(a) => dist[a] = src[a[3]]
  /\ config.failOnError => \A a \in Dist : dist[a] # None => a[1] = LocationOf(dist[a])

\* What a build has made at any of its steps is of the present sources, in its
\* place, and complete if errors fail the build.
BuildInv == RunInv /\ PendingSound /\ SourcesSound /\ PendingComplete /\ DistInv

\* Configurations whose builds start from nothing of the builds before:
\* full-metadata-update deletes neither dist-pending/ nor tmp/.
Fresh(c) ==
  c.target = "full" \/ (c.cleans /\ (c.failOnError \/ "core-xml" \notin c.skips))

FreshConfigs == \A c \in Configs : Fresh(c)

=============================================================================
