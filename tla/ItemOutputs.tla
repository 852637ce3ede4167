---------------------------- MODULE ItemOutputs ----------------------------
(***************************************************************************)
(* One TEI item and the objects derived from it in the output bucket.      *)
(*                                                                         *)
(* S3 notifications about the item's source reach an SQS queue; each       *)
(* Lambda environment ("worker") takes one record at a time and runs       *)
(* _handle_created or _handle_removed of handler.py, which call, in order, *)
(* the functions of s3_ops.py.  Every request to S3 is a step of its own,  *)
(* so records handled at the same time interleave request by request, any  *)
(* request may fail, and the environment may be killed between two of them.*)
(*                                                                         *)
(* An object's content is abstracted to the source version it was built    *)
(* from.  The batch loop around the handlers is module BatchHandler; the   *)
(* upload pool is module UploadPool.                                       *)
(***************************************************************************)
EXTENDS Naturals

CONSTANTS
  Workers,     \* Lambda execution environments
  Records,     \* SQS records about this item
  Versions,    \* contents the source object takes over time
  None,        \* no object, no record, no version
  Direct,      \* single-file outputs: json, solr-json, dp-json, core-xml, items
  Pages,       \* per-page outputs, one per page and family
  Families,    \* the per-page families: html, page-xml
  FamilyOf,    \* the family of a per-page output
  PagesOf,     \* the per-page outputs the build makes of a version
  Skipped,     \* outputs the SKIP_*_COPY flags keep out of dist/
  Unreleased,  \* versions whose core-xml says itemReleased=false
  Partition,   \* ENABLE_UNRELEASED_PARTITION
  MaxReceive   \* maxReceiveCount of the queue's redrive policy

Locations == {"released", "unreleased"}

Key == Locations \X (Direct \cup Pages)

ASSUME ConstantsAssumption ==
  /\ None \notin Versions /\ None \notin Records
  /\ Direct \cap Pages = {}
  /\ FamilyOf \in [Pages -> Families]
  /\ PagesOf \in [Versions -> SUBSET Pages]
  /\ Skipped \subseteq Direct \cup Pages
  /\ Direct \ Skipped # {}     \* no flag skips the three JSON outputs
  /\ Unreleased \subseteq Versions
  /\ Partition \in BOOLEAN
  /\ MaxReceive \in Nat \ {0}

VARIABLES
  src,      \* version held by the source bucket, or None
  bucket,   \* [Key -> version the object was built from, or None]
  status,   \* [Records -> where the record is]
  kind,     \* [Records -> "created" or "removed"]
  receives, \* [Records -> times the record was received]
  pc,       \* [Workers -> the call the handler is in]
  record,   \* [Workers -> record being handled, or None]
  ver,      \* [Workers -> version downloaded, or None]
  dist,     \* [Workers -> contents of /tmp dist/, as [Key -> version or None]]
  todo,     \* [Workers -> keys still to upload, or still to HEAD]
  scan,     \* [Workers -> <<family, location>> prefixes still to list]
  doomed,   \* [Workers -> keys found present and still to delete]
  fault     \* [Workers -> some request of the current call has failed]

queue  == <<status, kind, receives>>
handler == <<pc, record, ver, dist, todo, scan, doomed, fault>>
vars   == <<src, bucket, queue, handler>>

States == {"idle", "download", "build", "upload", "reconcile", "supersede", "remove"}

Prefixes == Families \X Locations

-----------------------------------------------------------------------------
(* What a build of version v leaves in dist/. *)

LocationOf(v) ==
  IF Partition /\ v \in Unreleased THEN "unreleased" ELSE "released"

OutputKeys(v) == {LocationOf(v)} \X ((Direct \cup PagesOf[v]) \ Skipped)

EmptyDist == [k \in Key |-> None]

\* Fault (a run must notice it): the released prefix is left empty in the keys.
OppositePrefix(l) == IF l = "unreleased" THEN "" ELSE "unreleased"

Opposite(l) == IF l = "unreleased" THEN "released" ELSE "unreleased"

\* Fault: the location is derived from the item's status, not from dist/.
StatusLocation(w) == IF ver[w] \in Unreleased THEN "unreleased" ELSE "released"

\* _build_produced_unreleased: any file under dist/unreleased/.
BuiltLocation(w) ==
  IF \E k \in Key : k[1] = "unreleased" /\ dist[w][k] # None
    THEN "unreleased" ELSE "released"

PageKeys(f, l) == {k \in Key : k[1] = l /\ k[2] \in Pages /\ FamilyOf[k[2]] = f}

Present(keys) == {k \in keys : bucket[k] # None}

-----------------------------------------------------------------------------

Init ==
  /\ src = None
  /\ bucket = [k \in Key |-> None]
  /\ status = [r \in Records |-> "unsent"]
  /\ kind = [r \in Records |-> "created"]
  /\ receives = [r \in Records |-> 0]
  /\ pc = [w \in Workers |-> "idle"]
  /\ record = [w \in Workers |-> None]
  /\ ver = [w \in Workers |-> None]
  /\ dist = [w \in Workers |-> EmptyDist]
  /\ todo = [w \in Workers |-> {}]
  /\ scan = [w \in Workers |-> {}]
  /\ doomed = [w \in Workers |-> {}]
  /\ fault = [w \in Workers |-> FALSE]

-----------------------------------------------------------------------------
(* The curators and the queue (external to the repository). *)

PutSource(r, v) ==
  /\ status[r] = "unsent"
  /\ src' = v
  /\ status' = [status EXCEPT ![r] = "queued"]
  /\ kind' = [kind EXCEPT ![r] = "created"]
  /\ UNCHANGED <<bucket, receives, handler>>

DeleteSource(r) ==
  /\ status[r] = "unsent"
  /\ src # None
  /\ src' = None
  /\ status' = [status EXCEPT ![r] = "queued"]
  /\ kind' = [kind EXCEPT ![r] = "removed"]
  /\ UNCHANGED <<bucket, receives, handler>>

\* Standard queues deliver at least once: a handled record may come again.
Redeliver(r) ==
  /\ status[r] = "done"
  /\ receives[r] < MaxReceive
  /\ status' = [status EXCEPT ![r] = "queued"]
  /\ UNCHANGED <<src, bucket, kind, receives, handler>>

\* A reported or abandoned record returns to the queue until it has used up
\* its receives, and then goes to the dead-letter queue.
Requeue(r) ==
  status' = [status EXCEPT ![r] = IF receives[r] < MaxReceive THEN "queued" ELSE "dlq"]

-----------------------------------------------------------------------------
(* Helpers of the handler steps. *)

Goto(w, p) == pc' = [pc EXCEPT ![w] = p]

Forget(w) ==
  /\ Goto(w, "idle")
  /\ record' = [record EXCEPT ![w] = None]
  /\ ver' = [ver EXCEPT ![w] = None]
  /\ todo' = [todo EXCEPT ![w] = {}]
  /\ scan' = [scan EXCEPT ![w] = {}]
  /\ doomed' = [doomed EXCEPT ![w] = {}]
  /\ fault' = [fault EXCEPT ![w] = FALSE]

\* The handler returns (ok) or raises; _handle_created's finally block cleans
\* dist/ either way, _handle_removed never touches it.
Return(w, ok) ==
  /\ Forget(w)
  /\ dist' = [dist EXCEPT ![w] = IF pc[w] = "remove" THEN dist[w] ELSE EmptyDist]
  /\ IF ok THEN status' = [status EXCEPT ![record[w]] = "done"]
           ELSE Requeue(record[w])
  /\ UNCHANGED <<src, bucket, kind, receives>>

\* A writing request leaves the bucket as b, raises, or both: an error answer
\* (a timeout) says nothing about whether S3 applied the request.
Request(w, b) ==
  \E landed, raised \in BOOLEAN :
    /\ landed \/ raised
    /\ bucket' = IF landed THEN b ELSE bucket
    /\ fault' = [fault EXCEPT ![w] = @ \/ raised]

-----------------------------------------------------------------------------
(* handler.py: one record. *)

Receive(w, r) ==
  /\ pc[w] = "idle"
  /\ status[r] = "queued"
  /\ status' = [status EXCEPT ![r] = "busy"]
  /\ receives' = [receives EXCEPT ![r] = @ + 1]
  /\ record' = [record EXCEPT ![w] = r]
  /\ \/ /\ kind[r] = "created"
        /\ Goto(w, "download")
        /\ UNCHANGED <<todo, scan>>
     \/ /\ kind[r] = "removed"
        /\ Goto(w, "remove")
        /\ todo' = [todo EXCEPT ![w] = Locations \X Direct]
        /\ scan' = [scan EXCEPT ![w] = Prefixes]
  /\ UNCHANGED <<src, bucket, kind, ver, dist, doomed, fault>>

\* Fault: dist/ is not cleaned before the record.
DownloadOnly(w) ==
  /\ pc[w] = "download"
  /\ src # None
  /\ Goto(w, "build")
  /\ ver' = [ver EXCEPT ![w] = src]
  /\ UNCHANGED <<src, bucket, queue, record, dist, todo, scan, doomed, fault>>

\* clean_dist, clean_source_workspace and download_file; a missing source is
\* a PermanentError, any other refusal a TransientError.
Download(w) ==
  /\ pc[w] = "download"
  /\ src # None
  /\ Goto(w, "build")
  /\ ver' = [ver EXCEPT ![w] = src]
  /\ dist' = [dist EXCEPT ![w] = EmptyDist]
  /\ UNCHANGED <<src, bucket, queue, record, todo, scan, doomed, fault>>

\* run_ant copies the build's outputs over whatever dist/ holds; upload_dist
\* then walks dist/.
Build(w) ==
  /\ pc[w] = "build"
  /\ Goto(w, "upload")
  /\ dist' = [dist EXCEPT ![w] =
       [k \in Key |-> IF k \in OutputKeys(ver[w]) THEN ver[w] ELSE dist[w][k]]]
  /\ todo' = [todo EXCEPT ![w] = {k \in Key : dist'[w][k] # None}]
  /\ UNCHANGED <<src, bucket, queue, record, ver, scan, doomed, fault>>

\* A call raises at once: download_file, resolve_release_status or run_ant; a
\* listing of the reconciliation, before anything is deleted; and wherever keys
\* are deleted an error that is no ClientError, as a time-out is none, which
\* ends the call in the middle.  Only the uploads collect errors of every kind.
Raise(w) ==
  /\ pc[w] \in {"download", "build", "reconcile", "supersede", "remove"}
  /\ Return(w, FALSE)

\* One future of the upload pool.  Skipping an object whose content-sha256
\* matches leaves the same bucket as uploading it.
UploadFile(w, k) ==
  /\ pc[w] = "upload"
  /\ k \in todo[w]
  /\ todo' = [todo EXCEPT ![w] = @ \ {k}]
  /\ Request(w, [bucket EXCEPT ![k] = dist[w][k]])
  /\ UNCHANGED <<src, queue, pc, record, ver, dist, scan, doomed>>

\* Fault: upload errors are logged and not raised.
UploadDoneUnchecked(w) ==
  /\ pc[w] = "upload"
  /\ todo[w] = {}
  /\ Goto(w, "reconcile")
  /\ scan' = [scan EXCEPT ![w] = Prefixes]
  /\ fault' = [fault EXCEPT ![w] = FALSE]
  /\ UNCHANGED <<src, bucket, queue, record, ver, dist, todo, doomed>>

\* Fault: a failed upload is waited for and never collected.
UploadDoneStuck(w) ==
  /\ pc[w] = "upload"
  /\ todo[w] = {}
  /\ ~fault[w]
  /\ Goto(w, "reconcile")
  /\ scan' = [scan EXCEPT ![w] = Prefixes]
  /\ UNCHANGED <<src, bucket, queue, record, ver, dist, todo, doomed, fault>>

UploadDone(w) ==
  /\ pc[w] = "upload"
  /\ todo[w] = {}
  /\ \/ /\ fault[w]
        /\ Return(w, FALSE)
     \/ /\ ~fault[w]
        /\ Goto(w, "reconcile")
        /\ scan' = [scan EXCEPT ![w] = Prefixes]
        /\ UNCHANGED <<src, bucket, queue, record, ver, dist, todo, doomed, fault>>

\* _collect_stale_page_keys for one family and location.
ListStale(w, f, l) ==
  /\ pc[w] = "reconcile"
  /\ <<f, l>> \in scan[w]
  /\ scan' = [scan EXCEPT ![w] = @ \ {<<f, l>>}]
  /\ doomed' = [doomed EXCEPT ![w] =
       @ \cup {k \in Present(PageKeys(f, l)) : dist[w][k] = None}]
  /\ UNCHANGED <<src, bucket, queue, pc, record, ver, dist, todo, fault>>

\* Fault: both locations are cleared of the item, as for a deletion.
ReconcileDoneBoth(w) ==
  /\ pc[w] = "reconcile"
  /\ scan[w] = {} /\ doomed[w] = {} /\ ~fault[w]
  /\ Goto(w, "supersede")
  /\ todo' = [todo EXCEPT ![w] = Locations \X Direct]
  /\ scan' = [scan EXCEPT ![w] = Prefixes]
  /\ UNCHANGED <<src, bucket, queue, record, ver, dist, doomed, fault>>

ReconcileDone(w) ==
  /\ pc[w] = "reconcile"
  /\ scan[w] = {}
  /\ doomed[w] = {}
  /\ \/ /\ fault[w]
        /\ Return(w, FALSE)
     \/ /\ ~fault[w]
        /\ Goto(w, "supersede")
        /\ LET l == Opposite(BuiltLocation(w))
           IN  /\ todo' = [todo EXCEPT ![w] = {l} \X Direct]
               /\ scan' = [scan EXCEPT ![w] = Families \X {l}]
        /\ UNCHANGED <<src, bucket, queue, record, ver, dist, doomed, fault>>

\* _delete_item_location: the single-file outputs are looked up before they are
\* deleted and the pages are listed; one target is finished before the next
\* (the order of the targets is left free), and a failure is only remembered.
HeadObject(w, k) ==
  /\ pc[w] \in {"supersede", "remove"}
  /\ doomed[w] = {}
  /\ k \in todo[w]
  /\ todo' = [todo EXCEPT ![w] = @ \ {k}]
  /\ \/ /\ doomed' = [doomed EXCEPT ![w] = Present({k})]
        /\ UNCHANGED fault
     \/ /\ fault' = [fault EXCEPT ![w] = TRUE]
        /\ UNCHANGED doomed
  /\ UNCHANGED <<src, bucket, queue, pc, record, ver, dist, scan>>

ListPages(w, f, l) ==
  /\ pc[w] \in {"supersede", "remove"}
  /\ doomed[w] = {}
  /\ <<f, l>> \in scan[w]
  /\ scan' = [scan EXCEPT ![w] = @ \ {<<f, l>>}]
  /\ \/ /\ doomed' = [doomed EXCEPT ![w] = Present(PageKeys(f, l))]
        /\ UNCHANGED fault
     \/ /\ fault' = [fault EXCEPT ![w] = TRUE]
        /\ UNCHANGED doomed
  /\ UNCHANGED <<src, bucket, queue, pc, record, ver, dist, todo>>

\* One key of a DeleteObject or DeleteObjects request.
DeleteObject(w, k) ==
  /\ pc[w] \in {"reconcile", "supersede", "remove"}
  /\ pc[w] = "reconcile" => scan[w] = {}
  /\ k \in doomed[w]
  /\ doomed' = [doomed EXCEPT ![w] = @ \ {k}]
  /\ Request(w, [bucket EXCEPT ![k] = None])
  /\ UNCHANGED <<src, queue, pc, record, ver, dist, todo, scan>>

\* Fault: delete failures are logged and not raised.
ClearDoneUnchecked(w) ==
  /\ pc[w] \in {"supersede", "remove"}
  /\ todo[w] = {} /\ scan[w] = {} /\ doomed[w] = {}
  /\ Return(w, TRUE)

\* _raise_on_delete_failures at the end of delete_superseded_outputs and
\* delete_outputs, and the return of the handler.
ClearDone(w) ==
  /\ pc[w] \in {"supersede", "remove"}
  /\ todo[w] = {} /\ scan[w] = {} /\ doomed[w] = {}
  /\ Return(w, ~fault[w])

\* The environment is killed (function timeout, Runtime.ExitError): no finally
\* block runs, /tmp keeps dist/, and the record reappears on the queue.
Crash(w) ==
  /\ pc[w] # "idle"
  /\ Forget(w)
  /\ Requeue(record[w])
  /\ UNCHANGED <<src, bucket, kind, receives, dist>>

-----------------------------------------------------------------------------

Environment ==
  \E r \in Records :
    \/ \E v \in Versions : PutSource(r, v)
    \/ DeleteSource(r)
    \/ Redeliver(r)

Step(w) ==
  \/ Download(w)
  \/ Build(w)
  \/ Raise(w)
  \/ \E k \in Key : UploadFile(w, k) \/ HeadObject(w, k) \/ DeleteObject(w, k)
  \/ UploadDone(w)
  \/ \E f \in Families, l \in Locations : ListStale(w, f, l) \/ ListPages(w, f, l)
  \/ ReconcileDone(w)
  \/ ClearDone(w)

Next ==
  \/ Environment
  \/ \E w \in Workers : Step(w) \/ Crash(w) \/ \E r \in Records : Receive(w, r)

Spec == Init /\ [][Next]_vars

\* A running handler is scheduled, and the event source mapping keeps polling.
Fairness ==
  \A w \in Workers :
    /\ WF_vars(Step(w))
    /\ WF_vars(\E r \in Records : Receive(w, r))

FairSpec == Spec /\ Fairness
-----------------------------------------------------------------------------
(* Correctness. *)

\* Every variable holds a value of its kind.
TypeOK ==
  /\ src \in Versions \cup {None}
  /\ bucket \in [Key -> Versions \cup {None}]
  /\ status \in [Records -> {"unsent", "queued", "busy", "done", "dlq"}]
  /\ kind \in [Records -> {"created", "removed"}]
  /\ receives \in [Records -> Nat]
  /\ pc \in [Workers -> States]
  /\ record \in [Workers -> Records \cup {None}]
  /\ ver \in [Workers -> Versions \cup {None}]
  /\ dist \in [Workers -> [Key -> Versions \cup {None}]]
  /\ todo \in [Workers -> SUBSET Key]
  /\ scan \in [Workers -> SUBSET Prefixes]
  /\ doomed \in [Workers -> SUBSET Key]
  /\ fault \in [Workers -> BOOLEAN]

\* The bucket is exactly what a build of v publishes: every output it makes, at
\* the location it makes it, nothing stale beside it and nothing at the other
\* location.  A single-file output the flags skip is never written and, at the
\* item's own location, never removed either.
IsImage(v) ==
  \A k \in Key :
    IF k \in OutputKeys(v) THEN bucket[k] = v
    ELSE bucket[k] # None =>
           k[1] = LocationOf(v) /\ k[2] \in Direct \cap Skipped

\* A record is held by at most one environment, and a record that is being
\* handled is held: no record is handled twice at once or lost while handled.
HeldOnce ==
  /\ \A w \in Workers : (pc[w] = "idle") <=> (record[w] = None)
  /\ \A w \in Workers : record[w] # None => status[record[w]] = "busy"
  /\ \A r \in Records : status[r] = "busy" => \E w \in Workers : record[w] = r
  /\ \A w1, w2 \in Workers : record[w1] = record[w2] /\ record[w1] # None => w1 = w2

\* When an ObjectCreated record is acknowledged, the bucket is the image of the
\* version that was downloaded, whatever earlier attempts, crashes, failed
\* requests or duplicates left behind (README: "a single copy remains").
AcknowledgedIsPublished ==
  [][\A w \in Workers :
       pc[w] = "supersede" /\ status'[record[w]] = "done" => IsImage(ver[w])]_vars

\* When an ObjectRemoved record is acknowledged nothing of the item is left, at
\* either location, however partial earlier uploads or deletions were.
AcknowledgedIsRemoved ==
  [][\A w \in Workers :
       pc[w] = "remove" /\ status'[record[w]] = "done"
         => \A k \in Key : bucket[k] = None]_vars

\* Handling an ObjectCreated record deletes nothing until every output of the
\* version it handles is in the bucket ("Only after the new outputs are
\* uploaded", handler.py; "If the upload step fails, stale-page reconciliation
\* does not run", README.md:273), and never deletes one of those outputs.
MakeBeforeBreak ==
  [][\A w \in Workers, k \in Key :
       /\ pc[w] \notin {"idle", "remove"}
       /\ bucket[k] # None /\ bucket'[k] = None
       => /\ \A o \in OutputKeys(ver[w]) : bucket[o] = ver[w]
          /\ k \notin OutputKeys(ver[w])]_vars

\* Whatever other environments do to the item between a look and the deletion it
\* leads to, an object only goes by the hand of an environment that handles the
\* item's removal, or of one that handles a version of which it is no output; and
\* then it is at the other location, or a page.  So no interleaving takes away the
\* item's single-file outputs while nobody removes it and its location stays
\* (delete_superseded_outputs, reconcile_item_outputs).
DeletesOnlySuperseded ==
  [][\A k \in Key :
       bucket[k] # None /\ bucket'[k] = None =>
         \E w \in Workers :
           /\ k \in doomed[w] \ doomed'[w]
           /\ \/ record[w] # None /\ kind[record[w]] = "removed"
              \/ /\ ver[w] # None /\ k \notin OutputKeys(ver[w])
                 /\ k[1] # LocationOf(ver[w]) \/ k[2] \in Pages]_vars

Settled ==
  /\ \A w \in Workers : pc[w] = "idle"
  /\ \A r \in Records : status[r] \in {"unsent", "done"}

NeverRemoved == \A r \in Records : kind[r] = "created"

\* Once every record is acknowledged the bucket is the image of the source, in
\* whatever order the records came: a record names the object, not its
\* content, so a late one publishes the latest version.
SettledIsImage == Settled /\ NeverRemoved /\ src # None => IsImage(src)

\* The locations that hold every single-file output the build makes.
CompleteCopies ==
  {l \in Locations : \A p \in Direct \ Skipped : bucket[<<l, p>>] # None}

Withdrawing == \E w \in Workers : pc[w] = "remove"

\* The catalogue readers see: module Catalogue, with the complete copies of the
\* item as its state.
Readers == INSTANCE Catalogue
             WITH copies <- CompleteCopies, withdrawing <- Withdrawing

\* The handlers implement the catalogue: a copy is only retired while another
\* is complete, and the item is only taken away by an ObjectRemoved record.
ImplementsCatalogue == Readers!Spec

\* Every record that is sent is eventually acknowledged or dead-lettered; no
\* failure, crash or duplicate leaves it circulating or stuck.
EventuallyHandled ==
  \A r \in Records : status[r] = "queued" ~> status[r] \in {"done", "dlq"}
-----------------------------------------------------------------------------
(* What the documentation says and the handlers do not guarantee. *)

\* README.md:224: after a release-status flip the opposite location is deleted "so
\* a single copy remains": once every record is acknowledged one location holds
\* the item and the other nothing.  Holds while the records of an item are
\* handled one after the other (it follows from SettledIsImage).
SingleCopyRemains ==
  Settled /\ NeverRemoved /\ src # None =>
    \E l \in Locations :
      /\ CompleteCopies = {l}
      /\ \A k \in Key : k[1] = Opposite(l) => bucket[k] = None

\* s3_ops.py 469: delete_outputs is "for a genuine item deletion, where no
\* upload follows": once every record is acknowledged, the item is published if
\* its source is there and gone if it is not.
SettledFollowsSource ==
  Settled => IF src = None THEN \A k \in Key : bucket[k] = None ELSE IsImage(src)

-----------------------------------------------------------------------------
(* The inductive invariant behind the acknowledgement properties, while one  *)
(* environment handles the item's records.                                   *)

Serial == \A w1, w2 \in Workers : w1 = w2

DistOf(v) == [k \in Key |-> IF k \in OutputKeys(v) THEN v ELSE None]

\* The current call will still get to k.
Accounted(w, k) ==
  \/ k \in todo[w] \cup doomed[w]
  \/ k[2] \in Pages /\ <<FamilyOf[k[2]], k[1]>> \in scan[w]

\* Before the upload nothing is pending and dist/ holds nothing of older runs.
InvBuild(w) ==
  /\ pc[w] \in {"idle", "download", "build"} =>
       todo[w] = {} /\ scan[w] = {} /\ doomed[w] = {} /\ ~fault[w]
  /\ pc[w] = "build" => dist[w] = EmptyDist
  /\ pc[w] \in {"build", "upload", "reconcile", "supersede"} => ver[w] \in Versions
  /\ pc[w] \in {"upload", "reconcile", "supersede"} => dist[w] = DistOf(ver[w])

\* Uploads that are neither pending nor failed are in the bucket, and stay
\* there while older objects are deleted.
InvUpload(w) ==
  /\ pc[w] = "upload" =>
       /\ todo[w] \subseteq OutputKeys(ver[w]) /\ scan[w] = {} /\ doomed[w] = {}
       /\ fault[w] \/ \A k \in OutputKeys(ver[w]) \ todo[w] : bucket[k] = ver[w]
  /\ pc[w] \in {"reconcile", "supersede"} =>
       \A k \in OutputKeys(ver[w]) : bucket[k] = ver[w] /\ k \notin doomed[w]

\* Every object that must go is still accounted for, unless a request failed.
InvDelete(w) ==
  /\ pc[w] = "reconcile" =>
       /\ todo[w] = {}
       /\ fault[w] \/ \A k \in Key \ OutputKeys(ver[w]) :
                        k[2] \in Pages /\ bucket[k] # None => Accounted(w, k)
  /\ pc[w] = "supersede" =>
       /\ \A k \in Key \ OutputKeys(ver[w]) :
            k[1] = LocationOf(ver[w]) /\ k[2] \in Pages => bucket[k] = None
       /\ \A k \in todo[w] : k[1] # LocationOf(ver[w])
       /\ \A x \in scan[w] : x[2] # LocationOf(ver[w])
       /\ fault[w] \/ \A k \in Key :
                        k[1] # LocationOf(ver[w]) /\ bucket[k] # None => Accounted(w, k)
  /\ pc[w] = "remove" =>
       fault[w] \/ \A k \in Key : bucket[k] # None => Accounted(w, k)

\* What the handlers rely on between two requests: what was uploaded stays, and
\* what must go is still on the list of the call in progress.
HandlerInv ==
  \A w \in Workers : InvBuild(w) /\ InvUpload(w) /\ InvDelete(w)
=============================================================================
