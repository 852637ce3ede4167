------------------------------ MODULE Pipeline ------------------------------
(***************************************************************************)
(* The Lambda over a collection: batches of records about several items,   *)
(* whose outputs share one bucket and, in a warm environment, one /tmp.    *)
(*                                                                         *)
(* The batch loop, its answer and the queue are the actions of             *)
(* BatchHandler; keys, globs and moves are ItemKeys.  Here they meet: each *)
(* call of _handle_created and _handle_removed is a step, and so is each   *)
(* object that lands or goes before the call returns, raises or is killed. *)
(* The requests of one call are modelled one by one in ItemOutputs.        *)
(***************************************************************************)
EXTENDS ItemKeys

CONSTANTS
  Workers,    \* Lambda execution environments
  Records,    \* SQS records
  BatchSize,  \* records per invocation
  MaxReceive, \* maxReceiveCount of the redrive policy
  Budget,     \* time of an invocation
  Margin      \* LAMBDA_TIMEOUT_MARGIN_MS

ASSUME LoopAssumption ==
  /\ None \notin Records \X BOOLEAN /\ None \notin [item : Items, kind : {"created", "removed"}]
  /\ BatchSize \in Nat \ {0} /\ MaxReceive \in Nat \ {0}
  /\ Budget \in Nat /\ Margin \in Nat

VARIABLES
  status, receives, batch, i, phase, failures, remaining, context, token,
  succeeded,  \* the variables of BatchHandler
  src,        \* [Items -> version in the source bucket, or None]
  bucket,     \* [Key -> <<item, version>> the object was made from, or None]
  about,      \* [Records -> [item, kind], or None while unsent]
  stage,      \* [Workers -> the call the record's handler is in]
  got,        \* [Workers -> version downloaded, or None]
  dist        \* [Workers -> contents of dist/, as of bucket]

loop    == <<status, receives, batch, i, phase, failures, remaining, context, token, succeeded>>
store   == <<src, bucket, about>>
tmp     == <<stage, got, dist>>
vars    == <<loop, store, tmp>>

Loop == INSTANCE BatchHandler WITH Malformed <- {}

Stages == {"none", "download", "build", "upload", "reconcile", "supersede", "remove"}

\* The item of the record being handled, or None.
Handling(w) == IF stage[w] = "none" THEN None ELSE about[batch[w][i[w]]].item

Init ==
  /\ Loop!Init
  /\ src = [x \in Items |-> None]
  /\ bucket = Empty
  /\ about = [r \in Records |-> None]
  /\ stage = [w \in Workers |-> "none"]
  /\ got = [w \in Workers |-> None]
  /\ dist = [w \in Workers |-> Empty]

-----------------------------------------------------------------------------
(* Curators, the queue and the event source mapping (external).            *)

Announce(r, x, k) ==
  /\ about[r] = None
  /\ about' = [about EXCEPT ![r] = [item |-> x, kind |-> k]]

PutSource(r, x, v) ==
  /\ Announce(r, x, "created")
  /\ src' = [src EXCEPT ![x] = v]
  /\ UNCHANGED <<loop, bucket, tmp>>

DeleteSource(r, x) ==
  /\ src[x] # None
  /\ Announce(r, x, "removed")
  /\ src' = [src EXCEPT ![x] = None]
  /\ UNCHANGED <<loop, bucket, tmp>>

Invoke(w, b) ==
  /\ \A j \in DOMAIN b : about[b[j]] # None
  /\ Loop!Invoke(w, b)
  /\ UNCHANGED <<store, tmp>>

\* The process is gone, but its /tmp may be found by the next one.
Crash(w) ==
  /\ Loop!Crash(w)
  /\ stage' = [stage EXCEPT ![w] = "none"]
  /\ got' = [got EXCEPT ![w] = None]
  /\ UNCHANGED <<store, dist>>

-----------------------------------------------------------------------------
(* handler(): what happens between records touches no object.              *)

Between(w) ==
  /\ \/ Loop!SetupDone(w) \/ Loop!SetupFails(w)
     \/ Loop!TimeUp(w) \/ Loop!Begin(w) \/ Loop!LoopDone(w) \/ Loop!Report(w)
  /\ UNCHANGED <<store, tmp>>

Dispatch(w) ==
  /\ Loop!Parse(w)
  /\ stage' = [stage EXCEPT ![w] =
       IF about[batch[w][i[w]]].kind = "created" THEN "download" ELSE "remove"]
  /\ UNCHANGED <<store, got, dist>>

Enter(w, from, to) ==
  /\ stage[w] = from
  /\ stage' = [stage EXCEPT ![w] = to]
  /\ UNCHANGED <<loop, src, about>>

\* Fault: the call is not over when the record is.
LeaveLate(w) ==
  /\ got' = [got EXCEPT ![w] = None]
  /\ dist' = [dist EXCEPT ![w] = IF stage[w] = "remove" THEN dist[w] ELSE Empty]
  /\ UNCHANGED <<src, about, stage>>

\* _handle_created's finally block cleans dist/; _handle_removed leaves it.
Leave(w) ==
  /\ stage' = [stage EXCEPT ![w] = "none"]
  /\ got' = [got EXCEPT ![w] = None]
  /\ dist' = [dist EXCEPT ![w] = IF stage[w] = "remove" THEN dist[w] ELSE Empty]
  /\ UNCHANGED <<src, about>>

-----------------------------------------------------------------------------
(* _handle_created and _handle_removed.                                    *)

\* Fault (a run must notice it): no clean_dist before the download.
DownloadOnly(w) ==
  /\ stage[w] = "download"
  /\ src[Handling(w)] # None
  /\ Enter(w, "download", "build")
  /\ got' = [got EXCEPT ![w] = src[Handling(w)]]
  /\ UNCHANGED <<bucket, dist>>

\* clean_dist, clean_source_workspace, download_file.
Download(w) ==
  /\ stage[w] = "download"
  /\ src[Handling(w)] # None
  /\ Enter(w, "download", "build")
  /\ got' = [got EXCEPT ![w] = src[Handling(w)]]
  /\ dist' = [dist EXCEPT ![w] = Empty]
  /\ UNCHANGED bucket

\* run_ant.
Build(w) ==
  /\ Enter(w, "build", "upload")
  /\ dist' = [dist EXCEPT ![w] = Copied(@, [x \in {Handling(w)} |-> got[w]])]
  /\ UNCHANGED <<bucket, got>>

\* upload_dist: one object lands; all have.
Upload(w, k) ==
  /\ stage[w] = "upload"
  /\ dist[w][k] # None
  /\ bucket' = [bucket EXCEPT ![k] = dist[w][k]]
  /\ UNCHANGED <<loop, src, about, tmp>>

UploadDone(w) ==
  /\ Enter(w, "upload", "reconcile")
  /\ bucket' = [k \in Key |-> IF dist[w][k] # None THEN dist[w][k] ELSE bucket[k]]
  /\ UNCHANGED <<got, dist>>

\* A local counterpart has the same base name, in the item's own directory of
\* the same location and kind.
Counterpart(w, k) ==
  File(k.loc, k.kind, DirOf[Handling(w)], k.name) \in {a \in Key : dist[w][a] # None}

\* _build_produced_unreleased.
BuiltLocation(w) ==
  IF \E k \in Key : k.loc = "unreleased" /\ dist[w][k] # None
    THEN "unreleased" ELSE "released"

\* Fault (a run must notice it): both locations are cleared after an upload, as for a deletion.
SelectedBoth(w) ==
  CASE stage[w] = "reconcile" -> {k \in Key : Globbed(Handling(w), k) /\ ~Counterpart(w, k)}
    [] stage[w] \in {"supersede", "remove"} -> UNION {Reach(Handling(w), l) : l \in Locations}
    [] OTHER -> {}

\* What the call in progress selects for deletion: stale pages, the location
\* the build did not write, or both.
Selected(w) ==
  CASE stage[w] = "reconcile" -> {k \in Key : Globbed(Handling(w), k) /\ ~Counterpart(w, k)}
    [] stage[w] = "supersede" -> Reach(Handling(w), Opposite(BuiltLocation(w)))
    [] stage[w] = "remove" -> UNION {Reach(Handling(w), l) : l \in Locations}
    [] OTHER -> {}

\* One object goes.
Delete(w, k) ==
  /\ k \in Selected(w)
  /\ bucket[k] # None
  /\ bucket' = [bucket EXCEPT ![k] = None]
  /\ UNCHANGED <<loop, src, about, tmp>>

AllDeleted(w) == bucket' = [k \in Key |-> IF k \in Selected(w) THEN None ELSE bucket[k]]

\* reconcile_stale_page_outputs returns.
Reconciled(w) ==
  /\ Enter(w, "reconcile", "supersede")
  /\ AllDeleted(w)
  /\ UNCHANGED <<got, dist>>

\* delete_superseded_outputs or delete_outputs returns, and so does the handler.
Finish(w, d) ==
  /\ stage[w] \in {"supersede", "remove"}
  /\ AllDeleted(w)
  /\ Loop!Handled(w, d)
  /\ Leave(w)

\* Any of the calls raises.
Raise(w, d) ==
  /\ stage[w] # "none"
  /\ Loop!Failed(w, d)
  /\ Leave(w)
  /\ UNCHANGED bucket

-----------------------------------------------------------------------------

Environment ==
  \/ \E r \in Records, x \in Items : DeleteSource(r, x) \/ \E v \in Versions : PutSource(r, x, v)
  \/ \E r \in Records : Loop!Redeliver(r) /\ UNCHANGED <<store, tmp>>

Handle(w) ==
  \/ Dispatch(w) \/ Download(w) \/ Build(w) \/ UploadDone(w) \/ Reconciled(w)
  \/ \E k \in Key : Upload(w, k) \/ Delete(w, k)
  \/ \E d \in 0..Budget : Finish(w, d) \/ Raise(w, d)

Next ==
  \/ Environment
  \/ \E w \in Workers :
       Between(w) \/ Handle(w) \/ Crash(w) \/ \E b \in Loop!Batches : Invoke(w, b)

Spec == Init /\ [][Next]_vars

-----------------------------------------------------------------------------
(* Correctness. *)

About == [item : Items, kind : {"created", "removed"}] \cup {None}

\* Every variable holds a value of its kind, and a record is in a call exactly
\* while the batch loop handles it.
TypeOK ==
  /\ Loop!TypeOK
  /\ src \in [Items -> Versions \cup {None}]
  /\ bucket \in [Key -> Content]
  /\ about \in [Records -> About]
  /\ stage \in [Workers -> Stages]
  /\ got \in [Workers -> Versions \cup {None}]
  /\ dist \in [Workers -> [Key -> Content]]
  /\ \A w \in Workers : stage[w] # "none" <=> phase[w] = "handle"

\* What the calls of a record rely on: its batch is announced, and from the
\* download on dist/ is exactly what is to be published of its item, whatever an
\* invocation that was killed had left there.
WorkerInv(w) ==
  /\ phase[w] \in {"parse", "handle"} => i[w] <= Len(batch[w])
  /\ \A j \in 1..Len(batch[w]) : about[batch[w][j]] # None
  /\ stage[w] # "none" <=> phase[w] = "handle"
  /\ stage[w] = "build" => got[w] \in Versions /\ dist[w] = Empty
  /\ stage[w] \in {"upload", "reconcile", "supersede"} =>
       /\ got[w] \in Versions
       /\ \A k \in Key :
            dist[w][k] = IF k \in ImageOf(Handling(w), got[w])
                           THEN <<Handling(w), got[w]>> ELSE None

PipelineInv == \A w \in Workers : WorkerInv(w)

\* "page HTML for other items are not affected" (README.md:271), nor anything
\* else of an item, while no environment handles a record about it: neither by
\* a glob that matches more than the item's own pages nor by files of an item
\* handled before that are still in dist/.
OthersUntouched ==
  [][\A x \in Items : (\A w \in Workers : Handling(w) # x) =>
       \A k \in OwnKeys(x) : bucket'[k] = bucket[k]]_vars

\* "the cleanup always matches what was uploaded" (s3_ops.py:499): clearing the
\* opposite location deletes nothing of what this build just uploaded (unless
\* another environment handles the same item).
CleanupMatchesUpload ==
  [][\A w \in Workers :
       /\ stage[w] = "supersede"
       /\ \A v \in Workers \ {w} : Handling(v) # Handling(w)
       => \A k \in Key : dist[w][k] # None /\ bucket'[k] = None => bucket[k] = None]_vars

\* With the partition on, an object made from an unreleased version is never
\* outside unreleased/, not even between the calls of one record.
DraftsStayApart ==
  \A k \in Key : bucket[k] # None /\ bucket[k][2] \in Unreleased /\ Partition
    => k.loc = "unreleased"

\* "Works identically for one file or wildcards" (build.xml:464): a build of any
\* of the sources together puts the outputs of each item, and nothing else,
\* where a build of that item alone puts them, its own location.
BuildsAreSeparate ==
  \A S \in SUBSET {x \in Items : src[x] # None} :
    Outputs([x \in S |-> src[x]]) =
      UNION {{<<k, <<x, src[x]>>>> : k \in ImageOf(x, src[x])} : x \in S}

Announced(x) == {r \in Records : about[r] # None /\ about[r].item = x}

\* Once every record is acknowledged, each item announced by one ObjectCreated
\* record is published exactly, whatever other items its batches, its
\* environments' /tmp and its bucket were shared with.
SettledIsImage ==
  (\A r \in Records : about[r] # None => status[r] = "done") =>
    \A r \in Records : \A x \in Items :
      Announced(x) = {r} /\ about[r].kind = "created" =>
        \A k \in OwnKeys(x) :
          bucket[k] = IF k \in ImageOf(x, src[x]) THEN <<x, src[x]>> ELSE None
=============================================================================
