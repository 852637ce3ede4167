# A verification model of the CUDL data-processing Lambda

This directory holds TLA+ modules that model the part of
`cudl-data-processing-xslt` in which state changes over time: the AWS Lambda
that turns a TEI file into web outputs and keeps the output bucket in step
with the source bucket. The modules are checked with TLC on small instances,
and their main invariants are proved with TLAPS for every value of the
constants. Paths below are relative to the repository; `README.md:<line>` is the
repository's README, `handler.py` and its neighbours are in
`aws-lambda-docker/src/`, and `build.xml` and `partition_unreleased.py` in
`aws-lambda-docker/bin/`.

## 1. The system

```
 curators --PUT/DELETE--> source bucket --S3 event--> SQS queue (redrive policy, DLQ)
                                                          | batches
                                                          v
  Lambda environment:  handler() ------------------> batchItemFailures
                          | one record at a time
                          |
      ObjectCreated       |        ObjectRemoved
      clean_dist          |        delete_outputs (both locations)
      clean_source_workspace
      download_file, resolve_release_status
      run_ant --> build.xml --> partition_unreleased.py --> dist/
      upload_dist (10 threads)
      reconcile_stale_page_outputs
      delete_superseded_outputs (the location the build did not write)
                          v
                    output bucket: <key>  or  unreleased/<key>  --> readers
```

An item's outputs live at one of two *locations* of the output bucket, the
released layout or the same layout below `unreleased/`, according to the release
status in the TEI header. They are single-file outputs (the viewer, Solr and
digital-preservation JSON, core-xml, the TEI itself) and per-page outputs of two
families (page HTML and page XML).

### Inventory

| component | state | operations | what makes it correct |
|---|---|---|---|
| Item pipeline: `handler.py` `_handle_created`, `_handle_removed`, and the S3 functions of `s3_ops.py` | the output bucket; per environment `dist/`, the version downloaded, the keys still to upload, look up or delete, the failures collected | download, build, upload, list, head, delete | an acknowledged record leaves exactly the image of the source; nothing old goes before everything new is there; nothing goes but what a removal or a newer version supersedes |
| Batch loop: `handler.py` `handler` | position in the batch, `batch_item_failures`, remaining time, log context and token; the queue's receive counts | invoke, set-up, next record, parse, dispatch, answer | a record is acknowledged only if it was handled; it never circulates for ever; log lines name the record they are about |
| Upload pool: `s3_ops.py` `upload_dist`, `_process_and_upload`, `_get_thread_client` | futures, thread-local clients, the creation lock, objects with their metadata | submit, take, lock, make a client, HEAD, skip, PUT, collect | a normal return means that the bucket holds what `dist/` holds; no two threads share a client; it always returns |
| Ant build: `build.xml` | `chunk/`, `tmp/`, `dist-pending/`, `dist/` | the steps of `full` and `full-metadata-update` | `dist/` is the image of the sources, whatever an aborted build left |
| Unreleased partition: `partition_unreleased.py` | `dist-pending/` | find the unreleased stems, move flat files, move directories | each item in the location of its release status |
| Workspace and Ant invocation: `processor.py` | `/tmp` between records | clean, run | nothing of one record reaches the next |
| Error routing: `exceptions.py`, `processor._classify_error`, the S3 error codes | none | classify | retried exactly when a retry can help |
| Release status: `tei.py`, `msTeiPreFilter.xsl` | none | parse a header | two programs give one answer |
| Local runner: `local_runner.py` | a workspace that is never cleaned | build | as the Ant build |
| Pagination: `pagify.xsl`, run twice by `build.xml` | `chunk/`, the page XML directory | cut into chunks, then each chunk into pages | a page holds all of its text and nothing of another page, wherever the chunks were cut and whichever comes first |
| Metadata transforms, transcription rendering, collection information | none | document to document | structure and formatting |
| Structured logging and metrics | log context | set, reset, format | the right context |
| Web assets, container files | none | packaging | - |

What is hard here: requests to S3 of several environments interleave, because a
standard queue gives the records of one item to any of them; every request may
fail, and an error answer does not say that the request was not applied; the
function may be killed between any two requests and its `/tmp` is reused;
records come late, twice and out of order; deletions fail one by one inside
successful batches; ten threads share one process; items are told apart by
names, prefixes and globs in one bucket; documents are cut into pages by way of
chunks whose seams fall anywhere; and the build has two flags
(`XSLT_FAIL_ON_ERROR`, `SKIP_CORE_XML_COPY`) that change which of its steps the
partition may rely on. `PROJECT.json` lists these hazards, each at its line and
with the properties that watch it.

## 2. The modules

| module | models | abstracts |
|---|---|---|
| `Catalogue` | what readers of the bucket are promised: a superseded copy goes only while another complete one stands, unless the item is being withdrawn | the abstract specification of `ItemOutputs` |
| `ItemOutputs` | one item: curators, the queue, the record handlers, every S3 request | an object's content to the version it was built from |
| `BatchHandler` | the batch loop, the answer, the event source mapping and the redrive policy | what handling a record does: time and an outcome |
| `UploadPool` | one upload after another, thread by thread, request by request | bytes to a content, a SHA to the content it was computed from |
| `ItemKeys` | names: the keys of an item, the globs that list and delete, the moves of the partition, the outputs of a build | a name to its parts between hyphens, a directory to its segments |
| `Pipeline` | several items in one bucket: batches of records about them, handled by `BatchHandler`'s loop (an INSTANCE), call by call, with `ItemKeys` and a warm `/tmp` | a call to the objects that land or go before it returns, raises or is killed |
| `Pagify` | one document through both passes of the pagination | a document to its page breaks and the leaves between them |
| `AntBuild` | one build after another in one workspace, target by target | an output to the version it was made from, the pages of an item to one |

`MCItemOutputs`, `MCBatchHandler`, `MCUploadPool`, `MCAntBuild`, `MCPipeline` and
`MCPagify` instantiate them for TLC. `ItemOutputsProofs`, `ItemSerialProofs`, `BatchHandlerProofs`,
`UploadPoolProofs`, `PipelineProofs`, `PipelineSettledProofs`, `AntBuildProofs` and
`PagifyProofs` hold the proofs. An operator marked *Fault* in a module is a
deliberately wrong version of the definition that follows it: substituted for that
definition, it must make the property violated that watches for this mistake.
No specification refers to it.

`Pipeline` composes the batch loop with the record handlers: its steps are
`BatchHandler`'s, joined with what each does to the bucket and to `dist/`, so
that `BatchHandler!TypeOK` is part of its own. Elsewhere the modules meet where
what is a property on one side is used as an action on the other:

* `ItemOutputs!Build` puts exactly the outputs of the downloaded version, at one
  location, into `dist/`: `AntBuild!BuildIsExact` and `AntBuild!PartitionSound`.
* `ItemOutputs!UploadFile` and `UploadDone` let uploads land in any order and go
  on only when none failed: `UploadPool!OkMeansCurrent`.
* `Pipeline!Upload`, `Delete` and `Raise` are the effects, one object at a time, of
  calls whose requests are the subject of `ItemOutputs`.
* `AntBuild` lets the pagination make any of an item's pages or fail; `Pagify` says
  which pages there are.
* `BatchHandler!Handled` and `Failed` say only that a record succeeds or fails;
  `ItemOutputs!ClearDone` and the other returns say what that means for the
  bucket. A record acknowledged there is one `BatchHandler` leaves out of the
  answer (`AcknowledgedWasHandled`).

### ItemOutputs and the code

| state | code |
|---|---|
| `src`, `bucket` | the item's object in the source bucket; its keys in the output bucket |
| `status`, `kind`, `receives` | the SQS records about the item |
| `pc`, `record`, `ver` | the call the handler is in, its record, the version downloaded |
| `dist` | `dist/` in the environment's `/tmp`; it survives a kill |
| `todo` | uploads not yet made, or single-file outputs not yet looked up |
| `scan`, `doomed` | prefixes not yet listed; keys found present and not yet deleted |
| `fault` | the error lists that are collected and raised at the end of a call |

| action | code |
|---|---|
| `Receive`, `Requeue` | the record is dispatched; the answer returns it to the queue |
| `Download` | `clean_dist`, `clean_source_workspace`, `download_file` |
| `Build` | `run_ant`, and the walk over `dist/` that starts `upload_dist` |
| `Raise` | the download, the header or the build raises; a listing of the reconciliation; or, while keys are deleted, an error that is no `ClientError` |
| `UploadFile`, `UploadDone` | one future; the errors raised together |
| `ListStale`, `DeleteObject`, `ReconcileDone` | `reconcile_stale_page_outputs`: all listings, then the deletions |
| `HeadObject`, `ListPages`, `DeleteObject`, `ClearDone` | `_delete_item_location`: each target looked up and deleted before the next; failures collected and raised |
| `Crash` | the environment is killed: no `finally` runs |

A request that writes has three outcomes: it lands and succeeds, it fails and
does not land, or it lands and the answer is an error.

### BatchHandler, UploadPool and AntBuild

`BatchHandler` keeps the batch, the loop index, the failure list, the time left
and the context token of every invocation. Set-up that fails, the margin
reached, a malformed message, a failing record and a killed invocation are
actions of their own; a permanent failure is the same step as a transient one,
because the handler reports both. `succeeded` is a history variable that no guard
reads.

`UploadPool` keeps an object's content and its two metadata fields apart, so
that a SHA may outlive its content. Threads take the lock, make a client (which
may raise under the lock), HEAD (which may answer 404, fail, or answer with the
metadata), skip or upload. A call starts with any contents, any flags and
whatever objects earlier calls left, killed ones included.

`AntBuild` is a program counter over `Plan`, the order in which the `depends` lists
of the target make Ant run its steps. An XSLT step makes any subset of what it
should and then goes on or aborts as `XSLT_FAIL_ON_ERROR` says. The partition
may die after any of its moves; a moved file replaces its destination and a
moved directory nests in an existing one. Between builds the sources change; the Lambda
empties `dist/` and `dist-pending/` but not `tmp/` and `chunk/`.

### Pipeline and ItemKeys

An item is the file `items/<dir>/<stem>.xml`. A key is a record of its location,
kind, directory and name, a name the sequence of its parts between hyphens: so
`MS` is a prefix of `MS-1`, and `MS-1` may be the name of an item and of a page of
`MS`. `DirectKeys` and `Globbed` are the direct keys and the patterns of
`_delete_item_location` and `_collect_stale_page_keys`; `MovedFor` is `move_flat`,
which goes by the name of the file, and `move_nested`, which goes by the names of
the directories above it.

| state | code |
|---|---|
| the variables of `BatchHandler` | the queue and the loop of `handler` |
| `src`, `bucket`, `about` | the source bucket; the output bucket, each object with the item and version it was made from; what each record announces |
| `stage`, `got` | the call of `_handle_created` or `_handle_removed` that runs; the version downloaded |
| `dist` | `dist/` in the environment's `/tmp`, which survives a kill and is then full |

`Upload` and `Delete` let one object land or go, in any order; `UploadDone`,
`Reconciled` and `Finish` are the return of a call, by which all have; `Raise`
and `Crash` end it with whatever has happened so far. `Leave` is the `finally`
block.

### Pagify

A document is the sequence of its page breaks and leaves; a page break has its
surface and whether it is in a translation, a leaf whether it is text and how
many of the breaks before it the element around it contains. A chunk or a page
file is the set of positions copied into it. `CreatePages` is the first pass:
it groups the breaks, transcription and translation apart, into chunks of
`ChunkSize`. `TransformPages(c)` is the second pass over one chunk; the order of
the chunks, which the file set of Ant decides, is left open, and a page file
written twice is the one written last. `Excerpt` is `util:page-content`: it
copies what lies before the end of the page, and if there is no later break the
end is the last node of the file, which is before nothing.

## 3. What the runs check

Passing runs:

| run | instance | shows |
|---|---|---|
| `item_serial` | 1 environment, 2 records received up to twice, 2 versions (the second unreleased, with a page fewer), 2 single-file outputs, a page of HTML and one of page XML, partition on; fair | the type invariant; `SettledIsImage`; `AcknowledgedIsPublished`, `AcknowledgedIsRemoved`; `MakeBeforeBreak`; `ImplementsCatalogue` (the refinement); `EventuallyHandled`; the inductive invariant `HandlerInv` |
| `item_flags` | 2 environments, 2 records received up to twice, the same versions, 2 single-file outputs of which one is skipped by a flag, 1 page, partition off | `DeletesOnlySuperseded`: however the requests of the two interleave, an object is only deleted for a removal, or by an environment that handles a version without that output, at the other location or as a page. It fails as soon as the location is taken from the release status and not from `dist/` |
| `batch` | 2 environments, 2 records of which one is malformed, batches of 2, budget 2, margin 1; fair | `ReportIsExact`, `ContextNamesRecord`, `AcknowledgedWasHandled`, the inductive invariant `BatchInv`, and `EventuallySettled`: every record is deleted or dead-lettered in the end |
| `upload_pool` | 3 calls, 2 files, 2 threads, 2 contents; fair | `OkMeansCurrent`, `ClientsAreOwn`, the inductive invariant `PoolInv`, and `CallReturns`, also when making a client raises under the lock |
| `build` | 2 builds of 2 items with 3 versions in each of four configurations (`MCConfigs`): the Lambda with `full` and core-xml in `tmp/`; with `full-metadata-update`, two kinds skipped and the partition off; with `XSLT_FAIL_ON_ERROR=false`; and the local runner with page XML in `tmp/` | `BuildIsExact`, `BuildIsComplete`, `PartitionSound`, the inductive invariant `BuildInv`; and `BuildIsOwn`: a tolerant build may be incomplete, but holds nothing foreign and nothing in two places |
| `pipeline` | 2 environments, 2 records, batches of 2, 2 versions (the second unreleased), each with the page, 2 items `MS` and `MS-1` in directories of their own, the page being `1`, a flat, a single-file and a paged kind, partition on | `PipelineInv`: from the build on, `dist/` is exactly the image of the version downloaded; `OthersUntouched`: no glob, no prefix and no file left in `/tmp` lets a record about one item change another; `CleanupMatchesUpload`; `DraftsStayApart`; `BuildsAreSeparate`: a build of several items is the union of their builds; `SettledIsImage` |
| `pagify` | every document of 1 to 4 pages, each in the transcription or the translation, with one of five bodies (`Bodies`); 2 chunks | `PagesAreOwn`; `TwoPassesAreOne`: the pages are those of a single pass over the document, unless a page ends in a leaf whose element goes back before the page; `LostOnlyAtSeams`: even then only that leaf may be missing, and at the end of the document the leaf before it, and only on the last page of a chunk; `WrittenOnce`; the inductive invariant `PagifyInv` |

Runs that TLC must find violated, because the code does not do what the
documentation says (section 6): `item_concurrent`, `item_late_removal`, `pipeline_shared_dir`,
`pipeline_no_dir`, `pagify_lost`.

### Bounds

* `Records`, `Versions`: two records and two versions are a release-status flip
  in either direction, a page removed or added, and a deletion of what was
  published. The late removal needs three records.
* `MaxReceive = 2` is one retry, which is all a retry can show: it starts from
  the beginning on what the first attempt left, and the left-overs of a first
  attempt are already every partial state.
* `Direct`, `Pages`: two of each let one request succeed where another fails,
  and one page outlive the other. One is HTML and one page XML, so that
  one version has a family the other lacks. In `item_flags` a second environment takes
  the place of the second page.
* `MaxCalls = 3` in `UploadPool` lets a SHA be written, outlived by a call without
  SHAs and consulted by a third. With one release status an object may still
  lack the status that a later call enables.
* `MaxBuilds = 2`: what an aborted build leaves and the build that finds it, which
  replaces all that properties speak of. Two items tell the record's item from
  what is left of another. A configuration stays the same for a workspace, as
  the environment variables of a deployed function do.
* `Budget = 2`, `Margin = 1`: a record takes 0, 1 or 2 units, so that after it the
  next one may be begun, or must be returned unprocessed. Two records are enough
  for two invocations at once and for a batch in which one fails; the theorems of
  `BatchHandlerProofs` hold for any number.
* `Pipeline`: two items are one pair of names, and `MS`, `MS-1` with a page `1` is
  the pair in which everything that can coincide does: one stem extends the
  other, and the page of the one has the name of the other. `Budget = Margin = 0`
  leaves time out, which touches no object and is the subject of `batch`. Two
  records are two items in one batch, one item twice, or one item in each of two
  environments.
* `Pagify`: with two chunks, documents of two and three pages have chunks of one page
  and documents of four have chunks of two; with alternating translations
  there are up to four groups, of which some overlap. The Lambda's eight chunks
  differ in the number of seams, not in their kind. A page has at most two leaves,
  as only the last leaf is treated differently, and at the document's end the last
  two; the document of one page and two leaves shows that both may be lost.
* The model copies `dist-pending/` to `dist/` in one step. A build killed inside
  the copy uploads nothing, and the next record's `clean_dist` removes what it left.

Deadlock is not checked where the instance runs out of records, calls or
builds: the system then really stops. `EventuallyHandled`, `EventuallySettled` and
`CallReturns` are what exclude stopping early.

### Fairness

A running handler is scheduled and the event source mapping keeps polling as
long as the queue holds a record: weak fairness of an environment's step and of
its receiving or invoking. In `UploadPool`, the interpreter schedules each thread
with something to do, an idle thread takes a queued future, and
`upload_dist` returns when all futures are done. No fairness is assumed of
failures, kills, curators or redeliveries. Receive counts bound the retries, so
no fairness is needed to say that a failing record stops.

## 4. What is proved

Assumptions are those of the modules: `ConstantsAssumption`, `BatchAssumption`,
`PoolAssumption`, `NamesAssumption`, `LoopAssumption`, `BuildAssumption`, `PagifyAssumption`
(distinct kinds of value, subsets that are subsets, counts that are natural numbers,
and in `Pagify` documents that are well numbered, `WellNumbered`: see section 5).
Three theorem groups have a hypothesis besides, which is not an assumption of the
module because the code runs without it and then breaks the properties: `Serial`,
that one environment handles the records of the item (`ItemSerialProofs`; without
it `item_concurrent`); `KeysApart` and `DirsApart` (`PipelineProofs`; without
them `pipeline_shared_dir` and `pipeline_no_dir`); and `FreshConfigs` (`AntBuildProofs`;
section 6). Sets of keys, records, pages, files, threads, records per
batch, versions, items and names are arbitrary.

* `ItemOutputsProofs`, for any number of environments: `TypeCorrect`; `HeldByOne`,
  that a record is held by at most one environment and never busy without one;
  and `DeletesAreOfSuperseded` (`DeletesOnlySuperseded`). As any other environment may
  change the bucket between two steps of one, its invariant `OwnInv` does not
  mention the bucket: it says of the keys that an environment has still to look up, list or
  delete that they are other than those of the version it handles, and that they
  stay so until the end of the call.
* `ItemSerialProofs`: `SerialInvariant` establishes `HandlerInv`; the inductive
  invariant is `TypeOK /\ HeldOnce /\ HandlerInv`. None of the properties is inductive by
  itself: that an acknowledged record leaves an exact image rests on everything
  the three phases promise one another. `InvBuild` says that nothing of an earlier
  record is in `dist/`, `InvUpload` that an upload neither pending nor failed is
  in the bucket and stays there, and `InvDelete` that an object that must go is
  still *accounted for* (to be looked up, listed or deleted) unless a request
  failed. From it follow `PublishedWhenAcknowledged`
  (`AcknowledgedIsPublished`), `RemovedWhenAcknowledged`, `NewBeforeOld`
  (`MakeBeforeBreak`),
  `CatalogueImplemented` (the refinement of `Catalogue`: initial states to
  initial states, each step to a step or a stutter), and `SettledFollows`
  (`SettledIsImage`), whose invariant says that an announcement is outstanding or
  that the bucket is the image of the source. The partition and the flags are arbitrary
  here, while `item_serial` runs with the partition on.
* `BatchHandlerProofs`: `BatchTypes` and `BatchInvariant`; from it `ReportExact`,
  `ContextCorrect` and `AcknowledgedHandled`. The invariant splits the batch at
  the loop index: before it, a record has succeeded or is in the failure list,
  and never both.
* `UploadPoolProofs`: `PoolTypes`, `PoolInvariant` (a SHA names the content beside it; a
  finished future left the object current; a future in progress has exactly one
  thread; the lock has one holder, which is making a client; every client number
  was made once), `ClientsOwn`, and `UploadIsComplete` (`OkMeansCurrent`).

* `PipelineProofs`, for any collection, any number of environments and batches of
  any length. Two hypotheses about the names of the items take the place of an
  instance: `KeysApart` (no key of one item is a key of another, nor matched by its
  globs) and `DirsApart` (a directory above an item is called like the item's own
  stem and no other's). `OwnDirectoriesAreApart` shows that both follow from the
  layout of the repository's examples, `<dir>/<stem>/<stem>.xml` with distinct
  stems; `pipeline_shared_dir` and `pipeline_no_dir` show that without them the
  properties fail. The moves of a build of several items are each item's own
  (`MovedForItself`), so that its outputs are the union of the items' images
  (`OutputsAreImages`); from that follow `BuildsAreApart` (`BuildsAreSeparate`) and
  the inductive invariant `TypeOK /\ PipelineInv`: `PipelineTypes` and
  `DistIsOwnImage`. `TypeOK` needs it, since the loop's types say nothing of a position
  beyond the batch. The bucket changes only by an upload or by a cleanup
  (`BucketSteps`), an upload puts only what is in `dist/` and a cleanup takes only
  what the item's own keys and globs name: `OthersAreUntouched`, `CleanupIsMatched`
  and `DraftsAreApart`. `PipelineRunsTheLoop` says in any layout that `Pipeline`
  implements `BatchHandler`, and `OwnDirectoriesSuffice` sums the others up.

* `PipelineSettledProofs`, under the same hypotheses: `SettledIsPublished` (`SettledIsImage`),
  and `OwnDirectoriesSettle` from the layout alone. The invariant `SettledInv` follows the one
  version of an item announced by one ObjectCreated record: each environment
  works on it (`OneVersion`), nothing else was ever put under the item's keys
  (`OnlyImage`), and all of it is there from the end of an upload on (`Uploaded`,
  `Published`), since neither the reconciliation nor the cleanup selects any of it.
  `LoopInv` closes the argument: a record leaves the answer only through
  `succeeded`, and that only through an upload.
* `AntBuildProofs`: `BuildTypes` in every configuration, the rest under `FreshConfigs`: a
  build starts with the cleanup (`full`), or else in the Lambda and with no
  left-over core-xml to make JSON from. The items, the versions, the other flags and the number of
  builds are arbitrary; a build may be killed, or stop at an error, at every position.
  `BuildInvariant` says for each position of the plan what is where: what
  `chunk/`, `tmp/` and `dist-pending/` hold was made by this build
  of the present sources, with HTML in `www/` up to its relocation and nothing in
  `unreleased/` up to the partition (`PendingSound`, `SourcesSound`); where errors
  fail the build nothing is missing (`PendingComplete`); and `dist/` is as the
  builds before left it up to the copy (`DistInv`). One lemma for each of the steps shows
  that it hands this on to the next. `PartitionIsSound`, `SuccessIsComplete`, `DistIsOwn` and
  `DistIsExact` read the four properties off it. None of them is inductive: each speaks
  of `dist/` at the end, which is a copy of what eleven steps have prepared.
* `PagifyProofs`: `PagifyTypes`, `PagifyInvariant`, `PagesOwn` (`PagesAreOwn`), `PagesOnce`
  (`WrittenOnce`), `OnlySeamsLose` (`LostOnlyAtSeams`) and `ChunksChangeNothing`
  (`TwoPassesAreOne`), for documents of any length, any surfaces, any order of
  transcription and translation, and any number of chunks. The argument is that a
  chunk is convex: between two of its nodes it leaves out none, so the next break in a
  chunk is the next break of the document, unless the page is the last of the
  chunk. What a chunk makes of a page is then the page itself (`Span`), but for a
  last leaf that the chunk's end drops and one that the document's end does, and the
  properties differ only in what they say of those leaves. `TwoPassesAreOne` needs
  besides that a break counted into a group is in that group's chunk and, in a document whose
  translation follows its transcription, in no other (`GroupIsWhole`), for which the
  number of breaks up to a position must grow with the position.

Only model-checked are liveness (`EventuallyHandled`, `EventuallySettled`,
`CallReturns`), which the prover cannot do, and the counterexamples. Every invariant
and every action property of a passing run is stated by a theorem.

## 5. Not modelled

* The single-output targets of `build.xml` and `collection-update`, which need
  other inputs than the Lambda provides by default, and `_copy_to_s3`, which no
  entry point reaches (`run_ant` sets `ENVIRONMENT=local`).
* Which Ant message or S3 error code is permanent and which transient:
  `BatchHandler` has one kind of failure, as the handler answers alike for both,
  and the kind reaches only logs and metrics.
* What is run in one layout or instance only: `BuildsAreSeparate` is a property of the
  names alone, and is run (and proved) for items with directories of their own;
  the `SettledIsImage` of `Pipeline` speaks of items announced once, while several
  announcements of one item are the subject of `ItemOutputs`; and a release-status
  flip handled by two environments is met by `item_concurrent` and by the theorem
  `DeletesAreOfSuperseded`, as `item_flags` has the partition off.
* Characters: names are sequences of abstract parts. That S3 URL-encodes keys in
  its notifications and `handler.py:49` does not decode them, and that a TEI file
  with a dot in its name has page files named by another stem than the one
  `s3_ops.py:333` computes, are listed as hazards and not modelled.
* The release status as a function of the header: it is a constant of a version.
  `tei.py` and `msTeiPreFilter.xsl` evaluate the same expression, which a test of
  the repository compares; two models of it would be two copies of one formula.
* Requests that boto3 sends again by itself (`s3_ops.py:26`): a request is one step, at
  the point where it lands.
* In `Pagify`: page breaks with one `@n`. The stylesheet looks breaks up by number
  and surface (`pagify.xsl:278-296`) and nothing makes numbers unique; outside
  translations two breaks with one number give the value `id1 id2`, which is the
  id of neither, and the page is silently not made. `WellNumbered` excludes this, from the
  run and from the theorems.
* In `Pagify` also: `#unpaginated` divisions, which are copied whole; breaks linked by
  `@next` and `@prev`; breaks in additions and notes, which the stylesheet treats
  like any element; the pruning of the header.
* The content of documents: metadata, transcription and collection transforms,
  formatting, logging format and metrics, packaging. These are transformations
  without state, most of their thousands of lines about wording.
* The JavaScript files of the repository. They are web assets below
  `xslt/transcription/web/` that the build copies beside the HTML: jQuery, MathJax,
  Modernizr and plug-ins, which are vendored, and two short scripts that draw
  tooltips and stretched symbols in a reader's browser. No part of the data
  processing runs them, and a model of them would say nothing about it. A count of
  modelled lines that looks at JavaScript only is therefore near zero: the system
  is written in Python, Ant and XSLT, which is what `PROJECT.json` maps.

## 6. Where the code and its documentation differ

| run | what happens |
|---|---|
| `item_concurrent` | two records of one item in two environments around a flip each upload to one location and delete the other; both are acknowledged and no complete copy is left. README.md:224 promises that "a single copy remains" |
| `item_late_removal` | a late or repeated ObjectRemoved record deletes the outputs of an item that was re-created; nothing looks whether the source is gone |
| `pipeline_shared_dir` | with `MS.xml` and `MS-1.xml` in one directory, the pattern `MS-*.html` matches the pages of `MS-1`: a record about `MS` deletes them as stale. README.md:271 says that other items are not affected. The run `pipeline` shows that a directory for each item is enough to prevent it |
| `pipeline_no_dir` | an unreleased item that is not in a directory named after it: the partition moves its flat JSON and leaves the rest in the released layout; the files under `dist/unreleased/` then make the cleanup delete the released keys that were just uploaded. `s3_ops.py:498-499` says that "the cleanup always matches what was uploaded" |
| `pagify_lost` | the last page of a chunk has one text node, in a paragraph that began before the page and goes on after it: the second pass leaves out the last node of a chunk file, so the page is empty and not made. README.md:7 says that there is HTML "for every page transcription or translation". If the page has more leaves, only the last is missing; on the last page of the document, where both passes leave out a last node (`pagify.xsl:64`, `:118`), the one before it may be missing too (`LostOnlyAtSeams`). White space or an element before the next page break prevents it |

Smaller differences met while reading, for which no run is kept:

* `_delete_item_location` looks a single key up before it deletes it, so that no delete marker
  is written for an absent one, but these are two requests (`s3_ops.py:433`): another
  environment that deletes the key between them, or a DELETE that landed and that
  boto3 sends again (`s3_ops.py:26`), makes the deletion a blind one.
* The stale-page cleanup also deletes page XML (`s3_ops.py:339`), which README.md:270-271
  excludes.
* A record returned unprocessed at the margin has spent a receive; unlucky often
  enough it is dead-lettered without having been begun. README.md:263 promises a
  later batch.
* With only `ENABLE_RELEASE_STATUS_METADATA` every file is uploaded (`s3_ops.py:185`);
  README.md:239-242 says that matching files are skipped. The code's way is the
  safe one.
* With `XSLT_FAIL_ON_ERROR=false` an unreleased item whose core-xml could not be made
  counts as released (`partition_unreleased.py:30`).
* `full-metadata-update` has no cleanup of its own (`build.xml:114`). In a local workspace, which
  nothing else cleans, it copies what a failed build left in `dist-pending/`: the
  TEI of a draft whose core-xml could not be made, which the partition of the next build,
  of another item, takes for released, so that `PartitionSound` fails. In the Lambda, `clean_dist` empties `dist-pending/` but not `tmp/`:
  with `SKIP_CORE_XML_COPY=true` the core-xml is there, and with
  `XSLT_FAIL_ON_ERROR=false` a build that cannot make it goes on to make JSON from
  the one that a killed build of an earlier source left, so that `BuildIsOwn` fails.
  TLC finds both as soon as such a configuration is added to `MCConfigs`;
  `FreshConfigs` excludes exactly these.

## 7. Plan

1. A composition of `AntBuild` with `ItemOutputs` for targets that make no pages,
   where the reconciliation sees none.
2. As theorems, the assumptions the modules make of one another (section 2): that
   a build of `AntBuild` whose result is "ok" is a step `Build` of `ItemOutputs`, and a call
   of `UploadPool` that returns "ok" an `UploadDone`.
