----------------------------- MODULE UploadPool -----------------------------
(***************************************************************************)
(* upload_dist of s3_ops.py: the thread pool that puts the files of dist/  *)
(* into the output bucket.                                                 *)
(*                                                                         *)
(* A call submits one future per file.  Each pool thread keeps an S3       *)
(* client of its own, made under a lock on first use, and for every file   *)
(* it takes either HEADs the destination and skips an unchanged object, or *)
(* uploads.  Requests fail; the environment may be killed in the middle,   *)
(* and the next call finds what the killed one had already uploaded.      *)
(*                                                                         *)
(* A file's bytes are abstracted to a content, and a SHA to the content it *)
(* was computed from.                                                      *)
(***************************************************************************)
EXTENDS Naturals

CONSTANTS
  Files,     \* keys a dist/ may be uploaded to
  Threads,   \* MAX_UPLOAD_WORKERS pool threads
  Contents,  \* contents of files
  Statuses,  \* release statuses: released, draft
  None,      \* no object, no file, no metadata field, no thread
  MaxCalls   \* bound on the calls of upload_dist

Object ==
  [content : Contents, sha : Contents \cup {None}, release : Statuses \cup {None}]

ASSUME PoolAssumption ==
  /\ None \notin Files \cup Threads \cup Contents \cup Statuses \cup Object
  /\ MaxCalls \in Nat

VARIABLES
  objects, \* [Files -> object of the output bucket, or None]
  local,   \* [Files -> content of the file in dist/, or None]
  flags,   \* the keyword arguments of the call
  result,  \* how the call ended, or "running"
  outcome, \* [Files -> state of the file's future]
  pc,      \* [Threads -> where the thread is in _process_and_upload]
  task,    \* [Threads -> file the thread works on, or None]
  client,  \* [Threads -> number of the thread's own S3 client; 0: none yet]
  lock,    \* holder of _client_creation_lock, or None
  made,    \* clients made in this call
  calls    \* calls of upload_dist so far

call    == <<local, flags, calls>>
threads == <<pc, task, client, lock, made>>
vars    == <<objects, call, threads, result, outcome>>

Flags ==
  [sha : BOOLEAN, status : Statuses \cup {None}]  \* status None: its flag is off

Settled == {"uploaded", "skipped", "failed"}

\* The user-metadata of file f: the fields of the enabled flags.
Metadata(f) ==
  [sha     |-> IF flags.sha THEN local[f] ELSE None,
   release |-> flags.status]

\* Fault (a run must notice it): an upload keeps the SHA an object had.
UploadedKeepsSha(f) ==
  [content |-> local[f],
   sha |-> IF flags.sha \/ objects[f] = None THEN Metadata(f).sha ELSE objects[f].sha,
   release |-> flags.status]

\* The object that uploading f makes; an upload replaces all metadata.
Uploaded(f) ==
  [content |-> local[f], sha |-> Metadata(f).sha, release |-> Metadata(f).release]

\* Fault: only the SHA is compared.
ShaMatches(f) ==
  objects[f] # None /\ objects[f].sha = Metadata(f).sha

\* _dest_metadata_matches: every field of the metadata is there with its value.
DestMetadataMatches(f) ==
  /\ objects[f] # None
  /\ \A field \in {"sha", "release"} :
       Metadata(f)[field] # None => objects[f][field] = Metadata(f)[field]

-----------------------------------------------------------------------------

Init ==
  /\ objects = [f \in Files |-> None]
  /\ local = [f \in Files |-> None]
  /\ flags = [sha |-> FALSE, status |-> None]
  /\ result = "none"
  /\ outcome = [f \in Files |-> "absent"]
  /\ pc = [t \in Threads |-> "idle"]
  /\ task = [t \in Threads |-> None]
  /\ client = [t \in Threads |-> 0]
  /\ lock = None
  /\ made = 0
  /\ calls = 0

\* Fault: a future is submitted for every key, whether dist/ has it or not.
CallEveryKey(contents, arguments) ==
  /\ result # "running"
  /\ calls < MaxCalls
  /\ calls' = calls + 1
  /\ local' = contents
  /\ flags' = arguments
  /\ outcome' = [f \in Files |-> "submitted"]
  /\ result' = "running"
  /\ pc' = [t \in Threads |-> "idle"]
  /\ task' = [t \in Threads |-> None]
  /\ client' = [t \in Threads |-> 0]
  /\ lock' = None
  /\ made' = 0
  /\ UNCHANGED objects

\* A new call: dist/ holds the files of contents, the pool is empty.  Without
\* files there is no pool and the call returns.
Call(contents, arguments) ==
  /\ result # "running"
  /\ calls < MaxCalls
  /\ calls' = calls + 1
  /\ local' = contents
  /\ flags' = arguments
  /\ outcome' = [f \in Files |-> IF contents[f] = None THEN "absent" ELSE "submitted"]
  /\ result' = IF \A f \in Files : contents[f] = None THEN "ok" ELSE "running"
  /\ pc' = [t \in Threads |-> "idle"]
  /\ task' = [t \in Threads |-> None]
  /\ client' = [t \in Threads |-> 0]
  /\ lock' = None
  /\ made' = 0
  /\ UNCHANGED objects

\* An idle thread takes a submitted future; _thread_s3_client returns the
\* client it has, or goes for the lock.
Take(t, f) ==
  /\ result = "running"
  /\ pc[t] = "idle"
  /\ outcome[f] = "submitted"
  /\ outcome' = [outcome EXCEPT ![f] = "running"]
  /\ task' = [task EXCEPT ![t] = f]
  /\ pc' = [pc EXCEPT ![t] = IF client[t] = 0 THEN "lock" ELSE "check"]
  /\ UNCHANGED <<objects, call, client, lock, made, result>>

\* Fault: clients are made without the lock.
AcquireUnlocked(t) ==
  /\ pc[t] = "lock"
  /\ lock' = t
  /\ pc' = [pc EXCEPT ![t] = "create"]
  /\ UNCHANGED <<objects, call, task, client, made, result, outcome>>

Acquire(t) ==
  /\ pc[t] = "lock"
  /\ lock = None
  /\ lock' = t
  /\ pc' = [pc EXCEPT ![t] = "create"]
  /\ UNCHANGED <<objects, call, task, client, made, result, outcome>>

\* The future of thread t's file ends in o.
Finish(t, o) ==
  /\ outcome' = [outcome EXCEPT ![task[t]] = o]
  /\ task' = [task EXCEPT ![t] = None]
  /\ pc' = [pc EXCEPT ![t] = "idle"]

\* Fault: the lock is not released when making the client raises.
CreateKeepsLock(t) ==
  /\ pc[t] = "create"
  /\ \/ /\ made' = made + 1
        /\ client' = [client EXCEPT ![t] = made + 1]
        /\ pc' = [pc EXCEPT ![t] = "check"]
        /\ lock' = None
        /\ UNCHANGED <<task, outcome>>
     \/ /\ Finish(t, "failed")
        /\ UNCHANGED <<client, made, lock>>
  /\ UNCHANGED <<objects, call, result>>

\* boto3.client under the lock, which is released if it raises too; a thread
\* that failed tries again with its next file.
Create(t) ==
  /\ pc[t] = "create"
  /\ lock' = None
  /\ \/ /\ made' = made + 1
        /\ client' = [client EXCEPT ![t] = made + 1]
        /\ pc' = [pc EXCEPT ![t] = "check"]
        /\ UNCHANGED <<task, outcome>>
     \/ /\ Finish(t, "failed")
        /\ UNCHANGED <<client, made>>
  /\ UNCHANGED <<objects, call, result>>

\* Without the SHA flag the destination is not looked at.  A refused HEAD
\* raises, a missing object does not.
Check(t) ==
  /\ pc[t] = "check"
  /\ \/ /\ flags.sha => ~DestMetadataMatches(task[t])
        /\ pc' = [pc EXCEPT ![t] = "put"]
        /\ UNCHANGED <<task, outcome>>
     \/ /\ flags.sha
        /\ DestMetadataMatches(task[t])
        /\ Finish(t, "skipped")
     \/ /\ flags.sha
        /\ Finish(t, "failed")
  /\ UNCHANGED <<objects, call, client, lock, made, result>>

\* _upload_single_file; an upload that raises may have reached the bucket.
Put(t) ==
  /\ pc[t] = "put"
  /\ \/ /\ objects' = [objects EXCEPT ![task[t]] = Uploaded(task[t])]
        /\ \E o \in {"uploaded", "failed"} : Finish(t, o)
     \/ /\ UNCHANGED objects
        /\ Finish(t, "failed")
  /\ UNCHANGED <<call, client, lock, made, result>>

\* Leaving the pool waits for its futures; one failure fails the call.
Return ==
  /\ result = "running"
  /\ \A f \in Files : outcome[f] \in Settled \cup {"absent"}
  /\ result' = IF \E f \in Files : outcome[f] = "failed" THEN "TransientError" ELSE "ok"
  /\ UNCHANGED <<objects, call, threads, outcome>>

\* The environment is killed (its time is up, or it segfaults) and the pool
\* with it; external to the repository.
Kill ==
  /\ result = "running"
  /\ result' = "killed"
  /\ pc' = [t \in Threads |-> "idle"]
  /\ task' = [t \in Threads |-> None]
  /\ client' = [t \in Threads |-> 0]
  /\ lock' = None
  /\ made' = 0
  /\ UNCHANGED <<objects, call, outcome>>

Step(t) ==
  \/ \E f \in Files : Take(t, f)
  \/ Acquire(t)
  \/ Create(t)
  \/ Check(t)
  \/ Put(t)

Next ==
  \/ \E c \in [Files -> Contents \cup {None}], a \in Flags : Call(c, a)
  \/ \E t \in Threads : Step(t)
  \/ Return
  \/ Kill

Spec == Init /\ [][Next]_vars

\* The operating system runs every thread that can run; taking a future is up
\* to some thread of the pool, and the main thread notices the last one.
Fairness ==
  /\ \A t \in Threads : WF_vars(Acquire(t) \/ Create(t) \/ Check(t) \/ Put(t))
  /\ WF_vars(\E t \in Threads, f \in Files : Take(t, f))
  /\ WF_vars(Return)

FairSpec == Spec /\ Fairness

-----------------------------------------------------------------------------

TypeOK ==
  /\ objects \in [Files -> Object \cup {None}]
  /\ local \in [Files -> Contents \cup {None}]
  /\ flags \in Flags
  /\ result \in {"none", "running", "ok", "TransientError", "killed"}
  /\ outcome \in [Files -> {"absent", "submitted", "running"} \cup Settled]
  /\ pc \in [Threads -> {"idle", "lock", "create", "check", "put"}]
  /\ task \in [Threads -> Files \cup {None}]
  /\ client \in [Threads -> Nat]
  /\ lock \in Threads \cup {None}
  /\ made \in Nat
  /\ calls \in Nat

\* An object stands for file f: its content is the file's, and so is every
\* metadata field that is enabled.
Current(f) ==
  /\ objects[f] # None
  /\ objects[f].content = local[f]
  /\ \A field \in {"sha", "release"} :
       Metadata(f)[field] # None => objects[f][field] = Metadata(f)[field]

\* A SHA in the bucket is the SHA of its object's content, through uploads
\* with and without the flag, failed calls and killed ones: what skipping an
\* upload by comparing SHAs relies on.
ShaIsTruthful ==
  \A f \in Files :
    objects[f] # None => objects[f].sha \in {None, objects[f].content}

\* upload_dist returning normally means that every file of dist/ is in the
\* bucket with its content and its enabled metadata, whether it was uploaded
\* by this call or skipped for what an earlier call uploaded.
OkMeansCurrent ==
  result = "ok" => \A f \in Files : local[f] # None => Current(f)

\* s3_ops.py:41-42: a client is used by one thread only, and no two threads
\* make clients at the same time.
ClientsAreOwn ==
  \A t, u \in Threads : t # u =>
    /\ client[t] # 0 => client[t] # client[u]
    /\ ~(pc[t] = "create" /\ pc[u] = "create")

\* A settled file is current unless it failed.
FutureInv ==
  \A f \in Files :
    /\ local[f] = None <=> outcome[f] = "absent"
    /\ outcome[f] \in {"uploaded", "skipped"} => Current(f)

\* A running future is worked on by exactly one thread.
TaskInv ==
  /\ \A t \in Threads :
       /\ pc[t] = "idle" <=> task[t] = None
       /\ task[t] # None => outcome[task[t]] = "running"
  /\ \A t, u \in Threads : task[t] # None /\ task[t] = task[u] => t = u

\* The lock is held exactly while its holder makes a client.
LockInv == \A t \in Threads : lock = t <=> pc[t] = "create"

ClientInv ==
  \A t \in Threads :
    /\ client[t] <= made
    /\ pc[t] \in {"check", "put"} => client[t] # 0

\* Bookkeeping behind OkMeansCurrent and ClientsAreOwn.
PoolInv == ShaIsTruthful /\ FutureInv /\ TaskInv /\ LockInv /\ ClientInv

\* The pool always comes to an end: no thread waits for the lock for ever,
\* whatever fails.
CallReturns == result = "running" ~> result # "running"

=============================================================================
