-------------------------- MODULE UploadPoolProofs --------------------------
(* Theorems about module UploadPool, for every value of its constants: any  *)
(* number of threads, files and calls.                                      *)
EXTENDS UploadPool, TLAPS

-----------------------------------------------------------------------------
(* Type correctness. *)

LEMMA MetadataType ==
  ASSUME TypeOK, NEW f \in Files
  PROVE  /\ Metadata(f) \in [sha : Contents \cup {None}, release : Statuses \cup {None}]
         /\ local[f] # None => Uploaded(f) \in Object
<1>1. flags.sha \in BOOLEAN /\ flags.status \in Statuses \cup {None}
  BY DEF TypeOK, Flags
<1>2. local[f] \in Contents \cup {None}
  BY DEF TypeOK
<1>3. QED
  BY <1>1, <1>2 DEF Metadata, Uploaded, Object

\* An uploaded object stands for its file.
LEMMA UploadedIsCurrent ==
  ASSUME TypeOK, NEW f \in Files, local[f] # None, objects'[f] = Uploaded(f),
         UNCHANGED call
  PROVE  Current(f)'
<1>1. Uploaded(f) \in Object /\ Uploaded(f) # None
  BY MetadataType, PoolAssumption
<1>2. Metadata(f)' = Metadata(f)
  BY DEF Metadata, call
<1>3. /\ Uploaded(f).content = local[f]
      /\ Uploaded(f)["sha"] = Metadata(f)["sha"]
      /\ Uploaded(f)["release"] = Metadata(f)["release"]
  BY MetadataType DEF Uploaded
<1>4. QED
  BY <1>1, <1>2, <1>3 DEF Current, call

\* What an object stands for does not change with the other files.
LEMMA CurrentKept ==
  ASSUME NEW f \in Files, Current(f), objects'[f] = objects[f], UNCHANGED call
  PROVE  Current(f)'
BY DEF Current, Metadata, call

\* A working thread has a file of dist/.
LEMMA TaskIsLocal ==
  ASSUME TypeOK, PoolInv, NEW t \in Threads, pc[t] # "idle"
  PROVE  task[t] \in Files /\ local[task[t]] # None /\ outcome[task[t]] = "running"
<1>1. task[t] \in Files
  BY DEF TypeOK, PoolInv, TaskInv
<1>2. outcome[task[t]] = "running"
  BY <1>1, PoolAssumption DEF PoolInv, TaskInv
<1>3. QED
  BY <1>1, <1>2 DEF PoolInv, FutureInv

LEMMA FinishType ==
  ASSUME TypeOK, NEW t \in Threads, NEW o \in Settled, Finish(t, o)
  PROVE  /\ outcome' \in [Files -> {"absent", "submitted", "running"} \cup Settled]
         /\ task' \in [Threads -> Files \cup {None}]
         /\ pc' \in [Threads -> {"idle", "lock", "create", "check", "put"}]
BY DEF TypeOK, Finish

LEMMA TypeStep ==
  ASSUME TypeOK, PoolInv, [Next]_vars
  PROVE  TypeOK'
<1> USE DEF Settled
<1>1. CASE UNCHANGED vars
  BY <1>1 DEF TypeOK, vars, call, threads
<1>2. ASSUME NEW c \in [Files -> Contents \cup {None}], NEW a \in Flags, Call(c, a)
      PROVE TypeOK'
  BY <1>2 DEF TypeOK, Call
<1>3. ASSUME NEW t \in Threads, NEW f \in Files, Take(t, f) PROVE TypeOK'
  BY <1>3 DEF TypeOK, Take, call
<1>4. ASSUME NEW t \in Threads, Acquire(t) PROVE TypeOK'
  BY <1>4 DEF TypeOK, Acquire, call
<1>5. ASSUME NEW t \in Threads, Create(t) PROVE TypeOK'
  BY <1>5, FinishType DEF TypeOK, Create, call
<1>6. ASSUME NEW t \in Threads, Check(t) PROVE TypeOK'
  BY <1>6, FinishType DEF TypeOK, Check, call
<1>7. ASSUME NEW t \in Threads, Put(t) PROVE TypeOK'
  <2>1. Uploaded(task[t]) \in Object /\ task[t] \in Files
    BY <1>7, TaskIsLocal, MetadataType DEF Put
  <2>2. objects' \in [Files -> Object \cup {None}]
    BY <1>7, <2>1 DEF TypeOK, Put
  <2>3. QED
    BY <1>7, <2>2, FinishType DEF TypeOK, Put, call
<1>8. CASE Return
  BY <1>8 DEF TypeOK, Return, call, threads
<1>9. CASE Kill
  BY <1>9 DEF TypeOK, Kill, call
<1>10. QED
  BY <1>1, <1>2, <1>3, <1>4, <1>5, <1>6, <1>7, <1>8, <1>9 DEF Next, Step

-----------------------------------------------------------------------------
(* The invariant. *)

LEMMA ShaStep ==
  ASSUME TypeOK, PoolInv, [Next]_vars
  PROVE  ShaIsTruthful'
<1>1. CASE UNCHANGED objects
  BY <1>1 DEF PoolInv, ShaIsTruthful
<1>2. ASSUME NEW t \in Threads, Put(t), objects' # objects PROVE ShaIsTruthful'
  <2>1. Uploaded(task[t]) \in Object /\ task[t] \in Files
    BY <1>2, TaskIsLocal, MetadataType DEF Put
  <2>2. objects' = [objects EXCEPT ![task[t]] = Uploaded(task[t])]
    BY <1>2 DEF Put
  <2>3. Uploaded(task[t]).sha \in {None, Uploaded(task[t]).content}
    BY DEF Uploaded, Metadata
  <2>4. QED
    BY <2>1, <2>2, <2>3 DEF PoolInv, ShaIsTruthful, TypeOK
<1>3. QED
  BY <1>1, <1>2 DEF Next, Step, vars, Call, Take, Acquire, Create, Check, Return, Kill

\* A step that leaves dist/, the flags and every object alone, and settles no
\* future without failure, keeps what is known of the futures.
LEMMA FutureKept ==
  ASSUME FutureInv, UNCHANGED <<objects, call>>,
         \A f \in Files :
           \/ outcome'[f] = outcome[f]
           \/ outcome'[f] \in {"running", "failed"} /\ outcome[f] # "absent"
  PROVE  FutureInv'
<1> SUFFICES ASSUME NEW f \in Files
             PROVE  /\ local'[f] = None <=> outcome'[f] = "absent"
                    /\ outcome'[f] \in {"uploaded", "skipped"} => Current(f)'
  BY DEF FutureInv
<1>1. Current(f) => Current(f)'
  BY CurrentKept
<1>2. QED
  BY <1>1 DEF FutureInv, call

\* The future of a working thread ends without failure on a current object.
LEMMA FutureEnds ==
  ASSUME TypeOK, PoolInv, UNCHANGED call, NEW t \in Threads, pc[t] # "idle",
         NEW o \in {"uploaded", "skipped", "failed"}, Finish(t, o),
         \A f \in Files : objects'[f] = objects[f] \/ objects'[f] = Uploaded(f),
         \A f \in Files : f = task[t] /\ o # "failed" => Current(f)'
  PROVE  FutureInv'
<1> SUFFICES ASSUME NEW f \in Files
             PROVE  /\ local'[f] = None <=> outcome'[f] = "absent"
                    /\ outcome'[f] \in {"uploaded", "skipped"} => Current(f)'
  BY DEF FutureInv
<1>1. task[t] \in Files /\ local[task[t]] # None
  BY TaskIsLocal
<1>2. outcome' = [outcome EXCEPT ![task[t]] = o]
  BY DEF Finish
<1>3. CASE f = task[t]
  BY <1>1, <1>2, <1>3 DEF TypeOK, call
<1>4. CASE f # task[t]
  <2>1. outcome'[f] = outcome[f]
    BY <1>2, <1>4 DEF TypeOK
  <2>3. outcome[f] \in {"uploaded", "skipped"} => Current(f) /\ local[f] # None
    BY DEF PoolInv, FutureInv
  <2>4. outcome[f] \in {"uploaded", "skipped"} => Current(f)'
    BY <2>3, CurrentKept, UploadedIsCurrent
  <2>5. QED
    BY <2>1, <2>4 DEF PoolInv, FutureInv, call
<1>5. QED
  BY <1>3, <1>4

LEMMA FutureStep ==
  ASSUME TypeOK, PoolInv, [Next]_vars
  PROVE  FutureInv'
<1>0. FutureInv
  BY DEF PoolInv
<1>1. CASE UNCHANGED vars
  BY <1>0, <1>1, FutureKept DEF vars
<1>2. ASSUME NEW c \in [Files -> Contents \cup {None}], NEW a \in Flags, Call(c, a)
      PROVE FutureInv'
  BY <1>2 DEF Call, FutureInv
<1>3. ASSUME NEW t \in Threads, NEW f \in Files, Take(t, f) PROVE FutureInv'
  <2>1. \A g \in Files : \/ outcome'[g] = outcome[g]
                         \/ outcome'[g] = "running" /\ outcome[g] # "absent"
    BY <1>3 DEF TypeOK, Take
  <2>2. QED
    BY <1>0, <1>3, <2>1, FutureKept DEF Take
<1>4. ASSUME NEW t \in Threads, Acquire(t) PROVE FutureInv'
  BY <1>0, <1>4, FutureKept DEF Acquire
<1>5. ASSUME NEW t \in Threads, Create(t) PROVE FutureInv'
  <2>1. CASE UNCHANGED outcome
    BY <1>0, <1>5, <2>1, FutureKept DEF Create
  <2>2. CASE Finish(t, "failed")
    BY <1>5, <2>2, FutureEnds DEF Create
  <2>3. QED
    BY <1>5, <2>1, <2>2 DEF Create
<1>6. ASSUME NEW t \in Threads, Check(t) PROVE FutureInv'
  <2>1. CASE UNCHANGED outcome
    BY <1>0, <1>6, <2>1, FutureKept DEF Check
  <2>2. CASE Finish(t, "failed")
    BY <1>6, <2>2, FutureEnds DEF Check
  <2>3. CASE flags.sha /\ DestMetadataMatches(task[t]) /\ Finish(t, "skipped")
    <3>1. task[t] \in Files /\ local[task[t]] # None
      BY <1>6, TaskIsLocal DEF Check
    <3>2. Metadata(task[t])["sha"] = local[task[t]]
      BY <2>3 DEF Metadata
    <3>3. objects[task[t]] # None /\ objects[task[t]]["sha"] = local[task[t]]
      BY <2>3, <3>1, <3>2 DEF DestMetadataMatches
    <3>4. objects[task[t]].content = local[task[t]]
      BY <3>1, <3>3 DEF PoolInv, ShaIsTruthful
    <3>5. Current(task[t])
      BY <2>3, <3>3, <3>4 DEF Current, DestMetadataMatches
    <3>6. \A f \in Files : f = task[t] => Current(f)'
      BY <1>6, <3>5, CurrentKept DEF Check
    <3>7. QED
      BY <1>6, <2>3, <3>6, FutureEnds DEF Check
  <2>4. QED
    BY <1>6, <2>1, <2>2, <2>3 DEF Check
<1>7. ASSUME NEW t \in Threads, Put(t) PROVE FutureInv'
  <2>1. task[t] \in Files /\ local[task[t]] # None
    BY <1>7, TaskIsLocal DEF Put
  <2>2. CASE objects' = [objects EXCEPT ![task[t]] = Uploaded(task[t])]
    <3>1. /\ \A f \in Files : objects'[f] = objects[f] \/ objects'[f] = Uploaded(f)
          /\ \A f \in Files : f = task[t] => objects'[f] = Uploaded(f)
      BY <2>2 DEF TypeOK
    <3>2. \A f \in Files : f = task[t] => Current(f)'
      BY <1>7, <2>1, <3>1, UploadedIsCurrent DEF Put
    <3>3. PICK o \in {"uploaded", "failed"} : Finish(t, o)
      BY <1>7 DEF Put
    <3>4. QED
      BY <1>7, <3>1, <3>2, <3>3, FutureEnds DEF Put
  <2>3. CASE UNCHANGED objects /\ Finish(t, "failed")
    BY <1>7, <2>3, FutureEnds DEF Put
  <2>4. QED
    BY <1>7, <2>2, <2>3 DEF Put
<1>8. CASE Return
  BY <1>0, <1>8, FutureKept DEF Return
<1>9. CASE Kill
  BY <1>0, <1>9, FutureKept DEF Kill
<1>10. QED
  BY <1>1, <1>2, <1>3, <1>4, <1>5, <1>6, <1>7, <1>8, <1>9 DEF Next, Step

\* A thread that finishes its file leaves the tasks of the others alone.
LEMMA TaskEnds ==
  ASSUME TypeOK, PoolInv, NEW t \in Threads, pc[t] # "idle",
         NEW o \in {"uploaded", "skipped", "failed"}, Finish(t, o)
  PROVE  TaskInv'
<1>1. TaskInv /\ task[t] \in Files
  BY TaskIsLocal DEF PoolInv
<1>2. \A u \in Threads :
        u # t => /\ task'[u] = task[u] /\ pc'[u] = pc[u]
                 /\ task[u] # task[t] \/ task[u] = None
  BY <1>1, PoolAssumption DEF TypeOK, Finish, TaskInv
<1>3. task'[t] = None /\ pc'[t] = "idle"
  BY DEF TypeOK, Finish
<1>4. \A u \in Threads : u # t /\ task[u] # None => outcome'[task'[u]] = "running"
  BY <1>1, <1>2 DEF TypeOK, Finish, TaskInv
<1>5. \A u \in Threads : (pc'[u] = "idle" <=> task'[u] = None)
                         /\ (task'[u] # None => outcome'[task'[u]] = "running")
  <2> TAKE u \in Threads
  <2>1. CASE u = t
    BY <1>3, <2>1
  <2>2. CASE u # t
    <3>1. (pc[u] = "idle" <=> task[u] = None) /\ task'[u] = task[u] /\ pc'[u] = pc[u]
      BY <1>1, <1>2, <2>2 DEF TaskInv
    <3>2. task[u] # None => outcome'[task'[u]] = "running"
      BY <1>4, <2>2
    <3>3. QED
      BY <3>1, <3>2
  <2>3. QED
    BY <2>1, <2>2
<1>6. ASSUME NEW u \in Threads, NEW v \in Threads,
             task'[u] # None, task'[u] = task'[v]
      PROVE  u = v
  <2>1. u # t /\ v # t
    BY <1>3, <1>6
  <2>2. task[u] # None /\ task[u] = task[v]
    BY <1>2, <1>6, <2>1
  <2>3. QED
    BY <1>1, <2>2 DEF TaskInv
<1>7. QED
  BY <1>5, <1>6 DEF TaskInv

LEMMA TaskStep ==
  ASSUME TypeOK, PoolInv, [Next]_vars
  PROVE  TaskInv'
<1>0. TaskInv
  BY DEF PoolInv
<1>1. CASE UNCHANGED vars
  BY <1>0, <1>1 DEF TaskInv, vars, threads
<1>2. ASSUME NEW c \in [Files -> Contents \cup {None}], NEW a \in Flags, Call(c, a)
      PROVE TaskInv'
  BY <1>2 DEF Call, TaskInv
<1>3. ASSUME NEW t \in Threads, NEW f \in Files, Take(t, f) PROVE TaskInv'
  <2>1. task[t] = None /\ f # None
    BY <1>0, <1>3, PoolAssumption DEF Take, TaskInv
  <2>2. \A u \in Threads : task[u] # f
    BY <1>0, <1>3, <2>1 DEF Take, TaskInv
  <2>3. \A u \in Threads : u # t => task'[u] = task[u] /\ pc'[u] = pc[u]
    BY <1>3 DEF Take, TypeOK
  <2>4. task'[t] = f /\ pc'[t] # "idle" /\ outcome'[f] = "running"
    BY <1>3 DEF Take, TypeOK
  <2>5. \A u \in Threads : u # t /\ task[u] # None => outcome'[task[u]] = "running"
    BY <1>0, <1>3, <2>2 DEF Take, TypeOK, TaskInv
  <2>6. QED
    BY <1>0, <2>1, <2>2, <2>3, <2>4, <2>5 DEF TaskInv
<1>4. ASSUME NEW t \in Threads, Acquire(t) PROVE TaskInv'
  BY <1>0, <1>4 DEF Acquire, TaskInv, TypeOK
<1>5. ASSUME NEW t \in Threads, Create(t) PROVE TaskInv'
  <2>1. CASE pc' = [pc EXCEPT ![t] = "check"] /\ UNCHANGED <<task, outcome>>
    BY <1>0, <1>5, <2>1 DEF Create, TaskInv, TypeOK
  <2>2. CASE Finish(t, "failed")
    BY <1>5, <2>2, TaskEnds DEF Create
  <2>3. QED
    BY <1>5, <2>1, <2>2 DEF Create
<1>6. ASSUME NEW t \in Threads, Check(t) PROVE TaskInv'
  <2>1. CASE pc' = [pc EXCEPT ![t] = "put"] /\ UNCHANGED <<task, outcome>>
    BY <1>0, <1>6, <2>1 DEF Check, TaskInv, TypeOK
  <2>2. CASE Finish(t, "failed") \/ Finish(t, "skipped")
    BY <1>6, <2>2, TaskEnds DEF Check
  <2>3. QED
    BY <1>6, <2>1, <2>2 DEF Check
<1>7. ASSUME NEW t \in Threads, Put(t) PROVE TaskInv'
  BY <1>7, TaskEnds DEF Put
<1>8. CASE Return
  BY <1>0, <1>8 DEF Return, TaskInv, threads
<1>9. CASE Kill
  BY <1>9 DEF Kill, TaskInv
<1>10. QED
  BY <1>1, <1>2, <1>3, <1>4, <1>5, <1>6, <1>7, <1>8, <1>9 DEF Next, Step

LEMMA LockStep ==
  ASSUME TypeOK, PoolInv, [Next]_vars
  PROVE  LockInv'
<1>0. LockInv /\ None \notin Threads
  BY PoolAssumption DEF PoolInv
<1>1. CASE UNCHANGED vars
  BY <1>0, <1>1 DEF LockInv, vars, threads
<1>2. ASSUME NEW c \in [Files -> Contents \cup {None}], NEW a \in Flags, Call(c, a)
      PROVE LockInv'
  BY <1>0, <1>2 DEF Call, LockInv
<1>3. ASSUME NEW t \in Threads, NEW f \in Files, Take(t, f) PROVE LockInv'
  BY <1>0, <1>3 DEF Take, LockInv, TypeOK
<1>4. ASSUME NEW t \in Threads, Acquire(t) PROVE LockInv'
  BY <1>0, <1>4 DEF Acquire, LockInv, TypeOK
<1>5. ASSUME NEW t \in Threads, Create(t) PROVE LockInv'
  BY <1>0, <1>5 DEF Create, Finish, LockInv, TypeOK
<1>6. ASSUME NEW t \in Threads, Check(t) PROVE LockInv'
  BY <1>0, <1>6 DEF Check, Finish, LockInv, TypeOK
<1>7. ASSUME NEW t \in Threads, Put(t) PROVE LockInv'
  BY <1>0, <1>7 DEF Put, Finish, LockInv, TypeOK
<1>8. CASE Return
  BY <1>0, <1>8 DEF Return, LockInv, threads
<1>9. CASE Kill
  BY <1>0, <1>9 DEF Kill, LockInv
<1>10. QED
  BY <1>1, <1>2, <1>3, <1>4, <1>5, <1>6, <1>7, <1>8, <1>9 DEF Next, Step

\* Clients are numbered in the order they are made, so a new one is no one's.
LEMMA ClientStep ==
  ASSUME TypeOK, PoolInv, ClientsAreOwn, [Next]_vars, LockInv'
  PROVE  ClientInv' /\ ClientsAreOwn'
<1>0. ClientInv
  BY DEF PoolInv
<1>00. \A t, u \in Threads : t # u => ~(pc'[t] = "create" /\ pc'[u] = "create")
  BY DEF LockInv
<1> SUFFICES ClientInv' /\ \A t, u \in Threads :
                             t # u /\ client'[t] # 0 => client'[t] # client'[u]
  BY <1>00 DEF ClientsAreOwn
<1>1. CASE UNCHANGED vars
  BY <1>0, <1>1 DEF ClientInv, ClientsAreOwn, vars, threads
<1>2. ASSUME NEW c \in [Files -> Contents \cup {None}], NEW a \in Flags, Call(c, a)
      PROVE ClientInv' /\ \A t, u \in Threads :
                            t # u /\ client'[t] # 0 => client'[t] # client'[u]
  BY <1>0, <1>2 DEF Call, ClientInv
<1>3. ASSUME NEW t \in Threads, NEW f \in Files, Take(t, f)
      PROVE ClientInv' /\ \A v, u \in Threads :
                            v # u /\ client'[v] # 0 => client'[v] # client'[u]
  BY <1>0, <1>3 DEF Take, ClientInv, ClientsAreOwn, TypeOK
<1>4. ASSUME NEW t \in Threads, Acquire(t)
      PROVE ClientInv' /\ \A v, u \in Threads :
                            v # u /\ client'[v] # 0 => client'[v] # client'[u]
  BY <1>0, <1>4 DEF Acquire, ClientInv, ClientsAreOwn, TypeOK
<1>5. ASSUME NEW t \in Threads, Create(t)
      PROVE ClientInv' /\ \A v, u \in Threads :
                            v # u /\ client'[v] # 0 => client'[v] # client'[u]
  <2>1. CASE /\ made' = made + 1
             /\ client' = [client EXCEPT ![t] = made + 1]
             /\ pc' = [pc EXCEPT ![t] = "check"]
    BY <1>0, <2>1 DEF ClientInv, ClientsAreOwn, TypeOK
  <2>2. CASE Finish(t, "failed") /\ UNCHANGED <<client, made>>
    BY <1>0, <2>2 DEF ClientInv, ClientsAreOwn, Finish, TypeOK
  <2>3. QED
    BY <1>5, <2>1, <2>2 DEF Create
<1>6. ASSUME NEW t \in Threads, Check(t)
      PROVE ClientInv' /\ \A v, u \in Threads :
                            v # u /\ client'[v] # 0 => client'[v] # client'[u]
  BY <1>0, <1>6 DEF Check, Finish, ClientInv, ClientsAreOwn, TypeOK
<1>7. ASSUME NEW t \in Threads, Put(t)
      PROVE ClientInv' /\ \A v, u \in Threads :
                            v # u /\ client'[v] # 0 => client'[v] # client'[u]
  BY <1>0, <1>7 DEF Put, Finish, ClientInv, ClientsAreOwn, TypeOK
<1>8. CASE Return
  BY <1>0, <1>8 DEF Return, ClientInv, ClientsAreOwn, threads
<1>9. CASE Kill
  BY <1>9 DEF Kill, ClientInv
<1>10. QED
  BY <1>1, <1>2, <1>3, <1>4, <1>5, <1>6, <1>7, <1>8, <1>9 DEF Next, Step

-----------------------------------------------------------------------------
(* The theorems. *)

\* After a normal return every future has settled, and none has failed.
OkInv ==
  result = "ok" =>
    \A f \in Files : outcome[f] \in {"absent", "uploaded", "skipped"}

PoolIInv == TypeOK /\ PoolInv /\ ClientsAreOwn

LEMMA InitPool == Init => PoolIInv
<1> SUFFICES ASSUME Init PROVE PoolIInv
  OBVIOUS
<1>1. TypeOK
  BY DEF Init, TypeOK, Flags
<1>2. ShaIsTruthful /\ FutureInv
  BY DEF Init, ShaIsTruthful, FutureInv
<1>3. TaskInv /\ LockInv /\ ClientInv /\ ClientsAreOwn
  BY PoolAssumption DEF Init, TaskInv, LockInv, ClientInv, ClientsAreOwn
<1>4. QED
  BY <1>1, <1>2, <1>3 DEF PoolIInv, PoolInv

\* The bookkeeping of the pool is right in every reachable state: SHAs in the
\* bucket are truthful, settled futures are current, no future has two threads
\* and the lock has the holder that makes a client (s3_ops.py:38-49, 152-273).
THEOREM PoolInvariant == Spec => [](TypeOK /\ PoolInv /\ ClientsAreOwn)
<1>1. PoolIInv /\ [Next]_vars => PoolIInv'
  <2> SUFFICES ASSUME TypeOK, PoolInv, ClientsAreOwn, [Next]_vars
               PROVE  PoolIInv'
    BY DEF PoolIInv
  <2>1. TypeOK'
    BY TypeStep
  <2>2. ShaIsTruthful' /\ FutureInv' /\ TaskInv' /\ LockInv'
    BY ShaStep, FutureStep, TaskStep, LockStep
  <2>3. ClientInv' /\ ClientsAreOwn'
    BY <2>2, ClientStep
  <2>4. QED
    BY <2>1, <2>2, <2>3 DEF PoolIInv, PoolInv
<1>2. Spec => []PoolIInv
  BY InitPool, <1>1, PTL DEF Spec
<1>3. QED
  BY <1>2 DEF PoolIInv

\* Every variable of the pool is of its kind: a future has one of its states, and the
\* objects of the bucket are contents with a SHA and a release status.
THEOREM PoolTypes == Spec => []TypeOK
  BY PoolInvariant, PTL

\* Whatever the number of threads, no client is shared and no two threads make
\* clients at once (the comment of _thread_s3_client, s3_ops.py:41-42).
THEOREM ClientsOwn == Spec => []ClientsAreOwn
BY PoolInvariant, PTL

\* Once the call has returned normally nothing is left in flight.
LEMMA OkStep ==
  ASSUME TypeOK, PoolInv, OkInv, [Next]_vars
  PROVE  OkInv'
<1> USE DEF Settled
<1>0. ASSUME NEW t \in Threads, pc[t] # "idle" PROVE result # "ok"
  BY <1>0, TaskIsLocal DEF OkInv
<1>1. CASE UNCHANGED vars
  BY <1>1 DEF OkInv, vars
<1>2. ASSUME NEW c \in [Files -> Contents \cup {None}], NEW a \in Flags, Call(c, a)
      PROVE OkInv'
  BY <1>2 DEF Call, OkInv
<1>3. ASSUME NEW t \in Threads, Step(t) PROVE result' # "ok"
  BY <1>0, <1>3 DEF Step, Take, Acquire, Create, Check, Put
<1>4. CASE Return
  BY <1>4 DEF Return, OkInv
<1>5. CASE Kill
  BY <1>5 DEF Kill, OkInv
<1>6. QED
  BY <1>1, <1>2, <1>3, <1>4, <1>5 DEF Next, OkInv

\* upload_dist returns normally only with every file of dist/ in the bucket,
\* content and enabled metadata, through skips, failed uploads, killed and
\* repeated calls (s3_ops.py:152-273).
THEOREM UploadIsComplete == Spec => []OkMeansCurrent
<1>1. Init => OkInv
  BY DEF Init, OkInv
<1>2. TypeOK /\ PoolInv /\ ClientsAreOwn /\ OkInv /\ [Next]_vars => OkInv'
  BY OkStep
<1>3. TypeOK /\ PoolInv /\ OkInv => OkMeansCurrent
  BY DEF OkInv, PoolInv, FutureInv, OkMeansCurrent
<1>4. QED
  BY <1>1, <1>2, <1>3, PoolInvariant, PTL DEF Spec
=============================================================================
