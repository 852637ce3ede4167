---------------------------- MODULE BatchHandler ----------------------------
(***************************************************************************)
(* The batch loop of handler.py and the queue it answers to.               *)
(*                                                                         *)
(* An invocation takes up to BatchSize records off the queue, handles them *)
(* in order and answers with batchItemFailures; the event source mapping   *)
(* deletes the records that are not in the answer and returns the others   *)
(* to the queue, or to the dead-letter queue once their receives are used  *)
(* up.  What handling a record does to the output bucket is module         *)
(* ItemOutputs; here it takes some time and succeeds or fails.             *)
(*                                                                         *)
(* succeeded is history: no guard reads it.                                *)
(***************************************************************************)
EXTENDS Naturals, Sequences

CONSTANTS
  Workers,    \* Lambda execution environments
  Records,    \* SQS records
  None,       \* the empty log context
  Malformed,  \* records without an S3 event, or with an unsupported one
  BatchSize,  \* records per invocation
  MaxReceive, \* maxReceiveCount of the redrive policy
  Budget,     \* time of an invocation
  Margin      \* LAMBDA_TIMEOUT_MARGIN_MS, in the same unit

ASSUME BatchAssumption ==
  /\ None \notin Records \X BOOLEAN
  /\ Malformed \subseteq Records
  /\ BatchSize \in Nat \ {0} /\ MaxReceive \in Nat \ {0}
  /\ Budget \in Nat /\ Margin \in Nat

VARIABLES
  status,    \* [Records -> where the record is]
  receives,  \* [Records -> times the record was received]
  batch,     \* [Workers -> the records of the invocation]
  i,         \* [Workers -> position of the loop in the batch]
  phase,     \* [Workers -> where the handler is]
  failures,  \* [Workers -> batch_item_failures]
  remaining, \* [Workers -> get_remaining_time_in_millis()]
  context,   \* [Workers -> log_context: None or <<record, its event is known>>]
  token,     \* [Workers -> ctx_token: what reset() will restore]
  succeeded  \* [Workers -> records the invocation has handled without error]

queue   == <<status, receives>>
invocation == <<batch, i, phase, failures, remaining, context, token>>
vars    == <<queue, invocation, succeeded>>

Phases == {"waiting", "setup", "loop", "parse", "handle", "returned"}

Contexts == (Records \X BOOLEAN) \cup {None}

Batches ==
  {b \in UNION {[1..n -> Records] : n \in 1..BatchSize} :
     \A j, k \in DOMAIN b : b[j] = b[k] => j = k}

Members(w) == {batch[w][j] : j \in 1..Len(batch[w])}

\* Fault (a run must notice it): records[i + 1:].
UnprocessedAfter(w) == {batch[w][j] : j \in (i[w] + 1)..Len(batch[w])}

\* records[i:]
Unprocessed(w) == {batch[w][j] : j \in i[w]..Len(batch[w])}

Current(w) == batch[w][i[w]]

-----------------------------------------------------------------------------

Init ==
  /\ status = [r \in Records |-> "queued"]
  /\ receives = [r \in Records |-> 0]
  /\ batch = [w \in Workers |-> <<>>]
  /\ i = [w \in Workers |-> 1]
  /\ phase = [w \in Workers |-> "waiting"]
  /\ failures = [w \in Workers |-> {}]
  /\ remaining = [w \in Workers |-> 0]
  /\ context = [w \in Workers |-> None]
  /\ token = [w \in Workers |-> None]
  /\ succeeded = [w \in Workers |-> {}]

-----------------------------------------------------------------------------
(* The queue and the event source mapping (external to the repository). *)

Invoke(w, b) ==
  /\ phase[w] = "waiting"
  /\ \A j \in DOMAIN b : status[b[j]] = "queued"
  /\ LET taken == {b[j] : j \in DOMAIN b}
     IN  /\ status' = [r \in Records |-> IF r \in taken THEN "inflight" ELSE status[r]]
         /\ receives' = [r \in Records |-> IF r \in taken THEN receives[r] + 1 ELSE receives[r]]
  /\ batch' = [batch EXCEPT ![w] = b]
  /\ i' = [i EXCEPT ![w] = 1]
  /\ phase' = [phase EXCEPT ![w] = "setup"]
  /\ failures' = [failures EXCEPT ![w] = {}]
  /\ remaining' = [remaining EXCEPT ![w] = Budget]
  /\ succeeded' = [succeeded EXCEPT ![w] = {}]
  /\ UNCHANGED <<context, token>>

\* What becomes of the batch once the invocation is over: the records of back
\* return to the queue or are dead-lettered, the others are deleted.
Release(w, back) ==
  /\ status' = [r \in Records |->
       IF r \notin Members(w) THEN status[r]
       ELSE IF r \notin back THEN "done"
       ELSE IF receives[r] < MaxReceive THEN "queued" ELSE "dlq"]
  /\ batch' = [batch EXCEPT ![w] = <<>>]
  /\ i' = [i EXCEPT ![w] = 1]
  /\ phase' = [phase EXCEPT ![w] = "waiting"]
  /\ UNCHANGED <<receives, failures, remaining, token, succeeded>>

Report(w) ==
  /\ phase[w] = "returned"
  /\ Release(w, failures[w])
  /\ UNCHANGED context

\* Function timeout or Runtime.ExitError: no answer, so the whole batch comes
\* back; the next invocation runs in a new process.
Crash(w) ==
  /\ phase[w] # "waiting"
  /\ Release(w, Members(w))
  /\ context' = [context EXCEPT ![w] = None]

\* Standard queues deliver at least once.
Redeliver(r) ==
  /\ status[r] = "done"
  /\ receives[r] < MaxReceive
  /\ status' = [status EXCEPT ![r] = "queued"]
  /\ UNCHANGED <<receives, invocation, succeeded>>

-----------------------------------------------------------------------------
(* handler() *)

\* Config.from_env, validate_for_aws and setup_workspace.
SetupDone(w) ==
  /\ phase[w] = "setup"
  /\ phase' = [phase EXCEPT ![w] = "loop"]
  /\ UNCHANGED <<queue, batch, i, failures, remaining, context, token, succeeded>>

\* Fault: the answer to a failed setup is an empty list.
SetupFailsSilently(w) ==
  /\ phase[w] = "setup"
  /\ phase' = [phase EXCEPT ![w] = "returned"]
  /\ UNCHANGED <<queue, batch, i, failures, remaining, context, token, succeeded>>

SetupFails(w) ==
  /\ phase[w] = "setup"
  /\ failures' = [failures EXCEPT ![w] = Members(w)]
  /\ phase' = [phase EXCEPT ![w] = "returned"]
  /\ UNCHANGED <<queue, batch, i, remaining, context, token, succeeded>>

\* Fault: the loop neither returns nor goes on once the margin is reached.
TimeUpStuck(w) ==
  /\ phase[w] = "loop"
  /\ i[w] <= Len(batch[w])
  /\ remaining[w] < Margin
  /\ UNCHANGED vars

TimeUp(w) ==
  /\ phase[w] = "loop"
  /\ i[w] <= Len(batch[w])
  /\ remaining[w] < Margin
  /\ failures' = [failures EXCEPT ![w] = @ \cup Unprocessed(w)]
  /\ phase' = [phase EXCEPT ![w] = "returned"]
  /\ UNCHANGED <<queue, batch, i, remaining, context, token, succeeded>>

Begin(w) ==
  /\ phase[w] = "loop"
  /\ i[w] <= Len(batch[w])
  /\ remaining[w] >= Margin
  /\ token' = [token EXCEPT ![w] = context[w]]
  /\ context' = [context EXCEPT ![w] = <<Current(w), FALSE>>]
  /\ phase' = [phase EXCEPT ![w] = "parse"]
  /\ UNCHANGED <<queue, batch, i, failures, remaining, succeeded>>

\* Fault: ctx_token is taken again, from the second set().
ParseTakesToken(w) ==
  /\ phase[w] = "parse"
  /\ Current(w) \notin Malformed
  /\ token' = [token EXCEPT ![w] = context[w]]
  /\ context' = [context EXCEPT ![w] = <<Current(w), TRUE>>]
  /\ phase' = [phase EXCEPT ![w] = "handle"]
  /\ UNCHANGED <<queue, batch, i, failures, remaining, succeeded>>

\* _parse_record succeeds: the log context is set a second time, over the first.
Parse(w) ==
  /\ phase[w] = "parse"
  /\ Current(w) \notin Malformed
  /\ context' = [context EXCEPT ![w] = <<Current(w), TRUE>>]
  /\ phase' = [phase EXCEPT ![w] = "handle"]
  /\ UNCHANGED <<queue, batch, i, failures, remaining, token, succeeded>>

\* Fault: a record may outlive its invocation.
EndRecordLate(w, d) ==
  /\ remaining' = [remaining EXCEPT ![w] = @ - d]
  /\ context' = [context EXCEPT ![w] = token[w]]
  /\ i' = [i EXCEPT ![w] = @ + 1]
  /\ phase' = [phase EXCEPT ![w] = "loop"]
  /\ UNCHANGED <<queue, batch, token>>

\* The finally block and the next turn of the loop; the record took time d.
EndRecord(w, d) ==
  /\ d <= remaining[w]
  /\ remaining' = [remaining EXCEPT ![w] = @ - d]
  /\ context' = [context EXCEPT ![w] = token[w]]
  /\ i' = [i EXCEPT ![w] = @ + 1]
  /\ phase' = [phase EXCEPT ![w] = "loop"]
  /\ UNCHANGED <<queue, batch, token>>

Handled(w, d) ==
  /\ phase[w] = "handle"
  /\ succeeded' = [succeeded EXCEPT ![w] = @ \cup {Current(w)}]
  /\ EndRecord(w, d)
  /\ UNCHANGED failures

\* Fault: a failure is logged and not reported.
FailedSilently(w, d) ==
  /\ \/ phase[w] = "parse" /\ Current(w) \in Malformed
     \/ phase[w] = "handle"
  /\ EndRecord(w, d)
  /\ UNCHANGED <<failures, succeeded>>

\* except PermanentError, and except Exception: both report the record, so one
\* that failed for good is retried like any other.
Failed(w, d) ==
  /\ \/ phase[w] = "parse" /\ Current(w) \in Malformed
     \/ phase[w] = "handle"
  /\ failures' = [failures EXCEPT ![w] = @ \cup {Current(w)}]
  /\ EndRecord(w, d)
  /\ UNCHANGED succeeded

LoopDone(w) ==
  /\ phase[w] = "loop"
  /\ i[w] > Len(batch[w])
  /\ phase' = [phase EXCEPT ![w] = "returned"]
  /\ UNCHANGED <<queue, batch, i, failures, remaining, context, token, succeeded>>

-----------------------------------------------------------------------------

Step(w) ==
  \/ SetupDone(w) \/ SetupFails(w)
  \/ TimeUp(w) \/ Begin(w) \/ Parse(w) \/ LoopDone(w)
  \/ \E d \in 0..Budget : Handled(w, d) \/ Failed(w, d)
  \/ Report(w)

Next ==
  \/ \E w \in Workers : Step(w) \/ Crash(w) \/ \E b \in Batches : Invoke(w, b)
  \/ \E r \in Records : Redeliver(r)

Spec == Init /\ [][Next]_vars

\* A running invocation goes on, and a queued record is polled for.
Fairness ==
  \A w \in Workers :
    /\ WF_vars(Step(w))
    /\ WF_vars(\E b \in Batches : Invoke(w, b))

FairSpec == Spec /\ Fairness

-----------------------------------------------------------------------------
(* Correctness. *)

\* Every variable holds a value of its kind.
TypeOK ==
  /\ status \in [Records -> {"queued", "inflight", "done", "dlq"}]
  /\ receives \in [Records -> Nat]
  /\ batch \in [Workers -> Seq(Records)]
  /\ i \in [Workers -> Nat \ {0}]
  /\ phase \in [Workers -> Phases]
  /\ failures \in [Workers -> SUBSET Records]
  /\ remaining \in [Workers -> Nat]
  /\ context \in [Workers -> Contexts]
  /\ token \in [Workers -> Contexts]
  /\ succeeded \in [Workers -> SUBSET Records]

\* The answer names exactly the records of the batch that were not handled:
\* none that was handled is done twice, none that was not is deleted.
ReportIsExact ==
  \A w \in Workers :
    phase[w] = "returned" => failures[w] = Members(w) \ succeeded[w]

\* A record only leaves the queue as done when the invocation that held it
\* handled it without error, whatever happened to the rest of its batch.
AcknowledgedWasHandled ==
  [][\A r \in Records :
       status[r] = "inflight" /\ status'[r] = "done"
         => \E w \in Workers : r \in Members(w) /\ r \in succeeded[w]]_vars

\* While a record is handled the log context names it and no other, and between
\* records it is empty: what is logged about a record, the last line before a
\* Runtime.ExitError included, is logged under its own message id.
ContextNamesRecord ==
  \A w \in Workers :
    CASE phase[w] = "parse"  -> context[w] = <<Current(w), FALSE>>
      [] phase[w] = "handle" -> context[w] = <<Current(w), TRUE>>
      [] OTHER -> context[w] = None

\* No record circulates for ever: after at most MaxReceive invocations it is
\* deleted or dead-lettered.
EventuallySettled ==
  \A r \in Records : status[r] = "queued" ~> status[r] \in {"done", "dlq"}

-----------------------------------------------------------------------------
(* The inductive invariant behind ReportIsExact and AcknowledgedWasHandled. *)

Before(w) == {batch[w][j] : j \in 1..(i[w] - 1)}

Distinct(w) ==
  \A j, k \in 1..Len(batch[w]) : batch[w][j] = batch[w][k] => j = k

\* The loop has sorted the records before position i into failures and successes.
InvLoop(w) ==
  /\ Distinct(w)
  /\ i[w] <= Len(batch[w]) + 1
  /\ phase[w] = "waiting" => batch[w] = <<>>
  /\ phase[w] \in {"parse", "handle"} => i[w] <= Len(batch[w])
  /\ phase[w] = "setup" => i[w] = 1 /\ failures[w] = {} /\ succeeded[w] = {}
  /\ phase[w] \in {"loop", "parse", "handle"} =>
       /\ failures[w] \cup succeeded[w] = Before(w)
       /\ failures[w] \cap succeeded[w] = {}
  /\ phase[w] = "returned" => failures[w] = Members(w) \ succeeded[w]

\* The records of a batch are in flight, and in no other batch.
InvHeld ==
  /\ \A w \in Workers : \A r \in Members(w) : status[r] = "inflight"
  /\ \A w1, w2 \in Workers : w1 # w2 => Members(w1) \cap Members(w2) = {}

InvContext(w) ==
  /\ phase[w] = "parse" => context[w] = <<Current(w), FALSE>>
  /\ phase[w] = "handle" => context[w] = <<Current(w), TRUE>>
  /\ phase[w] \notin {"parse", "handle"} => context[w] = None
  /\ phase[w] \in {"parse", "handle"} => token[w] = None

BatchInv == InvHeld /\ \A w \in Workers : InvLoop(w) /\ InvContext(w)
=============================================================================
