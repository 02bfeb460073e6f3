---------------------------- MODULE LogShipping ----------------------------
(***************************************************************************)
(* logingest.Hook: log entries of the operator are put into a bounded      *)
(* channel by whoever logs, and one goroutine takes them out, batches them *)
(* and posts the batches to Mothership under the cluster's ID.             *)
(*                                                                         *)
(* All of it is the memory of one process.  phase is where the goroutine   *)
(* is: in the loop's select, in a post, in one of the two shutdown loops,  *)
(* in the post that ends it, or returned.  An entry is its number among    *)
(* those accepted; levels, fields and the request's wording are left out,  *)
(* and so is Stop, which the operator never calls (it cancels the          *)
(* context).                                                               *)
(***************************************************************************)
EXTENDS Naturals, Sequences

CONSTANTS
  BatchSize, \* entries per batch
  NoTarget   \* hook.state before the cluster is registered

ASSUME ShippingAssumption == BatchSize \in Nat \ {0}

VARIABLES
  target,    \* hook.state: the cluster ID entries are posted under
  ch,        \* hook.ch
  batch,     \* the goroutine's batch
  phase,     \* where the goroutine is
  cancelled, \* the manager's context is cancelled
  entries,   \* bound on the entries still to be logged
  accepted,  \* those the channel took, in order
  posted,    \* those a post was tried for, in order
  due        \* how many had been accepted when the context was cancelled

goroutine == <<batch, phase, posted>>
logVars   == <<target, ch, goroutine, cancelled, entries, accepted, due>>

Capacity == 2 * BatchSize + 1

LogInit ==
  /\ target = NoTarget /\ ch = <<>> /\ batch = <<>> /\ phase = "select"
  /\ cancelled = FALSE /\ accepted = <<>> /\ posted = <<>> /\ due = 0

\* The memory of a new process.
LogRestart ==
  /\ target' = NoTarget /\ ch' = <<>> /\ batch' = <<>> /\ phase' = "select"
  /\ cancelled' = FALSE /\ accepted' = <<>> /\ posted' = <<>> /\ due' = 0 /\ UNCHANGED entries

------------------------------------------------------------------------------
(* Those who log *)

\* UpdateState of a registered cluster.
UpdateState(id) ==
  target' = id /\ UNCHANGED <<ch, goroutine, cancelled, entries, accepted, due>>

\* Fire never waits: a full channel drops the entry.
Fire ==
  /\ target # NoTarget /\ entries > 0 /\ entries' = entries - 1
  /\ IF Len(ch) < Capacity
       THEN accepted' = Append(accepted, Len(accepted) + 1) /\ ch' = Append(ch, Len(accepted'))
       ELSE UNCHANGED <<ch, accepted>>
  /\ UNCHANGED <<target, goroutine, cancelled, due>>

\* The manager stops its runnables.
Cancel ==
  /\ ~cancelled /\ cancelled' = TRUE /\ due' = Len(accepted)
  /\ UNCHANGED <<target, ch, goroutine, entries, accepted>>

------------------------------------------------------------------------------
(* The goroutine: Start *)

Take == ch # <<>> /\ ch' = Tail(ch) /\ batch' = Append(batch, Head(ch))

\* A plausible bug: the batch may be one entry too long.
ReceiveOneMore ==
  /\ phase = "select" /\ Take
  /\ phase' = IF Len(batch') > BatchSize THEN "post" ELSE "select"
  /\ UNCHANGED <<target, posted, cancelled, entries, accepted, due>>

Receive ==
  /\ phase = "select" /\ Take
  /\ phase' = IF Len(batch') >= BatchSize THEN "post" ELSE "select"
  /\ UNCHANGED <<target, posted, cancelled, entries, accepted, due>>

\* A plausible bug: the ticker flushes full batches only.
TickFull ==
  /\ phase = "select" /\ Len(batch) >= BatchSize /\ phase' = "post"
  /\ UNCHANGED <<target, ch, batch, posted, cancelled, entries, accepted, due>>

Tick ==
  /\ phase = "select" /\ batch # <<>> /\ phase' = "post"
  /\ UNCHANGED <<target, ch, batch, posted, cancelled, entries, accepted, due>>

\* ship, which ends whether the post succeeds or not, and flush.
Post ==
  /\ phase \in {"post", "last post"}
  /\ posted' = IF target = NoTarget THEN posted ELSE posted \o batch
  /\ batch' = <<>>
  /\ phase' = IF phase = "post" THEN "select" ELSE "done"
  /\ UNCHANGED <<target, ch, cancelled, entries, accepted, due>>

\* The select may choose any ready case, and need not see the end at once.
BeginDrain ==
  /\ phase = "select" /\ cancelled /\ phase' = "drain"
  /\ UNCHANGED <<target, ch, batch, posted, cancelled, entries, accepted, due>>

\* A plausible bug: the batch is flushed and the channel left alone.
DrainBatch ==
  /\ phase = "drain" /\ phase' = (IF batch = <<>> THEN "done" ELSE "last post")
  /\ UNCHANGED <<ch, batch>>
  /\ UNCHANGED <<target, posted, cancelled, entries, accepted, due>>

Drain ==
  /\ phase = "drain"
  /\ \/ Take /\ UNCHANGED phase
     \/ ch = <<>> /\ phase' = (IF batch = <<>> THEN "done" ELSE "last post") /\ UNCHANGED <<ch, batch>>
  /\ UNCHANGED <<target, posted, cancelled, entries, accepted, due>>

Ship == Receive \/ Tick \/ Post \/ BeginDrain \/ Drain
LogNext == Fire \/ Ship

------------------------------------------------------------------------------
(* Correctness *)

LogTypeOK ==
  /\ phase \in {"select", "post", "drain", "last post", "done"}
  /\ cancelled \in BOOLEAN /\ entries \in Nat /\ due \in 0..Len(accepted)
  /\ Len(ch) <= Capacity
  /\ phase = "select" => Len(batch) < BatchSize
  /\ phase \in {"post", "last post"} => batch # <<>>
  /\ phase \in {"drain", "last post", "done"} => cancelled

\* An entry the channel took is posted once, in the order of logging: what was
\* posted, is batched and is queued is what was accepted.  When the goroutine
\* returns, everything accepted before the shutdown was posted.
NoEntryLost ==
  /\ posted \o batch \o ch = accepted
  /\ phase = "done" => batch = <<>> /\ Len(posted) >= due

\* An entry does not wait for the batch to fill: channel and batch are emptied
\* again and again (what is logged after the goroutine returned goes with the
\* process, which is about to exit).
EntriesShipped == []<>(batch \o ch = <<>>)
============================================================================
