----------------------------- MODULE WorkQueue -----------------------------
(***************************************************************************)
(* The rate-limited work queue of client-go that lib/controller keeps its  *)
(* claims and volumes in.  Every method runs under the queue's locks, so   *)
(* it is an operator from the queue before the call to the queue after it. *)
(* Delays are not measured: a delayed item is added at some later time.    *)
(***************************************************************************)
EXTENDS Naturals, Sequences, Functions

QueueType(Items) ==
  [queue : Seq(Items),             \* what Get hands out, in this order
   dirty : SUBSET Items,           \* added and not yet handed out
   processing : SUBSET Items,      \* handed out and not yet Done
   delayed : SUBSET Items,         \* waiting for the rate limiter's delay
   requeues : [Items -> Nat]]      \* failures the rate limiter remembers

Queue(queue, dirty, processing, delayed, requeues) ==
  [queue |-> queue, dirty |-> dirty, processing |-> processing,
   delayed |-> delayed, requeues |-> requeues]

EmptyQueue(Items) == Queue(<<>>, {}, {}, {}, [k \in Items |-> 0])

(* An item being processed is only marked: Done puts it on the queue.      *)
Add(q, k) ==
  IF k \in q.dirty
    THEN q
    ELSE Queue(IF k \in q.processing THEN q.queue ELSE Append(q.queue, k),
               q.dirty \cup {k}, q.processing, q.delayed, q.requeues)

Get(q) ==
  LET k == Head(q.queue)
  IN  Queue(Tail(q.queue), q.dirty \ {k}, q.processing \cup {k}, q.delayed, q.requeues)

(* Faulty: an item that became dirty meanwhile is left to the next event.  *)
BadDone(q, k) == [q EXCEPT !.processing = q.processing \ {k}]

(* Done appends a dirty item without asking whether it is on the queue.    *)
Done(q, k) ==
  Queue(IF k \in q.dirty THEN Append(q.queue, k) ELSE q.queue,
        q.dirty, q.processing \ {k}, q.delayed, q.requeues)

NumRequeues(q, k) == q.requeues[k]

(* Faulty: the count goes down by one instead of being dropped.            *)
BadForget(q, k) == [q EXCEPT !.requeues = [q.requeues EXCEPT ![k] = @ - 1]]

Forget(q, k) ==
  Queue(q.queue, q.dirty, q.processing, q.delayed, [q.requeues EXCEPT ![k] = 0])

(* The limiter counts the failure; its delay is never zero (15s and more). *)
AddRateLimited(q, k) ==
  Queue(q.queue, q.dirty, q.processing, q.delayed \cup {k}, [q.requeues EXCEPT ![k] = @ + 1])

(* The waiting loop adds an item whose delay has passed.                   *)
DelayPasses(q, k) ==
  Add(Queue(q.queue, q.dirty, q.processing, q.delayed \ {k}, q.requeues), k)

(* A worker has the item, or the queue will hand it out.                   *)
Tracked(q, k) == k \in q.dirty \cup q.processing \cup q.delayed \cup Range(q.queue)

GivenUp(q, k, threshold) == NumRequeues(q, k) >= threshold /\ ~Tracked(q, k)

(* An item with failures is tracked unless it was given up.                *)
Retried(q, k, threshold) ==
  NumRequeues(q, k) > 0 => Tracked(q, k) \/ GivenUp(q, k, threshold)

(* An item marked dirty is on the queue, or Done will put it there.        *)
NoneLost(q) == q.dirty \subseteq q.processing \cup Range(q.queue)
=============================================================================
