---------------------------- MODULE RequestQueue ----------------------------
(***************************************************************************)
(* The request queue of lib/mempool/sync/mod.rs: a linked hash set, that   *)
(* is a sequence without repetitions, from which the response stream takes *)
(* one batch at a time.                                                    *)
(***************************************************************************)
EXTENDS Integers, SequencesExt

CONSTANT MaxBatch   \* MAX_TX_REQUESTS_PER_BATCH

ASSUME MaxBatchAssumption == MaxBatch \in Nat \ {0}

\* enum RequestItem
BlockReq(b) == [req |-> "Block", block |-> b]

RejectBlockReq(b) == [req |-> "RejectBlock", block |-> b]

RejectTxReq(t) == [req |-> "RejectTx", tx |-> t]

TxReq(t, in_mempool) == [req |-> "Tx", tx |-> t, in_mempool |-> in_mempool]

\* push_back: `replace` leaves an item that is already queued where it is.
PushBack(queue, r) == IF Contains(queue, r) THEN queue ELSE Append(queue, r)

\* Wrong: an item that is queued already is queued again.
PushFrontAgain(queue, r) == <<r>> \o queue

\* What is left of queue when the members of drop are taken out.
Without(queue, drop) ==
  LET left[n \in 0 .. Len(queue)] ==
        IF n = 0 THEN << >>
        ELSE IF queue[n] \in drop THEN left[n - 1] ELSE Append(left[n - 1], queue[n])
  IN  left[Len(queue)]

\* push_front: `replace`, then `to_front`.
PushFront(queue, r) == <<r>> \o Without(queue, {r})

\* push_front for each of rs, the last one first, so that rs ends up in front
\* in its own order.
PushAllFront(queue, rs) ==
  rs \o Without(queue, ToSet(rs))

\* How many items from the front go into one batch: a run of RejectTx, a run
\* of at most MaxBatch Tx, or a single Block or RejectBlock.
BatchLen(queue) ==
  LET kind == Head(queue).req
      SameKind(n) == \A i \in 1 .. n : queue[i].req = kind
      limit == IF kind = "RejectTx" THEN Len(queue)
               ELSE IF kind = "Tx" THEN MaxBatch ELSE 1
  IN  CHOOSE n \in 1 .. Len(queue) :
        /\ n <= limit /\ SameKind(n)
        /\ n + 1 <= Len(queue) /\ n + 1 <= limit => ~SameKind(n + 1)

Batch(queue) == SubSeq(queue, 1, BatchLen(queue))

AfterBatch(queue) == SubSeq(queue, BatchLen(queue) + 1, Len(queue))
==============================================================================
