--------------------------- MODULE SequenceStream ---------------------------
(***************************************************************************)
(* The ZMQ `sequence` subscription of lib/zmq.rs: the node publishes a     *)
(* numbered stream of block and tx events on a PUB socket, the socket may  *)
(* drop messages or hand the same one over twice, and `subscribe_sequence` *)
(* turns what arrives into a stream of messages that ends with an error as *)
(* soon as the numbers show that something is missing.                     *)
(*                                                                         *)
(* The ghost `delivered` records, by position in the node's log, which     *)
(* messages the stream yielded.                                            *)
(***************************************************************************)
EXTENDS Integers, Sequences

CONSTANTS
  ZmqModulus,     \* number of zmq sequence numbers: 2^32, they are u32
  MaxBurst,       \* most messages in a row the socket drops
  MaxSilent,      \* most mempool numbers a block event uses up silently
  MaxPublished,   \* bound: messages the node publishes
  OverflowChecks  \* TRUE for a build in which u32 overflow panics (debug)

ASSUME ZmqModulusAssumption == ZmqModulus \in Nat \ {0, 1, 2}

\* A burst of ZmqModulus - 1 losses looks like a duplicate, one of ZmqModulus
\* like no loss at all.  With u32 numbers that is 2^32 - 1 lost messages.
ASSUME MaxBurstAssumption == MaxBurst \in 0 .. (ZmqModulus - 2)
ASSUME MaxSilentAssumption == MaxSilent \in Nat
ASSUME MaxPublishedAssumption == MaxPublished \in Nat
ASSUME OverflowChecksAssumption == OverflowChecks \in BOOLEAN

VARIABLES
  log,               \* what the node has published, in order
  node_seq,          \* the node's next mempool sequence number
  pos,               \* position in log of the last message read off the socket
  next_zmq_seq,      \* Option<u32>
  next_mempool_seq,  \* Option<NextMempoolSeq>
  delivered,         \* positions of the messages the stream yielded, in order
  status             \* "open", or how the stream ended

vars == <<log, node_seq, pos, next_zmq_seq, next_mempool_seq, delivered,
          status>>

nodeVars == <<log, node_seq>>

None == [tag |-> "None"]

Some(n) == [tag |-> "Some", seq |-> n]

\* enum NextMempoolSeq, inside an Option
AtLeast(n) == [tag |-> "AtLeast", seq |-> n]

Equal(n) == [tag |-> "Equal", seq |-> n]

\* SequenceMessage: `mempool_seq` of a block event is None.  The block hash or
\* txid and the kind of event are not looked at by the checks.
BlockMsg == [tag |-> "BlockHash"]

TxMsg(n) == [tag |-> "TxHash", mempool_seq |-> n]

Message == {BlockMsg} \cup [tag : {"TxHash"}, mempool_seq : Nat]

\* zmq_seq of the message at position i of the log.
ZmqSeq(i) == i % ZmqModulus

\* `zmq_seq + 1` in u32 arithmetic.
U32Succ(n) == (n + 1) % ZmqModulus

------------------------------------------------------------------------------

Init ==
  /\ log = << >>
  /\ node_seq = 1
  /\ pos = 0
  /\ next_zmq_seq = None
  /\ next_mempool_seq = None
  /\ delivered = << >>
  /\ status = "open"

\* The node publishes a mempool event, which carries the next mempool number.
PublishTx ==
  /\ Len(log) < MaxPublished
  /\ log' = Append(log, TxMsg(node_seq))
  /\ node_seq' = node_seq + 1
  /\ UNCHANGED <<pos, next_zmq_seq, next_mempool_seq, delivered, status>>

\* The node publishes a block event.  The txs that the block took out of the
\* mempool used up mempool numbers for which no message is published.
PublishBlock ==
  /\ Len(log) < MaxPublished
  /\ log' = Append(log, BlockMsg)
  /\ \E k \in 0 .. MaxSilent : node_seq' = node_seq + k
  /\ UNCHANGED <<pos, next_zmq_seq, next_mempool_seq, delivered, status>>

\* check_mempool_seq: the outcome of the check and the new next_mempool_seq.
CheckMempoolSeq(msg) ==
  IF msg.tag = "BlockHash"
  THEN [res |-> "deliver",
        next |-> IF next_mempool_seq.tag = "Equal"
                 THEN AtLeast(next_mempool_seq.seq) ELSE next_mempool_seq]
  ELSE LET n == msg.mempool_seq
           expected == /\ next_mempool_seq.tag = "AtLeast" => n >= next_mempool_seq.seq
                       /\ next_mempool_seq.tag = "Equal" => n = next_mempool_seq.seq
           duplicate == /\ next_mempool_seq.tag = "Equal"
                        /\ n + 1 = next_mempool_seq.seq
       IN  [res |-> IF duplicate THEN "ignore"
                    ELSE IF expected THEN "deliver" ELSE "failed",
            next |-> IF expected THEN Equal(n + 1) ELSE next_mempool_seq]

\* Mutants of check_zmq_seq: without "Ignore duplicates" ...
CheckZmqSeqNoDup(zmq_seq) ==
  LET expected == next_zmq_seq \in {None, Some(zmq_seq)}
  IN  [res |-> IF expected THEN "deliver" ELSE "failed",
       next |-> IF expected THEN Some(U32Succ(zmq_seq)) ELSE next_zmq_seq]

\* ... with any later number let through ...
CheckZmqSeqAtLeast(zmq_seq) ==
  LET expected == next_zmq_seq = None \/ zmq_seq >= next_zmq_seq.seq
  IN  [res |-> IF expected THEN "deliver" ELSE "ignore",
       next |-> IF expected THEN Some(U32Succ(zmq_seq)) ELSE next_zmq_seq]

\* ... and with every unexpected number taken for a duplicate.
CheckZmqSeqLenient(zmq_seq) ==
  LET expected == next_zmq_seq \in {None, Some(zmq_seq)}
  IN  [res |-> IF expected THEN "deliver" ELSE "ignore",
       next |-> IF expected THEN Some(U32Succ(zmq_seq)) ELSE next_zmq_seq]

\* check_zmq_seq: likewise for next_zmq_seq.  Every path but the error one
\* adds 1 to zmq_seq, or to next_seq when the two are equal.
CheckZmqSeq(zmq_seq) ==
  LET overflow == /\ OverflowChecks
                  /\ zmq_seq = ZmqModulus - 1
      duplicate == next_zmq_seq = Some(U32Succ(zmq_seq))
      expected == next_zmq_seq \in {None, Some(zmq_seq)}
  IN  [res |-> IF overflow THEN "panicked"
               ELSE IF duplicate THEN "ignore"
               ELSE IF expected THEN "deliver" ELSE "failed",
       next |-> IF ~overflow /\ expected
                THEN Some(U32Succ(zmq_seq)) ELSE next_zmq_seq]

\* check_seq_numbers: the mempool check first, the zmq check if it passed.
CheckSeqNumbers(i) ==
  LET mempool == CheckMempoolSeq(log[i])
      zmq == CheckZmqSeq(ZmqSeq(i))
      passed == mempool.res = "deliver"
      res == IF passed THEN zmq.res ELSE mempool.res
  IN  /\ next_mempool_seq' = mempool.next
      /\ next_zmq_seq' = IF passed THEN zmq.next ELSE next_zmq_seq
      /\ delivered' = IF res = "deliver" THEN Append(delivered, i) ELSE delivered
      /\ status' = IF res \in {"failed", "panicked"} THEN res ELSE "open"

\* One message comes off the socket: the one read last, handed over again, or
\* a later one, the messages in between being lost.
Recv(i) ==
  /\ status = "open"
  /\ pos' = i
  /\ CheckSeqNumbers(i)
  /\ UNCHANGED nodeVars

\* The positions the socket may hand over next.
Arrivals == {i \in 1 .. Len(log) : pos <= i /\ i <= pos + 1 + MaxBurst}

\* socket.recv fails, or the frames do not parse.
RecvError ==
  /\ status = "open"
  /\ status' = "recv_error"
  /\ UNCHANGED <<log, node_seq, pos, next_zmq_seq, next_mempool_seq, delivered>>

Next ==
  \/ PublishTx
  \/ PublishBlock
  \/ \E i \in Arrivals : Recv(i)
  \/ RecvError

Spec == Init /\ [][Next]_vars

------------------------------------------------------------------------------

\* The one type invariant.  The zmq counter stays a u32 when it wraps.
TypeOK ==
  /\ log \in Seq(Message)
  /\ node_seq \in Nat
  /\ pos \in 0 .. Len(log)
  /\ next_zmq_seq \in {None} \cup [tag : {"Some"}, seq : 0 .. (ZmqModulus - 1)]
  /\ next_mempool_seq \in {None} \cup [tag : {"AtLeast", "Equal"}, seq : Nat]
  /\ delivered \in Seq(Nat)
  /\ status \in {"open", "failed", "panicked", "recv_error"}

\* What `subscribe_sequence` is for: between two messages that the stream
\* yields one after the other the node published nothing else, so whatever the
\* socket dropped or repeated, the consumer sees an unbroken piece of the log
\* (check_mempool_seq and check_zmq_seq, "Ignore duplicates", MissingZmqSequence).
GapFree ==
  \A k \in 1 .. (Len(delivered) - 1) : delivered[k + 1] = delivered[k] + 1

\* A loss is never passed over: when a message arrives after one or more were
\* dropped, and the stream had already yielded something, the stream ends.
LossEndsStream ==
  [][(pos' > pos + 1 /\ delivered # << >>) => status' # "open"]_vars

\* No message is mistaken for a duplicate and no alarm is raised without a
\* loss: a message that directly follows the one read before is yielded, and
\* one handed over again is not, in neither case with a sequence error.
NothingSwallowed ==
  [][/\ pos' = pos + 1 => delivered' = Append(delivered, pos') \/ status' = "panicked"
     /\ pos' = pos => delivered' = delivered
     /\ pos' \in {pos, pos + 1} /\ status = "open" => status' # "failed"]_vars

==============================================================================
