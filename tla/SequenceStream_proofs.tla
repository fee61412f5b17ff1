----------------------- MODULE SequenceStream_proofs ------------------------
(***************************************************************************)
(* For every modulus, burst length and log, the stream of lib/zmq.rs       *)
(* yields an unbroken piece of the node's log, ends when a message was     *)
(* lost, and raises no alarm otherwise.                                    *)
(***************************************************************************)
EXTENDS SequenceStream, TLAPS

------------------------------------------------------------------------------
\* Arithmetic of the wrapping zmq counter.

\* A remainder is in range and comes with a quotient.
LEMMA ModDiv ==
  ASSUME NEW m \in Nat, m > 0, NEW a \in Int
  PROVE  /\ a % m \in 0 .. (m - 1)
         /\ a \div m \in Int
         /\ a = m * (a \div m) + (a % m)
OBVIOUS

\* Quotient and remainder are unique.
LEMMA ModUnique ==
  ASSUME NEW m \in Nat, m > 0, NEW a \in Int,
         NEW q \in Int, NEW r \in 0 .. (m - 1), a = m * q + r
  PROVE  a % m = r
<1> DEFINE q2 == a \div m
           r2 == a % m
<1>1. q2 \in Int /\ r2 \in 0 .. (m - 1) /\ a = m * q2 + r2
  BY ModDiv
<1> HIDE DEF q2, r2
<1>2. m * (q - q2) = r2 - r
  BY <1>1
<1>3. r2 - r < m /\ r2 - r > -m
  BY <1>1
<1>4. ~ (q - q2 >= 1)
  <2>1. SUFFICES ASSUME q - q2 >= 1 PROVE FALSE
    OBVIOUS
  <2>2. m * (q - q2) >= m * 1
    BY <1>1, <2>1
  <2> QED BY <2>2, <1>2, <1>3, <1>1
<1>5. ~ (q - q2 <= -1)
  <2>1. SUFFICES ASSUME q - q2 <= -1 PROVE FALSE
    OBVIOUS
  <2>2. m * (q - q2) <= m * (-1)
    BY <1>1, <2>1
  <2> QED BY <2>2, <1>2, <1>3, <1>1
<1>6. q = q2
  BY <1>1, <1>4, <1>5
<1>7. r = r2
  BY <1>1, <1>6
<1> QED BY <1>7 DEF r2

\* The u32 successor of position i's number is the number of position i + 1.
LEMMA SuccOfZmqSeq ==
  ASSUME NEW i \in Nat
  PROVE  /\ ZmqSeq(i) \in 0 .. (ZmqModulus - 1)
         /\ U32Succ(ZmqSeq(i)) = ZmqSeq(i + 1)
<1> DEFINE m == ZmqModulus
           q == i \div m
           r == i % m
<1>1. m \in Nat /\ m > 0
  BY ZmqModulusAssumption
<1>2. q \in Int /\ r \in 0 .. (m - 1) /\ i = m * q + r
  BY ModDiv, <1>1
<1> HIDE DEF m, q, r
<1>3. CASE r + 1 < m
  <2>1. r + 1 \in 0 .. (m - 1)
    BY <1>1, <1>2, <1>3
  <2>2. (i + 1) % m = r + 1
    <3>1. i + 1 = m * q + (r + 1)
      BY <1>1, <1>2
    <3> QED BY <1>1, <1>2, <2>1, <3>1, ModUnique
  <2>3. (r + 1) % m = r + 1
    <3>1. r + 1 = m * 0 + (r + 1)
      BY <1>1, <1>2
    <3> QED BY <1>1, <1>2, <2>1, <3>1, ModUnique
  <2> QED BY <1>2, <2>2, <2>3 DEF ZmqSeq, U32Succ, r, m
<1>4. CASE r + 1 = m
  <2>1. (i + 1) % m = 0
    <3>1. i + 1 = m * (q + 1) + 0
      BY <1>1, <1>2, <1>4
    <3> QED BY <1>1, <1>2, <3>1, ModUnique
  <2>2. (r + 1) % m = 0
    <3>1. r + 1 = m * 1 + 0
      BY <1>1, <1>2, <1>4
    <3> QED BY <1>1, <1>2, <3>1, ModUnique
  <2> QED BY <1>2, <2>1, <2>2 DEF ZmqSeq, U32Succ, r, m
<1> QED BY <1>1, <1>2, <1>3, <1>4

\* Positions less than a modulus apart have different numbers.
LEMMA ZmqSeqDistinct ==
  ASSUME NEW i \in Nat, NEW j \in Nat, i < j, j < i + ZmqModulus
  PROVE  ZmqSeq(i) # ZmqSeq(j)
<1> DEFINE m == ZmqModulus
           q == i \div m
           q2 == j \div m
           r == i % m
<1>1. m \in Nat /\ m > 0
  BY ZmqModulusAssumption
<1>2. SUFFICES ASSUME j % m = r PROVE FALSE
  BY DEF ZmqSeq
<1>3. q \in Int /\ r \in 0 .. (m - 1) /\ i = m * q + r
  BY ModDiv, <1>1
<1>4. q2 \in Int /\ j = m * q2 + r
  BY ModDiv, <1>1, <1>2
<1>5. i < j /\ j < i + m
  OBVIOUS
<1> HIDE DEF m, q, q2, r
<1>6. m * (q2 - q) = j - i
  BY <1>1, <1>3, <1>4
<1>7. q2 - q >= 1
  <2>1. SUFFICES ASSUME q2 - q <= 0 PROVE FALSE
    BY <1>3, <1>4
  <2>2. m * (q2 - q) <= m * 0
    BY <1>1, <1>3, <1>4, <2>1
  <2> QED BY <2>2, <1>1, <1>5, <1>6
<1>8. m * (q2 - q) >= m * 1
  BY <1>1, <1>3, <1>4, <1>7
<1> QED BY <1>1, <1>5, <1>6, <1>8

------------------------------------------------------------------------------
\* The inductive invariant.

IsTx(i) == log[i].tag = "TxHash"

\* The node numbers its tx messages upwards, without a gap unless a block
\* event stands in between.
LogNumbered ==
  /\ \A i \in 1 .. Len(log) : IsTx(i) => log[i].mempool_seq < node_seq
  /\ \A i, j \in 1 .. Len(log) :
        i < j /\ IsTx(i) /\ IsTx(j) => log[i].mempool_seq < log[j].mempool_seq
  /\ \A i \in 1 .. (Len(log) - 1) :
        IsTx(i) /\ IsTx(i + 1) => log[i + 1].mempool_seq = log[i].mempool_seq + 1
  /\ Len(log) > 0 /\ IsTx(Len(log)) => node_seq = log[Len(log)].mempool_seq + 1

\* While the stream is open its two counters describe the message read last,
\* which is the one yielded last.
Tracking ==
  status = "open" =>
    /\ pos = 0 => /\ next_zmq_seq = None
                  /\ next_mempool_seq = None
                  /\ delivered = << >>
    /\ pos # 0 =>
         /\ delivered # << >>
         /\ delivered[Len(delivered)] = pos
         /\ next_zmq_seq = Some(ZmqSeq(pos + 1))
         /\ next_mempool_seq.tag = "Equal" =>
              IsTx(pos) /\ next_mempool_seq.seq = log[pos].mempool_seq + 1
         /\ next_mempool_seq.tag # "Equal" => log[pos] = BlockMsg
         /\ next_mempool_seq.tag = "AtLeast" =>
              /\ next_mempool_seq.seq <= node_seq
              /\ \A j \in (pos + 1) .. Len(log) :
                    IsTx(j) => next_mempool_seq.seq <= log[j].mempool_seq

IInv == TypeOK /\ LogNumbered /\ Tracking /\ GapFree

LEMMA InitIInv == Init => IInv
BY ZmqModulusAssumption
   DEF Init, IInv, TypeOK, LogNumbered, Tracking, GapFree, None, IsTx

\* What the two checks make of a message: one that was yielded already is
\* ignored, the next one (or the very first) is yielded, a later one ends the
\* stream.  In a build with overflow checks each may panic instead.
LEMMA RecvOutcome ==
  ASSUME IInv, NEW i \in Arrivals, Recv(i)
  PROVE  \/ status' = "panicked" /\ delivered' = delivered
         \/ /\ pos # 0 /\ i = pos
            /\ status' = "open"
            /\ UNCHANGED <<delivered, next_zmq_seq, next_mempool_seq>>
         \/ /\ pos = 0 \/ i = pos + 1
            /\ status' = "open"
            /\ delivered' = Append(delivered, i)
            /\ next_zmq_seq' = Some(ZmqSeq(i + 1))
            /\ next_mempool_seq' =
                 IF IsTx(i) THEN Equal(log[i].mempool_seq + 1)
                 ELSE IF next_mempool_seq.tag = "Equal"
                      THEN AtLeast(next_mempool_seq.seq) ELSE next_mempool_seq
         \/ /\ pos # 0 /\ i > pos + 1
            /\ status' \in {"failed", "panicked"}
            /\ delivered' = delivered
<1> DEFINE n == log[i].mempool_seq
           mem == CheckMempoolSeq(log[i])
           zmq == CheckZmqSeq(ZmqSeq(i))
<1>1. /\ i \in 1 .. Len(log) /\ pos <= i /\ i <= pos + 1 + MaxBurst
      /\ pos \in Nat /\ i \in Nat
      /\ status = "open"
      /\ log[i] \in Message
  BY DEF IInv, TypeOK, Arrivals, Recv
<1>2. log[i] = BlockMsg \/ (IsTx(i) /\ n \in Nat)
  BY <1>1 DEF Message, IsTx, TxMsg
<1>3. ZmqSeq(i) \in 0 .. (ZmqModulus - 1) /\ U32Succ(ZmqSeq(i)) = ZmqSeq(i + 1)
  BY <1>1, SuccOfZmqSeq
<1>4. /\ next_mempool_seq' = mem.next
      /\ next_zmq_seq' = IF mem.res = "deliver" THEN zmq.next ELSE next_zmq_seq
      /\ mem.res = "deliver" =>
           /\ delivered' = IF zmq.res = "deliver" THEN Append(delivered, i) ELSE delivered
           /\ status' = IF zmq.res \in {"failed", "panicked"} THEN zmq.res ELSE "open"
      /\ mem.res # "deliver" =>
           /\ delivered' = IF mem.res = "deliver" THEN Append(delivered, i) ELSE delivered
           /\ status' = IF mem.res \in {"failed", "panicked"} THEN mem.res ELSE "open"
  BY DEF Recv, CheckSeqNumbers
<1>5. zmq.res = "panicked"
      \/ zmq = [res |-> IF next_zmq_seq = Some(ZmqSeq(i + 1)) THEN "ignore"
                        ELSE IF next_zmq_seq \in {None, Some(ZmqSeq(i))}
                             THEN "deliver" ELSE "failed",
                next |-> IF next_zmq_seq \in {None, Some(ZmqSeq(i))}
                         THEN Some(ZmqSeq(i + 1)) ELSE next_zmq_seq]
  BY <1>3 DEF CheckZmqSeq
<1>6. log[i] = BlockMsg => mem.res = "deliver"
  BY DEF CheckMempoolSeq, BlockMsg
<1>7. CASE zmq.res = "panicked" /\ mem.res = "deliver"
  BY <1>4, <1>7
<1>8. CASE pos = 0 /\ ~ (zmq.res = "panicked" /\ mem.res = "deliver")
  <2>1. next_zmq_seq = None /\ next_mempool_seq = None
    BY <1>1, <1>8 DEF IInv, Tracking
  <2>2. None # Some(ZmqSeq(i + 1))
    BY DEF None, Some
  <2>3. /\ mem.res = "deliver"
        /\ mem.next = IF IsTx(i) THEN Equal(n + 1) ELSE next_mempool_seq
    BY <1>2, <2>1 DEF CheckMempoolSeq, None, BlockMsg, IsTx
  <2>4. zmq.res = "deliver" /\ zmq.next = Some(ZmqSeq(i + 1))
    BY <1>5, <1>8, <2>1, <2>2, <2>3
  <2>5. next_mempool_seq.tag # "Equal"
    BY <2>1 DEF None
  <2> QED BY <1>4, <1>8, <2>3, <2>4, <2>5
<1>9. CASE pos # 0 /\ ~ (zmq.res = "panicked" /\ mem.res = "deliver")
  <2>1. /\ next_zmq_seq = Some(ZmqSeq(pos + 1))
        /\ next_mempool_seq.tag = "Equal" =>
             IsTx(pos) /\ next_mempool_seq.seq = log[pos].mempool_seq + 1
        /\ next_mempool_seq.tag # "Equal" => log[pos] = BlockMsg
        /\ next_mempool_seq.tag = "AtLeast" =>
             \A j \in (pos + 1) .. Len(log) :
                IsTx(j) => next_mempool_seq.seq <= log[j].mempool_seq
    BY <1>1, <1>9 DEF IInv, Tracking
  <2>2. next_zmq_seq # None
    BY <2>1 DEF None, Some
  <2>3. pos \in 1 .. Len(log) /\ log[pos] \in Message
    BY <1>1, <1>9 DEF IInv, TypeOK
  <2>4. /\ next_mempool_seq.tag \in {"None", "AtLeast", "Equal"}
        /\ next_mempool_seq.tag # "None" => next_mempool_seq.seq \in Nat
    BY DEF IInv, TypeOK, None
  <2>5. \A a \in Nat, b \in Nat : Some(a) = Some(b) => a = b
    BY DEF Some
  <2>6. CASE i = pos
    <3>1. CASE IsTx(i)
      <4>1. next_mempool_seq.tag = "Equal" /\ n + 1 = next_mempool_seq.seq
        BY <2>1, <2>6, <3>1 DEF IsTx, BlockMsg
      <4>2. mem.res = "ignore" /\ mem.next = next_mempool_seq
        BY <1>2, <3>1, <4>1 DEF CheckMempoolSeq, IsTx, BlockMsg
      <4> QED BY <1>4, <1>9, <2>6, <4>2
    <3>2. CASE log[i] = BlockMsg
      <4>1. next_mempool_seq.tag # "Equal"
        BY <2>1, <2>6, <3>2 DEF IsTx, BlockMsg
      <4>2. mem.res = "deliver" /\ mem.next = next_mempool_seq
        BY <3>2, <4>1 DEF CheckMempoolSeq, BlockMsg
      <4>3. ZmqSeq(i) # ZmqSeq(i + 1)
        BY <1>1, ZmqSeqDistinct, ZmqModulusAssumption
      <4>4. zmq.res = "ignore" /\ zmq.next = next_zmq_seq
        BY <1>3, <1>5, <1>9, <2>1, <2>2, <2>6, <4>2, <4>3 DEF Some
      <4> QED BY <1>4, <1>9, <2>6, <4>2, <4>4
    <3> QED BY <1>2, <3>1, <3>2
  <2>7. CASE i = pos + 1
    <3>1. /\ mem.res = "deliver"
          /\ mem.next = IF IsTx(i) THEN Equal(n + 1)
                        ELSE IF next_mempool_seq.tag = "Equal"
                             THEN AtLeast(next_mempool_seq.seq) ELSE next_mempool_seq
      <4>1. CASE log[i] = BlockMsg
        BY <4>1 DEF CheckMempoolSeq, BlockMsg, IsTx
      <4>2. CASE IsTx(i) /\ next_mempool_seq.tag = "Equal"
        <5>1. n = next_mempool_seq.seq
          BY <1>1, <2>1, <2>3, <2>7, <4>2 DEF IInv, LogNumbered
        <5> QED BY <1>2, <4>2, <5>1 DEF CheckMempoolSeq, IsTx, BlockMsg
      <4>3. CASE IsTx(i) /\ next_mempool_seq.tag = "AtLeast"
        <5>1. n >= next_mempool_seq.seq
          BY <1>1, <1>2, <2>1, <2>4, <2>7, <4>3 DEF IsTx, BlockMsg
        <5> QED BY <1>2, <4>3, <5>1 DEF CheckMempoolSeq, IsTx, BlockMsg
      <4>4. CASE IsTx(i) /\ next_mempool_seq.tag = "None"
        BY <1>2, <4>4 DEF CheckMempoolSeq, IsTx, BlockMsg
      <4> QED BY <1>2, <2>4, <4>1, <4>2, <4>3, <4>4
    <3>2. ZmqSeq(i) # ZmqSeq(i + 1)
      BY <1>1, ZmqSeqDistinct, ZmqModulusAssumption
    <3>3. zmq.res = "deliver" /\ zmq.next = Some(ZmqSeq(i + 1))
      BY <1>3, <1>5, <1>9, <2>1, <2>7, <3>1, <3>2 DEF Some
    <3> QED BY <1>4, <1>9, <2>7, <3>1, <3>3
  <2>8. CASE i > pos + 1
    <3>1. mem.res # "ignore"
      <4>1. SUFFICES ASSUME IsTx(i), next_mempool_seq.tag = "Equal",
                            n + 1 = next_mempool_seq.seq
                     PROVE  FALSE
        BY <1>2, <1>6 DEF CheckMempoolSeq, IsTx
      <4>2. log[pos].mempool_seq < n
        BY <1>1, <2>1, <2>3, <2>8, <4>1 DEF IInv, LogNumbered
      <4>3. log[pos].mempool_seq + 1 = n + 1 /\ log[pos].mempool_seq \in Nat
        BY <2>1, <2>3, <4>1 DEF Message, IsTx, BlockMsg
      <4> QED BY <1>2, <4>1, <4>2, <4>3 DEF IsTx, BlockMsg
    <3>2. ZmqSeq(pos + 1) # ZmqSeq(i) /\ ZmqSeq(pos + 1) # ZmqSeq(i + 1)
      BY <1>1, <2>8, ZmqSeqDistinct, ZmqModulusAssumption, MaxBurstAssumption
    <3>3. mem.res = "deliver" => zmq.res = "failed"
      BY <1>5, <1>9, <2>1, <2>2, <3>2 DEF Some
    <3>4. mem.res \in {"deliver", "ignore", "failed"}
      BY DEF CheckMempoolSeq
    <3> QED BY <1>4, <1>9, <2>8, <3>1, <3>3, <3>4
  <2> QED BY <1>1, <2>6, <2>7, <2>8
<1> QED BY <1>7, <1>8, <1>9

------------------------------------------------------------------------------

\* The node appends to the log: the numbering goes on and nothing that the
\* stream has seen changes.
LEMMA PublishIInv ==
  ASSUME IInv, PublishTx \/ PublishBlock
  PROVE  IInv'
<1>1. PICK msg \in Message :
        /\ log' = Append(log, msg)
        /\ node_seq' \in Nat /\ node_seq' >= node_seq
        /\ msg # BlockMsg => msg = TxMsg(node_seq) /\ node_seq' = node_seq + 1
        /\ UNCHANGED <<pos, next_zmq_seq, next_mempool_seq, delivered, status>>
  <2>1. CASE PublishTx
    <3>1. TxMsg(node_seq) \in Message
      BY DEF IInv, TypeOK, TxMsg, Message
    <3> QED BY <2>1, <3>1 DEF PublishTx, IInv, TypeOK
  <2>2. CASE PublishBlock
    <3>1. BlockMsg \in Message
      BY DEF Message
    <3> QED BY <2>2, <3>1, MaxSilentAssumption DEF PublishBlock, IInv, TypeOK
  <2> QED BY <2>1, <2>2
<1>2. /\ log \in Seq(Message) /\ Len(log') = Len(log) + 1 /\ Len(log) \in Nat
      /\ \A i \in 1 .. Len(log) : log'[i] = log[i] /\ log[i] \in Message
      /\ log'[Len(log) + 1] = msg
      /\ log' \in Seq(Message)
  BY <1>1 DEF IInv, TypeOK
<1>3. /\ node_seq \in Nat
      /\ msg = BlockMsg \/ (msg.tag = "TxHash" /\ msg.mempool_seq = node_seq)
  BY <1>1 DEF IInv, TypeOK, TxMsg
<1>4. \A i \in 1 .. Len(log) : IsTx(i) => log[i].mempool_seq \in Nat
  BY <1>2 DEF Message, IsTx, BlockMsg
<1>5. TypeOK'
  BY <1>1, <1>2 DEF IInv, TypeOK
<1>6. LogNumbered'
  <2>1. \A i \in 1 .. Len(log') : IsTx(i)' => log'[i].mempool_seq < node_seq'
    BY <1>1, <1>2, <1>3, <1>4 DEF IInv, LogNumbered, IsTx, BlockMsg
  <2>2. \A i, j \in 1 .. Len(log') :
          i < j /\ IsTx(i)' /\ IsTx(j)' => log'[i].mempool_seq < log'[j].mempool_seq
    BY <1>1, <1>2, <1>3, <1>4 DEF IInv, LogNumbered, IsTx, BlockMsg
  <2>3. \A i \in 1 .. (Len(log') - 1) :
          IsTx(i)' /\ IsTx(i + 1)' => log'[i + 1].mempool_seq = log'[i].mempool_seq + 1
    BY <1>1, <1>2, <1>3, <1>4 DEF IInv, LogNumbered, IsTx, BlockMsg
  <2>4. (Len(log) > 0 /\ IsTx(Len(log)) => node_seq = log[Len(log)].mempool_seq + 1)'
    BY <1>1, <1>2, <1>3 DEF IsTx, BlockMsg, TxMsg
  <2> QED BY <2>1, <2>2, <2>3, <2>4 DEF LogNumbered, IsTx
<1>7. Tracking'
  <2>1. SUFFICES ASSUME status = "open", pos # 0 PROVE Tracking'
    BY <1>1 DEF IInv, Tracking
  <2>2. pos \in 1 .. Len(log) /\ log'[pos] = log[pos]
    BY <1>2, <2>1 DEF IInv, TypeOK
  <2>3. next_mempool_seq.tag = "AtLeast" =>
          /\ next_mempool_seq.seq \in Nat
          /\ next_mempool_seq.seq <= node_seq'
          /\ \A j \in (pos + 1) .. Len(log') :
                IsTx(j)' => next_mempool_seq.seq <= log'[j].mempool_seq
    <3>1. SUFFICES ASSUME next_mempool_seq.tag = "AtLeast"
                   PROVE  /\ next_mempool_seq.seq \in Nat
                          /\ next_mempool_seq.seq <= node_seq'
                          /\ \A j \in (pos + 1) .. Len(log') :
                                IsTx(j)' => next_mempool_seq.seq <= log'[j].mempool_seq
      OBVIOUS
    <3>2. next_mempool_seq.seq \in Nat
      BY <3>1 DEF IInv, TypeOK, None
    <3>3. /\ next_mempool_seq.seq <= node_seq
          /\ \A j \in (pos + 1) .. Len(log) :
                IsTx(j) => next_mempool_seq.seq <= log[j].mempool_seq
      BY <2>1, <3>1 DEF IInv, Tracking
    <3> QED BY <1>1, <1>2, <1>3, <2>2, <3>2, <3>3 DEF IsTx, BlockMsg
  <2> QED BY <1>1, <2>1, <2>2, <2>3 DEF IInv, Tracking, IsTx
<1>8. GapFree'
  BY <1>1 DEF IInv, GapFree
<1> QED BY <1>5, <1>6, <1>7, <1>8 DEF IInv

LEMMA RecvIInv ==
  ASSUME IInv, NEW i \in Arrivals, Recv(i)
  PROVE  IInv'
<1>1. /\ UNCHANGED <<log, node_seq>> /\ pos' = i /\ status = "open"
      /\ i \in 1 .. Len(log) /\ i \in Nat /\ pos <= i
  BY DEF Recv, nodeVars, Arrivals, IInv, TypeOK
<1>2. ZmqSeq(i + 1) \in 0 .. (ZmqModulus - 1)
  BY <1>1, SuccOfZmqSeq
<1>3. log[i] = BlockMsg \/ (IsTx(i) /\ log[i].mempool_seq \in Nat)
  <2>1. log[i] \in Message
    BY <1>1 DEF IInv, TypeOK
  <2> QED BY <2>1 DEF Message, IsTx
<1>4. LogNumbered'
  BY <1>1 DEF IInv, LogNumbered, IsTx
<1>5. /\ next_zmq_seq' \in {None} \cup [tag : {"Some"}, seq : 0 .. (ZmqModulus - 1)]
      /\ next_mempool_seq' \in {None} \cup [tag : {"AtLeast", "Equal"}, seq : Nat]
  <2>1. next_mempool_seq' = CheckMempoolSeq(log[i]).next
        /\ next_zmq_seq' \in {CheckZmqSeq(ZmqSeq(i)).next, next_zmq_seq}
    BY DEF Recv, CheckSeqNumbers
  <2>2. CheckZmqSeq(ZmqSeq(i)).next \in {next_zmq_seq, Some(ZmqSeq(i + 1))}
    BY <1>1, SuccOfZmqSeq DEF CheckZmqSeq
  <2>3. Some(ZmqSeq(i + 1)) \in [tag : {"Some"}, seq : 0 .. (ZmqModulus - 1)]
    BY <1>2 DEF Some
  <2>4. CheckMempoolSeq(log[i]).next
          \in {None} \cup [tag : {"AtLeast", "Equal"}, seq : Nat]
    <3>1. CASE log[i] = BlockMsg
      BY <3>1 DEF CheckMempoolSeq, BlockMsg, AtLeast, IInv, TypeOK, None
    <3>2. CASE IsTx(i) /\ log[i].mempool_seq \in Nat
      <4>1. CheckMempoolSeq(log[i]).next
              \in {next_mempool_seq, Equal(log[i].mempool_seq + 1)}
        BY <3>2 DEF CheckMempoolSeq, IsTx
      <4>2. Equal(log[i].mempool_seq + 1) \in [tag : {"AtLeast", "Equal"}, seq : Nat]
        BY <3>2 DEF Equal
      <4> QED BY <4>1, <4>2 DEF IInv, TypeOK
    <3> QED BY <1>3, <3>1, <3>2
  <2> QED BY <2>1, <2>2, <2>3, <2>4 DEF IInv, TypeOK
<1>6. CASE status' \in {"failed", "panicked"} /\ delivered' = delivered
  BY <1>1, <1>4, <1>5, <1>6 DEF IInv, TypeOK, Tracking, GapFree
<1>7. CASE /\ pos # 0 /\ i = pos
           /\ status' = "open"
           /\ UNCHANGED <<delivered, next_zmq_seq, next_mempool_seq>>
  BY <1>1, <1>4, <1>5, <1>7 DEF IInv, TypeOK, Tracking, GapFree, IsTx
<1>8. CASE /\ pos = 0 \/ i = pos + 1
           /\ status' = "open"
           /\ delivered' = Append(delivered, i)
           /\ next_zmq_seq' = Some(ZmqSeq(i + 1))
           /\ next_mempool_seq' =
                IF IsTx(i) THEN Equal(log[i].mempool_seq + 1)
                ELSE IF next_mempool_seq.tag = "Equal"
                     THEN AtLeast(next_mempool_seq.seq) ELSE next_mempool_seq
  <2>1. delivered \in Seq(Nat) /\ pos \in 0 .. Len(log)
    BY DEF IInv, TypeOK
  <2>2. /\ delivered' \in Seq(Nat) /\ Len(delivered') = Len(delivered) + 1
        /\ delivered'[Len(delivered')] = i
        /\ delivered' # << >>
        /\ \A k \in 1 .. Len(delivered) : delivered'[k] = delivered[k]
    BY <1>1, <1>8, <2>1
  <2>3. TypeOK'
    BY <1>1, <1>5, <1>8, <2>2 DEF IInv, TypeOK
  <2>4. GapFree'
    <3>1. CASE pos = 0
      BY <1>1, <2>2, <3>1 DEF IInv, Tracking, GapFree
    <3>2. CASE pos # 0
      <4>1. i = delivered[Len(delivered)] + 1 /\ Len(delivered) \in Nat
        BY <1>1, <1>8, <2>1, <3>2 DEF IInv, Tracking
      <4>2. \A k \in 1 .. (Len(delivered) - 1) : delivered[k + 1] = delivered[k] + 1
        BY DEF IInv, GapFree
      <4>3. SUFFICES ASSUME NEW k \in 1 .. Len(delivered)
                     PROVE  delivered'[k + 1] = delivered'[k] + 1
        BY <2>2, <4>1 DEF GapFree
      <4>4. CASE k = Len(delivered)
        BY <2>2, <4>1, <4>4
      <4>5. CASE k \in 1 .. (Len(delivered) - 1)
        BY <2>2, <4>1, <4>2, <4>5
      <4> QED BY <4>1, <4>4, <4>5
    <3> QED BY <3>1, <3>2
  <2>5. next_mempool_seq'.tag = "Equal" =>
          IsTx(i) /\ next_mempool_seq'.seq = log[i].mempool_seq + 1
    BY <1>8 DEF Equal, AtLeast
  <2>6. next_mempool_seq'.tag # "Equal" => log[i] = BlockMsg
    BY <1>3, <1>8 DEF Equal
  <2>7. next_mempool_seq'.tag = "AtLeast" =>
          /\ next_mempool_seq'.seq <= node_seq
          /\ \A j \in (i + 1) .. Len(log) :
                IsTx(j) => next_mempool_seq'.seq <= log[j].mempool_seq
    <3>1. SUFFICES ASSUME next_mempool_seq'.tag = "AtLeast"
                   PROVE  /\ next_mempool_seq'.seq <= node_seq
                          /\ \A j \in (i + 1) .. Len(log) :
                                IsTx(j) => next_mempool_seq'.seq <= log[j].mempool_seq
      OBVIOUS
    <3>2. pos # 0
      BY <1>1, <1>8, <3>1 DEF IInv, Tracking, None, Equal
    <3>3. CASE next_mempool_seq.tag = "Equal"
      <4>1. /\ next_mempool_seq'.seq = log[pos].mempool_seq + 1
            /\ IsTx(pos) /\ pos \in 1 .. Len(log)
        BY <1>1, <1>8, <2>1, <3>1, <3>2, <3>3 DEF IInv, Tracking, Equal, AtLeast
      <4>2. \A j \in 1 .. Len(log) : IsTx(j) => log[j].mempool_seq \in Nat
        BY DEF IInv, TypeOK, Message, IsTx, BlockMsg
      <4>3. node_seq \in Nat /\ log[pos].mempool_seq < node_seq
        BY <4>1 DEF IInv, TypeOK, LogNumbered
      <4>4. \A j \in (i + 1) .. Len(log) :
              IsTx(j) => log[pos].mempool_seq < log[j].mempool_seq
        BY <1>1, <4>1 DEF IInv, LogNumbered
      <4> QED BY <1>1, <4>1, <4>2, <4>3, <4>4
    <3>4. CASE next_mempool_seq.tag # "Equal"
      <4>1. next_mempool_seq' = next_mempool_seq
        BY <1>8, <3>1, <3>4 DEF Equal
      <4> QED BY <1>1, <2>1, <3>1, <3>2, <4>1 DEF IInv, Tracking
    <3> QED BY <3>3, <3>4
  <2>8. Tracking'
    BY <1>1, <1>8, <2>2, <2>5, <2>6, <2>7 DEF Tracking, IsTx
  <2> QED BY <1>4, <2>3, <2>4, <2>8 DEF IInv
<1> QED BY RecvOutcome, <1>6, <1>7, <1>8

LEMMA NextIInv == IInv /\ [Next]_vars => IInv'
<1> SUFFICES ASSUME IInv, [Next]_vars PROVE IInv'
  OBVIOUS
<1>1. CASE PublishTx \/ PublishBlock
  BY <1>1, PublishIInv
<1>2. CASE \E i \in Arrivals : Recv(i)
  BY <1>2, RecvIInv
<1>3. CASE RecvError
  BY <1>3 DEF RecvError, IInv, TypeOK, LogNumbered, Tracking, GapFree, IsTx
<1>4. CASE UNCHANGED vars
  BY <1>4 DEF vars, IInv, TypeOK, LogNumbered, Tracking, GapFree, IsTx
<1> QED BY <1>1, <1>2, <1>3, <1>4 DEF Next

------------------------------------------------------------------------------

LEMMA Invariance == Spec => []IInv
BY InitIInv, NextIInv, PTL DEF Spec

\* The counters and the log keep their types; the zmq counter stays a u32.
THEOREM TypeCorrect == Spec => []TypeOK
<1>1. IInv => TypeOK
  BY DEF IInv
<1> QED BY <1>1, Invariance, PTL

\* The stream yields an unbroken piece of what the node published, for every
\* modulus and every loss burst shorter than the modulus minus one.
THEOREM StreamGapFree == Spec => []GapFree
<1>1. IInv => GapFree
  BY DEF IInv
<1> QED BY <1>1, Invariance, PTL

\* A loss between two messages read off the socket ends the stream.
THEOREM LossDetected == Spec => LossEndsStream
<1> DEFINE A == (pos' > pos + 1 /\ delivered # << >>) => status' # "open"
<1>1. IInv /\ [Next]_vars => [A]_vars
  <2> SUFFICES ASSUME IInv, [Next]_vars PROVE A \/ UNCHANGED vars
    OBVIOUS
  <2>1. CASE \E i \in Arrivals : Recv(i)
    <3>1. PICK i \in Arrivals : Recv(i)
      BY <2>1
    <3>2. status = "open" /\ pos' = i /\ pos \in Nat /\ i \in Nat
      BY <3>1 DEF Recv, Arrivals, IInv, TypeOK
    <3>3. delivered # << >> => pos # 0
      BY <3>2 DEF IInv, Tracking
    <3> QED BY <3>1, <3>2, <3>3, RecvOutcome
  <2>2. CASE PublishTx \/ PublishBlock \/ RecvError
    BY <2>2 DEF PublishTx, PublishBlock, RecvError, IInv, TypeOK
  <2> QED BY <2>1, <2>2 DEF Next
<1> QED BY <1>1, Invariance, PTL DEF Spec, LossEndsStream

\* Without a loss nothing is swallowed and no sequence error is raised.
THEOREM NoFalseAlarm == Spec => NothingSwallowed
<1> DEFINE A == /\ pos' = pos + 1 =>
                     delivered' = Append(delivered, pos') \/ status' = "panicked"
                /\ pos' = pos => delivered' = delivered
                /\ pos' \in {pos, pos + 1} /\ status = "open" => status' # "failed"
<1>1. IInv /\ [Next]_vars => [A]_vars
  <2> SUFFICES ASSUME IInv, [Next]_vars PROVE A \/ UNCHANGED vars
    OBVIOUS
  <2>1. CASE \E i \in Arrivals : Recv(i)
    <3>1. PICK i \in Arrivals : Recv(i)
      BY <2>1
    <3>2. status = "open" /\ pos' = i /\ pos \in Nat /\ i \in Nat /\ i >= 1
      BY <3>1 DEF Recv, Arrivals, IInv, TypeOK
    <3> QED BY <3>1, <3>2, RecvOutcome
  <2>2. CASE PublishTx \/ PublishBlock \/ RecvError
    BY <2>2 DEF PublishTx, PublishBlock, RecvError, IInv, TypeOK
  <2> QED BY <2>1, <2>2 DEF Next
<1> QED BY <1>1, Invariance, PTL DEF Spec, NothingSwallowed

==============================================================================
