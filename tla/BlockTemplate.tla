----------------------------- MODULE BlockTemplate -----------------------------
(***************************************************************************)
(* How the server fills a block template: block_txs and                    *)
(* finalize_coinbase_tx of lib/server.rs, with the block producer of       *)
(* lib/cusf_block_producer.rs.                                             *)
(*                                                                         *)
(* The producer asks for txs before and after those of the mempool, and    *)
(* names txs to leave out.  A clone of the mempool gets the former and     *)
(* loses them all again (try_filter), txs are chosen from what is left by  *)
(* propose_txs, whose steps are those of Mempool, and then the producer    *)
(* may change the txs at the end and the txouts of the coinbase as it      *)
(* likes: nothing is weighed again.  The whole happens under the read      *)
(* lock.  Between two templates txs are added to the mempool; what else    *)
(* may happen to it is in Mempool.                                         *)
(*                                                                         *)
(* A template is of one of two kinds, as the request has it.  For          *)
(* coinbasetxn the server makes the coinbase; for coinbasevalue it has no  *)
(* txouts, is left to the miner, and its value is not found here.          *)
(***************************************************************************)
EXTENDS Mempool

CONSTANTS
  InitialTemplates,    \* what initial_block_template may make of a template
  Finalized,           \* Finalized[t]: what finalize_block_template may make of t
  Generated,           \* the txs that a producer makes
  Weight,              \* Weight[t]: the weight of t, before the weight_tweak
  MaxUsableWeight,     \* MAX_USABLE_BLOCK_WEIGHT
  TxoutWeight,         \* of a txout of the producer's
  CommitmentWeight,    \* COINBASE_WITNESS_COMMITMENT_TXOUT_WEIGHT
  PayoutWeight,        \* payout_txout_weight
  Heights,             \* heights of the block
  InitialSubsidy,      \* 50 BTC
  HalvingInterval      \* subsidy_halving_interval

\* coinbase_txouts are the values of the txouts, reserved the weight of all
\* SuffixTxsItem::Reserved.
ASSUME InitialTemplatesAssumption ==
  /\ InitialTemplates \subseteq
       [coinbase_txn : BOOLEAN, prefix_txs : Seq(Tx), suffix_txs : Seq(Tx), reserved : Nat,
        exclude_mempool_txs : SUBSET Tx, coinbase_txouts : Seq(Nat)]
  /\ \A t \in InitialTemplates : ~t.coinbase_txn => t.coinbase_txouts = << >>
ASSUME FinalizedAssumption ==
  \A t \in InitialTemplates :
    /\ Finalized[t] \subseteq [suffix_txs : Seq(Tx), coinbase_txouts : Seq(Nat)]
    /\ ~t.coinbase_txn => \A final \in Finalized[t] : final.coinbase_txouts = << >>
ASSUME GeneratedAssumption == Generated \subseteq Tx
ASSUME WeightAssumption == Weight \in [Tx -> Nat \ {0}]
ASSUME BlockWeightAssumption ==
  {MaxUsableWeight, TxoutWeight, CommitmentWeight, PayoutWeight} \subseteq Nat
ASSUME SubsidyAssumption ==
  Heights \subseteq Nat /\ InitialSubsidy \in Nat /\ HalvingInterval \in Nat \ {0}

\* The subsidy after so many halvings.
Halved[halvings \in Nat] ==
  IF halvings = 0 THEN InitialSubsidy ELSE Halved[halvings - 1] \div 2

\* It is a number of 64 bits.
ASSUME SubsidyWidthAssumption == Halved[64] = 0

VARIABLES
  stage,     \* "idle", "filter", "propose", "filled" or "failed"
  initial,   \* initial_block_template
  base,      \* the clone that propose_txs is called on
  block      \* the txs, their depends, the values of the coinbase's txouts, and
             \* what the producer has made of its part

blockVars == <<stage, initial, base, block>>

EmptyTemplate ==
  [coinbase_txn |-> FALSE, prefix_txs |-> << >>, suffix_txs |-> << >>, reserved |-> 0,
   exclude_mempool_txs |-> {}, coinbase_txouts |-> << >>]

EmptyBlock ==
  [txs |-> << >>, depends |-> << >>, coinbase |-> << >>, height |-> 0,
   finalized |-> [suffix_txs |-> << >>, coinbase_txouts |-> << >>]]

BlockInit ==
  /\ Init
  /\ stage = "idle" /\ initial = EmptyTemplate /\ base = EmptyMempool /\ block = EmptyBlock

\* What a producer generates is new to the mempool.
AddsTx(t) == stage = "idle" /\ t \notin Generated /\ AddTx(t) /\ UNCHANGED blockVars

------------------------------------------------------------------------------

Prefix == ToSet(initial.prefix_txs)

\* Wrong: the children of what is left out stay.
FilterCallsOnly(prefix, without) ==
  {RemoveCalls(order) : order \in {p \o w : p \in SetToSeqs(prefix), w \in SetToSeqs(without)}}

\* The two calls of try_filter: the prefix txs go alone, the excluded and the
\* suffix txs with their descendants.
FilterCalls(prefix, without) ==
  {RemoveCalls(p) \o w : p \in SetToSeqs(prefix), w \in RemoveWithDescendantsCalls(without)}

\* Mempool::insert, with no conflicts.  The weight of a prefix tx in the clone is
\* left as it is for the mempool: all of them are gone before any is looked at.
NoConflicts == INSTANCE MempoolTxs WITH ConflictsWith <- [t \in Tx |-> {}]

\* A prefix tx that is in the mempool already stays as it is.
StartTemplate(template_of) ==
  LET prefix  == ToSet(template_of.prefix_txs)
      filled  == FoldLeft(NoConflicts!MempoolInsert, pool, template_of.prefix_txs)
      without == template_of.exclude_mempool_txs \cup ToSet(template_of.suffix_txs)
  IN  /\ stage = "idle" /\ Unlocked
      /\ stage' = "filter"
      /\ initial' = template_of
      /\ proposing' = TRUE
      /\ clone' = filled
      /\ calls' \in FilterCalls(prefix, (without \cap InPool(filled)) \ prefix)
      /\ UNCHANGED <<callerVars, poolVars, remove_stack, error, weight_limit, weight_remaining,
                     to_add, template, base, block>>

Filters ==
  /\ stage = "filter"
  /\ RunCall \/ \E t \in Tx : PopRemoveStack(t)
  /\ UNCHANGED blockVars

\* What txs weigh in the block, whatever the enforcer has made of it.
RealWeight(txs) == MapThenSumSet(LAMBDA t : Weight[t], txs)

\* Wrong: the producer's reserved weight is not counted.
InitialWeightOfTxs ==
  RealWeight(Prefix) + RealWeight(ToSet(initial.suffix_txs))
    + Len(initial.coinbase_txouts) * TxoutWeight + CommitmentWeight + PayoutWeight

\* initial_block_template_weight: the payout is counted before it is known
\* whether there will be one.  The producer's txs count with their own weight,
\* those of the mempool, later on, with the one that the enforcer has tweaked.
InitialWeight ==
  RealWeight(Prefix) + RealWeight(ToSet(initial.suffix_txs)) + initial.reserved
    + Len(initial.coinbase_txouts) * TxoutWeight + CommitmentWeight + PayoutWeight

\* propose_txs is called, with the weight that is left, or none.
StartProposing ==
  /\ stage = "filter" /\ Proposes
  /\ stage' = "propose"
  /\ base' = clone
  /\ LET left == IF InitialWeight <= MaxUsableWeight THEN MaxUsableWeight - InitialWeight ELSE 0
     IN  weight_limit' = left /\ weight_remaining' = left
  /\ UNCHANGED <<callerVars, poolVars, calls, remove_stack, error, proposing, clone, to_add,
                 template, initial, block>>

ProposeTxs ==
  /\ stage = "propose"
  /\ \/ ChoosePackage \/ RunCall
     \/ \E t \in Tx : AddFromPackage(t) \/ PopRemoveStack(t)
  /\ UNCHANGED blockVars

\* Proposing is over.
Proposed == stage = "propose" /\ Proposes /\ to_add = {} /\ Fitting = {}

\* propose_txs looks up the ancestors of each tx in what comes before it.
AncestorsFound ==
  \A i \in DOMAIN template : AncestorsMut(base.txs, template[i]) \subseteq Before(i)

EndProposal(end, result) ==
  /\ stage' = end /\ block' = result
  /\ proposing' = FALSE /\ clone' = EmptyMempool /\ base' = EmptyMempool
  /\ weight_limit' = 0 /\ weight_remaining' = 0 /\ template' = << >>
  /\ UNCHANGED <<callerVars, poolVars, calls, remove_stack, to_add, initial>>

------------------------------------------------------------------------------

\* Wrong: the inputs are looked up among the txs that come later.
DependsOnLater(txs, i) == {j - 1 : j \in {k \in DOMAIN txs : txs[k] \in Vin[txs[i]] /\ k > i}}

\* The txs of the block that txs[i] spends, by their number from 0 on.
DependsOn(txs, i) == {j - 1 : j \in {k \in 1 .. i : txs[k] \in Vin[txs[i]]}}

\* What propose_txs has found for a mempool tx stays there.  It counts from the
\* first mempool tx.
DependsOf(txs) ==
  LET offset == Len(initial.prefix_txs)
      chosen(i) == IF i - offset \in DOMAIN template
                   THEN {j - 1 : j \in {k \in DOMAIN template :
                           template[k] \in AncestorsMut(base.txs, txs[i])}}
                   ELSE {}
  IN  [i \in DOMAIN txs |-> chosen(i) \cup DependsOn(txs, i)]

\* What a shift to the right divides by.
PowerOfTwo[bits \in Nat] == IF bits = 0 THEN 1 ELSE 2 * PowerOfTwo[bits - 1]

\* Wrong: the shift is not capped.
SubsidyShifted(height) ==
  LET halvings == height \div HalvingInterval IN InitialSubsidy \div PowerOfTwo[halvings % 64]

\* get_block_reward, without the fees
Subsidy(height) ==
  LET halvings == height \div HalvingInterval
  IN  IF halvings >= 64 THEN 0 ELSE InitialSubsidy \div PowerOfTwo[halvings]

TotalValue(txouts) == FoldLeft(LAMBDA sum, value : sum + value, 0, txouts)

\* What the producer's txouts, as they are in the end, leave of the block reward.
CoinbaseReward(txs, coinbase_txouts, height) ==
  Subsidy(height) + TotalFee(ToSet(txs)) - TotalValue(coinbase_txouts)

\* The error that the call ends with, if any.
Outcome(reward) ==
  IF ~AncestorsFound THEN "MissingAncestor"
  ELSE IF initial.coinbase_txn /\ reward < 0 THEN "CoinbaseRewardUnderflow" ELSE "none"

\* The prefix txs, the mempool txs and the suffix txs as finalize_block_template
\* has left them.  Only for coinbasetxn is there a finalize_coinbase_tx: it pays
\* what remains of the reward to the server, unless it is zero.
FinishTemplate(final, height) ==
  LET txs    == initial.prefix_txs \o template \o final.suffix_txs
      reward == CoinbaseReward(txs, final.coinbase_txouts, height)
      payout == IF reward > 0 THEN <<reward>> ELSE << >>
  IN  /\ Proposed
      /\ error' = Outcome(reward)
      /\ IF error' # "none"
         THEN EndProposal("failed", EmptyBlock)
         ELSE EndProposal("filled",
                [txs |-> txs, depends |-> DependsOf(txs), height |-> height,
                 finalized |-> final,
                 coinbase |-> IF initial.coinbase_txn
                              THEN final.coinbase_txouts \o payout ELSE << >>])

Finishes == \E final \in Finalized[initial], height \in Heights : FinishTemplate(final, height)

\* The template, or an error, is returned and the lock released.
Respond ==
  /\ stage \in {"filled", "failed"}
  /\ stage' = "idle" /\ initial' = EmptyTemplate /\ block' = EmptyBlock
  /\ error' = "none"
  /\ UNCHANGED <<callerVars, poolVars, calls, remove_stack, proposalVars, base>>

BlockNext ==
  \/ \E t \in Tx : AddsTx(t)
  \/ \E template_of \in InitialTemplates : StartTemplate(template_of)
  \/ Filters \/ StartProposing \/ ProposeTxs \/ Finishes
  \/ Respond

BlockSpec == BlockInit /\ [][BlockNext]_<<vars, blockVars>>

------------------------------------------------------------------------------
\* What a producer must keep to, with the suffix that it begins or ends with:
\* prefix and suffix txs spend only what comes before them, and what conflicts
\* with them is excluded.
KeepsContract(t, suffix_txs) ==
  LET around == t.prefix_txs \o suffix_txs
  IN  /\ IsInjective(around)
      /\ \A i \in DOMAIN around :
           /\ Vin[around[i]] \subseteq {around[j] : j \in 1 .. (i - 1)}
           /\ ConflictsWith[around[i]] \subseteq t.exclude_mempool_txs
      /\ t.exclude_mempool_txs \cap ToSet(around) = {}

\* And what the suffix ends with was there at the beginning or is new.
ProducerContract ==
  \A t \in InitialTemplates :
    /\ KeepsContract(t, t.suffix_txs)
    /\ \A final \in Finalized[t] :
         /\ KeepsContract(t, final.suffix_txs)
         /\ ToSet(final.suffix_txs) \subseteq ToSet(t.suffix_txs) \cup Generated

\* The suffix and the txouts weigh no more in the end than was asked for.
KeepsWeight(t, final) ==
  RealWeight(ToSet(final.suffix_txs)) + Len(final.coinbase_txouts) * TxoutWeight
    <= RealWeight(ToSet(t.suffix_txs)) + t.reserved + Len(t.coinbase_txouts) * TxoutWeight

\* Properties of a template, of a producer that keeps to this.

\* The txs of the block before the i-th.
BlockBefore(i) == {block.txs[j] : j \in 1 .. (i - 1)}

\* A block has no tx twice, each after all unconfirmed txs that it spends, and no
\* two that conflict, whatever the producer puts around the mempool txs and
\* whichever of them it takes out.  And nothing it has excluded, or that spends
\* such a tx, comes in through the mempool.
BlockValid ==
  /\ IsInjective(block.txs)
  /\ \A i \in DOMAIN block.txs :
       /\ Vin[block.txs[i]] \subseteq BlockBefore(i)
       /\ ConflictsWith[block.txs[i]] \cap ToSet(block.txs) = {}
  /\ stage = "filled" =>
       LET excluded == initial.exclude_mempool_txs \ Prefix
       IN  ToSet(block.txs) \cap (excluded \cup DescendantsIn(InPool(pool), excluded)) = {}

\* The txs of the block that have come from the mempool.
Chosen == ToSet(block.txs) \ (Prefix \cup ToSet(block.finalized.suffix_txs))

\* The txouts of the coinbase: those of the producer, the commitment and the
\* payout, which is the miner's for coinbasevalue.
CoinbaseWeight ==
  LET txouts == block.finalized.coinbase_txouts
  IN  Len(txouts) * TxoutWeight + CommitmentWeight
        + (IF ~initial.coinbase_txn \/ Len(block.coinbase) > Len(txouts) THEN PayoutWeight ELSE 0)

\* Of a producer that asks for no more than is usable and ends with no more than
\* it has asked for, the block keeps to the usable weight: always, if a mempool
\* tx counts as what the enforcer has made of its weight; and in truth, unless
\* the enforcer has made a tx of the block lighter than it is.
BlockFits ==
  stage = "filled" /\ InitialWeight <= MaxUsableWeight /\ KeepsWeight(initial, block.finalized) =>
    /\ RealWeight(ToSet(block.txs) \ Chosen) + TotalWeight(Chosen) + CoinbaseWeight
         <= MaxUsableWeight
    /\ (\A t \in Chosen : Weight[t] <= ModifiedWeight[t]) =>
         RealWeight(ToSet(block.txs)) + CoinbaseWeight <= MaxUsableWeight

\* The depends of a tx name only txs that come before it, and every one that it
\* spends; and only those that it spends, directly or not, when there is no
\* prefix.
DependsSound ==
  \A i \in DOMAIN block.txs :
    LET named == {block.txs[j + 1] : j \in block.depends[i]}
    IN  /\ block.depends[i] \subseteq 0 .. (i - 2)
        /\ Vin[block.txs[i]] \cap ToSet(block.txs) \subseteq named
        /\ initial.prefix_txs = << >> =>
             \A x \in named : block.txs[i] \in DescendantsIn(Tx, {x})

\* The coinbase of a coinbasetxn template pays out all fees of the block and the
\* subsidy, which is halved after every HalvingInterval blocks, no more and no
\* less, whatever the producer has taken of it in the end.
CoinbasePaysAll ==
  stage = "filled" /\ initial.coinbase_txn =>
    TotalValue(block.coinbase) =
      TotalFee(ToSet(block.txs)) + Halved[block.height \div HalvingInterval]
================================================================================
