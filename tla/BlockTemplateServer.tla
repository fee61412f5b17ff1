-------------------------- MODULE BlockTemplateServer --------------------------
(***************************************************************************)
(* The getblocktemplate server, lib/server.rs: long polling, the template  *)
(* cache, the known targets, and proposals.  Requests of several clients   *)
(* run concurrently with each other, with the node and with the task that  *)
(* keeps the mempool at the node's tip.                                    *)
(*                                                                         *)
(* The mempool is what the server sees of it: its tips and how often its   *)
(* txs have changed.  MempoolSync::with holds the read lock, so what is    *)
(* done under it is one step.  What goes into a template is in             *)
(* BlockTemplate.                                                          *)
(***************************************************************************)
EXTENDS Integers, SequencesExt

CONSTANTS
  Clients,
  Tips,             \* blocks that are the node's tip at some time
  FirstTip,
  None,
  Target,           \* tip -> the target of the block after it
  HasCache,         \* there is a cached_template_lifetime
  CacheLifetime,    \* and what it is
  LongPollTimeout,  \* LONG_POLL_TIMEOUT
  MaxNow,           \* bound on the clock
  MaxTips,          \* bound on the tips that the node has in a run
  MaxTxChanges,     \* bound on the changes to the mempool's txs
  MaxRequests,      \* bound on the requests
  Kinds,            \* coinbasetxn, coinbasevalue or both
  Blocks            \* blocks that may be proposed

ASSUME TipsAssumption == FirstTip \in Tips

ASSUME BlocksAssumption ==
  Blocks \subseteq [prev : Tips, node_accepts : BOOLEAN, enforcer_accepts : BOOLEAN]

ASSUME HasCacheAssumption == HasCache \in BOOLEAN

\* With a longer lifetime a request that times out is answered by the template
\* that it came with.
ASSUME LifetimeAssumption ==
  /\ CacheLifetime \in Nat /\ LongPollTimeout \in Nat
  /\ CacheLifetime < LongPollTimeout

VARIABLES
  now,
  node_tips,     \* the node's tips so far, the last is its tip
  followed,      \* how many of them the mempool task has dealt with
  tips,          \* the tips of the mempool so far, the last is Mempool::tip
  tx_changes,    \* how often the mempool's txs have changed
  sync_task,     \* "running" or "ended"
  cached_block_templates,
  known_targets,
  long_poll_seq,
  requests,      \* client -> its current or last request
  requests_made,
  past           \* history: tx_changes as it was at each time

environment == <<now, node_tips, followed, tips, tx_changes, sync_task, past>>

server == <<cached_block_templates, known_targets, long_poll_seq>>

vars == <<environment, server, requests, requests_made>>

node_tip == Last(node_tips)
tip == Last(tips)

NoRequest ==
  [stage |-> "answered", kind |-> None, long_poll |-> None, block |-> None,
   at |-> 0, arrived |-> 1, node_arrived |-> 1, output |-> None,
   template |-> None, answer |-> "error"]

Init ==
  /\ now = 0
  /\ node_tips = <<FirstTip>> /\ followed = 1
  /\ tips = <<FirstTip>> /\ tx_changes = 0
  /\ sync_task = "running"
  /\ cached_block_templates = [kind \in Kinds |-> None]
  /\ known_targets = [t \in {} |-> None]
  /\ long_poll_seq = 0
  /\ requests = [c \in Clients |-> NoRequest]
  /\ requests_made = 0
  /\ past = <<tx_changes>>

------------------------------------------------------------------------------
\* The surroundings of the server.

Tick ==
  /\ now < MaxNow
  /\ now' = now + 1
  /\ past' = Append(past, tx_changes)
  /\ UNCHANGED <<node_tips, followed, tips, tx_changes, sync_task, server, requests, requests_made>>

\* A block is connected or disconnected.
NodeMoves ==
  /\ Len(node_tips) < MaxTips
  /\ \E t \in Tips \ {node_tip} : node_tips' = Append(node_tips, t)
  /\ UNCHANGED <<now, followed, tips, tx_changes, sync_task, past, server, requests, requests_made>>

\* The mempool follows, or stays where it is when the enforcer rejects the block
\* or the rejected block is disconnected.  tip_watch is sent under the write lock.
MempoolFollows ==
  /\ sync_task = "running"
  /\ followed < Len(node_tips)
  /\ followed' = followed + 1
  /\ \/ tips' = tips
     \/ node_tips[followed'] # tip /\ tips' = Append(tips, node_tips[followed'])
  /\ UNCHANGED <<now, node_tips, tx_changes, sync_task, past, server, requests, requests_made>>

MempoolTxsChange ==
  /\ sync_task = "running"
  /\ tx_changes < MaxTxChanges
  /\ tx_changes' = tx_changes + 1
  /\ UNCHANGED <<now, node_tips, followed, tips, sync_task, past, server, requests, requests_made>>

\* The sync task fails.  While its error is being handled the mempool is still
\* there, as if nothing happened to it; then MempoolSync::with finds none.
SyncEnds ==
  /\ sync_task = "running"
  /\ sync_task' = "ended"
  /\ UNCHANGED <<now, node_tips, followed, tips, tx_changes, past, server, requests, requests_made>>

------------------------------------------------------------------------------
\* Templates.

Arrives(c, request) ==
  /\ requests[c].stage = "answered"
  /\ requests_made < MaxRequests
  /\ requests_made' = requests_made + 1
  /\ requests' = [requests EXCEPT ![c] = request]
  /\ UNCHANGED <<environment, server>>

\* The request ends with a template, a verdict or an error.
Answer(c, answer, template) ==
  requests' = [requests EXCEPT ![c].stage = "answered", ![c].answer = answer,
                               ![c].template = template, ![c].output = None]

Fail(c) ==
  requests' = [requests EXCEPT ![c] =
    [NoRequest EXCEPT !.template = requests[c].template]]

\* A template is asked for.  A long poll comes with the last template that the
\* client got.
GetBlockTemplate(c, kind, polls) ==
  /\ now + LongPollTimeout <= MaxNow
  /\ polls => requests[c].template # None
  /\ Arrives(c, [NoRequest EXCEPT
                   !.stage = "poll", !.kind = kind,
                   !.long_poll = IF polls THEN requests[c].template ELSE None,
                   !.template = requests[c].template, !.at = now + LongPollTimeout,
                   !.arrived = Len(tips), !.node_arrived = Len(node_tips)])

\* Wrong: the request is parked until the tip changes.
WakesOnTip(c) ==
  /\ requests[c].stage = "poll"
  /\ requests[c].long_poll # None => requests[c].long_poll.prev # tip
  /\ requests' = [requests EXCEPT ![c].stage = "query", ![c].at = now]
  /\ UNCHANGED <<environment, server, requests_made>>

\* A long poll is parked until the tip changes, the sender of the tip is gone, or
\* the time is up.  Then the time is taken.
Wakes(c) ==
  /\ requests[c].stage = "poll"
  /\ requests[c].long_poll # None /\ now < requests[c].at /\ sync_task # "ended"
       => requests[c].long_poll.prev # tip
  /\ requests' = [requests EXCEPT ![c].stage = "query", ![c].at = now]
  /\ UNCHANGED <<environment, server, requests_made>>

\* Wrong: a template for another tip is taken.
TakeAnyTip(kind, at) ==
  LET cached == cached_block_templates[kind]
  IN  IF HasCache /\ cached # None /\ at - cached.generated \in 0 .. CacheLifetime
      THEN cached ELSE None

\* CachedBlockTemplates::try_take, if there is a cache
TryTake(kind, at) ==
  LET cached == cached_block_templates[kind]
  IN  IF /\ HasCache /\ cached # None
         /\ at - cached.generated \in 0 .. CacheLifetime /\ cached.prev = tip
      THEN cached ELSE None

\* What query_mempool returns, and the time that was taken before.
Queried(c) ==
  [kind |-> requests[c].kind, prev |-> tip, txs |-> tx_changes, generated |-> requests[c].at,
   target |-> None, id |-> None]

\* Under the read lock: a cached template, or one from the mempool.  The lock is
\* not to be had when the sync task has ended, and query_mempool may fail.
Query(c) ==
  /\ requests[c].stage = "query"
  /\ \/ Fail(c)
     \/ /\ sync_task # "ended"
        /\ LET cached == TryTake(requests[c].kind, requests[c].at)
           IN  IF cached # None THEN Answer(c, "template", cached)
               ELSE requests' = [requests EXCEPT ![c].stage = "target",
                                                 ![c].output = Queried(c)]
  /\ UNCHANGED <<environment, server, requests_made>>

\* The node answers for the tip that it has then, or fails to answer.
GetMiningInfo(c) ==
  /\ requests[c].stage = "get_mining_info"
  /\ \/ Fail(c)
     \/ requests' = [requests EXCEPT ![c].stage = "insert_target",
                       ![c].output = [@ EXCEPT !.target = Target[node_tip]]]
  /\ UNCHANGED <<environment, server, requests_made>>

\* Wrong: the template counts as generated when it is put there.
CachedLate(template) ==
  IF HasCache
  THEN [cached_block_templates EXCEPT ![template.kind] = [template EXCEPT !.generated = now]]
  ELSE cached_block_templates

\* CachedBlockTemplates::put, with the time that was taken before the query.
Cached(template) ==
  IF HasCache
  THEN [cached_block_templates EXCEPT ![template.kind] = template]
  ELSE cached_block_templates

\* Wrong: the ids of one tip are the same.
BuildReusing(c, output) ==
  LET template == [output EXCEPT !.id = long_poll_seq]
  IN  /\ cached_block_templates' = Cached(template)
      /\ Answer(c, "template", template)
      /\ UNCHANGED long_poll_seq

\* The template, with its longpollid.
Build(c, output) ==
  LET template == [output EXCEPT !.id = long_poll_seq]
  IN  /\ long_poll_seq' = long_poll_seq + 1
      /\ cached_block_templates' = Cached(template)
      /\ Answer(c, "template", template)

\* The node is asked for its target when that for the tip is not known.
LookUpTarget(c) ==
  /\ requests[c].stage = "target"
  /\ LET output == requests[c].output
     IN  IF output.prev \in DOMAIN known_targets
         THEN Build(c, [output EXCEPT !.target = known_targets[output.prev]])
         ELSE /\ requests' = [requests EXCEPT ![c].stage = "get_mining_info"]
              /\ UNCHANGED <<cached_block_templates, long_poll_seq>>
  /\ UNCHANGED <<environment, known_targets, requests_made>>

\* A target that comes from the node is kept, and the template built.
InsertTarget(c) ==
  /\ requests[c].stage = "insert_target"
  /\ LET output == requests[c].output
     IN  /\ known_targets' = [t \in DOMAIN known_targets \cup {output.prev} |->
                                IF t = output.prev THEN output.target ELSE known_targets[t]]
         /\ Build(c, output)
  /\ UNCHANGED <<environment, requests_made>>

------------------------------------------------------------------------------
\* Proposals.

ProposeBlock(c, block) ==
  Arrives(c, [NoRequest EXCEPT
               !.stage = "ask_node", !.block = block,
               !.template = requests[c].template, !.arrived = Len(tips),
               !.node_arrived = Len(node_tips)])

\* The node's verdict comes first; its errors, and a failure to reach it, are
\* errors.  It accepts only blocks on its tip.
AskNode(c) ==
  /\ requests[c].stage = "ask_node"
  /\ LET block == requests[c].block
     IN  \/ Fail(c)
         \/ /\ ~(block.node_accepts /\ block.prev = node_tip)
            /\ Answer(c, "rejected", requests[c].template)
         \/ /\ block.node_accepts /\ block.prev = node_tip
            /\ requests' = [requests EXCEPT ![c].stage = "ask_enforcer"]
  /\ UNCHANGED <<environment, server, requests_made>>

\* Wrong: the enforcer is asked whatever its tip is.
VerdictAnywhere(block) == IF block.enforcer_accepts THEN "accepted" ELSE "rejected"

\* What the enforcer says of a block, when the node has accepted it.
Verdict(block) ==
  IF block.prev # tip THEN "inconclusive"
  ELSE IF block.enforcer_accepts THEN "accepted" ELSE "rejected"

\* Then, under the read lock, the enforcer's, on its own tip.  It may fail too.
AskEnforcer(c) ==
  /\ requests[c].stage = "ask_enforcer"
  /\ \/ Fail(c)
     \/ sync_task # "ended" /\ Answer(c, Verdict(requests[c].block), requests[c].template)
  /\ UNCHANGED <<environment, server, requests_made>>

------------------------------------------------------------------------------

RequestArrives(c) ==
  \/ \E kind \in Kinds, polls \in BOOLEAN : GetBlockTemplate(c, kind, polls)
  \/ \E block \in Blocks : ProposeBlock(c, block)

Handle(c) ==
  \/ Wakes(c) \/ Query(c)
  \/ LookUpTarget(c) \/ GetMiningInfo(c) \/ InsertTarget(c)
  \/ AskNode(c) \/ AskEnforcer(c)

Environment ==
  Tick \/ NodeMoves \/ MempoolFollows \/ MempoolTxsChange \/ SyncEnds

Next == Environment \/ \E c \in Clients : RequestArrives(c) \/ Handle(c)

\* The runtime polls what is ready, answers come back from the node or time out,
\* and time passes.
Fairness == WF_vars(Tick) /\ \A c \in Clients : WF_vars(Handle(c))

Spec == Init /\ [][Next]_vars /\ Fairness

------------------------------------------------------------------------------

Targets == {Target[t] : t \in Tips}

Templates ==
  [kind : Kinds, prev : Tips, txs : Nat, generated : Nat, target : Targets, id : Nat]

ASSUME NoneAssumption == None \notin Templates

\* What has been queried, on its way to a template.
Outputs ==
  [kind : Kinds, prev : Tips, txs : Nat, generated : Nat, target : Targets \cup {None},
   id : {None}]

Requests ==
  [stage : {"answered", "poll", "query", "target", "get_mining_info", "insert_target",
            "ask_node", "ask_enforcer"},
   kind : Kinds \cup {None}, long_poll : Templates \cup {None}, block : Blocks \cup {None},
   at : Nat, arrived : Nat \ {0}, node_arrived : Nat \ {0},
   output : Outputs \cup {None}, template : Templates \cup {None},
   answer : {"error", "template", "accepted", "rejected", "inconclusive"}]

\* What a request has is there at the stages that need it.
StageOK(r) ==
  /\ r.stage \in {"poll", "query"} => r.kind \in Kinds
  /\ r.stage \in {"target", "get_mining_info", "insert_target"} => r.output \in Outputs
  /\ r.stage = "insert_target" => r.output.target \in Targets
  /\ r.stage \in {"ask_node", "ask_enforcer"} => r.block \in Blocks
  /\ r.answer = "template" => r.template \in Templates
  /\ r.stage # "answered" => r.answer = "error"

\* Type correctness.  What is cached is of the kind it is cached under.
TypeOK ==
  /\ now \in Nat /\ tx_changes \in Nat
  /\ node_tips \in Seq(Tips) /\ node_tips # << >>
  /\ followed \in 1 .. Len(node_tips)
  /\ tips \in Seq(Tips) /\ tips # << >>
  /\ sync_task \in {"running", "ended"}
  /\ past \in Seq(Nat) /\ Len(past) = now + 1
  /\ DOMAIN cached_block_templates = Kinds
  /\ \A kind \in Kinds :
       cached_block_templates[kind] \in {None} \cup {t \in Templates : t.kind = kind}
  /\ DOMAIN known_targets \subseteq Tips
  /\ \A t \in DOMAIN known_targets : known_targets[t] \in Targets
  /\ long_poll_seq \in Nat
  /\ requests \in [Clients -> {r \in Requests : StageOK(r)}]

\* The client has been answered by a template.
GotTemplate(c) == requests[c].stage = "answered" /\ requests[c].answer = "template"

\* A template is for a tip that the mempool had while the request was handled.
ServedOnTip ==
  \A c \in Clients : GotTemplate(c) =>
    \E i \in requests[c].arrived .. Len(tips) : tips[i] = requests[c].template.prev

\* A template is never older than the cache lifetime: its txs are those that the
\* mempool had so long before the time of the request, or later ones.
ServedFresh ==
  \A c \in Clients : GotTemplate(c) /\ requests[c].at >= CacheLifetime =>
      requests[c].template.txs >= past[requests[c].at - CacheLifetime + 1]

\* A long poll is never answered by the template that the client came with, be
\* there a cache or not, unless the tip was left and came back meanwhile: "a
\* timeout return would reuse the previous id for a different (refreshed)
\* template" (server.rs:216).
PollRefreshes ==
  \A c \in Clients :
    GotTemplate(c) /\ requests[c].long_poll # None =>
      \/ requests[c].template.id # requests[c].long_poll.id
      \/ Len(tips) > requests[c].arrived

\* A proposal is accepted only when the node and the enforcer both accept it,
\* each on its own tip at a time while the request was handled.
AcceptedByBoth ==
  \A c \in Clients :
    requests[c].stage = "answered" /\ requests[c].answer = "accepted" =>
      LET block == requests[c].block
      IN  /\ block.node_accepts /\ block.enforcer_accepts
          /\ \E i \in requests[c].node_arrived .. Len(node_tips) : node_tips[i] = block.prev
          /\ \E i \in requests[c].arrived .. Len(tips) : tips[i] = block.prev

\* Every request is answered, also when the tip never changes or the sync task
\* fails while the request is parked.
RequestsEnd ==
  \A c \in Clients : requests[c].stage # "answered" ~> requests[c].stage = "answered"
===============================================================================
