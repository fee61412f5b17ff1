----------------------- MODULE BlockTemplateServer_proofs ----------------------
(***************************************************************************)
(* What the server promises, for any number of clients, any node, any      *)
(* lifetime of the cache and any bounds.                                   *)
(***************************************************************************)
EXTENDS BlockTemplateServer, TLAPS

\* A template is on its way.
Building(c) == requests[c].stage \in {"target", "get_mining_info", "insert_target"}

\* at is the time that was taken.
Timed(c) == requests[c].stage = "query" \/ Building(c) \/ GotTemplate(c)

\* The history of tx_changes goes up to now.
PastOK ==
  /\ \A i, j \in DOMAIN past : i <= j => past[i] <= past[j]
  /\ \A i \in DOMAIN past : past[i] <= tx_changes

\* The tip of a template was the mempool's since the request arrived.
OnTip(c, t) == \E i \in requests[c].arrived .. Len(tips) : tips[i] = t.prev

OnTipOK(c) ==
  /\ requests[c].arrived <= Len(tips)
  /\ Building(c) => OnTip(c, requests[c].output)
  /\ GotTemplate(c) => OnTip(c, requests[c].template)

\* The node accepted the block that the enforcer is asked about.
ProposalOK(c) ==
  /\ requests[c].node_arrived <= Len(node_tips)
  /\ requests[c].stage = "ask_enforcer" =>
       LET block == requests[c].block
       IN  /\ block.node_accepts
           /\ \E i \in requests[c].node_arrived .. Len(node_tips) : node_tips[i] = block.prev
  /\ requests[c].stage = "answered" /\ requests[c].answer = "accepted" =>
       LET block == requests[c].block
       IN  /\ block.node_accepts /\ block.enforcer_accepts
           /\ \E i \in requests[c].node_arrived .. Len(node_tips) : node_tips[i] = block.prev
           /\ \E i \in requests[c].arrived .. Len(tips) : tips[i] = block.prev

\* The txs of a template are those at the time it was generated, or later ones.
Fresh(t) == t.generated <= now /\ past[t.generated + 1] <= t.txs /\ t.txs <= tx_changes

\* A template that some part of the server or a client has.
Known(t) ==
  \/ \E kind \in Kinds : t = cached_block_templates[kind]
  \/ \E c \in Clients : t = requests[c].template \/ t = requests[c].long_poll

FreshOK ==
  /\ \A t \in Templates : Known(t) => Fresh(t)
  /\ \A c \in Clients :
       /\ Timed(c) => requests[c].at <= now
       /\ Building(c) => /\ Fresh(requests[c].output)
                         /\ requests[c].output.generated = requests[c].at
       /\ GotTemplate(c) =>
            requests[c].at - requests[c].template.generated \in 0 .. CacheLifetime

\* Ids are not given twice.
IdsOK ==
  /\ \A t \in Templates : Known(t) => t.id < long_poll_seq
  /\ \A t, u \in Templates : Known(t) /\ Known(u) /\ t.id = u.id => t = u

\* A long poll goes on because the template that it came with will not do any
\* more.
Outdated(c) ==
  \/ Len(tips) > requests[c].arrived
  \/ tip # requests[c].long_poll.prev
  \/ requests[c].at > requests[c].long_poll.generated + CacheLifetime
  \/ sync_task = "ended"

PollOK(c) ==
  requests[c].long_poll # None =>
    /\ requests[c].stage = "poll" =>
         requests[c].at >= requests[c].long_poll.generated + LongPollTimeout
    /\ requests[c].stage = "query" => Outdated(c)
    /\ GotTemplate(c) =>
         \/ Len(tips) > requests[c].arrived
         \/ requests[c].template.id # requests[c].long_poll.id

IInv ==
  /\ TypeOK /\ PastOK
  /\ \A c \in Clients : OnTipOK(c) /\ ProposalOK(c) /\ PollOK(c)
  /\ FreshOK /\ IdsOK

------------------------------------------------------------------------------
\* Type correctness.

LEMMA InitType == Init => TypeOK
<1> SUFFICES ASSUME Init PROVE TypeOK
  OBVIOUS
<1>1. NoRequest \in Requests /\ StageOK(NoRequest)
  BY DEF NoRequest, Requests, StageOK
<1> QED BY <1>1, TipsAssumption DEF Init, TypeOK

\* What the environment does.
LEMMA EnvironmentType == TypeOK /\ Environment => TypeOK'
<1> SUFFICES ASSUME TypeOK, Environment PROVE TypeOK'
  OBVIOUS
<1>1. CASE Tick
  BY <1>1 DEF Tick, TypeOK, server
<1>2. CASE NodeMoves
  BY <1>2 DEF NodeMoves, TypeOK, server
<1>3. CASE MempoolFollows
  <2> DEFINE t == node_tips[followed + 1]
  <2>1. followed' \in 1 .. Len(node_tips) /\ followed' = followed + 1 /\ t \in Tips
    BY <1>3 DEF MempoolFollows, TypeOK
  <2>2. tips' = tips \/ tips' = Append(tips, t)
    BY <1>3, <2>1 DEF MempoolFollows
  <2> HIDE DEF t
  <2>3. tips \in Seq(Tips) /\ tips # << >>
    BY DEF TypeOK
  <2>4. Append(tips, t) \in Seq(Tips) /\ Append(tips, t) # << >>
    BY <2>1, <2>3
  <2>5. tips' \in Seq(Tips) /\ tips' # << >>
    BY <2>2, <2>3, <2>4
  <2> QED BY <1>3, <2>1, <2>5 DEF MempoolFollows, TypeOK, server
<1>4. CASE MempoolTxsChange
  BY <1>4 DEF MempoolTxsChange, TypeOK, server
<1>5. CASE SyncEnds
  BY <1>5 DEF SyncEnds, TypeOK, server
<1> QED BY <1>1, <1>2, <1>3, <1>4, <1>5 DEF Environment

LEMMA ArrivesType ==
  ASSUME NEW c \in Clients, TypeOK, RequestArrives(c)
  PROVE  TypeOK'
<1>1. requests[c] \in Requests /\ requests[c].template \in Templates \cup {None}
  BY DEF TypeOK, Requests
<1>2. Len(tips) \in Nat \ {0} /\ Len(node_tips) \in Nat \ {0}
  BY DEF TypeOK
<1>3. CASE \E kind \in Kinds, polls \in BOOLEAN : GetBlockTemplate(c, kind, polls)
  <2>1. PICK kind \in Kinds, polls \in BOOLEAN : GetBlockTemplate(c, kind, polls)
    BY <1>3
  <2> DEFINE r == [NoRequest EXCEPT
                   !.stage = "poll", !.kind = kind,
                   !.long_poll = IF polls THEN requests[c].template ELSE None,
                   !.template = requests[c].template, !.at = now + LongPollTimeout,
                   !.arrived = Len(tips), !.node_arrived = Len(node_tips)]
  <2>2. r \in Requests
    <3>1. (IF polls THEN requests[c].template ELSE None) \in Templates \cup {None}
      BY <1>1
    <3>2. now + LongPollTimeout \in Nat
      BY LifetimeAssumption DEF TypeOK
    <3> QED BY <1>1, <1>2, <3>1, <3>2 DEF NoRequest, Requests
  <2>3. StageOK(r)
    BY DEF StageOK, NoRequest
  <2>4. requests' = [requests EXCEPT ![c] = r] /\ UNCHANGED <<environment, server>>
    BY <2>1 DEF GetBlockTemplate, Arrives
  <2> HIDE DEF r
  <2> QED BY <2>2, <2>3, <2>4 DEF TypeOK, environment, server
<1>4. CASE \E block \in Blocks : ProposeBlock(c, block)
  <2>1. PICK block \in Blocks : ProposeBlock(c, block)
    BY <1>4
  <2> DEFINE r == [NoRequest EXCEPT
               !.stage = "ask_node", !.block = block,
               !.template = requests[c].template, !.arrived = Len(tips),
               !.node_arrived = Len(node_tips)]
  <2>2. r \in Requests
    BY <1>1, <1>2 DEF NoRequest, Requests
  <2>3. StageOK(r)
    BY DEF StageOK, NoRequest
  <2>4. requests' = [requests EXCEPT ![c] = r] /\ UNCHANGED <<environment, server>>
    BY <2>1 DEF ProposeBlock, Arrives
  <2> HIDE DEF r
  <2> QED BY <2>2, <2>3, <2>4 DEF TypeOK, environment, server
<1> QED BY <1>3, <1>4 DEF RequestArrives

LEMMA FailType ==
  ASSUME NEW c \in Clients, TypeOK, Fail(c)
  PROVE  requests' \in [Clients -> {r \in Requests : StageOK(r)}]
<1> DEFINE r == [NoRequest EXCEPT !.template = requests[c].template]
<1>1. requests[c].template \in Templates \cup {None}
  BY DEF TypeOK, Requests
<1>2. r \in Requests /\ StageOK(r)
  BY <1>1 DEF NoRequest, Requests, StageOK
<1>3. requests' = [requests EXCEPT ![c] = r]
  BY DEF Fail
<1> HIDE DEF r
<1> QED BY <1>2, <1>3 DEF TypeOK

LEMMA AnswerType ==
  ASSUME NEW c \in Clients, TypeOK,
         NEW answer \in {"template", "accepted", "rejected", "inconclusive"},
         NEW template \in Templates \cup {None},
         answer = "template" => template \in Templates,
         Answer(c, answer, template)
  PROVE  requests' \in [Clients -> {r \in Requests : StageOK(r)}]
<1> DEFINE r == [requests[c] EXCEPT !.stage = "answered", !.answer = answer,
                                    !.template = template, !.output = None]
<1>1. requests[c] \in Requests
  BY DEF TypeOK
<1>2. r \in Requests /\ StageOK(r)
  BY <1>1 DEF Requests, StageOK
<1>3. requests' = [requests EXCEPT ![c] = r]
  BY DEF Answer
<1> HIDE DEF r
<1> QED BY <1>2, <1>3 DEF TypeOK

\* The template that is taken from the cache.
LEMMA TryTakeTyped ==
  ASSUME NEW c \in Clients, TypeOK, requests[c].stage = "query",
         TryTake(requests[c].kind, requests[c].at) # None
  PROVE  /\ requests[c].kind \in Kinds
         /\ TryTake(requests[c].kind, requests[c].at) = cached_block_templates[requests[c].kind]
         /\ TryTake(requests[c].kind, requests[c].at) \in Templates
<1>1. requests[c].kind \in Kinds
  BY DEF TypeOK, StageOK
<1>2. cached_block_templates[requests[c].kind] \in Templates \cup {None}
  BY <1>1 DEF TypeOK
<1> QED BY <1>1, <1>2 DEF TryTake

\* The template that is built.
LEMMA BuiltTyped ==
  ASSUME NEW output \in Outputs, output.target \in Targets, long_poll_seq \in Nat
  PROVE  [output EXCEPT !.id = long_poll_seq] \in Templates
BY DEF Outputs, Templates

LEMMA BuildType ==
  ASSUME NEW c \in Clients, TypeOK, NEW output \in Outputs, output.target \in Targets,
         Build(c, output)
  PROVE  /\ requests' \in [Clients -> {r \in Requests : StageOK(r)}]
         /\ long_poll_seq' \in Nat
         /\ DOMAIN cached_block_templates' = Kinds
         /\ \A kind \in Kinds :
              cached_block_templates'[kind] \in {None} \cup {t \in Templates : t.kind = kind}
<1>1. long_poll_seq \in Nat
  BY DEF TypeOK
<1>2. PICK template \in Templates : template = [output EXCEPT !.id = long_poll_seq]
  BY <1>1, BuiltTyped
<1>3. /\ long_poll_seq' = long_poll_seq + 1
      /\ cached_block_templates' = Cached(template)
      /\ Answer(c, "template", template)
  BY <1>2 DEF Build
<1>4. requests' \in [Clients -> {r \in Requests : StageOK(r)}]
  BY <1>3, AnswerType
<1>5. template.kind \in Kinds
  BY DEF Templates
<1> QED BY <1>1, <1>3, <1>4, <1>5 DEF Cached, TypeOK

\* One step of a request.
LEMMA HandleType ==
  ASSUME NEW c \in Clients, TypeOK, Handle(c)
  PROVE  TypeOK'
<1> DEFINE typed == requests' \in [Clients -> {r \in Requests : StageOK(r)}]
<1>1. requests[c] \in Requests /\ StageOK(requests[c])
  BY DEF TypeOK
<1>2. CASE Wakes(c)
  <2> DEFINE r == [requests[c] EXCEPT !.stage = "query", !.at = now]
  <2>1. r \in Requests /\ StageOK(r)
    BY <1>1, <1>2 DEF TypeOK, Requests, StageOK, Wakes
  <2>2. requests' = [requests EXCEPT ![c] = r] /\ UNCHANGED <<environment, server>>
    BY <1>2 DEF Wakes
  <2> HIDE DEF r
  <2> QED BY <2>1, <2>2 DEF TypeOK, environment, server
<1>3. CASE Query(c)
  <2>1. typed
    <3> DEFINE cached == TryTake(requests[c].kind, requests[c].at)
    <3>1. CASE Fail(c)
      BY <3>1, FailType
    <3>2. CASE ~Fail(c) /\ cached # None
      <4>1. cached \in Templates /\ Answer(c, "template", cached)
        BY <1>3, <3>2, TryTakeTyped DEF Query
      <4>2. PICK t \in Templates : t = cached
        BY <4>1
      <4>3. Answer(c, "template", t)
        BY <4>1, <4>2
      <4> HIDE DEF cached
      <4> QED BY <4>3, AnswerType
    <3>3. CASE ~Fail(c) /\ cached = None
      <4> DEFINE r == [requests[c] EXCEPT !.stage = "target", !.output = Queried(c)]
      <4>1. Queried(c) \in Outputs
        <5>1. requests[c].kind \in Kinds /\ requests[c].at \in Nat
          BY <1>1, <1>3 DEF Query, StageOK, Requests
        <5>2. tip \in Tips /\ tx_changes \in Nat
          BY DEF TypeOK, tip, Last
        <5> QED BY <5>1, <5>2 DEF Queried, Outputs
      <4>2. r \in Requests /\ StageOK(r)
        BY <1>1, <1>3, <4>1 DEF Requests, StageOK, Query
      <4>3. requests' = [requests EXCEPT ![c] = r]
        BY <1>3, <3>3 DEF Query
      <4> HIDE DEF r
      <4> QED BY <4>2, <4>3 DEF TypeOK
    <3> QED BY <3>1, <3>2, <3>3
  <2> QED BY <1>3, <2>1 DEF Query, TypeOK, environment, server
<1>4. CASE LookUpTarget(c)
  <2> DEFINE output == requests[c].output
  <2>1. output \in Outputs
    BY <1>1, <1>4 DEF LookUpTarget, StageOK
  <2>2. CASE output.prev \in DOMAIN known_targets
    <3>1. known_targets[output.prev] \in Targets
      BY <2>2 DEF TypeOK
    <3>2. PICK o \in Outputs : o = [output EXCEPT !.target = known_targets[output.prev]]
      BY <2>1, <3>1 DEF Outputs
    <3>3. o.target \in Targets /\ Build(c, o)
      BY <1>4, <2>1, <2>2, <3>1, <3>2 DEF LookUpTarget, Outputs
    <3> QED BY <1>4, <3>3, BuildType DEF LookUpTarget, TypeOK, environment
  <2>3. CASE output.prev \notin DOMAIN known_targets
    <3> DEFINE r == [requests[c] EXCEPT !.stage = "get_mining_info"]
    <3>1. r \in Requests /\ StageOK(r)
      BY <1>1, <1>4 DEF Requests, StageOK, LookUpTarget
    <3>2. requests' = [requests EXCEPT ![c] = r]
      BY <1>4, <2>3 DEF LookUpTarget
    <3>3. typed
      BY <3>1, <3>2 DEF TypeOK
    <3> QED BY <1>4, <2>3, <3>3 DEF LookUpTarget, TypeOK, environment
  <2> QED BY <2>2, <2>3
<1>5. CASE GetMiningInfo(c)
  <2>1. CASE Fail(c)
    BY <1>5, <2>1, FailType DEF GetMiningInfo, TypeOK, environment, server
  <2>2. CASE ~Fail(c)
    <3> DEFINE o == [requests[c].output EXCEPT !.target = Target[node_tip]]
               r == [requests[c] EXCEPT !.stage = "insert_target", !.output = o]
    <3>1. requests[c].output \in Outputs /\ Target[node_tip] \in Targets
      BY <1>1, <1>5 DEF GetMiningInfo, StageOK, TypeOK, node_tip, Last, Targets
    <3>2. o \in Outputs /\ o.target \in Targets
      BY <3>1 DEF Outputs
    <3>3. requests' = [requests EXCEPT ![c] = r]
      BY <1>5, <2>2 DEF GetMiningInfo
    <3> HIDE DEF o
    <3>4. r \in Requests /\ StageOK(r)
      BY <1>1, <1>5, <3>2 DEF Requests, StageOK, GetMiningInfo
    <3> HIDE DEF r
    <3>5. typed
      BY <3>3, <3>4 DEF TypeOK
    <3> QED BY <1>5, <3>5 DEF GetMiningInfo, TypeOK, environment, server
  <2> QED BY <2>1, <2>2
<1>6. CASE InsertTarget(c)
  <2>1. PICK output \in Outputs : output = requests[c].output /\ output.target \in Targets
    BY <1>1, <1>6 DEF InsertTarget, StageOK
  <2>2. /\ Build(c, output)
        /\ known_targets' = [t \in DOMAIN known_targets \cup {output.prev} |->
                               IF t = output.prev THEN output.target ELSE known_targets[t]]
        /\ UNCHANGED environment
    BY <1>6, <2>1 DEF InsertTarget
  <2>3. output.prev \in Tips
    BY DEF Outputs
  <2>4. /\ DOMAIN known_targets' \subseteq Tips
        /\ \A t \in DOMAIN known_targets' : known_targets'[t] \in Targets
    BY <2>1, <2>2, <2>3 DEF TypeOK
  <2> QED BY <2>1, <2>2, <2>4, BuildType DEF TypeOK, environment
<1>7. CASE AskNode(c)
  <2>1. typed
    <3>1. requests[c].template \in Templates \cup {None}
      BY <1>1 DEF Requests
    <3>2. CASE Fail(c)
      BY <3>2, FailType
    <3>3. CASE Answer(c, "rejected", requests[c].template)
      <4>1. PICK t \in Templates \cup {None} : t = requests[c].template
        BY <3>1
      <4>2. Answer(c, "rejected", t)
        BY <3>3, <4>1
      <4> QED BY <4>2, AnswerType
    <3>4. CASE requests' = [requests EXCEPT ![c].stage = "ask_enforcer"]
      <4> DEFINE r == [requests[c] EXCEPT !.stage = "ask_enforcer"]
      <4>1. r \in Requests /\ StageOK(r) /\ requests' = [requests EXCEPT ![c] = r]
        BY <1>1, <1>7, <3>4 DEF Requests, StageOK, AskNode
      <4> HIDE DEF r
      <4> QED BY <4>1 DEF TypeOK
    <3> QED BY <1>7, <3>2, <3>3, <3>4 DEF AskNode
  <2> QED BY <1>7, <2>1 DEF AskNode, TypeOK, environment, server
<1>8. CASE AskEnforcer(c)
  <2>1. typed
    <3>1. requests[c].template \in Templates \cup {None}
      BY <1>1 DEF Requests
    <3>2. CASE Fail(c)
      BY <3>2, FailType
    <3>3. CASE Answer(c, Verdict(requests[c].block), requests[c].template)
      <4>1. PICK t \in Templates \cup {None},
                 answer \in {"accepted", "rejected", "inconclusive"} :
              t = requests[c].template /\ answer = Verdict(requests[c].block)
        BY <3>1 DEF Verdict
      <4>2. Answer(c, answer, t)
        BY <3>3, <4>1
      <4> QED BY <4>2, AnswerType
    <3> QED BY <1>8, <3>2, <3>3 DEF AskEnforcer
  <2> QED BY <1>8, <2>1 DEF AskEnforcer, TypeOK, environment, server
<1> QED BY <1>2, <1>3, <1>4, <1>5, <1>6, <1>7, <1>8 DEF Handle

LEMMA NextType == TypeOK /\ [Next]_vars => TypeOK'
<1> SUFFICES ASSUME TypeOK, [Next]_vars PROVE TypeOK'
  OBVIOUS
<1>1. CASE UNCHANGED vars
  BY <1>1 DEF vars, environment, server, TypeOK
<1> QED BY <1>1, EnvironmentType, ArrivesType, HandleType DEF Next

------------------------------------------------------------------------------
\* What a step does to a request, field by field.

\* Tips are only added.
LEMMA TipsGrow ==
  ASSUME TypeOK, [Next]_vars
  PROVE  /\ Len(tips) \in Nat \ {0} /\ Len(node_tips) \in Nat \ {0}
         /\ Len(tips') \in Nat /\ Len(node_tips') \in Nat
         /\ Len(tips) <= Len(tips') /\ Len(node_tips) <= Len(node_tips')
         /\ \A i \in 1 .. Len(tips) : tips'[i] = tips[i]
         /\ \A i \in 1 .. Len(node_tips) : node_tips'[i] = node_tips[i]
         /\ Len(tips') = Len(tips) => tips' = tips
<1>1. /\ tips \in Seq(Tips) /\ tips # << >>
      /\ node_tips \in Seq(Tips) /\ node_tips # << >>
  BY DEF TypeOK
<1>2. tips' = tips \/ \E t \in Tips : tips' = Append(tips, t)
  <2>1. CASE MempoolFollows
    <3>1. followed' \in 1 .. Len(node_tips) /\ node_tips[followed'] \in Tips
      BY <2>1 DEF MempoolFollows, TypeOK
    <3> QED BY <2>1, <3>1 DEF MempoolFollows
  <2>2. CASE UNCHANGED tips
    BY <2>2
  <2>3. MempoolFollows \/ UNCHANGED tips
    BY DEF Next, Environment, Tick, NodeMoves, MempoolTxsChange, SyncEnds, RequestArrives, Handle,
           GetBlockTemplate, ProposeBlock, Arrives, Wakes, Query, LookUpTarget, GetMiningInfo,
           InsertTarget, AskNode, AskEnforcer, environment, vars
  <2> QED BY <2>1, <2>2, <2>3
<1>3. node_tips' = node_tips \/ \E t \in Tips : node_tips' = Append(node_tips, t)
  BY DEF Next, Environment, Tick, NodeMoves, MempoolFollows, MempoolTxsChange, SyncEnds,
         RequestArrives, Handle, GetBlockTemplate, ProposeBlock, Arrives, Wakes, Query,
         LookUpTarget, GetMiningInfo, InsertTarget, AskNode, AskEnforcer, environment, vars
<1> QED BY <1>1, <1>2, <1>3

\* A request is only touched by its own steps, and these leave the environment
\* alone.
LEMMA Others ==
  ASSUME TypeOK, NEW c \in Clients, RequestArrives(c) \/ Handle(c)
  PROVE  UNCHANGED environment /\ \A d \in Clients \ {c} : requests'[d] = requests[d]
BY DEF RequestArrives, Handle, GetBlockTemplate, ProposeBlock, Arrives, Wakes, Query, LookUpTarget,
       GetMiningInfo, InsertTarget, AskNode, AskEnforcer, Build, Answer, Fail, environment, TypeOK

LEMMA EnvironmentOnly ==
  Environment => UNCHANGED <<server, requests>>
BY DEF Environment, Tick, NodeMoves, MempoolFollows, MempoolTxsChange, SyncEnds

LEMMA ArrivesDoes ==
  ASSUME TypeOK, NEW c \in Clients, RequestArrives(c)
  PROVE  /\ requests'[c].stage \in {"poll", "ask_node"}
         /\ requests'[c].answer = "error"
         /\ requests'[c].arrived = Len(tips) /\ requests'[c].node_arrived = Len(node_tips)
         /\ requests'[c].template = requests[c].template
         /\ requests'[c].long_poll \in {None, requests[c].template}
         /\ requests'[c].stage = "ask_node" => requests'[c].long_poll = None
         /\ requests'[c].stage = "poll" => requests'[c].at = now + LongPollTimeout
         /\ UNCHANGED server
<1>1. requests[c] \in Requests /\ c \in DOMAIN requests
  BY DEF TypeOK
<1>2. CASE \E kind \in Kinds, polls \in BOOLEAN : GetBlockTemplate(c, kind, polls)
  <2>1. PICK kind \in Kinds, polls \in BOOLEAN : GetBlockTemplate(c, kind, polls)
    BY <1>2
  <2>2. requests'[c] = [NoRequest EXCEPT
                   !.stage = "poll", !.kind = kind,
                   !.long_poll = IF polls THEN requests[c].template ELSE None,
                   !.template = requests[c].template, !.at = now + LongPollTimeout,
                   !.arrived = Len(tips), !.node_arrived = Len(node_tips)]
    BY <1>1, <2>1 DEF GetBlockTemplate, Arrives
  <2>3. UNCHANGED server
    BY <2>1 DEF GetBlockTemplate, Arrives
  <2> QED BY <2>2, <2>3 DEF NoRequest
<1>3. CASE \E block \in Blocks : ProposeBlock(c, block)
  <2>1. PICK block \in Blocks : ProposeBlock(c, block)
    BY <1>3
  <2>2. requests'[c] = [NoRequest EXCEPT
               !.stage = "ask_node", !.block = block,
               !.template = requests[c].template, !.arrived = Len(tips),
               !.node_arrived = Len(node_tips)]
    BY <1>1, <2>1 DEF ProposeBlock, Arrives
  <2>3. UNCHANGED server
    BY <2>1 DEF ProposeBlock, Arrives
  <2> QED BY <2>2, <2>3 DEF NoRequest
<1> QED BY <1>2, <1>3 DEF RequestArrives

LEMMA FailDoes ==
  ASSUME TypeOK, NEW c \in Clients, Fail(c)
  PROVE  /\ requests'[c].stage = "answered" /\ requests'[c].answer = "error"
         /\ requests'[c].arrived = 1 /\ requests'[c].node_arrived = 1
         /\ requests'[c].template = requests[c].template /\ requests'[c].long_poll = None
BY DEF Fail, NoRequest, TypeOK

LEMMA AnswerDoes ==
  ASSUME TypeOK, NEW c \in Clients, NEW answer, NEW template, Answer(c, answer, template)
  PROVE  /\ requests'[c].stage = "answered" /\ requests'[c].answer = answer
         /\ requests'[c].template = template
         /\ requests'[c].arrived = requests[c].arrived
         /\ requests'[c].node_arrived = requests[c].node_arrived
         /\ requests'[c].long_poll = requests[c].long_poll
         /\ requests'[c].block = requests[c].block
         /\ requests'[c].at = requests[c].at
<1>1. requests[c] \in Requests
  BY DEF TypeOK
<1> QED BY <1>1 DEF Answer, TypeOK, Requests

LEMMA BuildDoes ==
  ASSUME TypeOK, NEW c \in Clients, NEW output \in Outputs, output.target \in Targets,
         Build(c, output)
  PROVE  \E template \in Templates :
           /\ template.kind = output.kind /\ template.prev = output.prev
           /\ template.txs = output.txs /\ template.generated = output.generated
           /\ template.id = long_poll_seq
           /\ long_poll_seq' = long_poll_seq + 1
           /\ cached_block_templates' = Cached(template)
           /\ requests'[c].stage = "answered" /\ requests'[c].answer = "template"
           /\ requests'[c].template = template
           /\ requests'[c].arrived = requests[c].arrived
           /\ requests'[c].node_arrived = requests[c].node_arrived
           /\ requests'[c].long_poll = requests[c].long_poll
           /\ requests'[c].at = requests[c].at
<1>1. long_poll_seq \in Nat
  BY DEF TypeOK
<1>2. PICK template \in Templates : template = [output EXCEPT !.id = long_poll_seq]
  BY <1>1, BuiltTyped
<1>3. Answer(c, "template", template)
  BY <1>2 DEF Build
<1>4. /\ template.kind = output.kind /\ template.prev = output.prev
      /\ template.txs = output.txs /\ template.generated = output.generated
      /\ template.id = long_poll_seq
  BY <1>2 DEF Outputs
<1>5. /\ long_poll_seq' = long_poll_seq + 1
      /\ cached_block_templates' = Cached(template)
  BY <1>2 DEF Build
<1>6. /\ requests'[c].stage = "answered" /\ requests'[c].answer = "template"
      /\ requests'[c].template = template
      /\ requests'[c].arrived = requests[c].arrived
      /\ requests'[c].node_arrived = requests[c].node_arrived
      /\ requests'[c].long_poll = requests[c].long_poll
      /\ requests'[c].at = requests[c].at
  BY <1>3, AnswerDoes
<1> QED BY <1>4, <1>5, <1>6

\* A step that goes on with a request.
LEMMA WakesDoes ==
  ASSUME TypeOK, NEW c \in Clients, Wakes(c)
  PROVE  /\ requests'[c].stage = "query" /\ requests'[c].at = now
         /\ requests'[c].arrived = requests[c].arrived
         /\ requests'[c].node_arrived = requests[c].node_arrived
         /\ requests'[c].long_poll = requests[c].long_poll
         /\ requests'[c].template = requests[c].template
BY DEF Wakes, TypeOK, Requests

LEMMA QueryDoes ==
  ASSUME TypeOK, NEW c \in Clients, Query(c), ~Fail(c),
         TryTake(requests[c].kind, requests[c].at) = None
  PROVE  /\ requests'[c].stage = "target" /\ requests'[c].output = Queried(c)
         /\ requests'[c].at = requests[c].at
         /\ requests'[c].arrived = requests[c].arrived
         /\ requests'[c].node_arrived = requests[c].node_arrived
         /\ requests'[c].long_poll = requests[c].long_poll
         /\ requests'[c].template = requests[c].template
<1>1. requests[c] \in Requests
  BY DEF TypeOK
<1>2. requests' = [requests EXCEPT ![c].stage = "target", ![c].output = Queried(c)]
  BY DEF Query
<1> QED BY <1>1, <1>2 DEF TypeOK, Requests

LEMMA LookUpTargetDoes ==
  ASSUME TypeOK, NEW c \in Clients, LookUpTarget(c),
         requests[c].output.prev \notin DOMAIN known_targets
  PROVE  /\ requests'[c].stage = "get_mining_info" /\ requests'[c].output = requests[c].output
         /\ requests'[c].at = requests[c].at
         /\ requests'[c].arrived = requests[c].arrived
         /\ requests'[c].node_arrived = requests[c].node_arrived
         /\ requests'[c].long_poll = requests[c].long_poll
         /\ requests'[c].template = requests[c].template
         /\ UNCHANGED server
BY DEF LookUpTarget, server, TypeOK, Requests

LEMMA GetMiningInfoDoes ==
  ASSUME TypeOK, NEW c \in Clients, GetMiningInfo(c), ~Fail(c)
  PROVE  /\ requests'[c].stage = "insert_target"
         /\ requests'[c].output = [requests[c].output EXCEPT !.target = Target[node_tip]]
         /\ requests'[c].at = requests[c].at
         /\ requests'[c].arrived = requests[c].arrived
         /\ requests'[c].node_arrived = requests[c].node_arrived
         /\ requests'[c].long_poll = requests[c].long_poll
         /\ requests'[c].template = requests[c].template
<1>1. requests[c] \in Requests
  BY DEF TypeOK
<1>2. PICK o : o = [requests[c].output EXCEPT !.target = Target[node_tip]]
  OBVIOUS
<1>3. requests' = [requests EXCEPT ![c].stage = "insert_target", ![c].output = o]
  BY <1>2 DEF GetMiningInfo
<1> QED BY <1>1, <1>2, <1>3 DEF TypeOK, Requests

LEMMA AskNodeDoes ==
  ASSUME TypeOK, NEW c \in Clients, requests' = [requests EXCEPT ![c].stage = "ask_enforcer"]
  PROVE  /\ requests'[c].stage = "ask_enforcer" /\ requests'[c].block = requests[c].block
         /\ requests'[c].at = requests[c].at
         /\ requests'[c].arrived = requests[c].arrived
         /\ requests'[c].node_arrived = requests[c].node_arrived
         /\ requests'[c].long_poll = requests[c].long_poll
         /\ requests'[c].template = requests[c].template
BY DEF TypeOK, Requests

\* What is built, whether its target was known or asked for.
LEMMA BuildsFrom ==
  ASSUME TypeOK, NEW c \in Clients,
         \/ LookUpTarget(c) /\ requests[c].output.prev \in DOMAIN known_targets
         \/ InsertTarget(c)
  PROVE  \E output \in Outputs :
           /\ Build(c, output) /\ Building(c)
           /\ output.kind = requests[c].output.kind /\ output.prev = requests[c].output.prev
           /\ output.txs = requests[c].output.txs
           /\ output.generated = requests[c].output.generated
           /\ output.target \in Targets
<1>1. StageOK(requests[c])
  BY DEF TypeOK
<1>2. CASE LookUpTarget(c) /\ requests[c].output.prev \in DOMAIN known_targets
  <2> DEFINE known == known_targets[requests[c].output.prev]
  <2>1. requests[c].output \in Outputs /\ known \in Targets
    BY <1>1, <1>2 DEF LookUpTarget, StageOK, TypeOK
  <2>2. PICK o \in Outputs : o = [requests[c].output EXCEPT !.target = known]
    BY <2>1 DEF Outputs
  <2>3. Build(c, o)
    BY <1>2, <2>2 DEF LookUpTarget
  <2>4. o.kind = requests[c].output.kind /\ o.prev = requests[c].output.prev
        /\ o.txs = requests[c].output.txs /\ o.generated = requests[c].output.generated
        /\ o.target \in Targets
    BY <2>1, <2>2 DEF Outputs
  <2> QED BY <1>2, <2>3, <2>4 DEF LookUpTarget, Building
<1>3. CASE InsertTarget(c)
  <2>1. requests[c].output \in Outputs /\ requests[c].output.target \in Targets
    BY <1>1, <1>3 DEF InsertTarget, StageOK
  <2>2. PICK o \in Outputs : o = requests[c].output
    BY <2>1
  <2> QED BY <1>3, <2>1, <2>2 DEF InsertTarget, Building
<1> QED BY <1>2, <1>3

------------------------------------------------------------------------------
\* Templates are for tips of the time of the request.

LEMMA InitOnTip == Init => \A c \in Clients : OnTipOK(c)
BY DEF Init, OnTipOK, Building, GotTemplate, NoRequest

LEMMA OnTipFrame ==
  ASSUME TypeOK, [Next]_vars, NEW d \in Clients, OnTipOK(d), requests'[d] = requests[d]
  PROVE  OnTipOK(d)'
<1>1. requests[d].arrived \in Nat \ {0}
  BY DEF TypeOK, Requests
<1> QED BY <1>1, TipsGrow DEF OnTipOK, OnTip, Building, GotTemplate

LEMMA OnTipStep ==
  ASSUME TypeOK, NEW c \in Clients, OnTipOK(c), RequestArrives(c) \/ Handle(c)
  PROVE  OnTipOK(c)'
<1>1. UNCHANGED tips /\ [Next]_vars
  BY Others DEF environment, Next
<1>2. requests[c] \in Requests /\ StageOK(requests[c]) /\ Len(tips) \in Nat \ {0}
  BY TipsGrow, <1>1 DEF TypeOK
<1>3. CASE RequestArrives(c)
  BY <1>1, <1>2, <1>3, ArrivesDoes DEF OnTipOK, Building, GotTemplate
<1>4. CASE Fail(c)
  BY <1>1, <1>2, <1>4, FailDoes DEF OnTipOK, Building, GotTemplate
<1>5. CASE Wakes(c)
  BY <1>1, <1>2, <1>5 DEF Wakes, OnTipOK, Building, GotTemplate, TypeOK, Requests
<1>6. CASE Query(c) /\ ~Fail(c)
  <2> DEFINE cached == TryTake(requests[c].kind, requests[c].at)
  <2>1. CASE cached # None
    <3>1. Answer(c, "template", cached) /\ cached.prev = tip
      BY <1>6, <2>1, TryTakeTyped DEF Query, TryTake
    <3>2. PICK t : t = cached
      OBVIOUS
    <3>3. Answer(c, "template", t) /\ t.prev = tip /\ t # None
      BY <2>1, <3>1, <3>2
    <3> HIDE DEF cached
    <3> QED BY <1>1, <1>2, <3>3, AnswerDoes DEF OnTipOK, OnTip, Building, GotTemplate, tip, Last
  <2>2. CASE cached = None
    <3>1. Queried(c).prev = tip
      BY DEF Queried
    <3> QED BY <1>1, <1>2, <1>6, <2>2, <3>1, QueryDoes
            DEF OnTipOK, OnTip, Building, GotTemplate, tip, Last
  <2> QED BY <2>1, <2>2
<1>7. CASE LookUpTarget(c) /\ requests[c].output.prev \notin DOMAIN known_targets
  BY <1>1, <1>2, <1>7, LookUpTargetDoes
     DEF OnTipOK, OnTip, Building, GotTemplate, LookUpTarget
<1>8. CASE (LookUpTarget(c) /\ requests[c].output.prev \in DOMAIN known_targets) \/ InsertTarget(c)
  <2>1. PICK output \in Outputs : /\ Build(c, output) /\ Building(c)
                                  /\ output.prev = requests[c].output.prev
                                  /\ output.target \in Targets
    BY <1>8, BuildsFrom
  <2>2. PICK template \in Templates :
          /\ template.prev = output.prev
          /\ requests'[c].stage = "answered" /\ requests'[c].template = template
          /\ requests'[c].arrived = requests[c].arrived
    BY <2>1, BuildDoes
  <2> QED BY <1>1, <1>2, <2>1, <2>2 DEF OnTipOK, OnTip, Building, GotTemplate
<1>9. CASE GetMiningInfo(c) /\ ~Fail(c)
  <2>1. [requests[c].output EXCEPT !.target = Target[node_tip]].prev = requests[c].output.prev
    BY <1>2, <1>9 DEF GetMiningInfo, StageOK, Outputs
  <2> QED BY <1>1, <1>2, <1>9, <2>1, GetMiningInfoDoes
          DEF OnTipOK, OnTip, Building, GotTemplate, GetMiningInfo
<1>10. CASE AskNode(c) /\ ~Fail(c)
  <2>1. CASE Answer(c, "rejected", requests[c].template)
    <3>1. PICK t : t = requests[c].template
      OBVIOUS
    <3> QED BY <1>1, <1>2, <2>1, <3>1, AnswerDoes DEF OnTipOK, Building, GotTemplate
  <2>2. CASE requests' = [requests EXCEPT ![c].stage = "ask_enforcer"]
    BY <1>1, <1>2, <2>2, AskNodeDoes DEF OnTipOK, Building, GotTemplate
  <2> QED BY <1>10, <2>1, <2>2 DEF AskNode
<1>11. CASE AskEnforcer(c) /\ ~Fail(c)
  <2>1. PICK t, answer : t = requests[c].template /\ answer = Verdict(requests[c].block)
    OBVIOUS
  <2>2. Answer(c, answer, t) /\ answer # "template"
    BY <1>11, <2>1 DEF AskEnforcer, Verdict
  <2> QED BY <1>1, <1>2, <2>2, AnswerDoes DEF OnTipOK, Building, GotTemplate
<1> QED BY <1>3, <1>4, <1>5, <1>6, <1>7, <1>8, <1>9, <1>10, <1>11 DEF Handle

------------------------------------------------------------------------------
\* The verdict on a proposal is that of both.

LEMMA InitProposal == Init => \A c \in Clients : ProposalOK(c)
BY DEF Init, ProposalOK, NoRequest

LEMMA ProposalFrame ==
  ASSUME TypeOK, [Next]_vars, NEW d \in Clients, ProposalOK(d), requests'[d] = requests[d]
  PROVE  ProposalOK(d)'
<1>1. requests[d].arrived \in Nat \ {0} /\ requests[d].node_arrived \in Nat \ {0}
  BY DEF TypeOK, Requests
<1> QED BY <1>1, TipsGrow DEF ProposalOK

\* Steps that bring no verdict.
LEMMA ProposalElsewhere ==
  ASSUME TypeOK, NEW c \in Clients, ProposalOK(c), UNCHANGED environment,
         requests'[c].stage # "ask_enforcer",
         requests'[c].answer # "accepted",
         requests'[c].node_arrived \in {1, Len(node_tips), requests[c].node_arrived}
  PROVE  ProposalOK(c)'
<1>1. Len(node_tips) \in Nat \ {0}
  BY DEF TypeOK
<1> QED BY <1>1 DEF ProposalOK, environment

LEMMA ProposalStep ==
  ASSUME TypeOK, NEW c \in Clients, ProposalOK(c), OnTipOK(c), RequestArrives(c) \/ Handle(c)
  PROVE  ProposalOK(c)'
<1>1. UNCHANGED environment
  BY Others
<1>2. requests[c] \in Requests /\ StageOK(requests[c]) /\ Len(node_tips) \in Nat \ {0}
  BY DEF TypeOK
<1>3. CASE RequestArrives(c)
  BY <1>1, <1>3, ArrivesDoes, ProposalElsewhere
<1>4. CASE Fail(c)
  BY <1>1, <1>4, FailDoes, ProposalElsewhere
<1>5. CASE Wakes(c)
  <2>1. requests'[c].answer = requests[c].answer /\ requests[c].answer # "accepted"
    BY <1>2, <1>5 DEF Wakes, StageOK, TypeOK, Requests
  <2> QED BY <1>1, <1>5, <2>1, WakesDoes, ProposalElsewhere
<1>6. CASE Query(c) /\ ~Fail(c)
  <2> DEFINE cached == TryTake(requests[c].kind, requests[c].at)
  <2>1. CASE cached # None
    <3>1. PICK t : t = cached
      OBVIOUS
    <3>2. Answer(c, "template", t)
      BY <1>6, <2>1, <3>1 DEF Query
    <3> QED BY <1>1, <3>2, AnswerDoes, ProposalElsewhere
  <2>2. CASE cached = None
    <3>1. requests'[c].answer = requests[c].answer /\ requests[c].answer # "accepted"
      <4>1. requests' = [requests EXCEPT ![c].stage = "target", ![c].output = Queried(c)]
        BY <1>6, <2>2 DEF Query
      <4> QED BY <1>2, <1>6, <4>1 DEF Query, StageOK, TypeOK, Requests
    <3> QED BY <1>1, <1>6, <2>2, <3>1, QueryDoes, ProposalElsewhere
  <2> QED BY <2>1, <2>2
<1>7. CASE LookUpTarget(c) /\ requests[c].output.prev \notin DOMAIN known_targets
  <2>1. requests'[c].answer = requests[c].answer /\ requests[c].answer # "accepted"
    BY <1>2, <1>7 DEF LookUpTarget, StageOK, TypeOK, Requests
  <2> QED BY <1>1, <1>7, <2>1, LookUpTargetDoes, ProposalElsewhere
<1>8. CASE (LookUpTarget(c) /\ requests[c].output.prev \in DOMAIN known_targets) \/ InsertTarget(c)
  <2>1. PICK output \in Outputs : Build(c, output) /\ output.target \in Targets
    BY <1>8, BuildsFrom
  <2>2. requests'[c].stage = "answered" /\ requests'[c].answer = "template"
        /\ requests'[c].node_arrived = requests[c].node_arrived
    BY <2>1, BuildDoes
  <2> QED BY <1>1, <2>2, ProposalElsewhere
<1>9. CASE GetMiningInfo(c) /\ ~Fail(c)
  <2>1. requests'[c].answer = requests[c].answer /\ requests[c].answer # "accepted"
    <3>1. PICK o : o = [requests[c].output EXCEPT !.target = Target[node_tip]]
      OBVIOUS
    <3>2. requests' = [requests EXCEPT ![c].stage = "insert_target", ![c].output = o]
      BY <1>9, <3>1 DEF GetMiningInfo
    <3> QED BY <1>2, <1>9, <3>2 DEF GetMiningInfo, StageOK, TypeOK, Requests
  <2> QED BY <1>1, <1>9, <2>1, GetMiningInfoDoes, ProposalElsewhere
<1>10. CASE AskNode(c) /\ ~Fail(c)
  <2>1. CASE Answer(c, "rejected", requests[c].template)
    <3>1. PICK t : t = requests[c].template
      OBVIOUS
    <3> QED BY <1>1, <2>1, <3>1, AnswerDoes, ProposalElsewhere
  <2>2. CASE /\ requests[c].block.node_accepts /\ requests[c].block.prev = node_tip
             /\ requests' = [requests EXCEPT ![c].stage = "ask_enforcer"]
    <3>1. node_tips[Len(node_tips)] = requests[c].block.prev
      BY <2>2 DEF node_tip, Last
    <3> QED BY <1>1, <1>2, <2>2, <3>1, AskNodeDoes DEF ProposalOK, environment
  <2> QED BY <1>10, <2>1, <2>2 DEF AskNode
<1>11. CASE AskEnforcer(c) /\ ~Fail(c)
  <2>1. PICK t, answer : t = requests[c].template /\ answer = Verdict(requests[c].block)
    OBVIOUS
  <2>2. Answer(c, answer, t) /\ requests[c].stage = "ask_enforcer"
    BY <1>11, <2>1 DEF AskEnforcer
  <2>3. answer = "accepted" => requests[c].block.enforcer_accepts /\ requests[c].block.prev = tip
    BY <2>1 DEF Verdict
  <2>4. tips[Len(tips)] = tip /\ Len(tips) \in Nat \ {0} /\ requests[c].arrived \in Nat
    BY <1>2 DEF tip, Last, TypeOK, Requests
  <2>5. requests[c].arrived <= Len(tips)
    BY DEF OnTipOK
  <2>6. /\ requests'[c].stage = "answered" /\ requests'[c].answer = answer
        /\ requests'[c].block = requests[c].block
        /\ requests'[c].arrived = requests[c].arrived
        /\ requests'[c].node_arrived = requests[c].node_arrived
    BY <2>2, AnswerDoes
  <2> QED BY <1>1, <2>2, <2>3, <2>4, <2>5, <2>6 DEF ProposalOK, environment
<1> QED BY <1>3, <1>4, <1>5, <1>6, <1>7, <1>8, <1>9, <1>10, <1>11 DEF Handle

------------------------------------------------------------------------------
\* Where templates come from.

LEMMA InitKnown == Init => IdsOK /\ FreshOK /\ PastOK /\ \A c \in Clients : PollOK(c)
<1> SUFFICES ASSUME Init PROVE IdsOK /\ FreshOK /\ PastOK /\ \A c \in Clients : PollOK(c)
  OBVIOUS
<1>1. PastOK
  BY DEF Init, PastOK
<1>2. \A t \in Templates : ~Known(t)
  BY NoneAssumption DEF Init, Known, NoRequest
<1>3. \A c \in Clients : requests[c] = NoRequest
  BY DEF Init
<1>4. IdsOK
  BY <1>2 DEF IdsOK
<1>5. FreshOK
  BY <1>2, <1>3 DEF FreshOK, Timed, Building, GotTemplate, NoRequest
<1>6. \A c \in Clients : PollOK(c)
  BY <1>3 DEF PollOK, NoRequest
<1> QED BY <1>1, <1>4, <1>5, <1>6

\* Without a template being built, none becomes known.
LEMMA KnownFrame ==
  ASSUME TypeOK, UNCHANGED cached_block_templates, NEW t \in Templates, Known(t)',
         \A c \in Clients :
           /\ requests'[c].template \in {requests[c].template}
                                         \cup {cached_block_templates[kind] : kind \in Kinds}
           /\ requests'[c].long_poll \in {requests[c].template, requests[c].long_poll, None}
  PROVE  Known(t)
BY NoneAssumption DEF Known

\* A template becomes known by being built.
LEMMA KnownStep ==
  ASSUME TypeOK, [Next]_vars
  PROVE  \/ /\ UNCHANGED long_poll_seq
            /\ \A t \in Templates : Known(t)' => Known(t)
         \/ /\ long_poll_seq' = long_poll_seq + 1
            /\ \E c \in Clients, new \in Templates :
                 /\ Building(c)
                 /\ new.txs = requests[c].output.txs
                 /\ new.generated = requests[c].output.generated
                 /\ new.id = long_poll_seq
                 /\ \A t \in Templates : Known(t)' => Known(t) \/ t = new
<1> DEFINE kept(c) ==
             /\ requests'[c].template \in {requests[c].template}
                                           \cup {cached_block_templates[kind] : kind \in Kinds}
             /\ requests'[c].long_poll \in {requests[c].template, requests[c].long_poll, None}
<1>1. CASE Environment \/ UNCHANGED vars
  <2>1. UNCHANGED <<server, requests>>
    BY <1>1, EnvironmentOnly DEF vars
  <2> QED BY <2>1 DEF Known, server
<1>2. ASSUME NEW c \in Clients, RequestArrives(c) \/ Handle(c),
             ~InsertTarget(c),
             ~(LookUpTarget(c) /\ requests[c].output.prev \in DOMAIN known_targets)
      PROVE  UNCHANGED long_poll_seq /\ \A t \in Templates : Known(t)' => Known(t)
  <2>1. UNCHANGED server /\ kept(c)
    <3>1. CASE RequestArrives(c)
      BY <3>1, ArrivesDoes
    <3>2. CASE Wakes(c)
      BY <3>2, WakesDoes DEF Wakes
    <3>3. CASE Query(c)
      <4>1. UNCHANGED server
        BY <3>3 DEF Query
      <4>2. CASE Fail(c)
        BY <4>1, <4>2, FailDoes
      <4>3. CASE ~Fail(c) /\ TryTake(requests[c].kind, requests[c].at) = None
        BY <3>3, <4>1, <4>3, QueryDoes
      <4>4. CASE ~Fail(c) /\ TryTake(requests[c].kind, requests[c].at) # None
        <5>1. PICK t : t = TryTake(requests[c].kind, requests[c].at)
          OBVIOUS
        <5>2. Answer(c, "template", t)
          BY <3>3, <4>4, <5>1 DEF Query
        <5>3. t \in {cached_block_templates[kind] : kind \in Kinds}
          BY <3>3, <4>4, <5>1, TryTakeTyped DEF Query
        <5> QED BY <4>1, <5>2, <5>3, AnswerDoes
      <4> QED BY <4>2, <4>3, <4>4
    <3>4. CASE LookUpTarget(c)
      BY <1>2, <3>4, LookUpTargetDoes
    <3>5. CASE GetMiningInfo(c)
      BY <3>5, FailDoes, GetMiningInfoDoes DEF GetMiningInfo
    <3>6. CASE AskNode(c)
      <4>1. PICK t : t = requests[c].template
        OBVIOUS
      <4> QED BY <3>6, <4>1, FailDoes, AskNodeDoes, AnswerDoes DEF AskNode
    <3>7. CASE AskEnforcer(c)
      <4>1. PICK t, answer : t = requests[c].template /\ answer = Verdict(requests[c].block)
        OBVIOUS
      <4> QED BY <3>7, <4>1, FailDoes, AnswerDoes DEF AskEnforcer
    <3> QED BY <1>2, <3>1, <3>2, <3>3, <3>4, <3>5, <3>6, <3>7 DEF Handle
  <2>2. \A d \in Clients : kept(d)
    BY <1>2, <2>1, Others
  <2> HIDE DEF kept
  <2>3. ASSUME NEW t \in Templates, Known(t)' PROVE Known(t)
    BY <2>1, <2>2, <2>3, KnownFrame DEF server, kept
  <2> QED BY <2>1, <2>3 DEF server
<1>3. ASSUME NEW c \in Clients,
             (LookUpTarget(c) /\ requests[c].output.prev \in DOMAIN known_targets)
               \/ InsertTarget(c)
      PROVE  /\ long_poll_seq' = long_poll_seq + 1
             /\ \E new \in Templates :
                 /\ Building(c)
                 /\ new.txs = requests[c].output.txs
                 /\ new.generated = requests[c].output.generated
                 /\ new.id = long_poll_seq
                 /\ \A t \in Templates : Known(t)' => Known(t) \/ t = new
  <2>1. PICK output \in Outputs :
          /\ Build(c, output) /\ Building(c)
          /\ output.txs = requests[c].output.txs
          /\ output.generated = requests[c].output.generated
          /\ output.target \in Targets
    BY <1>3, BuildsFrom
  <2>2. PICK new \in Templates :
          /\ new.txs = output.txs /\ new.generated = output.generated
          /\ new.id = long_poll_seq
          /\ long_poll_seq' = long_poll_seq + 1
          /\ cached_block_templates' = Cached(new)
          /\ requests'[c].template = new
          /\ requests'[c].long_poll = requests[c].long_poll
    BY <2>1, BuildDoes
  <2>3. \A d \in Clients \ {c} : requests'[d] = requests[d]
    BY <1>3, Others DEF Handle
  <2>4. DOMAIN cached_block_templates = Kinds
    BY DEF TypeOK
  <2>5. \A t \in Templates : Known(t)' => Known(t) \/ t = new
    BY <2>2, <2>3, <2>4 DEF Known, Cached
  <2> QED BY <2>1, <2>2, <2>5
<1> QED BY <1>1, <1>2, <1>3 DEF Next

------------------------------------------------------------------------------
\* Ids are unique.

LEMMA IdsStep ==
  ASSUME TypeOK, IdsOK, [Next]_vars
  PROVE  IdsOK'
<1>1. long_poll_seq \in Nat
  BY DEF TypeOK
<1>2. CASE /\ UNCHANGED long_poll_seq
           /\ \A t \in Templates : Known(t)' => Known(t)
  BY <1>2 DEF IdsOK
<1>3. CASE /\ long_poll_seq' = long_poll_seq + 1
           /\ \E new \in Templates :
                /\ new.id = long_poll_seq
                /\ \A t \in Templates : Known(t)' => Known(t) \/ t = new
  <2>1. PICK new \in Templates :
          /\ new.id = long_poll_seq
          /\ \A t \in Templates : Known(t)' => Known(t) \/ t = new
    BY <1>3
  <2>2. \A t \in Templates : t.id \in Nat
    BY DEF Templates
  <2>3. \A t \in Templates : Known(t)' => t.id < long_poll_seq'
    BY <1>1, <1>3, <2>1, <2>2 DEF IdsOK
  <2>4. \A t, u \in Templates : Known(t)' /\ Known(u)' /\ t.id = u.id => t = u
    BY <1>1, <2>1, <2>2 DEF IdsOK
  <2> QED BY <2>3, <2>4 DEF IdsOK
<1> QED BY <1>2, <1>3, KnownStep

------------------------------------------------------------------------------
\* Templates are as old as they say.

\* The history is only added to.
LEMMA HistoryGrows ==
  ASSUME TypeOK, PastOK, [Next]_vars
  PROVE  /\ now \in Nat /\ now' \in Nat /\ now <= now'
         /\ tx_changes \in Nat /\ tx_changes' \in Nat /\ tx_changes <= tx_changes'
         /\ Len(past) = now + 1 /\ DOMAIN past = 1 .. (now + 1)
         /\ \A i \in 1 .. (now + 1) : past'[i] = past[i] /\ past[i] \in Nat
         /\ PastOK'
<1>1. now \in Nat /\ tx_changes \in Nat /\ past \in Seq(Nat) /\ Len(past) = now + 1
  BY DEF TypeOK
<1>2. CASE Tick
  <2>1. past' = Append(past, tx_changes) /\ now' = now + 1 /\ UNCHANGED tx_changes
    BY <1>2 DEF Tick
  <2> QED BY <1>1, <2>1 DEF PastOK
<1>3. CASE MempoolTxsChange
  <2>1. UNCHANGED <<past, now>> /\ tx_changes' = tx_changes + 1
    BY <1>3 DEF MempoolTxsChange
  <2> QED BY <1>1, <2>1 DEF PastOK
<1>4. CASE UNCHANGED <<past, now, tx_changes>>
  BY <1>1, <1>4 DEF PastOK
<1>5. Tick \/ MempoolTxsChange \/ UNCHANGED <<past, now, tx_changes>>
  BY Others DEF Next, Environment, NodeMoves, MempoolFollows, SyncEnds, environment, vars
<1> QED BY <1>2, <1>3, <1>4, <1>5

LEMMA StillFresh ==
  ASSUME TypeOK, PastOK, [Next]_vars, NEW t, t.generated \in Nat, t.txs \in Nat, Fresh(t)
  PROVE  Fresh(t)'
<1>1. t.generated + 1 \in 1 .. (now + 1) /\ past[t.generated + 1] <= t.txs /\ t.txs <= tx_changes
  BY HistoryGrows DEF Fresh
<1>2. past'[t.generated + 1] = past[t.generated + 1]
  BY <1>1, HistoryGrows
<1>3. t.generated <= now' /\ t.txs <= tx_changes'
  BY <1>1, HistoryGrows
<1> QED BY <1>1, <1>2, <1>3 DEF Fresh

\* The part of FreshOK that is about one request.
FreshRequest(c) ==
  /\ Timed(c) => requests[c].at <= now
  /\ Building(c) => Fresh(requests[c].output) /\ requests[c].output.generated = requests[c].at
  /\ GotTemplate(c) =>
       requests[c].at - requests[c].template.generated \in 0 .. CacheLifetime

LEMMA FreshRequestFrame ==
  ASSUME TypeOK, PastOK, [Next]_vars, NEW d \in Clients, FreshRequest(d),
         requests'[d] = requests[d]
  PROVE  FreshRequest(d)'
<1>1. requests[d] \in Requests /\ StageOK(requests[d])
  BY DEF TypeOK
<1>2. requests[d].at \in Nat
  BY <1>1 DEF Requests
<1>3. ASSUME Building(d) PROVE Fresh(requests[d].output)'
  <2>1. PICK o \in Outputs : o = requests[d].output
    BY <1>1, <1>3 DEF Building, StageOK
  <2>2. o.generated \in Nat /\ o.txs \in Nat
    BY DEF Outputs
  <2>3. Fresh(o)'
    BY <1>3, <2>1, <2>2, StillFresh DEF FreshRequest
  <2> QED BY <2>1, <2>3 DEF Fresh
<1> QED BY <1>2, <1>3, HistoryGrows DEF FreshRequest, Timed, Building, GotTemplate

\* Steps that bring no template nearer.
LEMMA FreshElsewhere ==
  ASSUME NEW c \in Clients,
         requests'[c].stage \in {"answered", "poll", "ask_node", "ask_enforcer"},
         requests'[c].answer # "template" \/ requests'[c].stage # "answered"
  PROVE  FreshRequest(c)'
BY DEF FreshRequest, Timed, Building, GotTemplate

LEMMA FreshRequestStep ==
  ASSUME TypeOK, PastOK, NEW c \in Clients, FreshRequest(c), RequestArrives(c) \/ Handle(c)
  PROVE  FreshRequest(c)'
<1>1. UNCHANGED environment
  BY Others
<1>2. requests[c] \in Requests /\ StageOK(requests[c]) /\ now \in Nat /\ requests[c].at \in Nat
  BY DEF TypeOK, Requests
<1>3. CASE RequestArrives(c)
  BY <1>3, ArrivesDoes, FreshElsewhere
<1>4. CASE Fail(c)
  BY <1>4, FailDoes, FreshElsewhere
<1>5. CASE Wakes(c)
  BY <1>1, <1>2, <1>5, WakesDoes DEF FreshRequest, Timed, Building, GotTemplate, environment
<1>6. CASE Query(c) /\ ~Fail(c)
  <2> DEFINE cached == TryTake(requests[c].kind, requests[c].at)
  <2>0. requests[c].at <= now
    BY <1>6 DEF Query, FreshRequest, Timed
  <2>1. CASE cached # None
    <3>1. PICK t \in Templates : t = cached
      BY <1>6, <2>1, TryTakeTyped DEF Query
    <3>2. Answer(c, "template", t) /\ requests[c].at - t.generated \in 0 .. CacheLifetime
      BY <1>6, <2>1, <3>1 DEF Query, TryTake
    <3> HIDE DEF cached
    <3> QED BY <1>1, <1>2, <2>0, <3>2, AnswerDoes
            DEF FreshRequest, Timed, Building, GotTemplate, environment
  <2>2. CASE cached = None
    <3>1. /\ requests'[c].stage = "target" /\ requests'[c].output = Queried(c)
          /\ requests'[c].at = requests[c].at
      BY <1>6, <2>2, QueryDoes
    <3>2. Queried(c).generated = requests[c].at /\ Queried(c).txs = tx_changes
      BY DEF Queried
    <3>3. past[requests[c].at + 1] <= tx_changes /\ tx_changes \in Nat
      BY <1>2, <2>0 DEF PastOK, TypeOK
    <3> QED BY <1>1, <1>2, <2>0, <3>1, <3>2, <3>3
            DEF FreshRequest, Timed, Building, GotTemplate, Fresh, environment
  <2> QED BY <2>1, <2>2
<1>7. CASE LookUpTarget(c) /\ requests[c].output.prev \notin DOMAIN known_targets
  BY <1>1, <1>7, LookUpTargetDoes
     DEF FreshRequest, Timed, Building, GotTemplate, LookUpTarget, Fresh, environment
<1>8. CASE (LookUpTarget(c) /\ requests[c].output.prev \in DOMAIN known_targets) \/ InsertTarget(c)
  <2>1. PICK output \in Outputs :
          /\ Build(c, output) /\ Building(c) /\ output.target \in Targets
          /\ output.generated = requests[c].output.generated
    BY <1>8, BuildsFrom
  <2>2. PICK template \in Templates :
          /\ template.generated = output.generated
          /\ requests'[c].stage = "answered" /\ requests'[c].template = template
          /\ requests'[c].at = requests[c].at
    BY <2>1, BuildDoes
  <2>3. requests[c].at <= now /\ template.generated = requests[c].at
    BY <2>1, <2>2 DEF FreshRequest, Timed
  <2> QED BY <1>1, <1>2, <2>2, <2>3, LifetimeAssumption
          DEF FreshRequest, Timed, Building, GotTemplate, environment
<1>9. CASE GetMiningInfo(c) /\ ~Fail(c)
  <2>1. requests[c].output \in Outputs /\ Building(c)
    BY <1>2, <1>9 DEF GetMiningInfo, StageOK, Building
  <2>2. PICK o : o = [requests[c].output EXCEPT !.target = Target[node_tip]]
    OBVIOUS
  <2>3. o.generated = requests[c].output.generated /\ o.txs = requests[c].output.txs
    BY <2>1, <2>2 DEF Outputs
  <2>4. /\ requests'[c].stage = "insert_target" /\ requests'[c].output = o
        /\ requests'[c].at = requests[c].at
    BY <1>9, <2>2, GetMiningInfoDoes
  <2> QED BY <1>1, <2>1, <2>3, <2>4
          DEF FreshRequest, Timed, Building, GotTemplate, Fresh, environment
<1>10. CASE AskNode(c) /\ ~Fail(c)
  <2>1. CASE Answer(c, "rejected", requests[c].template)
    <3>1. PICK t : t = requests[c].template
      OBVIOUS
    <3> QED BY <2>1, <3>1, AnswerDoes, FreshElsewhere
  <2>2. CASE requests' = [requests EXCEPT ![c].stage = "ask_enforcer"]
    BY <2>2, AskNodeDoes, FreshElsewhere
  <2> QED BY <1>10, <2>1, <2>2 DEF AskNode
<1>11. CASE AskEnforcer(c) /\ ~Fail(c)
  <2>1. PICK t, answer : t = requests[c].template /\ answer = Verdict(requests[c].block)
    OBVIOUS
  <2>2. Answer(c, answer, t) /\ answer # "template"
    BY <1>11, <2>1 DEF AskEnforcer, Verdict
  <2> QED BY <2>2, AnswerDoes, FreshElsewhere
<1> QED BY <1>3, <1>4, <1>5, <1>6, <1>7, <1>8, <1>9, <1>10, <1>11 DEF Handle

LEMMA FreshStep ==
  ASSUME TypeOK, PastOK, FreshOK, [Next]_vars
  PROVE  FreshOK'
<1>1. \A c \in Clients : FreshRequest(c)
  BY DEF FreshOK, FreshRequest
<1>2. ASSUME NEW d \in Clients PROVE FreshRequest(d)'
  <2>1. CASE RequestArrives(d) \/ Handle(d)
    BY <1>1, <2>1, FreshRequestStep
  <2>2. CASE requests'[d] = requests[d]
    BY <1>1, <2>2, FreshRequestFrame
  <2>3. \/ RequestArrives(d) \/ Handle(d)
        \/ requests'[d] = requests[d]
    BY Others, EnvironmentOnly DEF Next, vars
  <2> QED BY <2>1, <2>2, <2>3
<1>3. ASSUME NEW t \in Templates, Known(t)' PROVE Fresh(t)'
  <2>1. t.generated \in Nat /\ t.txs \in Nat
    BY DEF Templates
  <2>2. CASE Known(t)
    BY <2>1, <2>2, StillFresh DEF FreshOK
  <2>3. CASE \E c \in Clients : /\ Building(c)
                                /\ t.txs = requests[c].output.txs
                                /\ t.generated = requests[c].output.generated
    <3>1. PICK c \in Clients : /\ Building(c)
                               /\ t.txs = requests[c].output.txs
                               /\ t.generated = requests[c].output.generated
      BY <2>3
    <3>2. Fresh(t)
      BY <3>1 DEF FreshOK, Fresh
    <3> QED BY <2>1, <3>2, StillFresh
  <2> QED BY <1>3, <2>2, <2>3, KnownStep
<1>4. \A c \in Clients : FreshRequest(c)'
  BY <1>2
<1>5. \A t \in Templates : Known(t)' => Fresh(t)'
  BY <1>3
<1> QED BY <1>4, <1>5 DEF FreshOK, FreshRequest

------------------------------------------------------------------------------
\* A long poll that goes on has a reason to, and gets another template.

LEMMA PollFrame ==
  ASSUME TypeOK, [Next]_vars, NEW d \in Clients, OnTipOK(d), PollOK(d),
         requests'[d] = requests[d]
  PROVE  PollOK(d)'
<1>1. requests[d].arrived \in Nat /\ requests[d].arrived <= Len(tips)
  BY DEF TypeOK, Requests, OnTipOK
<1>2. Len(tips') > requests[d].arrived \/ tips' = tips
  BY <1>1, TipsGrow
<1>3. Len(tips) > requests[d].arrived => Len(tips') > requests[d].arrived
  BY <1>1, TipsGrow
<1>4. sync_task = "ended" => sync_task' = "ended"
  BY Others DEF Next, Environment, Tick, NodeMoves, MempoolFollows, MempoolTxsChange, SyncEnds,
                environment, vars
<1>5. Outdated(d) => Outdated(d)'
  BY <1>2, <1>3, <1>4 DEF Outdated, tip
<1> QED BY <1>3, <1>5 DEF PollOK, GotTemplate

\* Steps after which nothing is asked of the long poll.
LEMMA PollElsewhere ==
  ASSUME NEW c \in Clients,
         requests'[c].stage \notin {"poll", "query"},
         requests'[c].stage = "answered" => requests'[c].answer # "template"
  PROVE  PollOK(c)'
BY DEF PollOK, GotTemplate

LEMMA PollStep ==
  ASSUME TypeOK, FreshOK, IdsOK, NEW c \in Clients, PollOK(c), RequestArrives(c) \/ Handle(c)
  PROVE  PollOK(c)'
<1>1. UNCHANGED environment
  BY Others
<1>2. /\ requests[c] \in Requests /\ StageOK(requests[c]) /\ now \in Nat
      /\ requests[c].at \in Nat
      /\ requests[c].template \in Templates \cup {None}
      /\ requests[c].long_poll \in Templates \cup {None}
  BY DEF TypeOK, Requests
<1>3. CASE RequestArrives(c)
  <2>1. CASE requests'[c].long_poll = None
    BY <2>1 DEF PollOK
  <2>2. CASE requests'[c].long_poll # None
    <3>1. /\ requests'[c].stage = "poll" /\ requests'[c].at = now + LongPollTimeout
          /\ requests'[c].long_poll = requests[c].template
      BY <1>3, <2>2, ArrivesDoes
    <3>2. PICK t \in Templates : t = requests[c].template
      BY <1>2, <2>2, <3>1
    <3>3. t.generated \in Nat /\ t.generated <= now
      BY <3>2 DEF Templates, FreshOK, Known, Fresh
    <3> QED BY <1>2, <3>1, <3>2, <3>3, LifetimeAssumption DEF PollOK, GotTemplate
  <2> QED BY <2>1, <2>2
<1>4. CASE Fail(c)
  BY <1>4, FailDoes, PollElsewhere
<1>5. CASE Wakes(c)
  <2>1. /\ requests'[c].stage = "query" /\ requests'[c].at = now
        /\ requests'[c].arrived = requests[c].arrived
        /\ requests'[c].long_poll = requests[c].long_poll
    BY <1>5, WakesDoes
  <2>2. ASSUME requests[c].long_poll # None PROVE Outdated(c)'
    <3>1. PICK t \in Templates : t = requests[c].long_poll
      BY <1>2, <2>2
    <3>2. t.generated \in Nat
      BY DEF Templates
    <3>3. requests[c].at >= t.generated + LongPollTimeout
      BY <1>5, <2>2, <3>1 DEF PollOK, Wakes
    <3>4. CASE now < requests[c].at
      BY <1>1, <1>5, <2>1, <2>2, <3>4 DEF Wakes, Outdated, environment, tip
    <3>5. CASE now >= requests[c].at
      <4>1. now > t.generated + CacheLifetime
        BY <1>2, <3>2, <3>3, <3>5, LifetimeAssumption
      <4> QED BY <2>1, <3>1, <4>1 DEF Outdated
    <3> QED BY <1>2, <3>4, <3>5
  <2> QED BY <2>1, <2>2 DEF PollOK, GotTemplate
<1>6. CASE Query(c) /\ ~Fail(c)
  <2> DEFINE cached == TryTake(requests[c].kind, requests[c].at)
  <2>1. CASE cached # None
    <3>1. PICK t \in Templates : t = cached
      BY <1>6, <2>1, TryTakeTyped DEF Query
    <3>2. /\ Answer(c, "template", t) /\ t.prev = tip
          /\ requests[c].at - t.generated \in 0 .. CacheLifetime
      BY <1>6, <2>1, <3>1 DEF Query, TryTake
    <3>3. Known(t)
      BY <1>6, <2>1, <3>1, TryTakeTyped DEF Query, Known
    <3> HIDE DEF cached
    <3>4. ASSUME requests[c].long_poll # None, t.id = requests[c].long_poll.id
          PROVE  Len(tips) > requests[c].arrived
      <4>1. PICK u \in Templates : u = requests[c].long_poll
        BY <1>2, <3>4
      <4>2. t = u
        BY <3>3, <3>4, <4>1 DEF Known, IdsOK
      <4>3. t.generated \in Nat
        BY DEF Templates
      <4>4. ~(requests[c].at > t.generated + CacheLifetime)
        BY <1>2, <3>2, <4>3, LifetimeAssumption
      <4>5. sync_task # "ended"
        BY <1>6 DEF Query
      <4> QED BY <1>6, <3>2, <3>4, <4>1, <4>2, <4>4, <4>5 DEF PollOK, Outdated, Query
    <3> QED BY <1>1, <3>2, <3>4, AnswerDoes DEF PollOK, GotTemplate, environment
  <2>2. CASE cached = None
    BY <1>6, <2>2, QueryDoes, PollElsewhere
  <2> QED BY <2>1, <2>2
<1>7. CASE LookUpTarget(c) /\ requests[c].output.prev \notin DOMAIN known_targets
  BY <1>7, LookUpTargetDoes, PollElsewhere
<1>8. CASE (LookUpTarget(c) /\ requests[c].output.prev \in DOMAIN known_targets) \/ InsertTarget(c)
  <2>1. PICK output \in Outputs : Build(c, output) /\ output.target \in Targets
    BY <1>8, BuildsFrom
  <2>2. PICK template \in Templates :
          /\ template.id = long_poll_seq
          /\ requests'[c].stage = "answered" /\ requests'[c].template = template
          /\ requests'[c].long_poll = requests[c].long_poll
    BY <2>1, BuildDoes
  <2>3. ASSUME requests[c].long_poll # None PROVE requests[c].long_poll.id # long_poll_seq
    <3>1. PICK u \in Templates : u = requests[c].long_poll
      BY <1>2, <2>3
    <3>2. u.id \in Nat /\ u.id < long_poll_seq /\ long_poll_seq \in Nat
      BY <3>1 DEF Known, IdsOK, Templates, TypeOK
    <3> QED BY <3>1, <3>2
  <2> QED BY <2>2, <2>3 DEF PollOK, GotTemplate
<1>9. CASE GetMiningInfo(c) /\ ~Fail(c)
  BY <1>9, GetMiningInfoDoes, PollElsewhere
<1>10. CASE AskNode(c) /\ ~Fail(c)
  <2>1. CASE Answer(c, "rejected", requests[c].template)
    <3>1. PICK t : t = requests[c].template
      OBVIOUS
    <3> QED BY <2>1, <3>1, AnswerDoes, PollElsewhere
  <2>2. CASE requests' = [requests EXCEPT ![c].stage = "ask_enforcer"]
    BY <2>2, AskNodeDoes, PollElsewhere
  <2> QED BY <1>10, <2>1, <2>2 DEF AskNode
<1>11. CASE AskEnforcer(c) /\ ~Fail(c)
  <2>1. PICK t, answer : t = requests[c].template /\ answer = Verdict(requests[c].block)
    OBVIOUS
  <2>2. Answer(c, answer, t) /\ answer # "template"
    BY <1>11, <2>1 DEF AskEnforcer, Verdict
  <2> QED BY <2>2, AnswerDoes, PollElsewhere
<1> QED BY <1>3, <1>4, <1>5, <1>6, <1>7, <1>8, <1>9, <1>10, <1>11 DEF Handle

------------------------------------------------------------------------------

\* The inductive invariant is kept by every step.
LEMMA NextIInv == IInv /\ [Next]_vars => IInv'
<1> SUFFICES ASSUME IInv, [Next]_vars PROVE IInv'
  OBVIOUS
<1>1. /\ TypeOK /\ PastOK /\ FreshOK /\ IdsOK
      /\ \A c \in Clients : OnTipOK(c) /\ ProposalOK(c) /\ PollOK(c)
  BY DEF IInv
<1>2. TypeOK' /\ PastOK' /\ FreshOK' /\ IdsOK'
  BY <1>1, NextType, HistoryGrows, FreshStep, IdsStep
<1>3. ASSUME NEW d \in Clients PROVE OnTipOK(d)' /\ ProposalOK(d)' /\ PollOK(d)'
  <2>1. CASE RequestArrives(d) \/ Handle(d)
    BY <1>1, <2>1, OnTipStep, ProposalStep, PollStep
  <2>2. CASE requests'[d] = requests[d]
    BY <1>1, <2>2, OnTipFrame, ProposalFrame, PollFrame
  <2>3. \/ RequestArrives(d) \/ Handle(d)
        \/ requests'[d] = requests[d]
    BY <1>1, Others, EnvironmentOnly DEF Next, vars
  <2> QED BY <2>1, <2>2, <2>3
<1> QED BY <1>2, <1>3 DEF IInv

\* The inductive invariant that the promises follow from: where each template and
\* each verdict comes from, and why a long poll goes on.
THEOREM Invariance == Spec => []IInv
<1>1. Init => IInv
  BY InitType, InitOnTip, InitProposal, InitKnown DEF IInv
<1> QED BY <1>1, NextIInv, PTL DEF Spec

\* The server's state is well-typed: what is cached is of the kind it is cached
\* under, and a request has what its next step needs.
THEOREM TypeCorrect == Spec => []TypeOK
<1>1. IInv => TypeOK
  BY DEF IInv
<1> QED BY <1>1, Invariance, PTL

\* query_mempool is run, and the cache looked at, under the lock that the tip is
\* read under: a template is for a tip of the mempool during the request.
THEOREM ServedOnTipHolds == Spec => []ServedOnTip
<1>1. IInv => ServedOnTip
  BY DEF IInv, OnTipOK, OnTip, ServedOnTip
<1> QED BY <1>1, Invariance, PTL

\* The time of a template is taken before its txs are read, and the cache's
\* lifetime counts from it: a template never lags further behind the mempool.
THEOREM ServedFreshHolds == Spec => []ServedFresh
<1>1. IInv => ServedFresh
  <2> SUFFICES ASSUME IInv, NEW c \in Clients, GotTemplate(c),
                      requests[c].at >= CacheLifetime
               PROVE  requests[c].template.txs >= past[requests[c].at - CacheLifetime + 1]
    BY DEF ServedFresh
  <2>1. TypeOK /\ PastOK /\ FreshOK
    BY DEF IInv
  <2>2. requests[c].template \in Templates /\ requests[c].at \in Nat
    BY <2>1 DEF TypeOK, StageOK, GotTemplate, Requests
  <2>3. PICK t \in Templates : t = requests[c].template
    BY <2>2
  <2>4. t.generated \in Nat /\ t.txs \in Nat
    BY DEF Templates
  <2>5. requests[c].at - t.generated \in 0 .. CacheLifetime /\ requests[c].at <= now
    BY <2>1, <2>3 DEF FreshOK, Timed
  <2>6. t.generated <= now /\ past[t.generated + 1] <= t.txs
    BY <2>1, <2>3 DEF FreshOK, Known, Fresh
  <2>7. now \in Nat /\ past \in Seq(Nat) /\ DOMAIN past = 1 .. (now + 1)
    BY <2>1 DEF TypeOK
  <2>8. PICK i, j \in DOMAIN past :
          i = requests[c].at - CacheLifetime + 1 /\ j = t.generated + 1 /\ i <= j
    <3>1. PICK at \in Nat : at = requests[c].at
      BY <2>2
    <3>2. at - CacheLifetime + 1 \in 1 .. (now + 1) /\ at - CacheLifetime + 1 <= t.generated + 1
      <4>1. at >= CacheLifetime /\ at <= now
        BY <2>5, <3>1
      <4>2. at - t.generated \in 0 .. CacheLifetime
        BY <2>5, <3>1
      <4>3. at - t.generated <= CacheLifetime
        BY <4>2, LifetimeAssumption
      <4> QED BY <2>4, <2>7, <4>1, <4>3, LifetimeAssumption
    <3>3. t.generated + 1 \in 1 .. (now + 1)
      BY <2>4, <2>6, <2>7
    <3> QED BY <2>7, <3>1, <3>2, <3>3
  <2>9. past[i] <= past[j] /\ past[i] \in Nat /\ past[j] \in Nat
    BY <2>1, <2>7, <2>8 DEF PastOK
  <2> QED BY <2>3, <2>4, <2>6, <2>8, <2>9
<1> QED BY <1>1, Invariance, PTL

\* The longpollid counts up with every template that is built, and the cache's
\* lifetime is below the time that a long poll is parked for: a long poll is not
\* answered by the template that it came with.
THEOREM PollRefreshesHolds == Spec => []PollRefreshes
<1>1. IInv => PollRefreshes
  BY DEF IInv, PollOK, PollRefreshes
<1> QED BY <1>1, Invariance, PTL

\* A proposal is accepted only after the node and then the enforcer, each on its
\* own tip, have accepted it.
THEOREM AcceptedByBothHolds == Spec => []AcceptedByBoth
<1>1. IInv => AcceptedByBoth
  BY DEF IInv, ProposalOK, AcceptedByBoth
<1> QED BY <1>1, Invariance, PTL
================================================================================
