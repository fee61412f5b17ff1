----------------------------- MODULE CombinedSync -----------------------------
(***************************************************************************)
(* The mempool sync task with its one source of things to do, the          *)
(* CombinedStream of lib/mempool/sync/mod.rs, which asks the ZMQ messages, *)
(* the responses, the timeout and the shutdown signal in turn.             *)
(*                                                                         *)
(* In MempoolSync any of them may come next, the timeout whenever an       *)
(* action waits.  Here each attempt of poll_next is an action, and the     *)
(* timeout belongs to the action at the head of the queue.                 *)
(***************************************************************************)
EXTENDS MempoolSync

Sources == 0 .. 3
SequenceMsgs == 0
Responses == 1
ApplyTimeout == 2
ShutdownSignal == 3

VARIABLES
  position,         \* CombinedStream::position
  expired,          \* the head's reached_head_time is 15 s ago
  shutdown_signal,  \* it is ready: sent, or its sender was dropped
  passed_over       \* history: the sources that went before one that waits

streamVars == <<position, expired, shutdown_signal, passed_over>>

allVars == <<vars, streamVars>>

CombinedInit ==
  /\ Init
  /\ position = SequenceMsgs
  /\ expired = FALSE
  /\ shutdown_signal = FALSE
  /\ passed_over = [s \in Sources |-> {}]

\* The stream has an item of s.
Ready(s) ==
  CASE s = SequenceMsgs   -> zmq # << >>
    [] s = Responses      -> rpc.state = "done"
    [] s = ApplyTimeout   -> expired
    [] s = ShutdownSignal -> shutdown_signal

\* The response stream has to be polled also for a request to be sent.
CanTakeRequest == rpc = IdleRpc /\ request_queue # << >>

Waits(s) == Ready(s) \/ (s = Responses /\ CanTakeRequest)

\* SyncActionQueue: an action reaches the head when it is pushed onto an empty
\* queue or in front, or when the one before it is popped.
HeadKept == action_queue # << >> /\ IsPrefix(action_queue, action_queue')

\* apply_sync_action_timeout, built anew after each message and response.
RestartsTimeout == expired' = (expired /\ HeadKept)

\* The source that is asked after s.
NextSource(s) == (s + 1) % 4

\* Wrong: the next poll begins with the same source.
YieldsAgain(s) ==
  /\ position = s
  /\ passed_over' = [o \in Sources |-> IF o # s /\ Waits(o) THEN passed_over[o] \cup {s} ELSE {}]
  /\ UNCHANGED <<position, shutdown_signal>>

\* The item that poll_next returns is one of s.
Yields(s) ==
  /\ position = s
  /\ position' = NextSource(s)
  /\ passed_over' = [o \in Sources |-> IF o # s /\ Waits(o) THEN passed_over[o] \cup {s} ELSE {}]
  /\ UNCHANGED shutdown_signal

PollSequenceMsgs == HandleSeq /\ Yields(SequenceMsgs) /\ RestartsTimeout

PollResponses ==
  /\ HandleResp \/ RequestFails
  /\ Yields(Responses)
  /\ RestartsTimeout

PollTimeout ==
  /\ expired
  /\ ApplySyncActionTimeout
  /\ Yields(ApplyTimeout)
  /\ UNCHANGED expired

\* Wrong: an action that waits is waited for.
PollShutdownIdle ==
  /\ shutdown_signal
  /\ action_queue = << >>
  /\ Shutdown
  /\ Yields(ShutdownSignal)
  /\ UNCHANGED expired

PollShutdown ==
  /\ shutdown_signal
  /\ Shutdown
  /\ Yields(ShutdownSignal)
  /\ UNCHANGED expired

\* The source whose turn it is has nothing, and another one is asked, or the
\* stream is pending.  The response stream sends a request when it is asked.
PollNothing ==
  /\ phase = "wait"
  /\ ~Ready(position)
  /\ \E s \in Sources : Waits(s)
  /\ position' = NextSource(position)
  /\ IF position = Responses /\ CanTakeRequest
     THEN TakeRequest
     ELSE UNCHANGED vars
  /\ passed_over' = [passed_over EXCEPT ![position] = {}]
  /\ UNCHANGED <<expired, shutdown_signal>>

Poll ==
  PollSequenceMsgs \/ PollResponses \/ PollTimeout \/ PollShutdown \/ PollNothing

------------------------------------------------------------------------------

\* The head of the queue has been there for APPLY_SYNC_ACTION_TIMEOUT.
Expires ==
  /\ Running /\ Interruptions
  /\ action_queue # << >> /\ ~expired
  /\ expired' = TRUE
  /\ UNCHANGED <<vars, position, shutdown_signal, passed_over>>

\* The signal is sent or its sender is dropped.
SignalsShutdown ==
  /\ Running /\ Interruptions
  /\ ~shutdown_signal
  /\ shutdown_signal' = TRUE
  /\ UNCHANGED <<vars, position, expired, passed_over>>

\* The rest of the task's loop, and what goes on around it.
LoopStep ==
  /\ Snapshot \/ Apply
  /\ RestartsTimeout
  /\ UNCHANGED <<position, shutdown_signal, passed_over>>

Around == (NodeStep \/ ServeRequest) /\ UNCHANGED streamVars

CombinedNext == Poll \/ LoopStep \/ Around \/ Expires \/ SignalsShutdown

\* The task is polled when one of its sources is ready.  None of them is given
\* a fairness of its own: the round robin has to do that.
CombinedFairness ==
  /\ WF_allVars(Poll)
  /\ WF_allVars(LoopStep)
  /\ WF_allVars(ServeRequest /\ UNCHANGED streamVars)
  /\ WF_allVars(/\ NodeInvalidates
                /\ UNCHANGED <<innerVars, syncVars, snapshotVars, rpc, phase, synced>>
                /\ UNCHANGED streamVars)

CombinedSpec == CombinedInit /\ [][CombinedNext]_allVars /\ CombinedFairness

------------------------------------------------------------------------------

\* No source goes before another one twice while that one has something: not the
\* messages before the requests, which are sent only when the responses are asked
\* for, and nothing before the shutdown.
NobodyStarves ==
  [][\A s, o \in Sources :
       position = s /\ phase = "wait" /\ phase' # "wait" /\ Waits(o) /\ o # s
         => s \notin passed_over[o]]_allVars

\* A shutdown signal ends the task, whether it was sent or its sender dropped.
ShutdownEnds == shutdown_signal ~> ~Running
===============================================================================
