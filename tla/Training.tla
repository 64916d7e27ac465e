------------------------------- MODULE Training -------------------------------
(***************************************************************************)
(* Workers (src/worker.cpp, src/worker_main.cpp) training against the      *)
(* parameter server of module ParameterServer, over calls that may fail.   *)
(*                                                                         *)
(* A worker runs run_iteration for 0, 1, ... in turn; an attempt pulls the *)
(* model, computes gradients, pushes them and, if that did not complete    *)
(* the iteration, tries again; the last attempt polls instead.  Its calls  *)
(* are synchronous.  A call that fails gives the worker an empty model, or *)
(* "not complete", or "not ready", whatever the server did: the request    *)
(* may be lost, be handled after the worker gave up on it, or be handled   *)
(* with its answer lost.  An answer that was sent is on its way until the  *)
(* worker takes it, and by then the server may be another one.             *)
(*                                                                         *)
(* Calls have no deadline.  When a connection breaks and neither end is    *)
(* told, as when a machine is gone or a router forgets, the worker may     *)
(* wait for ever: it is in silent.                                         *)
(*                                                                         *)
(* Both processes may stop and be started again (scripts/scale_workers.sh  *)
(* does it to the server): the server loses its state, a worker starts     *)
(* again from iteration 0.                                                 *)
(*                                                                         *)
(* Data: gradients are the number of updates in the model they were        *)
(* computed from, 0 for the made-up tensor of a worker without a model.    *)
(* Left out: the sleeps, current_status_, and the poll repeated after      *)
(* every 20th, whose answer nobody looks at.                               *)
(***************************************************************************)
EXTENDS ParameterServer

CONSTANTS
  NoWorker,     \* nobody waits for the answer
  iterations,   \* iterations of worker_main, numbered from 0
  max_retries,  \* attempts in run_iteration (3 in the code)
  max_polls,    \* polls of the last attempt (200 in the code)
  MaxFaults,    \* bound: failed calls, stops of the server and of workers
  Unlucky       \* bound: the workers that are restarted or lose a connection
                \* to a server that stays up

ASSUME TrainingAssumption ==
  /\ iterations \in Nat \ {0}
  /\ Iterations = 0..(iterations - 1)
  /\ Gradients = 0..iterations
  /\ NoWorker \notin Workers
  /\ {max_retries, max_polls} \subseteq Nat \ {0}
  /\ MaxFaults \in Nat
  /\ Unlucky \subseteq Workers

VARIABLES
  stage,        \* stage[w]: where run_iteration is; "done" when main returns
  iteration,    \* iteration[w]: the argument of run_iteration
  retry_count,  \* retry_count[w]: local of run_iteration
  poll_count,   \* poll_count[w]: local of run_iteration
  grads,        \* grads[w]: local of run_iteration
  completed,    \* completed[w]: iterations w's run_iteration returned true for
  gave_up,      \* gave_up[w]: iterations it returned false for
  caller,       \* caller[t]: the worker waiting for handler thread t
  late,         \* pushes under way that no worker waits for any more
  answered,     \* workers to which an answer is on its way
  answer,       \* answer[w]: that answer, NoResponse if there is none
  silent,       \* workers whose connection broke without their noticing
  server_up,    \* the server process runs
  failures,     \* calls that failed with both ends alive
  stops,        \* stops of the server process
  restarts      \* restarts of worker processes

history == <<completed, gave_up>>
workerVars == <<stage, iteration, retry_count, poll_count, grads, history>>
inboxVars == <<answered, answer>>
faultVars == <<failures, stops, restarts>>
trainingVars == <<vars, workerVars, caller, late, inboxVars, silent, server_up, faultVars>>

Calling == {"pulling", "pushing", "polling"}
\* The stages before a call, each with the stage of waiting for its answer.
WaitingFor == [pull |-> "pulling", push |-> "pushing", poll |-> "polling"]

TrainingTypeOK ==
  /\ TypeOK
  /\ stage \in [Workers -> DOMAIN WaitingFor \cup Calling \cup {"done"}]
  /\ iteration \in [Workers -> Iterations]
  /\ retry_count \in [Workers -> 0..(max_retries - 1)]
  /\ poll_count \in [Workers -> 0..(max_polls - 1)]
  /\ grads \in [Workers -> Gradients]
  /\ completed \in [Workers -> SUBSET Iterations]
  /\ gave_up \in [Workers -> SUBSET Iterations]
  /\ caller \in [Threads -> Workers \cup {NoWorker}]
  /\ late \subseteq PushRequest
  /\ answered \subseteq Workers
  /\ answer \in [Workers -> Response]
  /\ silent \subseteq Workers
  /\ server_up \in BOOLEAN
  /\ {failures, stops, restarts} \subseteq 0..MaxFaults

TrainingInit ==
  /\ Init
  /\ stage = [w \in Workers |-> "pull"]
  /\ iteration = [w \in Workers |-> 0]
  /\ retry_count = [w \in Workers |-> 0]
  /\ poll_count = [w \in Workers |-> 0]
  /\ grads = [w \in Workers |-> 0]
  /\ completed = [w \in Workers |-> {}]
  /\ gave_up = [w \in Workers |-> {}]
  /\ caller = [t \in Threads |-> NoWorker]
  /\ late = {}
  /\ answered = {}
  /\ answer = [w \in Workers |-> NoResponse]
  /\ silent = {}
  /\ server_up = TRUE
  /\ failures = 0 /\ stops = 0 /\ restarts = 0

-----------------------------------------------------------------------------
(* run_iteration *)

Move(w, s) == stage' = [stage EXCEPT ![w] = s]

\* Mutant of LastAttempt: one attempt too many.
LastPlusOne(w) == retry_count[w] = max_retries

LastAttempt(w) == retry_count[w] = max_retries - 1

\* Mutant of Retry: an attempt that is not counted.
RetryUncounted(w) ==
  /\ Move(w, "pull")
  /\ UNCHANGED <<iteration, retry_count, poll_count, grads, history>>

\* The next attempt, after a pull or push that came to nothing.
Retry(w) ==
  /\ Move(w, "pull")
  /\ retry_count' = [retry_count EXCEPT ![w] = @ + 1]
  /\ UNCHANGED <<iteration, poll_count, grads, history>>

\* run_iteration returns; main calls it for the next iteration or returns.
Return(w, done) ==
  /\ \/ /\ done
        /\ completed' = [completed EXCEPT ![w] = @ \cup {iteration[w]}]
        /\ UNCHANGED gave_up
     \/ /\ ~done
        /\ gave_up' = [gave_up EXCEPT ![w] = @ \cup {iteration[w]}]
        /\ UNCHANGED completed
  /\ retry_count' = [retry_count EXCEPT ![w] = 0]
  /\ poll_count' = [poll_count EXCEPT ![w] = 0]
  /\ grads' = [grads EXCEPT ![w] = 0]
  /\ \/ /\ iteration[w] + 1 < iterations
        /\ iteration' = [iteration EXCEPT ![w] = @ + 1]
        /\ Move(w, "pull")
     \/ /\ iteration[w] + 1 = iterations
        /\ UNCHANGED iteration
        /\ Move(w, "done")

\* Mutant of OnPull: without a model the worker gives the iteration up.
OnPullGiveUp(w, params) ==
  \/ params = <<>> /\ LastAttempt(w) /\ Return(w, FALSE)
  \/ params = <<>> /\ ~LastAttempt(w) /\ Retry(w)
  \/ /\ params # <<>>
     /\ grads' = [grads EXCEPT ![w] = Len(params)]
     /\ Move(w, "push")
     /\ UNCHANGED <<iteration, retry_count, poll_count, history>>

\* pull_parameters has returned params.  Without a model the worker tries
\* again; in the last attempt it makes up a tensor and goes on with that.
OnPull(w, params) ==
  \/ /\ params = <<>> /\ ~LastAttempt(w)
     /\ Retry(w)
  \/ /\ params # <<>> \/ LastAttempt(w)
     /\ grads' = [grads EXCEPT ![w] = Len(params)]
     /\ Move(w, "push")
     /\ UNCHANGED <<iteration, retry_count, poll_count, history>>

\* Mutant of OnPush: success is taken for aggregation_complete.
OnPushReceived(w, complete) == Return(w, TRUE)

\* push_gradients has returned aggregation_complete.  Only the last attempt
\* polls, so the retry after the polls (src/worker.cpp:396) is never taken.
OnPush(w, complete) ==
  \/ /\ complete
     /\ Return(w, TRUE)
  \/ /\ ~complete /\ ~LastAttempt(w)
     /\ Retry(w)
  \/ /\ ~complete /\ LastAttempt(w)
     /\ Move(w, "poll")
     /\ UNCHANGED <<iteration, retry_count, poll_count, grads, history>>

\* check_sync_ready has returned ready.
OnPoll(w, ready) ==
  \/ /\ ready
     /\ Return(w, TRUE)
  \/ /\ ~ready /\ poll_count[w] + 1 < max_polls
     /\ poll_count' = [poll_count EXCEPT ![w] = @ + 1]
     /\ Move(w, "poll")
     /\ UNCHANGED <<iteration, retry_count, grads, history>>
  \/ /\ ~ready /\ poll_count[w] + 1 = max_polls
     /\ Return(w, FALSE)

\* The call w waits for returns with this response; a call that failed
\* returns with NoResponse.
OnReturn(w, r) ==
  \/ stage[w] = "pulling" /\ OnPull(w, r.parameters)
  \/ stage[w] = "pushing" /\ OnPush(w, r.ready)
  \/ stage[w] = "polling" /\ OnPoll(w, r.ready)

-----------------------------------------------------------------------------
(* Calls *)

Abandon(w) == caller' = [t \in Threads |-> IF caller[t] = w THEN NoWorker ELSE caller[t]]
ClearInbox(ws) ==
  /\ answered' = answered \ ws
  /\ answer' = [w \in Workers |-> IF w \in ws THEN NoResponse ELSE answer[w]]

\* The server takes up the call that w makes in its present stage.
StartCall(w, t) ==
  /\ server_up
  /\ stage[w] \in DOMAIN WaitingFor
  /\ Move(w, WaitingFor[stage[w]])
  /\ \/ stage[w] = "pull" /\ ServeParameters(t, iteration[w])
     \/ stage[w] = "push" /\ EnterReceive(t, w, iteration[w], grads[w])
     \/ stage[w] = "poll" /\ CheckSyncStatus(t, iteration[w])
  /\ caller' = [caller EXCEPT ![t] = w]
  /\ UNCHANGED <<iteration, retry_count, poll_count, grads, history, late, inboxVars, silent,
                 server_up, faultVars>>

RunHandler(t) ==
  /\ HandlerStep(t)
  /\ UNCHANGED <<workerVars, caller, late, inboxVars, silent, server_up, faultVars>>

\* The server sends its answer; maybe nobody waits for it any more.
SendAnswer(t) ==
  /\ FinishCall(t)
  /\ caller' = [caller EXCEPT ![t] = NoWorker]
  /\ \/ /\ caller[t] # NoWorker
        /\ answered' = answered \cup {caller[t]}
        /\ answer' = [answer EXCEPT ![caller[t]] = response[t]]
     \/ /\ caller[t] = NoWorker
        /\ UNCHANGED inboxVars
  /\ UNCHANGED <<workerVars, late, silent, server_up, faultVars>>

\* The answer arrives, whatever has become of the server.
TakeAnswer(w) ==
  /\ w \in answered
  /\ OnReturn(w, answer[w])
  /\ ClearInbox({w})
  /\ UNCHANGED <<vars, caller, late, silent, server_up, faultVars>>

\* w has called, and nobody will answer.
Forsaken(w) ==
  stage[w] \in Calling /\ w \notin answered /\ \A t \in Threads : caller[t] # w

\* A call returns without an answer: no server is there to take it, or w finds
\* out that the connection is broken.
FailCall(w) ==
  /\ \/ /\ ~server_up
        /\ \/ stage[w] = "pull" /\ OnPull(w, <<>>)
           \/ stage[w] = "push" /\ OnPush(w, FALSE)
           \/ stage[w] = "poll" /\ OnPoll(w, FALSE)
     \/ /\ Forsaken(w)
        /\ OnReturn(w, NoResponse)
  /\ silent' = silent \ {w}
  /\ UNCHANGED <<vars, caller, late, inboxVars, server_up, faultVars>>

-----------------------------------------------------------------------------
(* Failures *)

MayFail == failures + stops + restarts < MaxFaults
Push(w) == [op |-> "ReceiveGradients", worker |-> w,
            iteration |-> iteration[w], gradients |-> grads[w]]

\* What matters of a request nobody waits for, and that still arrives, is a
\* push.
LeaveRequest(w) ==
  \/ UNCHANGED late
  \/ server_up /\ stage[w] = "push" /\ late' = late \cup {Push(w)}

\* The connection of w is broken, which w finds out sooner, later or never.
Break(w) ==
  /\ MayFail
  /\ failures' = failures + 1
  /\ silent' \in {silent, silent \cup {w}}

\* The connection breaks while w waits; the handler runs on.
LoseAnswer(w) ==
  /\ Break(w)
  /\ w \in answered \/ \E t \in Threads : caller[t] = w
  /\ Abandon(w)
  /\ ClearInbox({w})
  /\ UNCHANGED <<vars, workerVars, late, server_up, stops, restarts>>

\* The connection breaks before the server takes up the call.
LoseRequest(w) ==
  /\ Break(w)
  /\ server_up
  /\ stage[w] \in DOMAIN WaitingFor
  /\ Move(w, WaitingFor[stage[w]])
  /\ LeaveRequest(w)
  /\ UNCHANGED <<vars, iteration, retry_count, poll_count, grads, history, caller, inboxVars,
                 server_up, stops, restarts>>

\* The server takes up a push whose worker has gone on.
StartLatePush(t) ==
  /\ server_up
  /\ \E r \in late :
       /\ EnterReceive(t, r.worker, r.iteration, r.gradients)
       /\ late' = late \ {r}
  /\ UNCHANGED <<workerVars, caller, inboxVars, silent, server_up, faultVars>>

\* The server stops: everything it knows is gone, and so are the calls it was
\* handling and those on their way to it.  Answers it has sent may still
\* arrive.  When its machine goes with it, the workers in cut hear nothing.
StopServer ==
  /\ server_up
  /\ MayFail
  /\ stops' = stops + 1
  /\ server_up' = FALSE
  /\ current_iteration_' = 0
  /\ parameters_' = <<>>
  /\ worker_gradients' = [i \in Iterations |-> [w \in Workers |-> NoGradient]]
  /\ aggregated' = [i \in Iterations |-> FALSE]
  /\ state_mutex_' = NoThread
  /\ pc' = [t \in Threads |-> "idle"]
  /\ request' = [t \in Threads |-> NoRequest]
  /\ response' = [t \in Threads |-> NoResponse]
  /\ caller' = [t \in Threads |-> NoWorker]
  /\ late' = {}
  /\ \E cut \in SUBSET {w \in Workers : stage[w] \in Calling} :
       ClearInbox(cut) /\ silent' = silent \cup cut
  /\ UNCHANGED <<workerVars, failures, restarts>>

StartServer ==
  /\ ~server_up
  /\ server_up' = TRUE
  /\ UNCHANGED <<vars, workerVars, caller, late, inboxVars, silent, faultVars>>

\* A worker stops, at any point, and is started again with iteration 0.
RestartWorker(w) ==
  /\ MayFail
  /\ restarts' = restarts + 1
  /\ LeaveRequest(w)
  /\ Move(w, "pull")
  /\ iteration' = [iteration EXCEPT ![w] = 0]
  /\ retry_count' = [retry_count EXCEPT ![w] = 0]
  /\ poll_count' = [poll_count EXCEPT ![w] = 0]
  /\ grads' = [grads EXCEPT ![w] = 0]
  /\ Abandon(w)
  /\ ClearInbox({w})
  /\ silent' = silent \ {w}
  /\ UNCHANGED <<vars, history, server_up, failures, stops>>

-----------------------------------------------------------------------------
WorkerStep(w) == TakeAnswer(w) \/ FailCall(w) \/ \E t \in Threads : StartCall(w, t)
ServerStep(t) == RunHandler(t) \/ SendAnswer(t) \/ StartLatePush(t)
Fault(w) == w \in Unlucky /\ (LoseAnswer(w) \/ LoseRequest(w) \/ RestartWorker(w))

AllDone == \A w \in Workers : stage[w] = "done"
Finished == AllDone /\ UNCHANGED trainingVars

TrainingNext ==
  \/ \E w \in Workers : WorkerStep(w) \/ Fault(w)
  \/ \E t \in Threads : ServerStep(t)
  \/ StopServer
  \/ StartServer
  \/ Finished

TrainingSpec == TrainingInit /\ [][TrainingNext]_trainingVars

\* Threads and processes are scheduled; a stopped server need not be started
\* again, and a worker in silent need not be told that its call has failed.
\* Weak fairness is enough to get state_mutex_: the calls of a worker are
\* bounded, so contention ends.
FairTrainingSpec ==
  /\ TrainingSpec
  /\ \A w \in Workers : WF_trainingVars(w \notin silent /\ WorkerStep(w))
  /\ \A t \in Threads : WF_trainingVars(ServerStep(t))

-----------------------------------------------------------------------------
\* A worker whose run_iteration returned true finds the iteration in the model
\* of a server that was not restarted, and, when nobody but total_workers
\* workers trains, with its own gradients in the update: through retries,
\* lost answers, late pushes and its own restarts.
DoneMeansContributed ==
  stops = 0 =>
    \A w \in Workers : \A i \in completed[w] :
      \E k \in 1..Len(parameters_) :
        /\ parameters_[k].iteration = i
        /\ Cardinality(Workers) = total_workers => parameters_[k].contributions[w] # NoGradient

\* Training is synchronous as long as nobody gives up: the gradients averaged
\* in an update were all computed from the same model, although every attempt
\* pulls again and replaces what the attempt before had pushed.
OneBasis ==
  failures = 0 /\ stops = 0 =>
    \A k \in 1..Len(parameters_) :
      LET u == parameters_[k]
      IN  (\A w \in Workers : \A i \in gave_up[w] : i >= u.iteration)
            => \A v, w \in Senders(u.contributions) : u.contributions[v] = u.contributions[w]

\* While no call fails, iterations enter the model in their order and without
\* gaps, also when workers give up on them or start over.
InOrder ==
  failures = 0 /\ stops = 0 =>
    \A k \in 1..Len(parameters_) : parameters_[k].iteration = k - 1

\* Training implements SynchronousTraining, whatever fails: each server process
\* is a barrier, from its start to its stop, and run_iteration returns true
\* only when a server process has told so this process of the worker, in answer
\* to a call for this iteration and with the iteration in its model.  Told
\* that, the worker goes on although that server may be gone by then.
Told(w) ==
  IF stage[w] \in {"pushing", "polling"} /\ w \in answered /\ answer[w].ready
  THEN {iteration[w]} ELSE {}
Synchronous == INSTANCE SynchronousTraining WITH
  contributed <- worker_gradients, model <- parameters_, told <- [w \in Workers |-> Told(w)]
ImplementsSynchronous == Synchronous!TrainingSpec

\* How much w has left to do at most: calls to make and calls to wait for, an
\* attempt being a pull and a push, and the last one polling besides.
Pending == [pull |-> 5, pulling |-> 4, push |-> 3, pushing |-> 2, poll |-> 1, polling |-> 0]
PerIteration == 4 * max_retries + 2 * max_polls
Left(w) ==
  IF stage[w] = "done" THEN 0
  ELSE (iterations - 1 - iteration[w]) * PerIteration
       + 4 * (max_retries - 1 - retry_count[w]) + 2 * (max_polls - poll_count[w])
       + Pending[stage[w]]

\* The locals of run_iteration that say how far w is.
Progress(w) == <<stage[w], iteration[w], retry_count[w], poll_count[w]>>

\* Whatever a worker is answered, and whichever of its calls fail, it gets
\* closer to the end with every step; only its own restart sets it back.  (A
\* call that does not return at all is no step.)
CallsRunOut ==
  [][\A w \in Workers :
       Progress(w)' # Progress(w) /\ restarts' = restarts
         => Left(w)' \in 0..(Left(w) - 1)]_trainingVars

\* Whatever fails, stops or is restarted a bounded number of times, every
\* worker gets through its iterations: no retry or poll goes on for ever, and
\* the workers do not all wait for each other.  A worker can only be kept by a
\* call on a connection that broke silently, since calls have no deadline.
EveryRunEnds == <>[](\A w \in Workers : stage[w] = "done" \/ w \in silent)

\* Every iteration gets into the model when no call fails and the server stays
\* up, although workers start without a model and may give up waiting.
EveryIterationApplied ==
  <>(failures + stops > 0 \/ \A i \in Iterations : Applied(i, parameters_))
=============================================================================
