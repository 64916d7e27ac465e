--------------------------- MODULE ParameterServer ---------------------------
(***************************************************************************)
(* The gradient exchange of one parameter server process:                  *)
(* ParameterServerCore (src/parameter_server.cpp) behind the gRPC handlers *)
(* of parameter_server_service_impl (src/parameter_server_service.cpp).    *)
(*                                                                         *)
(* gRPC runs every call on a thread of its pool, so handlers interleave.   *)
(* What orders them are two mutexes: state_mutex_ (iteration_states_) and  *)
(* params_mutex_ (parameters_), taken in that order by receive_gradients   *)
(* and one at a time elsewhere.  One action is one stretch of a handler in *)
(* which it touches shared state that no other thread can touch meanwhile: *)
(*   - a critical section on params_mutex_ is one step;                    *)
(*   - receive_gradients holds state_mutex_ over several steps, since it   *)
(*     also writes current_iteration_, which other code accesses under the *)
(*     other mutex or under none, and takes params_mutex_ inside;          *)
(*   - between two critical sections of a handler anything may happen.     *)
(*                                                                         *)
(* Data: a tensor list is the sequence of the updates folded into it, so   *)
(* <<>> is parameters_.empty(); an update is an iteration and the          *)
(* gradients averaged for it (GradientAveraging has the arithmetic).       *)
(* Responses are records with the default of proto3 in unset fields.       *)
(***************************************************************************)
EXTENDS Naturals, FiniteSets, Sequences

CONSTANTS
  Threads,        \* handler threads of the gRPC server
  Workers,        \* worker ids that may push; total_workers need not match
  Iterations,     \* iteration numbers that workers push, pull and poll
  Gradients,      \* gradient lists a worker may push
  NoGradient,     \* no entry for the worker in worker_gradients
  NoThread,       \* the mutex is free
  total_workers   \* ParameterServerCore::total_workers_, fixed at start

ASSUME ParameterServerAssumption ==
  /\ IsFiniteSet(Workers)
  /\ Iterations \subseteq Nat
  /\ NoGradient \notin Gradients
  /\ NoThread \notin Threads
  /\ total_workers \in Nat \ {0}

VARIABLES
  current_iteration_,  \* highest iteration pushed
  parameters_,         \* updates folded into the model, oldest first
  worker_gradients,    \* iteration_states_[i].worker_gradients
  aggregated,          \* iteration_states_[i].aggregated
  state_mutex_,        \* thread inside receive_gradients, or NoThread
  pc,                  \* where each handler thread is
  request,             \* the request it handles
  response             \* the response it builds

coreVars == <<current_iteration_, parameters_, worker_gradients, aggregated>>
vars == <<coreVars, state_mutex_, pc, request, response>>

Contributions == [Workers -> Gradients \cup {NoGradient}]
Update == [iteration: Iterations, contributions: Contributions]

PushRequest == [op: {"ReceiveGradients"}, worker: Workers,
                iteration: Iterations, gradients: Gradients]
PullRequest == [op: {"ServeParameters"}, iteration: Iterations]
SyncStatusRequest == [op: {"CheckSyncStatus"}, iteration: Iterations]
NoRequest == [op |-> "None"]

Response == [parameters: Seq(Update), ready: BOOLEAN, workers_received: Nat]
Verdict(ready, received) ==
  [parameters |-> <<>>, ready |-> ready, workers_received |-> received]
NoResponse == Verdict(FALSE, 0)

\* receive_gradients: holding state_mutex_.
InReceive == {"raising", "storing", "averaging", "marking"}
\* receive_gradients has returned aggregation_complete, or not.
Received == {"complete", "incomplete"}
Stages == {"idle", "served", "replied"} \cup InReceive \cup Received

TypeOK ==
  /\ current_iteration_ \in Nat
  /\ parameters_ \in Seq(Update)
  /\ worker_gradients \in [Iterations -> Contributions]
  /\ aggregated \in [Iterations -> BOOLEAN]
  /\ state_mutex_ \in Threads \cup {NoThread}
  /\ pc \in [Threads -> Stages]
  /\ request \in [Threads ->
       PushRequest \cup PullRequest \cup SyncStatusRequest \cup {NoRequest}]
  /\ response \in [Threads -> Response]

Init ==
  /\ current_iteration_ = 0
  /\ parameters_ = <<>>
  /\ worker_gradients = [i \in Iterations |-> [w \in Workers |-> NoGradient]]
  /\ aggregated = [i \in Iterations |-> FALSE]
  /\ state_mutex_ = NoThread
  /\ pc = [t \in Threads |-> "idle"]
  /\ request = [t \in Threads |-> NoRequest]
  /\ response = [t \in Threads |-> NoResponse]

Goto(t, stage) == pc' = [pc EXCEPT ![t] = stage]
StateFree == state_mutex_ = NoThread

Senders(stored) == {w \in Workers : stored[w] # NoGradient}

-----------------------------------------------------------------------------
(* Mutants: definitions a bug in the code would give.  None is part of Spec; *)
(* each takes the place of the definition named in its comment to show that  *)
(* a property depends on it.                                                 *)

\* WorkersReceived not counting the worker that asks.
OtherWorkersReceived(i) == Cardinality(Senders(worker_gradients[i])) - 1

\* QuorumReached waiting for one push more.
QuorumExceeded(stored) == Cardinality(Senders(stored)) > total_workers

\* KeepStateMutex where the lock covers the bookkeeping only, not the averaging.
DropStateMutex == state_mutex_' = NoThread

\* SkipAggregated taking every iteration below the newest for a finished one.
SkipOvertaken(t) ==
  /\ pc[t] = "storing"
  /\ request[t].iteration < current_iteration_ \/ aggregated[request[t].iteration]
  /\ state_mutex_' = NoThread
  /\ Goto(t, "complete")
  /\ UNCHANGED <<coreVars, request, response>>

\* RaiseIteration counting the iterations that are over.
RaiseCompleted(t) ==
  /\ pc[t] = "raising"
  /\ current_iteration_' = request[t].iteration - 1
  /\ Goto(t, "storing")
  /\ UNCHANGED <<parameters_, worker_gradients, aggregated, state_mutex_, request, response>>

\* MarkAggregated returning without setting the flag.
MarkNothing(t) ==
  /\ pc[t] = "marking"
  /\ state_mutex_' = NoThread
  /\ Goto(t, "complete")
  /\ UNCHANGED <<coreVars, request, response>>

\* ReplyServe reading the flag without state_mutex_.
ReplyServeUnlocked(t) ==
  /\ pc[t] = "served"
  /\ response' = [response EXCEPT ![t].ready = aggregated[request[t].iteration]]
  /\ Goto(t, "replied")
  /\ UNCHANGED <<coreVars, state_mutex_, request>>

-----------------------------------------------------------------------------
WorkersReceived(i) == Cardinality(Senders(worker_gradients[i]))
QuorumReached(stored) == Cardinality(Senders(stored)) >= total_workers

\* The lock_guard of receive_gradients lasts until it returns.
KeepStateMutex == UNCHANGED state_mutex_

-----------------------------------------------------------------------------
(* ReceiveGradients *)

\* A push is in and holds state_mutex_; it compares its iteration with
\* current_iteration_, and writes it in a later step.
EnterReceive(t, w, i, g) ==
  /\ pc[t] = "idle"
  /\ StateFree
  /\ state_mutex_' = t
  /\ request' = [request EXCEPT ![t] =
       [op |-> "ReceiveGradients", worker |-> w, iteration |-> i, gradients |-> g]]
  /\ Goto(t, IF i > current_iteration_ THEN "raising" ELSE "storing")
  /\ UNCHANGED <<coreVars, response>>

RaiseIteration(t) ==
  /\ pc[t] = "raising"
  /\ current_iteration_' = request[t].iteration
  /\ Goto(t, "storing")
  /\ UNCHANGED <<parameters_, worker_gradients, aggregated, state_mutex_, request, response>>

\* The iteration is already in the model: the push reports completion and
\* its gradients are not looked at.
SkipAggregated(t) ==
  /\ pc[t] = "storing"
  /\ aggregated[request[t].iteration]
  /\ state_mutex_' = NoThread
  /\ Goto(t, "complete")
  /\ UNCHANGED <<coreVars, request, response>>

\* The gradients go into the iteration under the worker's id, over whatever
\* the worker sent before; with total_workers senders the handler goes on,
\* still holding the mutex, to average them.
StoreGradients(t) ==
  LET i == request[t].iteration
      stored == [worker_gradients[i] EXCEPT ![request[t].worker] = request[t].gradients]
  IN  /\ pc[t] = "storing"
      /\ ~aggregated[i]
      /\ worker_gradients' = [worker_gradients EXCEPT ![i] = stored]
      /\ \/ /\ QuorumReached(stored)
            /\ Goto(t, "averaging")
            /\ KeepStateMutex
         \/ /\ ~QuorumReached(stored)
            /\ Goto(t, "incomplete")
            /\ state_mutex_' = NoThread
      /\ UNCHANGED <<current_iteration_, parameters_, aggregated, request, response>>

\* aggregate_gradients folds the mean into the model under params_mutex_,
\* taken inside state_mutex_.
AggregateGradients(t) ==
  LET i == request[t].iteration
  IN  /\ pc[t] = "averaging"
      /\ parameters_' = Append(parameters_,
           [iteration |-> i, contributions |-> worker_gradients[i]])
      /\ Goto(t, "marking")
      /\ UNCHANGED <<current_iteration_, worker_gradients, aggregated, state_mutex_,
                     request, response>>

\* With params_mutex_ released, the flag is set and state_mutex_ released.
MarkAggregated(t) ==
  /\ pc[t] = "marking"
  /\ aggregated' = [aggregated EXCEPT ![request[t].iteration] = TRUE]
  /\ state_mutex_' = NoThread
  /\ Goto(t, "complete")
  /\ UNCHANGED <<current_iteration_, parameters_, worker_gradients, request, response>>

\* The handler asks check_sync_status, in a second critical section, how many
\* workers to report, and answers.
ReplyReceive(t) ==
  /\ pc[t] \in Received
  /\ StateFree
  /\ response' = [response EXCEPT ![t] =
       Verdict(pc[t] = "complete", WorkersReceived(request[t].iteration))]
  /\ Goto(t, "replied")
  /\ UNCHANGED <<coreVars, state_mutex_, request>>

-----------------------------------------------------------------------------
(* ServeParameters and CheckSyncStatus *)

\* serve_parameters copies the model under params_mutex_.
ServeParameters(t, i) ==
  /\ pc[t] = "idle"
  /\ request' = [request EXCEPT ![t] = [op |-> "ServeParameters", iteration |-> i]]
  /\ response' = [response EXCEPT ![t].parameters = parameters_]
  /\ Goto(t, "served")
  /\ UNCHANGED <<coreVars, state_mutex_>>

\* The ready flag comes from check_sync_status, called after the copy.
ReplyServe(t) ==
  /\ pc[t] = "served"
  /\ StateFree
  /\ response' = [response EXCEPT ![t].ready = aggregated[request[t].iteration]]
  /\ Goto(t, "replied")
  /\ UNCHANGED <<coreVars, state_mutex_, request>>

CheckSyncStatus(t, i) ==
  /\ pc[t] = "idle"
  /\ StateFree
  /\ request' = [request EXCEPT ![t] = [op |-> "CheckSyncStatus", iteration |-> i]]
  /\ response' = [response EXCEPT ![t] = Verdict(aggregated[i], WorkersReceived(i))]
  /\ Goto(t, "replied")
  /\ UNCHANGED <<coreVars, state_mutex_>>

\* gRPC sends the response and takes the thread back.
FinishCall(t) ==
  /\ pc[t] = "replied"
  /\ Goto(t, "idle")
  /\ request' = [request EXCEPT ![t] = NoRequest]
  /\ response' = [response EXCEPT ![t] = NoResponse]
  /\ UNCHANGED <<coreVars, state_mutex_>>

-----------------------------------------------------------------------------
\* The steps a handler takes by itself, once its call is in.
HandlerStep(t) ==
  \/ RaiseIteration(t)
  \/ SkipAggregated(t)
  \/ StoreGradients(t)
  \/ AggregateGradients(t)
  \/ MarkAggregated(t)
  \/ ReplyReceive(t)
  \/ ReplyServe(t)

\* A call arrives; which ones do, and when, is up to the workers.
NewCall(t) ==
  \E i \in Iterations :
    \/ \E w \in Workers, g \in Gradients : EnterReceive(t, w, i, g)
    \/ ServeParameters(t, i)
    \/ CheckSyncStatus(t, i)

Next == \E t \in Threads : NewCall(t) \/ HandlerStep(t) \/ FinishCall(t)

Spec == Init /\ [][Next]_vars

\* A runnable thread is eventually scheduled.  Calls need not arrive, and a
\* thread that waits for a mutex others keep taking is promised nothing.
FairSpec == Spec /\ \A t \in Threads : WF_vars(HandlerStep(t))

-----------------------------------------------------------------------------
Applied(i, params) == \E k \in 1..Len(params) : params[k].iteration = i
Marking(i) == \E t \in Threads : pc[t] = "marking" /\ request[t].iteration = i
Answered(t, op) == pc[t] = "replied" /\ request[t].op = op

\* An iteration is in the model as soon as, and only if, its aggregated flag
\* is set (or the thread that just folded it in is about to set it), and no
\* iteration is in the model twice, whatever is resent and however late.
AppliedExactlyOnce ==
  /\ \A i \in Iterations : Applied(i, parameters_) <=> (aggregated[i] \/ Marking(i))
  /\ \A j, k \in 1..Len(parameters_) :
       parameters_[j].iteration = parameters_[k].iteration => j = k

\* Every update in the model averages the gradients of exactly total_workers
\* workers, and they are the ones worker_gradients holds for the iteration
\* ever after: no resend or late push gets into a finished iteration.
UpdateIsFinal ==
  \A k \in 1..Len(parameters_) :
    LET u == parameters_[k]
    IN  /\ u.contributions = worker_gradients[u.iteration]
        /\ Cardinality(Senders(u.contributions)) = total_workers

\* A worker that is told its push completed the iteration (aggregation_complete),
\* or is told by a poll that it is ready, finds the update in the model from
\* then on; also when someone else's push completed it.
CompleteMeansApplied ==
  \A t \in Threads :
    \/ pc[t] = "complete"
    \/ response[t].ready /\ (Answered(t, "ReceiveGradients") \/ Answered(t, "CheckSyncStatus"))
    => Applied(request[t].iteration, parameters_)

\* ServeParameters copies the model and asks for readiness afterwards.  The
\* update of the requested iteration in the copy implies ready in the answer:
\* a worker is never sent the new model marked as old.
NewModelIsMarkedReady ==
  \A t \in Threads :
    Answered(t, "ServeParameters") /\ Applied(request[t].iteration, response[t].parameters)
      => response[t].ready

\* The count in an answer never exceeds total_workers and reaches it when the
\* answer says complete or ready.  For a poll the converse holds as well; not
\* for a push, whose verdict and count come from two critical sections.
CountsMatchVerdict ==
  \A t \in Threads :
    LET r == response[t]
    IN  /\ r.workers_received <= total_workers
        /\ Answered(t, "ReceiveGradients") /\ r.ready => r.workers_received = total_workers
        /\ Answered(t, "CheckSyncStatus") =>
             (r.ready <=> r.workers_received = total_workers)

\* The server implements the barrier of GradientBarrier: its threads, locks,
\* flags and answers only ever contribute to an open iteration or close a full
\* one, and a full one is closed in the end.
Barrier == INSTANCE GradientBarrier WITH
  contributed <- worker_gradients, model <- parameters_
ImplementsBarrier == Barrier!FairSpec

\* ParameterUpdate.ready: "true if parameters are updated for requested
\* iteration" (src/proto/parameter_server.proto:43).  The code does not keep
\* this: see the findings.
ReadyMeansUpdated ==
  \A t \in Threads :
    Answered(t, "ServeParameters") /\ response[t].ready
      => Applied(request[t].iteration, response[t].parameters)
=============================================================================
