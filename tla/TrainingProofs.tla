---------------------------- MODULE TrainingProofs ----------------------------
(***************************************************************************)
(* Proofs about Training, for any workers, threads, iterations, attempts,  *)
(* polls and faults: type correctness, the three invariants and the two    *)
(* properties of steps (CallsRunOut and the refinement of                  *)
(* SynchronousTraining) that the run checks on a small instance.           *)
(*                                                                         *)
(* What the server promises (IInv of ParameterServerProofs) holds here as  *)
(* well: calls are steps of ParameterServer, and a stop of the server      *)
(* leads to its initial state.  What the workers add:                      *)
(*   - an answer on its way to a worker answers the call the worker waits  *)
(*     for (CallInv, InboxInv), so an iteration it takes for completed was *)
(*     aggregated when the answer was sent, and is still, unless the       *)
(*     server was stopped since (DoneInv);                                 *)
(*   - a worker leaves an iteration only after its gradients were stored   *)
(*     or found too late (OrderInv), so the senders of an iteration have   *)
(*     been senders of all earlier ones, which are therefore aggregated;   *)
(*   - what was pulled after completing all earlier iterations, and used   *)
(*     before this one is in, is the model after exactly those (BasisInv). *)
(***************************************************************************)
EXTENDS Training, ParameterServerProofs

\* TrainingTypeOK: the locals of run_iteration, and the rest without the
\* server's state.
WorkerTypeOK ==
  /\ stage \in [Workers -> DOMAIN WaitingFor \cup Calling \cup {"done"}]
  /\ iteration \in [Workers -> Iterations]
  /\ retry_count \in [Workers -> 0..(max_retries - 1)]
  /\ poll_count \in [Workers -> 0..(max_polls - 1)]
  /\ grads \in [Workers -> Gradients]
  /\ completed \in [Workers -> SUBSET Iterations]
  /\ gave_up \in [Workers -> SUBSET Iterations]

LocalsTypeOK ==
  /\ WorkerTypeOK
  /\ caller \in [Threads -> Workers \cup {NoWorker}]
  /\ late \subseteq PushRequest
  /\ answered \subseteq Workers
  /\ answer \in [Workers -> Response]
  /\ silent \subseteq Workers
  /\ server_up \in BOOLEAN
  /\ {failures, stops, restarts} \subseteq 0..MaxFaults

\* The call a stage waits for.
Awaited == [pulling |-> "ServeParameters", pushing |-> "ReceiveGradients",
            polling |-> "CheckSyncStatus"]

\* A worker waits for one thread, which handles the call it has made.
CallInv ==
  \A t \in Threads : caller[t] # NoWorker =>
    /\ pc[t] # "idle"
    /\ stage[caller[t]] \in Calling
    /\ request[t].op = Awaited[stage[caller[t]]]
    /\ request[t].iteration = iteration[caller[t]]
    /\ request[t].op = "ReceiveGradients" => request[t].worker = caller[t]
    /\ \A u \in Threads : caller[u] = caller[t] => u = t

\* An answer is on its way to a worker that waits for it, and for no thread
\* any more.  Its copy of the model may be one of a server that is gone; its
\* "complete" or "ready" is the present server's unless that was restarted.
InboxInv ==
  \A w \in Workers :
    /\ w \in answered => stage[w] \in Calling /\ \A t \in Threads : caller[t] # w
    /\ Len(answer[w].parameters) \in Gradients
    /\ stops = 0 /\ w \in answered /\ stage[w] \in {"pushing", "polling"} /\ answer[w].ready
         => aggregated[iteration[w]]

\* No copy of the model is ahead of the model.
CopyInv == \A t \in Threads : Len(response[t].parameters) <= Len(parameters_)

DoneInv == stops = 0 => \A w \in Workers : \A i \in completed[w] : aggregated[i]

Calm == failures = 0 /\ stops = 0

\* Iteration i has the gradients of w, or needs none any more.
Stored(w, i) == aggregated[i] \/ worker_gradients[i][w] # NoGradient
StoredBelow(w, i) == \A j \in Iterations : j < i => Stored(w, j)

AnsweredPush(t) == pc[t] \in Received \/ Answered(t, "ReceiveGradients")

\* While no call fails, a worker gets an answer to every call, and leaves an
\* iteration, and has its push answered, with its gradients stored in it.
WorkerOrder(w) ==
  /\ stage[w] \in Calling => w \in answered \/ \E t \in Threads : caller[t] = w
  /\ StoredBelow(w, iteration[w])
  /\ stage[w] \in {"poll", "polling"} => Stored(w, iteration[w])
  /\ stage[w] = "pushing" /\ w \in answered => Stored(w, iteration[w])

OrderInv == Calm =>
  /\ server_up
  /\ \A w \in Workers : WorkerOrder(w)
  /\ \A r \in late : StoredBelow(r.worker, r.iteration)
  /\ \A t \in Threads : pc[t] \in InReceive => StoredBelow(request[t].worker, request[t].iteration)
  /\ \A t \in Threads : AnsweredPush(t) => Stored(request[t].worker, request[t].iteration)
  /\ \A i \in Iterations : \A w \in Senders(worker_gradients[i]) : StoredBelow(w, i)

\* No worker has given up on an iteration before i.
Clean(i) == \A w \in Workers : \A j \in gave_up[w] : j >= i

\* A worker has completed or given up what is behind it; the gradients it
\* pushes come from no more updates than there are, and from at least as many
\* as there are earlier iterations unless somebody gave up on one.
WorkerBasis(w) ==
  /\ \A j \in Iterations : j < iteration[w] => j \in completed[w] \cup gave_up[w]
  /\ stage[w] \in {"push", "pushing"} /\ Clean(iteration[w]) => grads[w] >= iteration[w]
  /\ grads[w] <= Len(parameters_)
  /\ stage[w] = "pulling" /\ w \in answered =>
       /\ Clean(iteration[w]) => Len(answer[w].parameters) >= iteration[w]
       /\ Len(answer[w].parameters) <= Len(parameters_)

\* The same of a push nobody waits for.
LateBasis(r) ==
  /\ Clean(r.iteration) => r.gradients >= r.iteration
  /\ r.gradients <= Len(parameters_)

\* The same of the gradients and of the copy of the model a handler has.
ThreadBasis(t) ==
  /\ pc[t] \in InReceive =>
       /\ Clean(request[t].iteration) => request[t].gradients >= request[t].iteration
       /\ request[t].gradients <= Len(parameters_)
  /\ caller[t] # NoWorker /\ request[t].op = "ServeParameters" /\ Clean(request[t].iteration)
       => Len(response[t].parameters) >= request[t].iteration

\* The same of the gradients stored; when they were, the iterations before i
\* were all there was in the model.
StoredBasis(i) ==
  \A w \in Senders(worker_gradients[i]) :
    /\ worker_gradients[i][w] <= i
    /\ Clean(i) => worker_gradients[i][w] >= i

BasisInv == Calm =>
  /\ \A w \in Workers : WorkerBasis(w)
  /\ \A r \in late : LateBasis(r)
  /\ \A t \in Threads : ThreadBasis(t)
  /\ \A i \in Iterations : StoredBasis(i)

TrainingInv ==
  /\ IInv
  /\ LocalsTypeOK
  /\ CallInv
  /\ InboxInv
  /\ CopyInv
  /\ DoneInv
  /\ OrderInv
  /\ InOrder
  /\ BasisInv

-----------------------------------------------------------------------------
(* The moves of a worker *)

\* Only w moves.
Frame(w) ==
  \A v \in Workers \ {w} :
    /\ stage'[v] = stage[v] /\ iteration'[v] = iteration[v] /\ grads'[v] = grads[v]
    /\ completed'[v] = completed[v] /\ gave_up'[v] = gave_up[v]

\* w goes to stage s in the same iteration, with gradients g.
Stays(w, s, g) ==
  /\ Frame(w)
  /\ stage'[w] = s
  /\ grads'[w] = g
  /\ iteration'[w] = iteration[w] /\ completed'[w] = completed[w] /\ gave_up'[w] = gave_up[w]

\* w is through with its iteration.
Leaves(w, done) ==
  /\ Frame(w)
  /\ stage'[w] \in {"pull", "done"}
  /\ grads'[w] = 0
  /\ iteration'[w] \in {iteration[w], iteration[w] + 1}
  /\ completed'[w] = IF done THEN completed[w] \cup {iteration[w]} ELSE completed[w]
  /\ gave_up'[w] = IF done THEN gave_up[w] ELSE gave_up[w] \cup {iteration[w]}

\* The stages from which a call is made.
LEMMA StageNames == DOMAIN WaitingFor = {"pull", "push", "poll"}
BY DEF WaitingFor

\* Assumptions in the form the steps use.
LEMMA Numbers ==
  /\ iterations \in Nat /\ iterations > 0
  /\ Iterations = 0..(iterations - 1)
  /\ Gradients = 0..iterations
  /\ max_retries \in Nat /\ max_retries > 0
  /\ max_polls \in Nat /\ max_polls > 0
  /\ MaxFaults \in Nat
BY TrainingAssumption

\* The next attempt is within max_retries.
LEMMA RetryMoves ==
  ASSUME WorkerTypeOK, NEW w \in Workers, ~LastAttempt(w), Retry(w)
  PROVE  WorkerTypeOK' /\ Stays(w, "pull", grads[w])
<1>1. retry_count[w] + 1 \in 0..(max_retries - 1)
  <2>1. retry_count[w] \in 0..(max_retries - 1) /\ retry_count[w] # max_retries - 1
    BY DEF WorkerTypeOK, LastAttempt
  <2>. QED  BY <2>1, Numbers
<1>2. /\ retry_count' = [retry_count EXCEPT ![w] = retry_count[w] + 1]
      /\ stage' = [stage EXCEPT ![w] = "pull"]
      /\ UNCHANGED <<iteration, poll_count, grads, completed, gave_up>>
  BY DEF Retry, Move, history
<1>3. WorkerTypeOK'
  BY <1>1, <1>2, StageNames DEF WorkerTypeOK
<1>. QED  BY <1>2, <1>3 DEF WorkerTypeOK, Stays, Frame

\* run_iteration returns once per iteration, and iterations are not skipped.
LEMMA ReturnMoves ==
  ASSUME WorkerTypeOK, NEW w \in Workers, NEW done \in BOOLEAN, Return(w, done)
  PROVE  WorkerTypeOK' /\ Leaves(w, done)
<1>1. /\ retry_count' = [retry_count EXCEPT ![w] = 0]
      /\ poll_count' = [poll_count EXCEPT ![w] = 0]
      /\ grads' = [grads EXCEPT ![w] = 0]
  BY DEF Return
<1>2. /\ 0 \in 0..(max_retries - 1)
      /\ 0 \in 0..(max_polls - 1)
      /\ 0 \in Gradients
      /\ iteration[w] \in Iterations
      /\ iteration[w] + 1 < iterations => iteration[w] + 1 \in Iterations
  BY Numbers DEF WorkerTypeOK
<1>3. \/ /\ iteration[w] + 1 \in Iterations
         /\ iteration' = [iteration EXCEPT ![w] = iteration[w] + 1]
         /\ stage' = [stage EXCEPT ![w] = "pull"]
      \/ /\ iteration' = iteration
         /\ stage' = [stage EXCEPT ![w] = "done"]
  BY <1>2 DEF Return, Move
<1>4. \/ /\ done
         /\ completed' = [completed EXCEPT ![w] = completed[w] \cup {iteration[w]}]
         /\ gave_up' = gave_up
      \/ /\ ~done
         /\ gave_up' = [gave_up EXCEPT ![w] = gave_up[w] \cup {iteration[w]}]
         /\ completed' = completed
  BY DEF Return
<1>5. WorkerTypeOK'
  <2>1. /\ stage' \in [Workers -> DOMAIN WaitingFor \cup Calling \cup {"done"}]
        /\ iteration' \in [Workers -> Iterations]
    BY <1>3, StageNames DEF WorkerTypeOK
  <2>2. /\ completed' \in [Workers -> SUBSET Iterations]
        /\ gave_up' \in [Workers -> SUBSET Iterations]
    BY <1>2, <1>4 DEF WorkerTypeOK
  <2>3. /\ retry_count' \in [Workers -> 0..(max_retries - 1)]
        /\ poll_count' \in [Workers -> 0..(max_polls - 1)]
        /\ grads' \in [Workers -> Gradients]
    BY <1>1, <1>2 DEF WorkerTypeOK
  <2>. QED  BY <2>1, <2>2, <2>3 DEF WorkerTypeOK
<1>6. Frame(w)
  BY <1>1, <1>3, <1>4 DEF Frame, WorkerTypeOK
<1>7. /\ stage'[w] \in {"pull", "done"}
      /\ iteration'[w] \in {iteration[w], iteration[w] + 1}
  BY <1>3 DEF WorkerTypeOK
<1>8. /\ grads'[w] = 0
      /\ completed'[w] = IF done THEN completed[w] \cup {iteration[w]} ELSE completed[w]
      /\ gave_up'[w] = IF done THEN gave_up[w] ELSE gave_up[w] \cup {iteration[w]}
  BY <1>1, <1>4 DEF WorkerTypeOK
<1>. QED  BY <1>5, <1>6, <1>7, <1>8 DEF Leaves

\* A worker that calls waits for the answer.
LEMMA CallMoves ==
  ASSUME WorkerTypeOK, NEW w \in Workers, stage[w] \in DOMAIN WaitingFor,
         Move(w, WaitingFor[stage[w]]),
         UNCHANGED <<iteration, retry_count, poll_count, grads, history>>
  PROVE  WorkerTypeOK' /\ Stays(w, WaitingFor[stage[w]], grads[w]) /\ WaitingFor[stage[w]] \in Calling
<1>1. WaitingFor[stage[w]] \in Calling
  BY StageNames DEF WaitingFor, Calling
<1>2. stage' = [stage EXCEPT ![w] = WaitingFor[stage[w]]]
  BY DEF Move
<1>. QED  BY <1>1, <1>2 DEF WorkerTypeOK, Stays, Frame, history

\* What a worker does with the answer to a pull, a push and a poll.
LEMMA PullMoves ==
  ASSUME WorkerTypeOK, NEW w \in Workers, NEW params, Len(params) \in Gradients, OnPull(w, params)
  PROVE  /\ WorkerTypeOK'
         /\ Stays(w, "pull", grads[w]) \/ Stays(w, "push", Len(params))
<1>1. CASE ~LastAttempt(w) /\ Retry(w)
  BY <1>1, RetryMoves
<1>2. CASE /\ grads' = [grads EXCEPT ![w] = Len(params)]
           /\ Move(w, "push")
           /\ UNCHANGED <<iteration, retry_count, poll_count, history>>
  <2>1. WorkerTypeOK'
    BY <1>2, StageNames DEF WorkerTypeOK, Move, history
  <2>2. Stays(w, "push", Len(params))
    BY <1>2 DEF WorkerTypeOK, Move, history, Stays, Frame
  <2>. QED  BY <2>1, <2>2
<1>. QED  BY <1>1, <1>2 DEF OnPull

LEMMA PushMoves ==
  ASSUME WorkerTypeOK, NEW w \in Workers, NEW complete \in BOOLEAN, OnPush(w, complete)
  PROVE  /\ WorkerTypeOK'
         /\ \/ complete /\ Leaves(w, TRUE)
            \/ ~complete /\ Stays(w, "pull", grads[w])
            \/ ~complete /\ Stays(w, "poll", grads[w])
<1>1. CASE complete /\ Return(w, TRUE)
  BY <1>1, ReturnMoves
<1>2. CASE ~complete /\ ~LastAttempt(w) /\ Retry(w)
  BY <1>2, RetryMoves
<1>3. CASE /\ ~complete
           /\ Move(w, "poll")
           /\ UNCHANGED <<iteration, retry_count, poll_count, grads, history>>
  <2>1. WorkerTypeOK'
    BY <1>3, StageNames DEF WorkerTypeOK, Move, history
  <2>2. Stays(w, "poll", grads[w])
    BY <1>3 DEF WorkerTypeOK, Move, history, Stays, Frame
  <2>. QED  BY <1>3, <2>1, <2>2
<1>. QED  BY <1>1, <1>2, <1>3 DEF OnPush

LEMMA PollMoves ==
  ASSUME WorkerTypeOK, NEW w \in Workers, NEW ready \in BOOLEAN, OnPoll(w, ready)
  PROVE  /\ WorkerTypeOK'
         /\ \/ Leaves(w, ready)
            \/ ~ready /\ Stays(w, "poll", grads[w])
<1>1. CASE ready /\ Return(w, TRUE)
  BY <1>1, ReturnMoves
<1>2. CASE ~ready /\ Return(w, FALSE)
  BY <1>2, ReturnMoves
<1>3. CASE /\ ~ready /\ poll_count[w] + 1 < max_polls
           /\ poll_count' = [poll_count EXCEPT ![w] = @ + 1]
           /\ Move(w, "poll")
           /\ UNCHANGED <<iteration, retry_count, grads, history>>
  <2>1. poll_count[w] + 1 \in 0..(max_polls - 1)
    <3>1. poll_count[w] \in 0..(max_polls - 1)
      BY DEF WorkerTypeOK
    <3>. QED  BY <1>3, <3>1, Numbers
  <2>2. WorkerTypeOK'
    BY <1>3, <2>1, StageNames DEF WorkerTypeOK, Move, history
  <2>3. Stays(w, "poll", grads[w])
    BY <1>3 DEF WorkerTypeOK, Move, history, Stays, Frame
  <2>. QED  BY <1>3, <2>2, <2>3
<1>. QED  BY <1>1, <1>2, <1>3 DEF OnPoll

-----------------------------------------------------------------------------
(* The server *)

\* An iteration is in the model at most once, so the model has at most as many
\* updates as there are iterations.
LEMMA ModelLength ==
  ASSUME TypeOK, AppliedExactlyOnce
  PROVE  Len(parameters_) \in Gradients
<1> DEFINE n == Len(parameters_)
           f == [k \in 1..n |-> parameters_[k].iteration]
<1>1. n \in Nat
  BY DEF TypeOK
<1>2. f \in [1..n -> Iterations]
  <2>1. parameters_ \in Seq(Update)
    BY DEF TypeOK
  <2>2. \A k \in 1..n : parameters_[k] \in Update
    BY <2>1
  <2>. QED  BY <2>2 DEF Update
<1>3. ~ \E j, k \in 1..n : j # k /\ f[j] = f[k]
  BY DEF AppliedExactlyOnce
<1> HIDE DEF f
<1>4. IsFiniteSet(1..n) /\ Cardinality(1..n) = n
  <2> HIDE DEF n
  <2>1. 1 \in Int /\ n \in Int /\ (IF 1 > n THEN 0 ELSE n - 1 + 1) = n
    BY <1>1
  <2>. QED  BY <2>1, FS_Interval
<1>5. IsFiniteSet(Iterations) /\ Cardinality(Iterations) = iterations
  <2>1. /\ 0 \in Int /\ iterations - 1 \in Int
        /\ (IF 0 > iterations - 1 THEN 0 ELSE iterations - 1 - 0 + 1) = iterations
    BY Numbers
  <2>. QED  BY <2>1, Numbers, FS_Interval
<1>6. ~(iterations < n)
  BY <1>2, <1>3, <1>4, <1>5, FS_PigeonHole
<1> HIDE DEF n
<1>7. n \in 0..iterations
  BY <1>1, <1>6, Numbers
<1>. QED  BY <1>7, Numbers DEF n

\* The calls of the workers are steps of ParameterServer.
LEMMA CallsAreNext ==
  ASSUME LocalsTypeOK, NEW t \in Threads,
         \/ \E w \in Workers : StartCall(w, t)
         \/ RunHandler(t) \/ SendAnswer(t) \/ StartLatePush(t)
  PROVE  Next
<1>1. ASSUME NEW w \in Workers, StartCall(w, t)
      PROVE  Next
  <2>1. iteration[w] \in Iterations /\ grads[w] \in Gradients
    BY DEF LocalsTypeOK, WorkerTypeOK
  <2>. QED  BY <1>1, <2>1 DEF StartCall, NewCall, Next
<1>2. ASSUME StartLatePush(t)
      PROVE  Next
  <2>1. PICK r \in late : EnterReceive(t, r.worker, r.iteration, r.gradients)
    BY <1>2 DEF StartLatePush
  <2>2. r.worker \in Workers /\ r.iteration \in Iterations /\ r.gradients \in Gradients
    BY DEF LocalsTypeOK, PushRequest
  <2>. QED  BY <2>1, <2>2 DEF NewCall, Next
<1>3. ASSUME RunHandler(t) \/ SendAnswer(t)
      PROVE  Next
  BY <1>3 DEF RunHandler, SendAnswer, Next
<1>. QED  BY <1>1, <1>2, <1>3

\* The invariant of the server outlives its restarts.
LEMMA ServerInvStep ==
  ASSUME IInv, LocalsTypeOK, [TrainingNext]_trainingVars
  PROVE  IInv'
<1>1. ASSUME NEW t \in Threads,
             \/ \E w \in Workers : StartCall(w, t)
             \/ RunHandler(t) \/ SendAnswer(t) \/ StartLatePush(t)
      PROVE  IInv'
  BY <1>1, CallsAreNext, Inductive
<1>2. ASSUME StopServer
      PROVE  IInv'
  <2>1. Init'
    BY <1>2 DEF StopServer, Init
  <2>2. (Init => IInv)'
    BY Initially, PTL
  <2>. QED  BY <2>1, <2>2
<1>3. ASSUME UNCHANGED vars
      PROVE  IInv'
  BY <1>3, Inductive
<1>4. ASSUME NEW w \in Workers, TakeAnswer(w) \/ FailCall(w) \/ Fault(w)
      PROVE  UNCHANGED vars
  BY <1>4 DEF TakeAnswer, FailCall, Fault, LoseAnswer, LoseRequest, RestartWorker
<1>5. CASE StartServer \/ Finished \/ UNCHANGED trainingVars
  BY <1>3, <1>5 DEF StartServer, Finished, trainingVars
<1>. QED  BY <1>1, <1>2, <1>3, <1>4, <1>5 DEF TrainingNext, WorkerStep, ServerStep

\* Copies are taken from the model, which only grows until the server stops.
LEMMA CopyStep ==
  ASSUME IInv, LocalsTypeOK, CopyInv, [TrainingNext]_trainingVars
  PROVE  CopyInv'
<1> USE DEF Goto, coreVars
<1>1. TypeOK /\ RequestInv
  BY DEF IInv
<1>2. /\ Len(parameters_) \in Nat
      /\ \A t \in Threads : Len(response[t].parameters) \in Nat
  BY <1>1 DEF TypeOK, Response
<1>3. ASSUME NEW t \in Threads, AggregateGradients(t)
      PROVE  CopyInv'
  <2>1. Len(parameters_') = Len(parameters_) + 1
    BY <1>1, <1>3 DEF AggregateGradients, TypeOK
  <2>2. UNCHANGED response
    BY <1>3 DEF AggregateGradients
  <2>. QED  BY <1>2, <2>1, <2>2 DEF CopyInv
<1>4. ASSUME NEW t \in Threads, NewCall(t) \/ HandlerStep(t) \/ FinishCall(t), ~AggregateGradients(t)
      PROVE  CopyInv'
  <2>1. UNCHANGED parameters_
    BY <1>4 DEF NewCall, HandlerStep, EnterReceive, ServeParameters, CheckSyncStatus, FinishCall,
                RaiseIteration, SkipAggregated, StoreGradients, MarkAggregated, ReplyReceive, ReplyServe
  <2>2. \A u \in Threads :
          \/ response'[u].parameters = response[u].parameters
          \/ response'[u].parameters = parameters_
          \/ response'[u].parameters = <<>>
    BY <1>1, <1>4
       DEF NewCall, HandlerStep, EnterReceive, ServeParameters, CheckSyncStatus, FinishCall,
           RaiseIteration, SkipAggregated, StoreGradients, MarkAggregated, ReplyReceive, ReplyServe,
           TypeOK, Response, NoResponse, Verdict
  <2>3. Len(<<>>) = 0
    OBVIOUS
  <2>. QED  BY <1>2, <2>1, <2>2, <2>3 DEF CopyInv
<1>5. ASSUME Next
      PROVE  CopyInv'
  BY <1>3, <1>4, <1>5 DEF Next
<1>6. ASSUME StopServer
      PROVE  CopyInv'
  <2>1. /\ parameters_' = <<>>
        /\ \A t \in Threads : response'[t].parameters = <<>>
    BY <1>6 DEF StopServer, NoResponse, Verdict
  <2>. QED  BY <2>1 DEF CopyInv
<1>7. ASSUME UNCHANGED vars
      PROVE  CopyInv'
  BY <1>7 DEF vars, CopyInv
<1>8. ASSUME NEW w \in Workers, TakeAnswer(w) \/ FailCall(w) \/ Fault(w)
      PROVE  UNCHANGED vars
  BY <1>8 DEF TakeAnswer, FailCall, Fault, LoseAnswer, LoseRequest, RestartWorker
<1>9. CASE StartServer \/ Finished \/ UNCHANGED trainingVars
  BY <1>7, <1>9 DEF StartServer, Finished, trainingVars
<1>. QED  BY <1>5, <1>6, <1>7, <1>8, <1>9, CallsAreNext DEF TrainingNext, WorkerStep, ServerStep

-----------------------------------------------------------------------------
(* Calls *)

FailedCall(w) == FailCall(w) \/ LoseAnswer(w) \/ LoseRequest(w)

\* A call that fails moves its worker as an answer without a model, or
\* "not complete", or "not ready" does; a call that is lost is one to wait for.
LEMMA FailedCallMoves ==
  ASSUME LocalsTypeOK, NEW w \in Workers, FailedCall(w)
  PROVE  /\ WorkerTypeOK'
         /\ \/ \E s \in DOMAIN WaitingFor \cup Calling \cup {"done"}, g \in Gradients :
                 Stays(w, s, g)
            \/ Leaves(w, FALSE)
<1> USE DEF LocalsTypeOK
<1>1. /\ Len(<<>>) \in Gradients
      /\ NoResponse.parameters = <<>> /\ NoResponse.ready = FALSE
      /\ grads[w] \in Gradients
  BY Numbers DEF NoResponse, Verdict, WorkerTypeOK
<1>2. CASE FailCall(w)
  <2>1. OnPull(w, <<>>) \/ OnPush(w, FALSE) \/ OnPoll(w, FALSE)
    BY <1>1, <1>2 DEF FailCall, OnReturn
  <2>2. CASE OnPull(w, <<>>)
    BY <1>1, <2>2, StageNames, PullMoves
  <2>3. CASE OnPush(w, FALSE)
    BY <1>1, <2>3, StageNames, PushMoves
  <2>4. CASE OnPoll(w, FALSE)
    BY <1>1, <2>4, StageNames, PollMoves
  <2>. QED  BY <2>1, <2>2, <2>3, <2>4
<1>3. CASE LoseAnswer(w)
  <2>1. UNCHANGED <<stage, iteration, retry_count, poll_count, grads, completed, gave_up>>
    BY <1>3 DEF LoseAnswer, workerVars, history
  <2>2. stage[w] \in DOMAIN WaitingFor \cup Calling \cup {"done"}
    BY DEF WorkerTypeOK
  <2>. QED  BY <1>1, <2>1, <2>2 DEF WorkerTypeOK, Stays, Frame
<1>4. CASE LoseRequest(w)
  BY <1>1, <1>4, CallMoves DEF LoseRequest
<1>. QED  BY <1>2, <1>3, <1>4 DEF FailedCall

\* It leaves the server alone, no thread works for the worker any more and no
\* answer is on its way to it; nor does it complete anything.
LEMMA FailedCallKeeps ==
  ASSUME LocalsTypeOK, CallInv, InboxInv, NEW w \in Workers, FailedCall(w)
  PROVE  /\ UNCHANGED <<vars, server_up, stops, restarts>>
         /\ caller' \in [Threads -> Workers \cup {NoWorker}]
         /\ \A t \in Threads : caller'[t] # w /\ caller'[t] \in {caller[t], NoWorker}
         /\ late' \subseteq PushRequest
         /\ answered' = answered \ {w} /\ silent' \subseteq Workers
         /\ answer' = answer \/ answer' = [v \in Workers |-> IF v = w THEN NoResponse ELSE answer[v]]
         /\ failures' \in {failures, failures + 1}
         /\ failures' # failures => MayFail
<1> USE DEF LocalsTypeOK, WorkerTypeOK
<1>1. CASE LoseAnswer(w)
  BY <1>1, TrainingAssumption DEF LoseAnswer, Break, Abandon, ClearInbox
<1>2. ASSUME stage[w] \in {"pull", "push", "poll"}
      PROVE  w \notin answered /\ \A t \in Threads : caller[t] # w
  <2>1. stage[w] \notin Calling
    BY <1>2 DEF Calling
  <2>2. ASSUME NEW t \in Threads
        PROVE  caller[t] # w
    <3>1. caller[t] = w => caller[t] # NoWorker
      BY TrainingAssumption
    <3>. QED  BY <2>1, <3>1 DEF CallInv
  <2>. QED  BY <2>1, <2>2 DEF InboxInv
<1>3. CASE LoseRequest(w)
  <2>1. Push(w) \in PushRequest
    BY DEF Push, PushRequest
  <2>2. late' \subseteq PushRequest
    BY <1>3, <2>1 DEF LoseRequest, LeaveRequest
  <2>3. w \notin answered /\ \A t \in Threads : caller[t] # w
    BY <1>2, <1>3, StageNames DEF LoseRequest
  <2>. QED  BY <1>3, <2>2, <2>3 DEF LoseRequest, Break, inboxVars
<1>4. CASE FailCall(w)
  <2>1. w \notin answered /\ \A t \in Threads : caller[t] # w
    BY <1>2, <1>4 DEF FailCall, Forsaken
  <2>2. UNCHANGED <<vars, caller, late, answered, answer, server_up, failures, stops, restarts>>
    BY <1>4 DEF FailCall, faultVars, inboxVars
  <2>3. silent' \subseteq Workers
    BY <1>4 DEF FailCall
  <2>. QED  BY <2>1, <2>2, <2>3
<1>. QED  BY <1>1, <1>3, <1>4 DEF FailedCall

\* An answer is that of the call the worker waits for.
LEMMA TakeAnswerMoves ==
  ASSUME LocalsTypeOK, InboxInv, NEW w \in Workers, TakeAnswer(w)
  PROVE  /\ w \in answered /\ stage[w] \in Calling
         /\ iteration[w] \in Iterations
         /\ WorkerTypeOK'
         /\ \/ /\ stage[w] = "pulling"
               /\ \/ Stays(w, "pull", grads[w])
                  \/ Stays(w, "push", Len(answer[w].parameters))
            \/ /\ stage[w] = "pushing"
               /\ \/ ~answer[w].ready /\ Stays(w, "pull", grads[w])
                  \/ ~answer[w].ready /\ Stays(w, "poll", grads[w])
                  \/ answer[w].ready /\ Leaves(w, TRUE)
            \/ /\ stage[w] = "polling"
               /\ \/ ~answer[w].ready /\ Stays(w, "poll", grads[w])
                  \/ ~answer[w].ready /\ Leaves(w, FALSE)
                  \/ answer[w].ready /\ Leaves(w, TRUE)
<1>1. /\ w \in answered /\ stage[w] \in Calling
      /\ WorkerTypeOK /\ iteration[w] \in Iterations
      /\ Len(answer[w].parameters) \in Gradients /\ answer[w].ready \in BOOLEAN
      /\ OnReturn(w, answer[w])
  BY DEF TakeAnswer, LocalsTypeOK, WorkerTypeOK, InboxInv, Response
<1>2. CASE stage[w] = "pulling"
  <2>1. OnPull(w, answer[w].parameters)
    BY <1>1, <1>2 DEF OnReturn
  <2>. QED  BY <1>1, <1>2, <2>1, PullMoves
<1>3. CASE stage[w] = "pushing"
  <2>1. OnPush(w, answer[w].ready)
    BY <1>1, <1>3 DEF OnReturn
  <2>. QED  BY <1>1, <1>3, <2>1, PushMoves
<1>4. CASE stage[w] = "polling"
  <2>1. OnPoll(w, answer[w].ready)
    BY <1>1, <1>4 DEF OnReturn
  <2>2. /\ WorkerTypeOK'
        /\ \/ Leaves(w, answer[w].ready)
           \/ ~answer[w].ready /\ Stays(w, "poll", grads[w])
    BY <1>1, <2>1, PollMoves
  <2>3. CASE answer[w].ready = TRUE
    BY <1>1, <1>4, <2>2, <2>3
  <2>4. CASE answer[w].ready = FALSE
    BY <1>1, <1>4, <2>2, <2>4
  <2>. QED  BY <1>1, <2>3, <2>4
<1>. QED  BY <1>1, <1>2, <1>3, <1>4 DEF Calling

\* The worker then waits for nothing; the rest stays as it is.
LEMMA TakeAnswerKeeps ==
  ASSUME LocalsTypeOK, NEW w \in Workers, TakeAnswer(w)
  PROVE  /\ UNCHANGED <<vars, caller, late, silent, server_up, failures, stops, restarts>>
         /\ answered' = answered \ {w}
         /\ answer' = [v \in Workers |-> IF v = w THEN NoResponse ELSE answer[v]]
BY DEF TakeAnswer, ClearInbox, faultVars, LocalsTypeOK

\* Sending an answer moves nobody and changes nothing else on the server.
LEMMA SendAnswerKeeps ==
  ASSUME IInv, LocalsTypeOK, NEW t \in Threads, SendAnswer(t)
  PROVE  /\ caller' = [caller EXCEPT ![t] = NoWorker]
         /\ UNCHANGED <<stage, iteration, retry_count, poll_count, grads, completed, gave_up>>
         /\ UNCHANGED <<late, silent, server_up, failures, stops, restarts, coreVars>>
         /\ pc[t] = "replied" /\ pc'[t] = "idle"
         /\ \A u \in Threads \ {t} :
              pc'[u] = pc[u] /\ request'[u] = request[u] /\ response'[u] = response[u]
         /\ \/ /\ caller[t] \in Workers
               /\ answered' = answered \cup {caller[t]}
               /\ answer' = [answer EXCEPT ![caller[t]] = response[t]]
            \/ caller[t] = NoWorker /\ UNCHANGED <<answered, answer>>
<1>1. TypeOK
  BY DEF IInv
<1>2. /\ caller' = [caller EXCEPT ![t] = NoWorker]
      /\ UNCHANGED <<stage, iteration, retry_count, poll_count, grads, completed, gave_up>>
      /\ UNCHANGED <<late, silent, server_up, failures, stops, restarts, coreVars>>
  BY DEF SendAnswer, FinishCall, faultVars, workerVars, history
<1>3. /\ pc[t] = "replied" /\ pc'[t] = "idle"
      /\ \A u \in Threads \ {t} :
           pc'[u] = pc[u] /\ request'[u] = request[u] /\ response'[u] = response[u]
  BY <1>1 DEF SendAnswer, FinishCall, Goto, TypeOK
<1>4. caller[t] \in Workers \cup {NoWorker}
  BY DEF LocalsTypeOK
<1>. QED  BY <1>2, <1>3, <1>4 DEF SendAnswer, inboxVars

-----------------------------------------------------------------------------
(* Types, calls and completed iterations *)

\* What StartCall does to the worker and to the thread.
LEMMA StartCallMoves ==
  ASSUME LocalsTypeOK, NEW t \in Threads, NEW w \in Workers, StartCall(w, t)
  PROVE  /\ pc[t] = "idle"
         /\ WorkerTypeOK' /\ Stays(w, WaitingFor[stage[w]], grads[w])
         /\ stage[w] \in {"pull", "push", "poll"}
         /\ caller' = [caller EXCEPT ![t] = w]
         /\ UNCHANGED <<late, answered, answer, silent, server_up, failures, stops, restarts, coreVars>>
<1>1. /\ stage[w] \in DOMAIN WaitingFor /\ Move(w, WaitingFor[stage[w]])
      /\ UNCHANGED <<iteration, retry_count, poll_count, grads, history>>
      /\ WorkerTypeOK
  BY DEF StartCall, LocalsTypeOK
<1>2. WorkerTypeOK' /\ Stays(w, WaitingFor[stage[w]], grads[w])
  BY <1>1, CallMoves
<1>3. pc[t] = "idle"
  BY DEF StartCall, ServeParameters, EnterReceive, CheckSyncStatus
<1>4. /\ caller' = [caller EXCEPT ![t] = w]
      /\ UNCHANGED <<late, answered, answer, silent, server_up, failures, stops, restarts, coreVars>>
  BY DEF StartCall, ServeParameters, EnterReceive, CheckSyncStatus, faultVars, inboxVars
<1>. QED  BY <1>1, <1>2, <1>3, <1>4, StageNames

\* Restarting a worker takes it back to iteration 0; its call, if it has one,
\* is handled for nobody, also when the server has yet to take up the push.
LEMMA RestartMoves ==
  ASSUME LocalsTypeOK, NEW w \in Workers, RestartWorker(w)
  PROVE  /\ WorkerTypeOK' /\ Frame(w)
         /\ stage'[w] = "pull" /\ iteration'[w] = 0 /\ grads'[w] = 0
         /\ UNCHANGED <<vars, completed, gave_up, server_up, failures, stops>>
         /\ restarts' = restarts + 1 /\ MayFail
         /\ late' \subseteq PushRequest
         /\ \/ late' = late
            \/ stage[w] = "push" /\ late' = late \cup {Push(w)}
         /\ caller' \in [Threads -> Workers \cup {NoWorker}]
         /\ \A t \in Threads : caller'[t] = IF caller[t] = w THEN NoWorker ELSE caller[t]
         /\ answered' = answered \ {w} /\ silent' \subseteq Workers
         /\ answer' = [v \in Workers |-> IF v = w THEN NoResponse ELSE answer[v]]
<1> USE DEF LocalsTypeOK, WorkerTypeOK
<1>1. /\ 0 \in Iterations /\ 0 \in Gradients
      /\ 0 \in 0..(max_retries - 1)
      /\ 0 \in 0..(max_polls - 1)
  BY Numbers
<1>2. /\ WorkerTypeOK' /\ Frame(w)
      /\ stage'[w] = "pull" /\ iteration'[w] = 0 /\ grads'[w] = 0
  BY <1>1, StageNames DEF RestartWorker, Move, Frame, history
<1>3. /\ UNCHANGED <<vars, completed, gave_up, server_up, failures, stops>>
      /\ restarts' = restarts + 1 /\ MayFail
      /\ late' = late \/ (stage[w] = "push" /\ late' = late \cup {Push(w)})
  BY DEF RestartWorker, history, LeaveRequest
<1>4. late' \subseteq PushRequest
  BY <1>3 DEF Push, PushRequest
<1>5. /\ caller' \in [Threads -> Workers \cup {NoWorker}]
      /\ \A t \in Threads : caller'[t] = IF caller[t] = w THEN NoWorker ELSE caller[t]
      /\ answered' = answered \ {w} /\ silent' \subseteq Workers
      /\ answer' = [v \in Workers |-> IF v = w THEN NoResponse ELSE answer[v]]
  BY DEF RestartWorker, Abandon, ClearInbox
<1>. QED  BY <1>2, <1>3, <1>4, <1>5

\* An empty answer is an answer.
LEMMA ClearedInbox ==
  ASSUME answer \in [Workers -> Response], NEW ws
  PROVE  [v \in Workers |-> IF v \in ws THEN NoResponse ELSE answer[v]] \in [Workers -> Response]
<1>1. NoResponse \in Response
  BY DEF NoResponse, Verdict, Response
<1>. QED  BY <1>1

\* The workers' state keeps its types.
LEMMA LocalsStep ==
  ASSUME IInv, LocalsTypeOK, CallInv, InboxInv, [TrainingNext]_trainingVars
  PROVE  LocalsTypeOK'
<1> DEFINE Fits(f) == f \in 0..MaxFaults
           InboxOK == answered \subseteq Workers /\ answer \in [Workers -> Response]
<1>1. Fits(failures) /\ Fits(stops) /\ Fits(restarts) /\ InboxOK
  BY DEF LocalsTypeOK
<1>2. MayFail => Fits(failures + 1) /\ Fits(stops + 1) /\ Fits(restarts + 1)
  BY <1>1, Numbers DEF MayFail
<1>3. ASSUME NEW w \in Workers,
             answered' = answered \ {w},
             answer' = answer \/ answer' = [v \in Workers |-> IF v = w THEN NoResponse ELSE answer[v]]
      PROVE  InboxOK'
  <2>1. [v \in Workers |-> IF v = w THEN NoResponse ELSE answer[v]] \in [Workers -> Response]
    <3>1. NoResponse \in Response
      BY DEF NoResponse, Verdict, Response
    <3>. QED  BY <1>1, <3>1
  <2>. QED  BY <1>1, <1>3, <2>1
<1>4. ASSUME NEW w \in Workers, NEW t \in Threads, StartCall(w, t)
      PROVE  LocalsTypeOK'
  BY <1>4, StartCallMoves DEF LocalsTypeOK
<1>5. ASSUME NEW t \in Threads, RunHandler(t)
      PROVE  LocalsTypeOK'
  BY <1>5 DEF RunHandler, LocalsTypeOK, WorkerTypeOK, workerVars, history, faultVars, inboxVars
<1>6. ASSUME NEW t \in Threads, SendAnswer(t)
      PROVE  LocalsTypeOK'
  <2>1. response[t] \in Response
    BY DEF IInv, TypeOK
  <2>2. InboxOK'
    BY <1>1, <1>6, <2>1, SendAnswerKeeps
  <2>3. WorkerTypeOK'
    BY <1>6, SendAnswerKeeps DEF LocalsTypeOK, WorkerTypeOK
  <2>. QED  BY <1>6, <2>2, <2>3, SendAnswerKeeps DEF LocalsTypeOK
<1>7. ASSUME NEW t \in Threads, StartLatePush(t)
      PROVE  LocalsTypeOK'
  BY <1>7 DEF StartLatePush, LocalsTypeOK, WorkerTypeOK, workerVars, history, faultVars, inboxVars
<1>8. ASSUME NEW w \in Workers, TakeAnswer(w)
      PROVE  LocalsTypeOK'
  <2>1. InboxOK'
    BY <1>3, <1>8, TakeAnswerKeeps
  <2>2. WorkerTypeOK'
    BY <1>8, TakeAnswerMoves
  <2>. QED  BY <1>8, <2>1, <2>2, TakeAnswerKeeps DEF LocalsTypeOK
<1>9. ASSUME NEW w \in Workers, FailedCall(w)
      PROVE  LocalsTypeOK'
  <2>1. WorkerTypeOK'
    BY <1>9, FailedCallMoves
  <2>2. /\ UNCHANGED <<server_up, stops, restarts>>
        /\ caller' \in [Threads -> Workers \cup {NoWorker}]
        /\ late' \subseteq PushRequest /\ silent' \subseteq Workers
        /\ Fits(failures')
    BY <1>1, <1>2, <1>9, FailedCallKeeps
  <2>3. InboxOK'
    BY <1>3, <1>9, FailedCallKeeps
  <2>. QED  BY <1>1, <2>1, <2>2, <2>3 DEF LocalsTypeOK
<1>10. ASSUME NEW w \in Workers, RestartWorker(w)
       PROVE  LocalsTypeOK'
  <2>1. InboxOK'
    BY <1>3, <1>10, RestartMoves
  <2>2. Fits(restarts')
    BY <1>2, <1>10, RestartMoves
  <2>. QED  BY <1>1, <1>10, <2>1, <2>2, RestartMoves DEF LocalsTypeOK
<1>11. CASE StopServer
  <2>1. Fits(stops') /\ UNCHANGED <<workerVars, failures, restarts>>
    BY <1>2, <1>11 DEF StopServer
  <2>2. WorkerTypeOK'
    BY <2>1 DEF LocalsTypeOK, WorkerTypeOK, workerVars, history
  <2>3. caller' \in [Threads -> Workers \cup {NoWorker}] /\ late' = {} /\ server_up' = FALSE
    BY <1>11 DEF StopServer
  <2>4. PICK cut \in SUBSET {w \in Workers : stage[w] \in Calling} :
          ClearInbox(cut) /\ silent' = silent \cup cut
    BY <1>11 DEF StopServer
  <2>5. InboxOK' /\ silent' \subseteq Workers
    BY <1>1, <2>4, ClearedInbox DEF ClearInbox, LocalsTypeOK
  <2>. QED  BY <1>1, <2>1, <2>2, <2>3, <2>5 DEF LocalsTypeOK
<1>12. CASE StartServer \/ Finished \/ UNCHANGED trainingVars
  BY <1>12 DEF StartServer, Finished, trainingVars, LocalsTypeOK, WorkerTypeOK, workerVars,
               history, faultVars, inboxVars
<1>. QED
  BY <1>4, <1>5, <1>6, <1>7, <1>8, <1>9, <1>10, <1>11, <1>12
     DEF TrainingNext, WorkerStep, ServerStep, Fault, FailedCall

\* Handling a call leaves the other threads, and the caller's request, alone.
LEMMA HandlerKeeps ==
  ASSUME TypeOK, NEW t \in Threads, HandlerStep(t)
  PROVE  /\ UNCHANGED request
         /\ \A u \in Threads \ {t} : pc'[u] = pc[u] /\ response'[u] = response[u]
         /\ pc'[t] # "idle" /\ pc[t] # "idle"
<1> USE DEF TypeOK, HandlerStep, Goto, Received
<1>1. UNCHANGED request
  BY DEF RaiseIteration, SkipAggregated, StoreGradients, AggregateGradients, MarkAggregated,
         ReplyReceive, ReplyServe
<1>2. \E s \in Stages \ {"idle"} : pc' = [pc EXCEPT ![t] = s]
  BY DEF RaiseIteration, SkipAggregated, StoreGradients, AggregateGradients, MarkAggregated,
         ReplyReceive, ReplyServe, Stages, InReceive
<1>3. \A u \in Threads \ {t} : response'[u] = response[u]
  BY DEF RaiseIteration, SkipAggregated, StoreGradients, AggregateGradients, MarkAggregated,
         ReplyReceive, ReplyServe
<1>4. pc[t] # "idle"
  BY DEF RaiseIteration, SkipAggregated, StoreGradients, AggregateGradients, MarkAggregated,
         ReplyReceive, ReplyServe
<1>. QED  BY <1>1, <1>2, <1>3, <1>4

\* A new call takes an idle thread.
LEMMA StartCallRequest ==
  ASSUME TypeOK, NEW t \in Threads, NEW w \in Workers, StartCall(w, t)
  PROVE  /\ pc'[t] # "idle"
         /\ request'[t].op = Awaited[WaitingFor[stage[w]]]
         /\ request'[t].iteration = iteration[w]
         /\ request'[t].op = "ReceiveGradients" =>
              request'[t].worker = w /\ request'[t].gradients = grads[w]
         /\ \A u \in Threads \ {t} :
              pc'[u] = pc[u] /\ request'[u] = request[u] /\ response'[u] = response[u]
<1> USE DEF TypeOK, Goto, Awaited, WaitingFor
<1>1. CASE stage[w] = "pull" /\ ServeParameters(t, iteration[w])
  BY <1>1 DEF ServeParameters
<1>2. CASE stage[w] = "push" /\ EnterReceive(t, w, iteration[w], grads[w])
  BY <1>2 DEF EnterReceive
<1>3. CASE stage[w] = "poll" /\ CheckSyncStatus(t, iteration[w])
  BY <1>3 DEF CheckSyncStatus
<1>. QED  BY <1>1, <1>2, <1>3 DEF StartCall

\* A worker makes one call at a time, and is only moved by its end.
LEMMA CallStep ==
  ASSUME IInv, LocalsTypeOK, CallInv, InboxInv, [TrainingNext]_trainingVars
  PROVE  CallInv'
<1>0. /\ TypeOK
      /\ NoWorker \notin Workers
      /\ caller \in [Threads -> Workers \cup {NoWorker}]
  BY TrainingAssumption DEF IInv, LocalsTypeOK
\* Threads whose call goes on, for a worker that does not move.
<1>1. ASSUME NEW u \in Threads, caller'[u] # NoWorker, caller'[u] = caller[u],
             pc'[u] # "idle", request'[u] = request[u],
             stage'[caller[u]] = stage[caller[u]], iteration'[caller[u]] = iteration[caller[u]],
             \A v \in Threads : caller'[v] = caller[u] => caller[v] = caller[u]
      PROVE  /\ pc'[u] # "idle"
             /\ stage'[caller'[u]] \in Calling
             /\ request'[u].op = Awaited[stage'[caller'[u]]]
             /\ request'[u].iteration = iteration'[caller'[u]]
             /\ request'[u].op = "ReceiveGradients" => request'[u].worker = caller'[u]
             /\ \A v \in Threads : caller'[v] = caller'[u] => v = u
  BY <1>1 DEF CallInv
<1>2. ASSUME NEW w \in Workers, NEW t \in Threads, StartCall(w, t)
      PROVE  CallInv'
  <2>1. /\ pc[t] = "idle"
        /\ Stays(w, WaitingFor[stage[w]], grads[w])
        /\ stage[w] \in {"pull", "push", "poll"}
        /\ caller' = [caller EXCEPT ![t] = w]
    BY <1>2, StartCallMoves
  <2>2. \A u \in Threads : caller[u] # w
    <3> SUFFICES ASSUME NEW u \in Threads, caller[u] = w
                 PROVE  FALSE
      OBVIOUS
    <3>1. stage[w] \in Calling
      BY <1>0 DEF CallInv
    <3>. QED  BY <2>1, <3>1 DEF Calling
  <2>3. WaitingFor[stage[w]] \in Calling
    BY <2>1 DEF WaitingFor, Calling
  <2> SUFFICES ASSUME NEW u \in Threads, caller'[u] # NoWorker
               PROVE  /\ pc'[u] # "idle"
                      /\ stage'[caller'[u]] \in Calling
                      /\ request'[u].op = Awaited[stage'[caller'[u]]]
                      /\ request'[u].iteration = iteration'[caller'[u]]
                      /\ request'[u].op = "ReceiveGradients" => request'[u].worker = caller'[u]
                      /\ \A v \in Threads : caller'[v] = caller'[u] => v = u
    BY DEF CallInv
  <2>4. CASE u = t
    <3>1. caller'[u] = w
      BY <1>0, <2>1, <2>4
    <3>2. /\ pc'[u] # "idle"
          /\ request'[u].op = Awaited[WaitingFor[stage[w]]]
          /\ request'[u].iteration = iteration[w]
          /\ request'[u].op = "ReceiveGradients" => request'[u].worker = w
      BY <1>0, <1>2, <2>4, StartCallRequest
    <3>3. stage'[w] = WaitingFor[stage[w]] /\ iteration'[w] = iteration[w]
      BY <2>1 DEF Stays
    <3>4. \A v \in Threads : caller'[v] = w => v = u
      BY <1>0, <2>1, <2>2, <2>4
    <3>. QED  BY <2>3, <3>1, <3>2, <3>3, <3>4
  <2>5. CASE u # t
    <3>1. caller'[u] = caller[u] /\ caller[u] \in Workers \ {w}
      BY <1>0, <2>1, <2>2, <2>5
    <3>2. stage'[caller[u]] = stage[caller[u]] /\ iteration'[caller[u]] = iteration[caller[u]]
      BY <2>1, <3>1 DEF Stays, Frame
    <3>3. pc'[u] = pc[u] /\ request'[u] = request[u]
      BY <1>0, <1>2, <2>5, StartCallRequest
    <3>4. pc[u] # "idle"
      BY <3>1 DEF CallInv
    <3>5. \A v \in Threads : caller'[v] = caller[u] => caller[v] = caller[u]
      BY <1>0, <2>1, <3>1
    <3>. QED  BY <1>1, <3>1, <3>2, <3>3, <3>4, <3>5
  <2>. QED  BY <2>4, <2>5
<1>3. ASSUME NEW t \in Threads, RunHandler(t)
      PROVE  CallInv'
  <2>1. UNCHANGED <<stage, iteration, caller, request>>
    BY <1>0, <1>3, HandlerKeeps DEF RunHandler, workerVars
  <2>2. \A u \in Threads : pc[u] # "idle" => pc'[u] # "idle"
    BY <1>0, <1>3, HandlerKeeps DEF RunHandler
  <2>. QED  BY <2>1, <2>2 DEF CallInv
<1>4. ASSUME NEW t \in Threads, SendAnswer(t)
      PROVE  CallInv'
  <2>1. /\ caller' = [caller EXCEPT ![t] = NoWorker]
        /\ \A u \in Threads \ {t} : pc'[u] = pc[u] /\ request'[u] = request[u]
        /\ UNCHANGED <<stage, iteration>>
    BY <1>4, SendAnswerKeeps
  <2> SUFFICES ASSUME NEW u \in Threads, caller'[u] # NoWorker
               PROVE  /\ pc'[u] # "idle"
                      /\ stage'[caller'[u]] \in Calling
                      /\ request'[u].op = Awaited[stage'[caller'[u]]]
                      /\ request'[u].iteration = iteration'[caller'[u]]
                      /\ request'[u].op = "ReceiveGradients" => request'[u].worker = caller'[u]
                      /\ \A v \in Threads : caller'[v] = caller'[u] => v = u
    BY DEF CallInv
  <2>2. u # t /\ caller'[u] = caller[u] /\ caller[u] \in Workers
    BY <1>0, <2>1
  <2>3. pc[u] # "idle"
    BY <2>2 DEF CallInv
  <2>4. \A v \in Threads : caller'[v] = caller[u] => caller[v] = caller[u]
    BY <1>0, <2>1, <2>2
  <2>. QED  BY <1>1, <2>1, <2>2, <2>3, <2>4
<1>5. ASSUME NEW t \in Threads, StartLatePush(t)
      PROVE  CallInv'
  <2>1. UNCHANGED <<stage, iteration, caller>>
    BY <1>5 DEF StartLatePush, workerVars
  <2>2. pc[t] = "idle" /\ \A u \in Threads \ {t} : pc'[u] = pc[u] /\ request'[u] = request[u]
    BY <1>0, <1>5 DEF StartLatePush, EnterReceive, Goto, TypeOK
  <2>3. caller[t] = NoWorker
    BY <2>2 DEF CallInv
  <2>. QED  BY <2>1, <2>2, <2>3 DEF CallInv
\* Steps that take w's call from it and move w.
<1>6. ASSUME NEW w \in Workers, UNCHANGED <<pc, request>>, Frame(w),
             \A t \in Threads : caller'[t] # w /\ caller'[t] \in {caller[t], NoWorker}
      PROVE  CallInv'
  <2> SUFFICES ASSUME NEW u \in Threads, caller'[u] # NoWorker
               PROVE  /\ pc'[u] # "idle"
                      /\ stage'[caller'[u]] \in Calling
                      /\ request'[u].op = Awaited[stage'[caller'[u]]]
                      /\ request'[u].iteration = iteration'[caller'[u]]
                      /\ request'[u].op = "ReceiveGradients" => request'[u].worker = caller'[u]
                      /\ \A v \in Threads : caller'[v] = caller'[u] => v = u
    BY DEF CallInv
  <2>1. caller'[u] = caller[u] /\ caller[u] \in Workers \ {w}
    BY <1>0, <1>6
  <2>2. stage'[caller[u]] = stage[caller[u]] /\ iteration'[caller[u]] = iteration[caller[u]]
    BY <1>6, <2>1 DEF Frame
  <2>3. \A v \in Threads : caller'[v] = caller[u] => caller[v] = caller[u]
    BY <1>0, <1>6, <2>1
  <2>4. pc'[u] # "idle" /\ request'[u] = request[u]
    BY <1>6, <2>1 DEF CallInv
  <2>. QED  BY <1>1, <2>1, <2>2, <2>3, <2>4
<1>7. ASSUME NEW w \in Workers, FailedCall(w)
      PROVE  CallInv'
  <2>1. Frame(w)
    BY <1>7, FailedCallMoves DEF Stays, Leaves
  <2>. QED  BY <1>6, <1>7, <2>1, FailedCallKeeps DEF vars
<1>8. ASSUME NEW w \in Workers, RestartWorker(w)
      PROVE  CallInv'
  <2>1. /\ Frame(w) /\ UNCHANGED <<pc, request>>
        /\ \A t \in Threads : caller'[t] # w /\ caller'[t] \in {caller[t], NoWorker}
    BY <1>0, <1>8, RestartMoves DEF vars
  <2>. QED  BY <1>6, <2>1
<1>9. ASSUME NEW w \in Workers, TakeAnswer(w)
      PROVE  CallInv'
  <2>1. Frame(w)
    BY <1>9, TakeAnswerMoves DEF Stays, Leaves
  <2>2. UNCHANGED <<pc, request, caller>> /\ \A t \in Threads : caller[t] # w
    BY <1>9, TakeAnswerMoves, TakeAnswerKeeps DEF vars, InboxInv
  <2>. QED  BY <1>6, <2>1, <2>2
<1>10. CASE StopServer
  BY <1>10 DEF StopServer, CallInv
<1>11. CASE StartServer \/ Finished \/ UNCHANGED trainingVars
  <2>1. UNCHANGED <<caller, pc, request, stage, iteration>>
    BY <1>11 DEF StartServer, Finished, trainingVars, vars, workerVars
  <2>. QED  BY <2>1 DEF CallInv
<1>. QED
  BY <1>2, <1>3, <1>4, <1>5, <1>7, <1>8, <1>9, <1>10, <1>11
     DEF TrainingNext, WorkerStep, ServerStep, Fault, FailedCall

\* A flag, once set, and gradients, once stored, stay until the server stops.
LEMMA ServerGrows ==
  ASSUME IInv, [Next]_vars
  PROVE  \A i \in Iterations :
           /\ aggregated[i] => aggregated'[i]
           /\ \A w \in Workers : Stored(w, i) => Stored(w, i)'
<1> USE DEF IInv, TypeOK, coreVars, Stored
<1>1. ASSUME NEW t \in Threads, StoreGradients(t)
      PROVE  /\ UNCHANGED aggregated
             /\ \A i \in Iterations, w \in Workers :
                  worker_gradients[i][w] # NoGradient => worker_gradients'[i][w] # NoGradient
  <2>1. request[t] \in PushRequest
    BY <1>1 DEF StoreGradients, RequestInv, InReceive
  <2>2. /\ request[t].iteration \in Iterations /\ request[t].worker \in Workers
        /\ request[t].gradients # NoGradient
    BY <2>1, ParameterServerAssumption DEF PushRequest
  <2>. QED  BY <1>1, <2>2 DEF StoreGradients, Contributions
<1>2. ASSUME NEW t \in Threads, MarkAggregated(t)
      PROVE  /\ UNCHANGED worker_gradients
             /\ \A i \in Iterations : aggregated[i] => aggregated'[i]
  BY <1>2 DEF MarkAggregated
<1>3. ASSUME NEW t \in Threads, NewCall(t) \/ HandlerStep(t) \/ FinishCall(t),
             ~StoreGradients(t), ~MarkAggregated(t)
      PROVE  UNCHANGED <<aggregated, worker_gradients>>
  BY <1>3 DEF NewCall, HandlerStep, EnterReceive, ServeParameters, CheckSyncStatus, FinishCall,
              RaiseIteration, SkipAggregated, AggregateGradients, ReplyReceive, ReplyServe
<1>4. CASE UNCHANGED vars
  BY <1>4 DEF vars
<1>. QED  BY <1>1, <1>2, <1>3, <1>4 DEF Next

\* What is on its way to a worker is what its server had for it.
LEMMA InboxStep ==
  ASSUME IInv, LocalsTypeOK, CallInv, InboxInv, CopyInv, [TrainingNext]_trainingVars
  PROVE  InboxInv'
<1> DEFINE Backed(v) ==
             stops = 0 /\ v \in answered /\ stage[v] \in {"pushing", "polling"} /\ answer[v].ready
               => aggregated[iteration[v]]
           Good(v) ==
             /\ v \in answered => stage[v] \in Calling /\ \A t \in Threads : caller[t] # v
             /\ Len(answer[v].parameters) \in Gradients
             /\ Backed(v)
<1>0. /\ NoWorker \notin Workers
      /\ caller \in [Threads -> Workers \cup {NoWorker}]
      /\ iteration \in [Workers -> Iterations]
      /\ answered \subseteq Workers
      /\ \A v \in Workers : Good(v)
  BY TrainingAssumption DEF LocalsTypeOK, WorkerTypeOK, InboxInv
<1>1. Len(NoResponse.parameters) \in Gradients
  BY Numbers DEF NoResponse, Verdict
<1>2. ASSUME \A v \in Workers : Good(v)'
      PROVE  InboxInv'
  BY <1>2 DEF InboxInv
\* A worker that keeps waiting for its answer.
<1>3. ASSUME NEW v \in Workers,
             UNCHANGED <<stage[v], iteration[v], answer[v], stops>>,
             v \in answered' => v \in answered /\ \A t \in Threads : caller'[t] # v,
             \A i \in Iterations : aggregated[i] => aggregated'[i]
      PROVE  Good(v)'
  BY <1>0, <1>3
\* A worker to which no answer is on its way.
<1>4. ASSUME NEW v \in Workers, v \notin answered', answer'[v] = answer[v] \/ answer'[v] = NoResponse
      PROVE  Good(v)'
  BY <1>0, <1>1, <1>4
<1> HIDE DEF Good
<1>5. ASSUME NEW t \in Threads, NEW w \in Workers, StartCall(w, t)
      PROVE  InboxInv'
  <2>1. /\ Stays(w, WaitingFor[stage[w]], grads[w])
        /\ stage[w] \in {"pull", "push", "poll"}
        /\ caller' = [caller EXCEPT ![t] = w]
        /\ UNCHANGED <<answered, answer, stops, coreVars>>
    BY <1>5, StartCallMoves
  <2>2. w \notin answered
    BY <2>1 DEF InboxInv, Calling
  <2>3. Good(w)'
    BY <1>4, <2>1, <2>2
  <2>4. ASSUME NEW v \in Workers \ {w}
        PROVE  Good(v)'
    <3>1. stage'[v] = stage[v] /\ iteration'[v] = iteration[v] /\ UNCHANGED aggregated
      BY <2>1 DEF Stays, Frame, coreVars
    <3>2. v \in answered => \A u \in Threads : caller'[u] # v
      BY <1>0, <2>1 DEF InboxInv
    <3>. QED  BY <1>3, <2>1, <3>1, <3>2
  <2>. QED  BY <1>2, <2>3, <2>4
<1>6. ASSUME NEW t \in Threads, RunHandler(t) \/ StartLatePush(t)
      PROVE  InboxInv'
  <2>1. UNCHANGED <<stage, iteration, answered, answer, stops, caller>>
    BY <1>6 DEF RunHandler, StartLatePush, workerVars, inboxVars, faultVars
  <2>2. \A i \in Iterations : aggregated[i] => aggregated'[i]
    BY <1>6, CallsAreNext, ServerGrows
  <2>3. \A v \in Workers : v \in answered => \A u \in Threads : caller'[u] # v
    BY <2>1 DEF InboxInv
  <2>. QED  BY <1>2, <1>3, <2>1, <2>2, <2>3
<1>7. ASSUME NEW t \in Threads, SendAnswer(t)
      PROVE  InboxInv'
  <2>1. /\ caller' = [caller EXCEPT ![t] = NoWorker]
        /\ UNCHANGED <<stage, iteration, stops, aggregated>>
        /\ pc[t] = "replied"
        /\ \/ /\ caller[t] \in Workers
              /\ answered' = answered \cup {caller[t]}
              /\ answer' = [answer EXCEPT ![caller[t]] = response[t]]
           \/ caller[t] = NoWorker /\ UNCHANGED <<answered, answer>>
    BY <1>7, SendAnswerKeeps DEF coreVars
  <2>2. ASSUME NEW v \in Workers, v # caller[t]
        PROVE  Good(v)'
    <3>1. answer'[v] = answer[v] /\ (v \in answered' => v \in answered)
      BY <2>1, <2>2 DEF LocalsTypeOK
    <3>2. v \in answered => \A u \in Threads : caller'[u] # v
      BY <1>0, <2>1 DEF InboxInv
    <3>. QED  BY <1>3, <2>1, <3>1, <3>2
  <2>3. ASSUME NEW v \in Workers, v = caller[t]
        PROVE  Good(v)'
    <3>1. v # NoWorker
      BY <1>0
    <3>2. /\ stage[v] \in Calling
          /\ request[t].op = Awaited[stage[v]]
          /\ request[t].iteration = iteration[v]
          /\ \A u \in Threads : caller[u] = v => u = t
      BY <2>3, <3>1 DEF CallInv
    <3>3. \A u \in Threads : caller'[u] # v
      BY <1>0, <2>1, <3>1, <3>2
    <3>4. answer'[v] = response[t]
      BY <2>1, <2>3, <3>1 DEF LocalsTypeOK
    <3>5. Len(response[t].parameters) \in Gradients
      <4>1. Len(parameters_) \in Gradients
        BY ModelLength DEF IInv
      <4>2. Len(response[t].parameters) <= Len(parameters_) /\ Len(response[t].parameters) \in Nat
        BY DEF CopyInv, IInv, TypeOK, Response
      <4>. QED  BY <4>1, <4>2, Numbers
    <3>6. stage[v] \in {"pushing", "polling"} /\ response[t].ready => aggregated[iteration[v]]
      <4>1. stage[v] \in {"pushing", "polling"} => request[t].op \in {"ReceiveGradients", "CheckSyncStatus"}
        BY <3>2 DEF Awaited
      <4>. QED  BY <2>1, <3>2, <4>1 DEF IInv, VerdictInv, Answered
    <3>. QED  BY <2>1, <3>2, <3>3, <3>4, <3>5, <3>6 DEF Good
  <2>. QED  BY <1>2, <2>2, <2>3
\* Steps of w after which it waits for nothing, or for nobody.
<1>8. ASSUME NEW w \in Workers, Frame(w), UNCHANGED <<aggregated, stops>>,
             \A t \in Threads : caller'[t] \in {caller[t], NoWorker},
             answered' = answered \ {w},
             answer' = answer \/ answer' = [v \in Workers |-> IF v = w THEN NoResponse ELSE answer[v]]
      PROVE  InboxInv'
  <2>1. Good(w)'
    BY <1>4, <1>8
  <2>2. ASSUME NEW v \in Workers \ {w}
        PROVE  Good(v)'
    <3>1. answer'[v] = answer[v] /\ stage'[v] = stage[v] /\ iteration'[v] = iteration[v]
      BY <1>8 DEF Frame
    <3>2. v \in answered' => v \in answered /\ \A u \in Threads : caller'[u] # v
      BY <1>0, <1>8 DEF InboxInv
    <3>. QED  BY <1>3, <1>8, <3>1, <3>2
  <2>. QED  BY <1>2, <2>1, <2>2
<1>9. ASSUME NEW w \in Workers, TakeAnswer(w)
      PROVE  InboxInv'
  <2>1. Frame(w)
    BY <1>9, TakeAnswerMoves DEF Stays, Leaves
  <2>. QED  BY <1>8, <1>9, <2>1, TakeAnswerKeeps DEF vars, coreVars
<1>10. ASSUME NEW w \in Workers, FailedCall(w)
       PROVE  InboxInv'
  <2>1. Frame(w)
    BY <1>10, FailedCallMoves DEF Stays, Leaves
  <2>. QED  BY <1>8, <1>10, <2>1, FailedCallKeeps DEF vars, coreVars
<1>11. ASSUME NEW w \in Workers, RestartWorker(w)
       PROVE  InboxInv'
  BY <1>8, <1>11, RestartMoves DEF vars, coreVars
<1>12. CASE StopServer
  <2>1. stops' # 0 /\ caller' = [t \in Threads |-> NoWorker] /\ UNCHANGED stage
    BY <1>12 DEF StopServer, LocalsTypeOK, workerVars
  <2>2. PICK cut \in SUBSET {w \in Workers : stage[w] \in Calling} : ClearInbox(cut)
    BY <1>12 DEF StopServer
  <2>3. ASSUME NEW v \in Workers
        PROVE  Good(v)'
    <3>1. /\ v \in answered' => v \in answered
          /\ answer'[v] = answer[v] \/ answer'[v] = NoResponse
      BY <2>2 DEF ClearInbox
    <3>2. Len(answer'[v].parameters) \in Gradients
      BY <1>1, <3>1 DEF InboxInv
    <3>3. \A t \in Threads : caller'[t] # v
      BY <1>0, <2>1
    <3>4. v \in answered' => stage'[v] \in Calling
      BY <2>1, <3>1 DEF InboxInv
    <3>. QED  BY <2>1, <3>2, <3>3, <3>4 DEF Good
  <2>. QED  BY <1>2, <2>3
<1>13. CASE StartServer \/ Finished \/ UNCHANGED trainingVars
  BY <1>13 DEF StartServer, Finished, trainingVars, vars, coreVars, workerVars, history, faultVars,
               inboxVars, InboxInv
<1>. QED
  BY <1>5, <1>6, <1>7, <1>9, <1>10, <1>11, <1>12, <1>13
     DEF TrainingNext, WorkerStep, ServerStep, Fault, FailedCall

\* A worker takes an iteration for completed when the server has said so.
LEMMA DoneStep ==
  ASSUME IInv, LocalsTypeOK, CallInv, InboxInv, DoneInv, [TrainingNext]_trainingVars
  PROVE  DoneInv'
<1>1. ASSUME NEW t \in Threads, RunHandler(t) \/ StartLatePush(t) \/ \E w \in Workers : StartCall(w, t)
      PROVE  DoneInv'
  <2>1. UNCHANGED <<completed, stops>>
    BY <1>1 DEF RunHandler, StartLatePush, StartCall, workerVars, history, faultVars
  <2>2. \A i \in Iterations : aggregated[i] => aggregated'[i]
    BY <1>1, CallsAreNext, ServerGrows
  <2>. QED  BY <2>1, <2>2 DEF DoneInv, LocalsTypeOK, WorkerTypeOK
<1>2. ASSUME NEW t \in Threads, SendAnswer(t)
      PROVE  DoneInv'
  BY <1>2, SendAnswerKeeps DEF coreVars, DoneInv
<1>3. ASSUME NEW w \in Workers, TakeAnswer(w)
      PROVE  DoneInv'
  <2>1. UNCHANGED <<aggregated, stops>>
    BY <1>3, TakeAnswerKeeps DEF vars, coreVars
  <2>2. /\ Frame(w)
        /\ \/ completed'[w] = completed[w]
           \/ /\ w \in answered /\ stage[w] \in {"pushing", "polling"} /\ answer[w].ready
              /\ completed'[w] = completed[w] \cup {iteration[w]}
    BY <1>3, TakeAnswerMoves DEF Stays, Leaves
  <2>3. stops = 0 => \A i \in completed'[w] : aggregated[i]
    BY <2>2 DEF DoneInv, InboxInv
  <2>. QED  BY <2>1, <2>2, <2>3 DEF DoneInv, Frame
<1>4. ASSUME NEW w \in Workers, FailedCall(w)
      PROVE  DoneInv'
  <2>1. UNCHANGED <<aggregated, stops>>
    BY <1>4, FailedCallKeeps DEF vars, coreVars
  <2>2. Frame(w) /\ completed'[w] = completed[w]
    BY <1>4, FailedCallMoves DEF Stays, Leaves
  <2>. QED  BY <2>1, <2>2 DEF DoneInv, Frame
<1>5. ASSUME NEW w \in Workers, RestartWorker(w)
      PROVE  DoneInv'
  BY <1>5 DEF RestartWorker, DoneInv, vars, coreVars, history
<1>6. CASE StopServer
  <2>1. stops' # 0
    BY <1>6 DEF StopServer, LocalsTypeOK
  <2>. QED  BY <2>1 DEF DoneInv
<1>7. CASE StartServer \/ Finished \/ UNCHANGED trainingVars
  BY <1>7 DEF StartServer, Finished, trainingVars, vars, coreVars, workerVars, history, faultVars, DoneInv
<1>. QED
  BY <1>1, <1>2, <1>3, <1>4, <1>5, <1>6, <1>7
     DEF TrainingNext, WorkerStep, ServerStep, Fault, FailedCall

-----------------------------------------------------------------------------
(* The order of the iterations, while no call fails *)

\* Without faults there is an answer to every call, so that no call fails.
LEMMA CalmSteps ==
  ASSUME LocalsTypeOK, OrderInv, TrainingNext, Calm'
  PROVE  /\ Calm
         /\ \/ \E w \in Workers, t \in Threads : StartCall(w, t)
            \/ \E t \in Threads : RunHandler(t) \/ SendAnswer(t) \/ StartLatePush(t)
            \/ \E w \in Workers : TakeAnswer(w) \/ RestartWorker(w)
            \/ Finished
<1>1. failures \in Nat /\ stops \in Nat
  BY Numbers DEF LocalsTypeOK
<1>2. ASSUME UNCHANGED <<failures, stops>>
      PROVE  Calm /\ server_up /\ \A w \in Workers : WorkerOrder(w)
  BY <1>2 DEF Calm, OrderInv
<1>3. failures' # failures + 1 /\ stops' # stops + 1
  BY <1>1 DEF Calm
<1>4. ~StopServer /\ \A w \in Workers : ~LoseAnswer(w) /\ ~LoseRequest(w)
  BY <1>3 DEF StopServer, LoseAnswer, LoseRequest, Break
<1>5. ASSUME NEW w \in Workers, FailCall(w)
      PROVE  FALSE
  <2>1. UNCHANGED <<failures, stops>>
    BY <1>5 DEF FailCall, faultVars
  <2>2. server_up /\ WorkerOrder(w)
    BY <1>2, <2>1
  <2>. QED  BY <1>5, <2>2 DEF FailCall, Forsaken, WorkerOrder
<1>6. ASSUME StartServer
      PROVE  FALSE
  <2>1. UNCHANGED <<failures, stops>>
    BY <1>6 DEF StartServer, faultVars
  <2>. QED  BY <1>2, <1>6, <2>1 DEF StartServer
<1>7. \/ \E w \in Workers, t \in Threads : StartCall(w, t)
      \/ \E t \in Threads : RunHandler(t) \/ SendAnswer(t) \/ StartLatePush(t)
      \/ \E w \in Workers : TakeAnswer(w) \/ RestartWorker(w)
      \/ Finished
  BY <1>4, <1>5, <1>6 DEF TrainingNext, WorkerStep, ServerStep, Fault
<1>8. UNCHANGED <<failures, stops>>
  BY <1>7 DEF StartCall, RunHandler, SendAnswer, StartLatePush, TakeAnswer, RestartWorker, Finished,
              trainingVars, faultVars
<1>. QED  BY <1>2, <1>7, <1>8

\* A push that is answered has been stored, or was not needed.
LEMMA HandlerStores ==
  ASSUME IInv, NEW t \in Threads, HandlerStep(t)
  PROVE  /\ pc'[t] \in InReceive => pc[t] \in InReceive
         /\ AnsweredPush(t)' => Stored(request[t].worker, request[t].iteration)' \/ AnsweredPush(t)
         /\ \A i \in Iterations : \A w \in Senders(worker_gradients'[i]) :
              \/ w \in Senders(worker_gradients[i]) /\ worker_gradients'[i][w] = worker_gradients[i][w]
              \/ /\ pc[t] = "storing" /\ ~aggregated[i]
                 /\ i = request[t].iteration /\ w = request[t].worker
                 /\ worker_gradients'[i][w] = request[t].gradients
<1> USE DEF IInv, TypeOK, Goto, InReceive, Received, AnsweredPush, Answered, coreVars
<1>1. CASE RaiseIteration(t)
  BY <1>1 DEF RaiseIteration, Senders
<1>2. CASE SkipAggregated(t)
  BY <1>2 DEF SkipAggregated, Senders, Stored
<1>3. CASE StoreGradients(t)
  <2>1. request[t] \in PushRequest /\ pc[t] = "storing"
    BY <1>3 DEF StoreGradients, RequestInv
  <2> DEFINE i == request[t].iteration
             w == request[t].worker
             g == request[t].gradients
  <2>2. i \in Iterations /\ w \in Workers /\ g # NoGradient /\ ~aggregated[i]
    BY <1>3, <2>1, ParameterServerAssumption DEF PushRequest, StoreGradients
  <2>3. /\ worker_gradients'[i] = [worker_gradients[i] EXCEPT ![w] = g]
        /\ \A j \in Iterations \ {i} : worker_gradients'[j] = worker_gradients[j]
        /\ pc' = [pc EXCEPT ![t] = "averaging"] \/ pc' = [pc EXCEPT ![t] = "incomplete"]
    BY <1>3, <2>2 DEF StoreGradients
  <2>4. worker_gradients[i] \in Contributions
    BY <2>2
  <2>5. /\ worker_gradients'[i][w] = g
        /\ \A v \in Workers \ {w} : worker_gradients'[i][v] = worker_gradients[i][v]
    BY <2>2, <2>3, <2>4 DEF Contributions
  <2>6. Stored(w, i)'
    <3>1. UNCHANGED request
      BY <1>3 DEF StoreGradients
    <3>. QED  BY <2>2, <2>5, <3>1 DEF Stored
  <2>7. \A j \in Iterations : \A v \in Senders(worker_gradients'[j]) :
          \/ v \in Senders(worker_gradients[j]) /\ worker_gradients'[j][v] = worker_gradients[j][v]
          \/ j = i /\ v = w /\ worker_gradients'[j][v] = g
    BY <2>3, <2>5 DEF Senders
  <2>8. Stored(request[t].worker, request[t].iteration)'
    BY <2>6
  <2> HIDE DEF i, w, g
  <2>. QED  BY <2>1, <2>2, <2>7, <2>8 DEF i, w, g
<1>4. CASE AggregateGradients(t)
  BY <1>4 DEF AggregateGradients, Senders
<1>5. CASE MarkAggregated(t)
  <2>1. request[t].iteration \in Iterations
    BY <1>5 DEF MarkAggregated, RequestInv, PushRequest
  <2>. QED  BY <1>5, <2>1 DEF MarkAggregated, Senders, Stored
<1>6. CASE ReplyReceive(t)
  BY <1>6 DEF ReplyReceive, Senders
<1>7. CASE ReplyServe(t)
  <2>1. request[t].op = "ServeParameters"
    BY <1>7 DEF ReplyServe, RequestInv, PullRequest
  <2>. QED  BY <1>7, <2>1 DEF ReplyServe, Senders
<1>. QED  BY <1>1, <1>2, <1>3, <1>4, <1>5, <1>6, <1>7 DEF HandlerStep

\* A worker leaves an iteration when it was aggregated, or gives up polling for
\* it after its push was answered.
LEMMA OrderStep ==
  ASSUME IInv, LocalsTypeOK, CallInv, InboxInv, OrderInv, IInv', [TrainingNext]_trainingVars
  PROVE  OrderInv'
<1> USE DEF Calling
<1>0. /\ TypeOK /\ RequestInv /\ RequestInv'
      /\ NoWorker \notin Workers
      /\ caller \in [Threads -> Workers \cup {NoWorker}]
      /\ iteration \in [Workers -> Iterations]
      /\ answered \subseteq Workers /\ late \subseteq PushRequest
  BY TrainingAssumption DEF IInv, LocalsTypeOK, WorkerTypeOK
<1>1. CASE UNCHANGED trainingVars
  BY <1>1
     DEF trainingVars, vars, coreVars, workerVars, faultVars, inboxVars, OrderInv, WorkerOrder, Calm,
         StoredBelow, Stored, AnsweredPush, Answered
<1> SUFFICES ASSUME TrainingNext, Calm'
             PROVE  OrderInv'
  BY <1>1 DEF OrderInv
<1>2. /\ Calm /\ server_up
      /\ \A w \in Workers : WorkerOrder(w)
      /\ \A r \in late : StoredBelow(r.worker, r.iteration)
      /\ \A t \in Threads : pc[t] \in InReceive => StoredBelow(request[t].worker, request[t].iteration)
      /\ \A t \in Threads : AnsweredPush(t) => Stored(request[t].worker, request[t].iteration)
      /\ \A i \in Iterations : \A w \in Senders(worker_gradients[i]) : StoredBelow(w, i)
  BY CalmSteps DEF OrderInv
\* What a step has to show.
<1>3. ASSUME server_up',
             \A w \in Workers : WorkerOrder(w)',
             \A r \in late' : StoredBelow(r.worker, r.iteration)',
             \A t \in Threads :
               /\ pc'[t] \in InReceive => StoredBelow(request[t].worker, request[t].iteration)'
               /\ AnsweredPush(t)' => Stored(request[t].worker, request[t].iteration)',
             \A i \in Iterations : \A w \in Senders(worker_gradients'[i]) : StoredBelow(w, i)'
      PROVE  OrderInv'
  BY <1>3 DEF OrderInv
\* Steps that store nothing.
<1>4. ASSUME UNCHANGED <<aggregated, worker_gradients>>
      PROVE  /\ \A v, i : Stored(v, i)' <=> Stored(v, i)
             /\ \A v, i : StoredBelow(v, i)' <=> StoredBelow(v, i)
             /\ \A i \in Iterations : \A w \in Senders(worker_gradients'[i]) : StoredBelow(w, i)'
  BY <1>2, <1>4 DEF StoredBelow, Stored
\* A worker that goes on waiting for the same thread, or for the same answer.
<1>5. ASSUME UNCHANGED <<aggregated, worker_gradients>>, NEW v \in Workers,
             UNCHANGED <<stage[v], iteration[v]>>, v \in answered' <=> v \in answered,
             \A t \in Threads : caller[t] = v => caller'[t] = v
      PROVE  WorkerOrder(v)'
  <2>1. WorkerOrder(v)
    BY <1>2
  <2>2. /\ StoredBelow(v, iteration[v])'
        /\ Stored(v, iteration[v]) => Stored(v, iteration[v])'
    BY <1>5, <2>1 DEF WorkerOrder, StoredBelow, Stored
  <2>. QED  BY <1>5, <2>1, <2>2 DEF WorkerOrder
<1>6. ASSUME NEW w \in Workers, NEW t \in Threads, StartCall(w, t)
      PROVE  OrderInv'
  <2>1. /\ pc[t] = "idle"
        /\ Stays(w, WaitingFor[stage[w]], grads[w])
        /\ stage[w] \in {"pull", "push", "poll"}
        /\ caller' = [caller EXCEPT ![t] = w]
        /\ UNCHANGED <<late, answered, server_up, aggregated, worker_gradients>>
    BY <1>6, StartCallMoves DEF coreVars
  <2>2. caller[t] = NoWorker /\ w \notin answered
    BY <2>1 DEF CallInv, InboxInv
  <2>3. WorkerOrder(w)'
    <3>1. WorkerOrder(w) /\ iteration'[w] = iteration[w] /\ caller'[t] = w
      BY <1>0, <1>2, <2>1 DEF Stays
    <3>2. StoredBelow(w, iteration[w])' /\ (Stored(w, iteration[w]) => Stored(w, iteration[w])')
      BY <2>1, <3>1 DEF WorkerOrder, StoredBelow, Stored
    <3>3. stage'[w] \in {"poll", "polling"} => stage[w] = "poll"
      BY <2>1 DEF Stays, WaitingFor
    <3>. QED  BY <2>1, <2>2, <3>1, <3>2, <3>3 DEF WorkerOrder
  <2>4. ASSUME NEW v \in Workers \ {w}
        PROVE  WorkerOrder(v)'
    <3>1. UNCHANGED <<stage[v], iteration[v]>> /\ \A u \in Threads : caller[u] = v => caller'[u] = v
      BY <1>0, <2>1, <2>2 DEF Stays, Frame
    <3>. QED  BY <1>5, <2>1, <3>1
  <2>5. /\ request'[t].iteration = iteration[w]
        /\ request'[t].op = "ReceiveGradients" => request'[t].worker = w
        /\ request'[t].op # "ReceiveGradients" => pc'[t] \notin InReceive
        /\ ~AnsweredPush(t)'
        /\ \A u \in Threads \ {t} : pc'[u] = pc[u] /\ request'[u] = request[u]
    <3>1. /\ request'[t].iteration = iteration[w]
          /\ request'[t].op = "ReceiveGradients" => request'[t].worker = w
          /\ \A u \in Threads \ {t} : pc'[u] = pc[u] /\ request'[u] = request[u]
      BY <1>0, <1>6, StartCallRequest
    <3>2. pc'[t] \in InReceive => request'[t] \in PushRequest
      BY <1>0 DEF RequestInv
    <3>3. /\ pc'[t] \notin Received
          /\ pc'[t] = "replied" => request'[t].op = "CheckSyncStatus"
      BY <1>0, <1>6
         DEF StartCall, ServeParameters, EnterReceive, CheckSyncStatus, Goto, TypeOK, Received
    <3>. QED  BY <3>1, <3>2, <3>3 DEF AnsweredPush, Answered, PushRequest
  <2>6. ASSUME NEW u \in Threads
        PROVE  /\ pc'[u] \in InReceive => StoredBelow(request'[u].worker, request'[u].iteration)
               /\ AnsweredPush(u)' => Stored(request'[u].worker, request'[u].iteration)
    <3>1. CASE u = t
      BY <1>2, <2>5, <3>1 DEF WorkerOrder
    <3>2. CASE u # t
      BY <1>2, <2>5, <3>2 DEF AnsweredPush, Answered
    <3>. QED  BY <3>1, <3>2
  <2>7. \A v \in Workers : WorkerOrder(v)'
    BY <2>3, <2>4
  <2>8. \A r \in late' : StoredBelow(r.worker, r.iteration)'
    BY <1>2, <1>4, <2>1
  <2>9. \A u \in Threads :
          /\ pc'[u] \in InReceive => StoredBelow(request[u].worker, request[u].iteration)'
          /\ AnsweredPush(u)' => Stored(request[u].worker, request[u].iteration)'
    BY <2>1, <2>6 DEF StoredBelow, Stored
  <2>. QED  BY <1>2, <1>3, <1>4, <2>1, <2>7, <2>8, <2>9
<1>7. ASSUME NEW t \in Threads, RunHandler(t)
      PROVE  OrderInv'
  <2>1. /\ HandlerStep(t)
        /\ UNCHANGED <<stage, iteration, caller, late, answered, server_up>>
    BY <1>7 DEF RunHandler, workerVars, inboxVars
  <2>2. \A i \in Iterations : \A v \in Workers : Stored(v, i) => Stored(v, i)'
    BY <1>7, CallsAreNext, ServerGrows
  <2>3. \A v \in Workers : \A i : StoredBelow(v, i) => StoredBelow(v, i)'
    BY <2>2 DEF StoredBelow
  <2>4. /\ UNCHANGED request
        /\ \A u \in Threads \ {t} : pc'[u] = pc[u]
    BY <1>0, <2>1, HandlerKeeps
  <2>5. ASSUME NEW u \in Threads, pc'[u] \in InReceive
        PROVE  StoredBelow(request[u].worker, request[u].iteration)'
    <3>1. pc[u] \in InReceive
      BY <2>1, <2>4, <2>5, HandlerStores
    <3>2. request[u].worker \in Workers /\ StoredBelow(request[u].worker, request[u].iteration)
      BY <1>0, <1>2, <3>1 DEF RequestInv, PushRequest
    <3>. QED  BY <2>2, <2>4, <3>2 DEF StoredBelow, Stored
  <2>6. ASSUME NEW u \in Threads, AnsweredPush(u)'
        PROVE  Stored(request[u].worker, request[u].iteration)'
    <3>1. CASE AnsweredPush(u)
      <4>1. request[u].worker \in Workers /\ request[u].iteration \in Iterations
        BY <1>0, <3>1 DEF RequestInv, PushRequest, PullRequest, SyncStatusRequest, AnsweredPush, Answered
      <4>2. Stored(request[u].worker, request[u].iteration)
        BY <1>2, <3>1
      <4>. QED  BY <2>2, <2>4, <4>1, <4>2 DEF Stored
    <3>2. CASE ~AnsweredPush(u)
      <4>1. u = t
        BY <2>4, <2>6, <3>2 DEF AnsweredPush, Answered
      <4>. QED  BY <2>1, <2>6, <3>2, <4>1, HandlerStores
    <3>. QED  BY <3>1, <3>2
  <2>7. ASSUME NEW i \in Iterations, NEW v \in Senders(worker_gradients'[i])
        PROVE  StoredBelow(v, i)'
    <3>1. v \in Workers
      BY DEF Senders
    <3>2. \/ v \in Senders(worker_gradients[i])
          \/ pc[t] = "storing" /\ i = request[t].iteration /\ v = request[t].worker
      BY <2>1, HandlerStores
    <3>3. StoredBelow(v, i)
      BY <1>2, <3>2 DEF InReceive
    <3>. QED  BY <2>3, <3>1, <3>3
  <2>8. ASSUME NEW v \in Workers
        PROVE  WorkerOrder(v)'
    <3>1. iteration[v] \in Iterations /\ WorkerOrder(v)
      BY <1>0, <1>2
    <3>2. /\ StoredBelow(v, iteration[v])'
          /\ Stored(v, iteration[v]) => Stored(v, iteration[v])'
      BY <2>1, <2>2, <3>1 DEF WorkerOrder, StoredBelow, Stored
    <3>. QED  BY <2>1, <3>1, <3>2 DEF WorkerOrder
  <2>9. ASSUME NEW r \in late'
        PROVE  StoredBelow(r.worker, r.iteration)'
    <3>1. r \in late /\ r.worker \in Workers
      BY <1>0, <2>1 DEF PushRequest
    <3>. QED  BY <1>2, <2>3, <3>1
  <2>. QED  BY <1>2, <1>3, <2>1, <2>5, <2>6, <2>7, <2>8, <2>9
<1>8. ASSUME NEW t \in Threads, SendAnswer(t)
      PROVE  OrderInv'
  <2>1. /\ caller' = [caller EXCEPT ![t] = NoWorker]
        /\ UNCHANGED <<stage, iteration, late, server_up, aggregated, worker_gradients>>
        /\ pc[t] = "replied" /\ pc'[t] = "idle"
        /\ \A u \in Threads \ {t} : pc'[u] = pc[u] /\ request'[u] = request[u]
        /\ \/ caller[t] \in Workers /\ answered' = answered \cup {caller[t]}
           \/ caller[t] = NoWorker /\ answered' = answered
    BY <1>8, SendAnswerKeeps DEF coreVars
  <2>2. ASSUME NEW u \in Threads
        PROVE  /\ pc'[u] \in InReceive => StoredBelow(request[u].worker, request[u].iteration)'
               /\ AnsweredPush(u)' => Stored(request[u].worker, request[u].iteration)'
    <3>1. CASE u = t
      BY <2>1, <3>1 DEF InReceive, AnsweredPush, Answered, Received
    <3>2. CASE u # t
      BY <1>2, <2>1, <3>2 DEF AnsweredPush, Answered, StoredBelow, Stored
    <3>. QED  BY <3>1, <3>2
  <2>3. ASSUME NEW v \in Workers, v # caller[t]
        PROVE  WorkerOrder(v)'
    <3>1. v \in answered' <=> v \in answered
      BY <2>1, <2>3
    <3>2. \A u \in Threads : caller[u] = v => caller'[u] = v
      BY <1>0, <2>1, <2>3
    <3>. QED  BY <1>5, <2>1, <3>1, <3>2
  <2>4. ASSUME NEW w \in Workers, w = caller[t]
        PROVE  WorkerOrder(w)'
    <3>1. w # NoWorker /\ WorkerOrder(w)
      BY <1>0, <1>2
    <3>2. w \in answered'
      BY <1>0, <2>1, <2>4
    <3>3. stage[w] = "pushing" => Stored(w, iteration[w])
      <4>1. /\ request[t].op = Awaited[stage[w]] /\ request[t].iteration = iteration[w]
            /\ request[t].op = "ReceiveGradients" => request[t].worker = w
        BY <2>4, <3>1 DEF CallInv
      <4>2. stage[w] = "pushing" => AnsweredPush(t) /\ request[t].worker = w
        BY <2>1, <4>1 DEF Awaited, AnsweredPush, Answered
      <4>. QED  BY <1>2, <4>1, <4>2
    <3>4. /\ StoredBelow(w, iteration[w])' /\ (Stored(w, iteration[w]) => Stored(w, iteration[w])')
          /\ UNCHANGED stage[w]
      BY <2>1, <3>1 DEF WorkerOrder, StoredBelow, Stored
    <3>. QED  BY <3>1, <3>2, <3>3, <3>4 DEF WorkerOrder
  <2>5. \A r \in late' : StoredBelow(r.worker, r.iteration)'
    BY <1>2, <1>4, <2>1
  <2>. QED  BY <1>2, <1>3, <1>4, <2>1, <2>2, <2>3, <2>4, <2>5
<1>9. ASSUME NEW t \in Threads, StartLatePush(t)
      PROVE  OrderInv'
  <2>1. PICK r \in late : EnterReceive(t, r.worker, r.iteration, r.gradients) /\ late' = late \ {r}
    BY <1>9 DEF StartLatePush
  <2>2. UNCHANGED <<stage, iteration, caller, answered, server_up, aggregated, worker_gradients>>
    BY <1>9, <2>1 DEF StartLatePush, EnterReceive, coreVars, workerVars, inboxVars
  <2>3. /\ request'[t].worker = r.worker /\ request'[t].iteration = r.iteration
        /\ pc'[t] \in {"raising", "storing"}
        /\ \A u \in Threads \ {t} : pc'[u] = pc[u] /\ request'[u] = request[u]
    BY <1>0, <2>1 DEF EnterReceive, Goto, TypeOK
  <2>4. ASSUME NEW u \in Threads
        PROVE  /\ pc'[u] \in InReceive => StoredBelow(request[u].worker, request[u].iteration)'
               /\ AnsweredPush(u)' => Stored(request[u].worker, request[u].iteration)'
    <3>1. CASE u = t
      BY <1>2, <2>2, <2>3, <3>1 DEF AnsweredPush, Answered, Received, StoredBelow, Stored
    <3>2. CASE u # t
      BY <1>2, <2>2, <2>3, <3>2 DEF AnsweredPush, Answered, StoredBelow, Stored
    <3>. QED  BY <3>1, <3>2
  <2>5. \A v \in Workers : WorkerOrder(v)'
    BY <1>5, <2>2
  <2>6. \A s \in late' : StoredBelow(s.worker, s.iteration)'
    BY <1>2, <1>4, <2>1, <2>2
  <2>. QED  BY <1>2, <1>3, <1>4, <2>2, <2>4, <2>5, <2>6
<1>10. ASSUME NEW w \in Workers, TakeAnswer(w)
       PROVE  OrderInv'
  <2>1. /\ UNCHANGED <<pc, request, aggregated, worker_gradients, caller, late, server_up>>
        /\ answered' = answered \ {w}
    BY <1>10, TakeAnswerKeeps DEF vars, coreVars
  <2>2. /\ Frame(w) /\ iteration[w] \in Iterations /\ w \in answered
        /\ \/ Stays(w, "pull", grads[w]) \/ Stays(w, "push", Len(answer[w].parameters))
           \/ stage[w] \in {"pushing", "polling"} /\ Stays(w, "poll", grads[w])
           \/ stage[w] = "polling" /\ Leaves(w, FALSE)
           \/ stage[w] \in {"pushing", "polling"} /\ answer[w].ready /\ Leaves(w, TRUE)
    BY <1>10, TakeAnswerMoves DEF Stays, Leaves
  <2>3. ASSUME NEW v \in Workers \ {w}
        PROVE  WorkerOrder(v)'
    BY <1>5, <2>1, <2>2 DEF Frame
  <2>4. WorkerOrder(w)'
    <3> DEFINE i == iteration[w]
    <3>1. /\ StoredBelow(w, i)
          /\ stage[w] \in {"pushing", "polling"} => Stored(w, i)
      BY <1>2, <2>2 DEF WorkerOrder
    <3>2. \/ iteration'[w] = i /\ stage'[w] \in {"pull", "push", "done"}
          \/ iteration'[w] = i /\ stage'[w] = "poll" /\ Stored(w, i)
          \/ iteration'[w] = i + 1 /\ stage'[w] \in {"pull", "done"} /\ Stored(w, i)
      BY <2>2, <3>1 DEF Stays, Leaves
    <3>3. \A j \in Iterations : j < i + 1 => j < i \/ j = i
      BY <2>2, Numbers
    <3>4. StoredBelow(w, iteration'[w])
      BY <3>1, <3>2, <3>3 DEF StoredBelow
    <3>5. StoredBelow(w, iteration[w])'
      BY <2>1, <3>4 DEF StoredBelow, Stored
    <3>6. stage'[w] \in {"poll", "polling"} => Stored(w, iteration[w])'
      BY <2>1, <3>2 DEF Stored
    <3>7. stage'[w] \notin Calling
      BY <3>2
    <3>. QED  BY <3>5, <3>6, <3>7 DEF WorkerOrder
  <2>5. \A t \in Threads :
          /\ pc'[t] \in InReceive => StoredBelow(request[t].worker, request[t].iteration)'
          /\ AnsweredPush(t)' => Stored(request[t].worker, request[t].iteration)'
    BY <1>2, <2>1 DEF AnsweredPush, Answered, StoredBelow, Stored
  <2>6. \A r \in late' : StoredBelow(r.worker, r.iteration)'
    BY <1>2, <1>4, <2>1
  <2>. QED  BY <1>2, <1>3, <1>4, <2>1, <2>3, <2>4, <2>5, <2>6
<1>11. ASSUME NEW w \in Workers, RestartWorker(w)
       PROVE  OrderInv'
  <2>1. /\ Frame(w)
        /\ stage'[w] = "pull" /\ iteration'[w] = 0
        /\ UNCHANGED <<pc, request, aggregated, worker_gradients, server_up>>
        /\ late' = late \/ late' = late \cup {Push(w)}
        /\ \A t \in Threads : caller'[t] = IF caller[t] = w THEN NoWorker ELSE caller[t]
        /\ answered' = answered \ {w}
    BY <1>11, RestartMoves DEF vars, coreVars
  <2>2. \A t \in Threads :
          /\ pc'[t] \in InReceive => StoredBelow(request[t].worker, request[t].iteration)'
          /\ AnsweredPush(t)' => Stored(request[t].worker, request[t].iteration)'
    BY <1>2, <2>1 DEF AnsweredPush, Answered, StoredBelow, Stored
  <2>3. WorkerOrder(w)'
    <3>1. \A j \in Iterations : ~(j < 0)
      BY Numbers
    <3>. QED  BY <2>1, <3>1 DEF WorkerOrder, StoredBelow
  <2>4. ASSUME NEW v \in Workers \ {w}
        PROVE  WorkerOrder(v)'
    BY <1>5, <2>1 DEF Frame
  <2>5. ASSUME NEW r \in late'
        PROVE  StoredBelow(r.worker, r.iteration)'
    <3>1. CASE r \in late
      BY <1>2, <1>4, <2>1, <3>1
    <3>2. CASE r = Push(w)
      <4>1. r.worker = w /\ r.iteration = iteration[w]
        BY <3>2 DEF Push
      <4>. QED  BY <1>2, <1>4, <2>1, <4>1 DEF WorkerOrder
    <3>. QED  BY <2>1, <3>1, <3>2
  <2>. QED  BY <1>2, <1>3, <1>4, <2>1, <2>2, <2>3, <2>4, <2>5
<1>. QED  BY <1>1, <1>6, <1>7, <1>8, <1>9, <1>10, <1>11, CalmSteps DEF Finished

\* An iteration that is not in the model is the next one or a later one, and
\* one whose predecessors are all in is the next one or an earlier one.
LEMMA OpenLength ==
  ASSUME IInv, InOrder, Calm, NEW i \in Iterations
  PROVE  /\ ~Applied(i, parameters_) => Len(parameters_) <= i
         /\ (\A j \in Iterations : j < i => Applied(j, parameters_)) => i <= Len(parameters_)
<1>1. i \in Nat /\ Len(parameters_) \in Nat
  BY Numbers DEF IInv, TypeOK
<1>2. \A k \in 1..Len(parameters_) : parameters_[k].iteration = k - 1
  BY DEF InOrder, Calm
<1>3. ASSUME ~(Len(parameters_) <= i)
      PROVE  Applied(i, parameters_)
  <2>1. i + 1 \in 1..Len(parameters_) /\ (i + 1) - 1 = i
    BY <1>1, <1>3
  <2>2. parameters_[i + 1].iteration = i
    BY <1>2, <2>1
  <2>. QED  BY <2>1, <2>2 DEF Applied
<1>4. ASSUME \A j \in Iterations : j < i => Applied(j, parameters_)
      PROVE  i <= Len(parameters_)
  <2>1. CASE i = 0
    BY <1>1, <2>1
  <2>2. CASE i # 0
    <3>1. i - 1 \in Iterations /\ i - 1 < i
      BY <1>1, <2>2, Numbers
    <3>2. PICK k \in 1..Len(parameters_) : parameters_[k].iteration = i - 1
      BY <1>4, <3>1 DEF Applied
    <3>3. k - 1 = i - 1 /\ k \in Nat /\ k <= Len(parameters_)
      BY <1>1, <1>2, <3>2
    <3>. QED  BY <1>1, <3>3
  <2>. QED  BY <2>1, <2>2
<1>. QED  BY <1>3, <1>4

\* The senders of an iteration being folded were senders of all earlier ones,
\* which have their quorum too and are aggregated: it is the next in order.
LEMMA FoldsTheNext ==
  ASSUME IInv, OrderInv, InOrder, Calm, NEW t \in Threads, pc[t] = "averaging"
  PROVE  request[t].iteration = Len(parameters_)
<1> DEFINE i == request[t].iteration
<1>1. i \in Iterations /\ ~aggregated[i] /\ WorkersReceived(i) = total_workers
  BY DEF IInv, RequestInv, FoldingInv, Folding, InReceive, PushRequest
<1>2. \A u \in Threads : pc[u] \in Folding => u = t
  BY ParameterServerAssumption DEF IInv, LockInv, Folding, InReceive
<1>3. ~Applied(i, parameters_)
  <2>1. ~Marking(i)
    BY <1>2 DEF Marking, Folding
  <2>. QED  BY <1>1, <2>1 DEF IInv, AppliedExactlyOnce
<1>4. ASSUME NEW j \in Iterations, j < i
      PROVE  Applied(j, parameters_)
  <2>1. j # i
    BY <1>1, <1>4, Numbers
  <2>2. CASE aggregated[j]
    BY <2>2 DEF IInv, AppliedExactlyOnce
  <2>3. CASE ~aggregated[j]
    <3>1. Senders(worker_gradients[i]) \in SUBSET Senders(worker_gradients[j])
      <4> SUFFICES ASSUME NEW w \in Senders(worker_gradients[i])
                   PROVE  w \in Senders(worker_gradients[j])
        OBVIOUS
      <4>1. StoredBelow(w, i)
        BY <1>1 DEF OrderInv
      <4>2. w \in Workers /\ worker_gradients[j][w] # NoGradient
        BY <1>4, <2>3, <4>1 DEF StoredBelow, Stored, Senders
      <4>. QED  BY <4>2 DEF Senders
    <3>2. WorkersReceived(i) <= WorkersReceived(j)
      BY <3>1, SendersFinite, FS_Subset DEF WorkersReceived
    <3>3. WorkersReceived(j) <= total_workers /\ WorkersReceived(j) \in Nat
      BY SendersFinite DEF IInv, QuorumInv, WorkersReceived
    <3>4. WorkersReceived(j) = total_workers
      <4>1. total_workers <= WorkersReceived(j)
        BY <1>1, <3>2
      <4>. QED  BY <3>3, <4>1, ParameterServerAssumption
    <3>5. PICK u \in Threads : pc[u] \in Folding /\ request[u].iteration = j
      BY <2>3, <3>4 DEF IInv, QuorumInv
    <3>. QED  BY <1>2, <2>1, <3>5
  <2>. QED  BY <2>2, <2>3
<1>5. i \in Nat /\ Len(parameters_) \in Nat
  BY <1>1, Numbers DEF IInv, TypeOK
<1>6. Len(parameters_) <= i /\ i <= Len(parameters_)
  BY <1>1, <1>3, <1>4, OpenLength
<1> HIDE DEF i
<1>7. i = Len(parameters_)
  BY <1>5, <1>6
<1>. QED  BY <1>7 DEF i

\* Without faults only AggregateGradients changes the model.
LEMMA ModelKeeps ==
  ASSUME LocalsTypeOK, OrderInv, [TrainingNext]_trainingVars, Calm'
  PROVE  /\ Calm
         /\ \/ UNCHANGED parameters_
            \/ \E t \in Threads : RunHandler(t) /\ AggregateGradients(t)
<1>1. CASE UNCHANGED trainingVars
  BY <1>1 DEF trainingVars, vars, coreVars, faultVars, Calm
<1>2. ASSUME TrainingNext
      PROVE  /\ Calm
             /\ \/ UNCHANGED parameters_
                \/ \E t \in Threads : RunHandler(t) /\ AggregateGradients(t)
  <2>1. ASSUME NEW t \in Threads, RunHandler(t), ~AggregateGradients(t)
        PROVE  UNCHANGED parameters_
    BY <2>1 DEF RunHandler, HandlerStep, RaiseIteration, SkipAggregated, StoreGradients,
                MarkAggregated, ReplyReceive, ReplyServe, coreVars
  <2>2. ASSUME NEW t \in Threads, NEW w \in Workers, StartCall(w, t)
        PROVE  UNCHANGED parameters_
    BY <2>2 DEF StartCall, ServeParameters, EnterReceive, CheckSyncStatus, coreVars
  <2>3. ASSUME NEW t \in Threads, SendAnswer(t) \/ StartLatePush(t)
        PROVE  UNCHANGED parameters_
    BY <2>3 DEF SendAnswer, StartLatePush, FinishCall, EnterReceive, coreVars
  <2>4. ASSUME NEW w \in Workers, TakeAnswer(w) \/ RestartWorker(w)
        PROVE  UNCHANGED parameters_
    BY <2>4 DEF TakeAnswer, RestartWorker, vars, coreVars
  <2>5. ASSUME Finished
        PROVE  UNCHANGED parameters_
    BY <2>5 DEF Finished, trainingVars, vars, coreVars
  <2>. QED  BY <1>2, <2>1, <2>2, <2>3, <2>4, <2>5, CalmSteps
<1>. QED  BY <1>1, <1>2

\* So the model grows by the next iteration.
LEMMA InOrderStep ==
  ASSUME IInv, LocalsTypeOK, OrderInv, InOrder, [TrainingNext]_trainingVars
  PROVE  InOrder'
<1> SUFFICES ASSUME Calm'
             PROVE  \A k \in 1..Len(parameters_') : parameters_'[k].iteration = k - 1
  BY DEF InOrder, Calm
<1>1. Calm /\ \A k \in 1..Len(parameters_) : parameters_[k].iteration = k - 1
  BY ModelKeeps DEF InOrder, Calm
<1>2. CASE UNCHANGED parameters_
  BY <1>1, <1>2
<1>3. ASSUME NEW t \in Threads, AggregateGradients(t)
      PROVE  \A k \in 1..Len(parameters_') : parameters_'[k].iteration = k - 1
  <2> DEFINE n == Len(parameters_)
             u == [iteration |-> request[t].iteration,
                   contributions |-> worker_gradients[request[t].iteration]]
  <2>1. parameters_' = Append(parameters_, u) /\ u.iteration = n
    BY <1>1, <1>3, FoldsTheNext DEF AggregateGradients
  <2>2. parameters_ \in Seq(Update) /\ n \in Nat
    BY DEF IInv, TypeOK
  <2> HIDE DEF u
  <2>3. /\ Len(parameters_') = n + 1
        /\ \A k \in 1..n : parameters_'[k] = parameters_[k]
        /\ parameters_'[n + 1] = u
    BY <2>1, <2>2
  <2> HIDE DEF n
  <2>4. \A k \in 1..(n + 1) : k \in 1..n \/ k = n + 1
    BY <2>2
  <2>5. (n + 1) - 1 = n
    BY <2>2
  <2>. QED  BY <1>1, <2>1, <2>3, <2>4, <2>5 DEF n
<1>. QED  BY <1>2, <1>3, ModelKeeps

-----------------------------------------------------------------------------
(* The model the gradients come from *)

\* A thread that handles a pull keeps its copy of the model.
LEMMA HandlerKeepsCopy ==
  ASSUME IInv, NEW t \in Threads, HandlerStep(t), request[t].op = "ServeParameters"
  PROVE  response'[t].parameters = response[t].parameters
<1> USE DEF IInv, TypeOK, coreVars
<1>1. ~ReplyReceive(t)
  BY DEF ReplyReceive, RequestInv, PushRequest
<1>2. CASE ReplyServe(t)
  BY <1>2 DEF ReplyServe, Response
<1>3. ASSUME ~ReplyServe(t)
      PROVE  UNCHANGED response
  BY <1>1, <1>3 DEF HandlerStep, RaiseIteration, SkipAggregated, StoreGradients, AggregateGradients,
                    MarkAggregated
<1>. QED  BY <1>2, <1>3

\* Updates are never removed while the server is up.
LEMMA ModelGrows ==
  ASSUME IInv, LocalsTypeOK, OrderInv, [TrainingNext]_trainingVars, Calm'
  PROVE  /\ Len(parameters_) \in Nat /\ Len(parameters_') \in Nat
         /\ Len(parameters_) <= Len(parameters_')
<1>1. parameters_ \in Seq(Update) /\ Len(parameters_) \in Nat
  BY DEF IInv, TypeOK
<1>2. CASE UNCHANGED parameters_
  BY <1>1, <1>2
<1>3. ASSUME NEW t \in Threads, AggregateGradients(t)
      PROVE  Len(parameters_') = Len(parameters_) + 1
  BY <1>1, <1>3 DEF AggregateGradients
<1>. QED  BY <1>1, <1>2, <1>3, ModelKeeps

\* Who has not given up on any iteration before its own has completed them all
\* and finds them in the model.
LEMMA PulledModel ==
  ASSUME IInv, LocalsTypeOK, DoneInv, InOrder, Calm,
         NEW w \in Workers, WorkerBasis(w), Clean(iteration[w])
  PROVE  iteration[w] <= Len(parameters_)
<1>1. iteration[w] \in Iterations
  BY DEF LocalsTypeOK, WorkerTypeOK
<1>2. ASSUME NEW j \in Iterations, j < iteration[w]
      PROVE  Applied(j, parameters_)
  <2>1. j \in completed[w] \cup gave_up[w]
    BY <1>2 DEF WorkerBasis
  <2>2. j \notin gave_up[w]
    <3>1. j \in gave_up[w] => j >= iteration[w]
      BY DEF Clean
    <3>. QED  BY <1>1, <1>2, <3>1, Numbers
  <2>3. aggregated[j]
    BY <2>1, <2>2 DEF DoneInv, Calm
  <2>. QED  BY <2>3 DEF IInv, AppliedExactlyOnce
<1>. QED  BY <1>1, <1>2, OpenLength

\* A worker that does not move keeps its part, and so do a late push and a
\* thread whose call goes on.
LEMMA BasisKept ==
  ASSUME IInv, LocalsTypeOK, OrderInv, [TrainingNext]_trainingVars, Calm',
         \A i \in Iterations : Clean(i)' => Clean(i)
  PROVE  /\ \A w \in Workers :
              /\ WorkerBasis(w)
              /\ iteration'[w] = iteration[w] /\ grads'[w] = grads[w]
              /\ completed'[w] = completed[w] /\ gave_up'[w] = gave_up[w]
              /\ stage'[w] \in {"push", "pushing"} => stage[w] \in {"push", "pushing"}
              /\ stage'[w] = "pulling" /\ w \in answered' =>
                   stage[w] = "pulling" /\ w \in answered /\ answer'[w] = answer[w]
              => WorkerBasis(w)'
         /\ \A r \in PushRequest : LateBasis(r) => LateBasis(r)'
         /\ \A t \in Threads :
              /\ ThreadBasis(t)
              /\ pc'[t] \in InReceive => pc[t] \in InReceive
              /\ pc[t] \in InReceive => request[t] \in PushRequest
              /\ request'[t] = request[t]
              /\ request[t].op = "ServeParameters" =>
                   /\ request[t].iteration \in Iterations
                   /\ response'[t].parameters = response[t].parameters
              /\ caller'[t] \in {caller[t], NoWorker}
              => ThreadBasis(t)'
<1>1. /\ Len(parameters_) \in Nat /\ Len(parameters_') \in Nat
      /\ Len(parameters_) <= Len(parameters_')
  BY ModelGrows
<1>2. ASSUME NEW w \in Workers, WorkerBasis(w),
             iteration'[w] = iteration[w], grads'[w] = grads[w],
             completed'[w] = completed[w], gave_up'[w] = gave_up[w],
             stage'[w] \in {"push", "pushing"} => stage[w] \in {"push", "pushing"},
             stage'[w] = "pulling" /\ w \in answered' =>
               stage[w] = "pulling" /\ w \in answered /\ answer'[w] = answer[w]
      PROVE  WorkerBasis(w)'
  <2>1. iteration[w] \in Iterations /\ grads[w] \in Nat
    BY Numbers DEF LocalsTypeOK, WorkerTypeOK
  <2>2. grads'[w] <= Len(parameters_')
    <3>1. grads[w] <= Len(parameters_)
      BY <1>2 DEF WorkerBasis
    <3>. QED  BY <1>1, <1>2, <2>1, <3>1
  <2>3. Clean(iteration[w])' => Clean(iteration[w])
    BY <1>2, <2>1 DEF Clean
  <2>4. ASSUME stage'[w] = "pulling", w \in answered'
        PROVE  /\ Clean(iteration[w]) => Len(answer'[w].parameters) >= iteration'[w]
               /\ Len(answer'[w].parameters) <= Len(parameters_')
    <3>1. answer[w] \in Response
      BY DEF LocalsTypeOK
    <3>2. Len(answer[w].parameters) \in Nat
      BY <3>1 DEF Response
    <3>3. /\ Clean(iteration[w]) => Len(answer[w].parameters) >= iteration[w]
          /\ Len(answer[w].parameters) <= Len(parameters_)
      BY <1>2, <2>4 DEF WorkerBasis
    <3>. QED  BY <1>1, <1>2, <2>4, <3>2, <3>3
  <2>. QED  BY <1>2, <2>2, <2>3, <2>4 DEF WorkerBasis
<1>3. ASSUME NEW t \in Threads, ThreadBasis(t),
             pc'[t] \in InReceive => pc[t] \in InReceive,
             pc[t] \in InReceive => request[t] \in PushRequest,
             request'[t] = request[t],
             request[t].op = "ServeParameters" =>
               request[t].iteration \in Iterations /\ response'[t].parameters = response[t].parameters,
             caller'[t] \in {caller[t], NoWorker}
      PROVE  ThreadBasis(t)'
  <2>1. ASSUME pc'[t] \in InReceive
        PROVE  /\ Clean(request[t].iteration)' => request'[t].gradients >= request'[t].iteration
               /\ request'[t].gradients <= Len(parameters_')
    <3>1. request[t].iteration \in Iterations /\ request[t].gradients \in Nat
      BY <1>3, <2>1, Numbers DEF PushRequest
    <3>2. Clean(request[t].iteration)' => Clean(request[t].iteration)
      BY <1>3, <3>1 DEF Clean
    <3>3. request[t].gradients <= Len(parameters_)
      BY <1>3, <2>1 DEF ThreadBasis
    <3>4. request'[t].gradients <= Len(parameters_')
      BY <1>1, <1>3, <3>1, <3>3
    <3>. QED  BY <1>3, <2>1, <3>2, <3>4 DEF ThreadBasis
  <2>2. ASSUME caller'[t] # NoWorker, request'[t].op = "ServeParameters", Clean(request[t].iteration)'
        PROVE  Len(response'[t].parameters) >= request'[t].iteration
    <3>1. Clean(request[t].iteration)
      BY <1>3, <2>2 DEF Clean
    <3>. QED  BY <1>3, <2>2, <3>1 DEF ThreadBasis
  <2>. QED  BY <2>1, <2>2 DEF ThreadBasis
<1>4. ASSUME NEW r \in PushRequest, LateBasis(r)
      PROVE  LateBasis(r)'
  <2>1. r.iteration \in Iterations /\ r.gradients \in Nat
    BY Numbers DEF PushRequest
  <2>2. Clean(r.iteration)' => Clean(r.iteration)
    BY <2>1
  <2>3. r.gradients <= Len(parameters_')
    BY <1>1, <1>4, <2>1 DEF LateBasis
  <2>. QED  BY <1>4, <2>2, <2>3 DEF LateBasis
<1>. QED  BY <1>2, <1>3, <1>4

\* Gradients come from the model that was pulled for their iteration, and reach
\* worker_gradients before that iteration is in the model.
LEMMA BasisStep ==
  ASSUME IInv, LocalsTypeOK, CallInv, InboxInv, CopyInv, DoneInv, OrderInv, InOrder, BasisInv,
         IInv', [TrainingNext]_trainingVars
  PROVE  BasisInv'
<1>0. /\ TypeOK /\ RequestInv /\ RequestInv'
      /\ NoWorker \notin Workers
      /\ caller \in [Threads -> Workers \cup {NoWorker}]
      /\ iteration \in [Workers -> Iterations]
      /\ grads \in [Workers -> Gradients]
      /\ gave_up \in [Workers -> SUBSET Iterations]
      /\ answered \subseteq Workers /\ late \subseteq PushRequest
  BY TrainingAssumption DEF IInv, LocalsTypeOK, WorkerTypeOK
<1>1. CASE UNCHANGED trainingVars
  BY <1>1
     DEF trainingVars, vars, coreVars, workerVars, history, faultVars, inboxVars, BasisInv, Calm,
         Clean, WorkerBasis, LateBasis, ThreadBasis, StoredBasis
<1> SUFFICES ASSUME TrainingNext, Calm'
             PROVE  BasisInv'
  BY <1>1 DEF BasisInv
<1>2. /\ Calm
      /\ \A w \in Workers : WorkerBasis(w)
      /\ \A r \in late : LateBasis(r)
      /\ \A t \in Threads : ThreadBasis(t)
      /\ \A i \in Iterations : StoredBasis(i)
  BY CalmSteps DEF BasisInv
<1>3. /\ Len(parameters_) \in Nat /\ Len(parameters_') \in Nat
      /\ Len(parameters_) <= Len(parameters_')
  BY ModelGrows
<1>4. \A t \in Threads :
        /\ pc[t] \in InReceive => request[t] \in PushRequest
        /\ request[t].op = "ServeParameters" => request[t].iteration \in Iterations
  BY <1>0 DEF TypeOK, RequestInv, PushRequest, PullRequest, SyncStatusRequest, NoRequest
\* What a step has to show.
<1>5. ASSUME \A w \in Workers : WorkerBasis(w)', \A r \in late' : LateBasis(r)',
             \A t \in Threads : ThreadBasis(t)', \A i \in Iterations : StoredBasis(i)'
      PROVE  BasisInv'
  BY <1>5 DEF BasisInv
\* Steps that store nothing.
<1>6. ASSUME UNCHANGED worker_gradients, \A i \in Iterations : Clean(i)' => Clean(i)
      PROVE  /\ \A i \in Iterations : StoredBasis(i)'
             /\ \A r \in late : LateBasis(r)'
  <2>1. \A r \in late : LateBasis(r)'
    BY <1>0, <1>2, <1>6, BasisKept
  <2>2. \A i \in Iterations : StoredBasis(i)'
    BY <1>2, <1>6 DEF StoredBasis
  <2>. QED  BY <2>1, <2>2
<1>7. ASSUME NEW w \in Workers, NEW t \in Threads, StartCall(w, t)
      PROVE  BasisInv'
  <2>1. /\ pc[t] = "idle"
        /\ Stays(w, WaitingFor[stage[w]], grads[w])
        /\ stage[w] \in {"pull", "push", "poll"}
        /\ caller' = [caller EXCEPT ![t] = w]
        /\ UNCHANGED <<late, answered, answer, server_up, coreVars>>
    BY <1>7, StartCallMoves
  <2>2. \A v \in Workers :
          /\ iteration'[v] = iteration[v] /\ grads'[v] = grads[v]
          /\ completed'[v] = completed[v] /\ gave_up'[v] = gave_up[v]
          /\ stage'[v] \in {"push", "pushing"} => stage[v] \in {"push", "pushing"}
          /\ stage'[v] = "pulling" /\ v \in answered' => stage[v] = "pulling"
    <3>1. w \notin answered
      BY <2>1 DEF InboxInv, Calling
    <3>. QED  BY <2>1, <3>1 DEF Stays, Frame, WaitingFor
  <2>3. \A i \in Iterations : Clean(i)' => Clean(i)
    BY <2>2 DEF Clean
  <2>4. \A v \in Workers : WorkerBasis(v)'
    BY <1>2, <2>1, <2>2, <2>3, BasisKept
  <2>5. ASSUME NEW u \in Threads, u # t
        PROVE  ThreadBasis(u)'
    <3>1. pc'[u] = pc[u] /\ request'[u] = request[u] /\ response'[u] = response[u]
      BY <1>0, <1>7, <2>5, StartCallRequest
    <3>2. caller'[u] = caller[u]
      BY <1>0, <2>1, <2>5
    <3>. QED  BY <1>2, <1>4, <2>3, <3>1, <3>2, BasisKept
  <2>6. ThreadBasis(t)'
    <3> DEFINE i == iteration[w]
    <3>1. /\ request'[t].iteration = i
          /\ request'[t].op = Awaited[WaitingFor[stage[w]]]
          /\ request'[t].op = "ReceiveGradients" => request'[t].gradients = grads[w]
      BY <1>0, <1>7, StartCallRequest
    <3>2. i \in Iterations
      BY <1>0
    <3>3. UNCHANGED parameters_
      BY <2>1 DEF coreVars
    <3>4. ASSUME pc'[t] \in InReceive
          PROVE  /\ Clean(i) => request'[t].gradients >= i
                 /\ request'[t].gradients <= Len(parameters_)
      <4>1. request'[t].op = "ReceiveGradients"
        BY <1>0, <3>4 DEF RequestInv, PushRequest
      <4>2. stage[w] = "push"
        BY <2>1, <3>1, <4>1 DEF Awaited, WaitingFor
      <4>. QED  BY <1>2, <3>1, <4>1, <4>2 DEF WorkerBasis
    <3>5. ASSUME request'[t].op = "ServeParameters", Clean(i)
          PROVE  Len(response'[t].parameters) >= i
      <4>1. stage[w] = "pull"
        BY <2>1, <3>1, <3>5 DEF Awaited, WaitingFor
      <4>2. ServeParameters(t, i)
        BY <1>7, <4>1 DEF StartCall
      <4>3. response'[t].parameters = parameters_
        BY <1>0, <4>2 DEF ServeParameters, TypeOK, Response
      <4>4. i <= Len(parameters_)
        BY <1>2, <3>5, PulledModel
      <4>5. i \in Nat
        BY <3>2, Numbers
      <4>. QED  BY <1>3, <4>3, <4>4, <4>5
    <3>6. Clean(request[t].iteration)' => Clean(i)
      BY <2>2, <3>1 DEF Clean
    <3> HIDE DEF i
    <3>. QED  BY <3>1, <3>3, <3>4, <3>5, <3>6 DEF ThreadBasis
  <2>7. UNCHANGED worker_gradients
    BY <2>1 DEF coreVars
  <2>. QED  BY <1>5, <1>6, <2>1, <2>3, <2>4, <2>5, <2>6, <2>7
<1>8. ASSUME NEW t \in Threads, RunHandler(t)
      PROVE  BasisInv'
  <2>1. /\ HandlerStep(t)
        /\ UNCHANGED <<stage, iteration, grads, completed, gave_up, caller, late, answered, answer>>
    BY <1>8 DEF RunHandler, workerVars, history, inboxVars
  <2>2. \A i : Clean(i)' <=> Clean(i)
    BY <2>1 DEF Clean
  <2>3. \A v \in Workers : WorkerBasis(v)'
    BY <1>2, <2>1, <2>2, BasisKept
  <2>4. ASSUME NEW u \in Threads
        PROVE  ThreadBasis(u)'
    <3>1. /\ UNCHANGED request
          /\ u # t => pc'[u] = pc[u] /\ response'[u] = response[u]
      BY <1>0, <2>1, HandlerKeeps
    <3>2. pc'[u] \in InReceive => pc[u] \in InReceive
      BY <2>1, <3>1, HandlerStores
    <3>3. request[u].op = "ServeParameters" => response'[u].parameters = response[u].parameters
      BY <2>1, <3>1, HandlerKeepsCopy
    <3>. QED  BY <1>2, <1>4, <2>1, <2>2, <3>1, <3>2, <3>3, BasisKept
  <2>5. ASSUME NEW i \in Iterations
        PROVE  StoredBasis(i)'
    <3> SUFFICES ASSUME NEW v \in Senders(worker_gradients'[i])
                 PROVE  /\ worker_gradients'[i][v] <= i
                        /\ Clean(i) => worker_gradients'[i][v] >= i
      BY <2>2 DEF StoredBasis
    <3>1. CASE v \in Senders(worker_gradients[i]) /\ worker_gradients'[i][v] = worker_gradients[i][v]
      BY <1>2, <3>1 DEF StoredBasis
    <3>2. CASE /\ pc[t] = "storing" /\ ~aggregated[i] /\ i = request[t].iteration
               /\ worker_gradients'[i][v] = request[t].gradients
      <4>1. /\ Clean(i) => request[t].gradients >= i
            /\ request[t].gradients <= Len(parameters_)
        BY <1>2, <3>2 DEF ThreadBasis, InReceive
      <4>2. ~Marking(i)
        BY <3>2, ParameterServerAssumption DEF IInv, LockInv, InReceive, Marking
      <4>3. Len(parameters_) <= i
        BY <1>2, <3>2, <4>2, OpenLength DEF IInv, AppliedExactlyOnce
      <4>4. request[t].gradients \in Nat /\ i \in Nat
        BY <1>4, <3>2, Numbers DEF PushRequest, InReceive
      <4>5. request[t].gradients <= i
        BY <1>3, <4>1, <4>3, <4>4
      <4>. QED  BY <3>2, <4>1, <4>5
    <3>. QED  BY <2>1, <3>1, <3>2, HandlerStores
  <2>6. \A r \in late' : LateBasis(r)'
    BY <1>0, <1>2, <2>1, <2>2, BasisKept
  <2>. QED  BY <1>5, <2>3, <2>4, <2>5, <2>6
<1>9. ASSUME NEW t \in Threads, SendAnswer(t)
      PROVE  BasisInv'
  <2>1. /\ caller' = [caller EXCEPT ![t] = NoWorker]
        /\ UNCHANGED <<stage, iteration, grads, completed, gave_up, late>>
        /\ UNCHANGED <<worker_gradients, parameters_>>
        /\ pc'[t] = "idle"
        /\ \A u \in Threads \ {t} :
             pc'[u] = pc[u] /\ request'[u] = request[u] /\ response'[u] = response[u]
        /\ \/ /\ caller[t] \in Workers
              /\ answered' = answered \cup {caller[t]}
              /\ answer' = [answer EXCEPT ![caller[t]] = response[t]]
           \/ caller[t] = NoWorker /\ UNCHANGED <<answered, answer>>
    BY <1>9, SendAnswerKeeps DEF coreVars
  <2>2. \A i : Clean(i)' <=> Clean(i)
    BY <2>1 DEF Clean
  <2>3. ASSUME NEW v \in Workers, v # caller[t]
        PROVE  WorkerBasis(v)'
    <3>1. (v \in answered' => v \in answered) /\ answer'[v] = answer[v]
      BY <2>1, <2>3 DEF LocalsTypeOK
    <3>. QED  BY <1>2, <2>1, <2>2, <3>1, BasisKept
  <2>4. ASSUME NEW w \in Workers, w = caller[t]
        PROVE  WorkerBasis(w)'
    <3> DEFINE i == iteration[w]
    <3>1. WorkerBasis(w) /\ caller[t] # NoWorker
      BY <1>0, <1>2, <2>4
    <3>2. answer'[w] = response[t]
      BY <2>1, <2>4, <3>1 DEF LocalsTypeOK
    <3>3. ASSUME stage[w] = "pulling"
          PROVE  /\ Clean(i) => Len(response[t].parameters) >= i
                 /\ Len(response[t].parameters) <= Len(parameters_)
      <4>1. request[t].op = "ServeParameters" /\ request[t].iteration = i
        BY <2>4, <3>1, <3>3 DEF CallInv, Awaited
      <4>. QED  BY <1>2, <3>1, <4>1 DEF ThreadBasis, CopyInv
    <3>4. /\ Clean(iteration[w])' <=> Clean(i)
          /\ UNCHANGED <<stage[w], iteration[w], grads[w], completed[w], gave_up[w], parameters_>>
      BY <2>1 DEF Clean
    <3>. QED  BY <3>1, <3>2, <3>3, <3>4 DEF WorkerBasis
  <2>5. ASSUME NEW u \in Threads
        PROVE  ThreadBasis(u)'
    <3>1. CASE u = t
      <4>1. caller'[u] = NoWorker /\ pc'[u] \notin InReceive
        BY <1>0, <2>1, <3>1 DEF InReceive
      <4>. QED  BY <4>1 DEF ThreadBasis
    <3>2. CASE u # t
      <4>1. caller'[u] = caller[u] /\ pc'[u] = pc[u] /\ request'[u] = request[u] /\ response'[u] = response[u]
        BY <1>0, <2>1, <3>2
      <4>. QED  BY <1>2, <1>4, <2>2, <4>1, BasisKept
    <3>. QED  BY <3>1, <3>2
  <2>. QED  BY <1>5, <1>6, <2>1, <2>2, <2>3, <2>4, <2>5
<1>10. ASSUME NEW t \in Threads, StartLatePush(t)
       PROVE  BasisInv'
  <2>1. PICK r \in late : EnterReceive(t, r.worker, r.iteration, r.gradients) /\ late' = late \ {r}
    BY <1>10 DEF StartLatePush
  <2>2. /\ UNCHANGED <<stage, iteration, grads, completed, gave_up, caller, answered, answer>>
        /\ UNCHANGED <<worker_gradients, parameters_, response>>
    BY <1>10, <2>1 DEF StartLatePush, EnterReceive, coreVars, workerVars, history, inboxVars
  <2>3. /\ pc[t] = "idle"
        /\ request'[t].iteration = r.iteration /\ request'[t].gradients = r.gradients
        /\ request'[t].op = "ReceiveGradients"
        /\ \A u \in Threads \ {t} : pc'[u] = pc[u] /\ request'[u] = request[u]
    BY <1>0, <2>1 DEF EnterReceive, Goto, TypeOK
  <2>4. \A i : Clean(i)' <=> Clean(i)
    BY <2>2 DEF Clean
  <2>5. ASSUME NEW u \in Threads
        PROVE  ThreadBasis(u)'
    <3>1. CASE u = t
      <4>1. LateBasis(r)
        BY <1>2
      <4>2. Clean(request[t].iteration)' => Clean(r.iteration)
        BY <2>2, <2>3 DEF Clean
      <4>. QED  BY <2>2, <2>3, <3>1, <4>1, <4>2 DEF ThreadBasis, LateBasis
    <3>2. CASE u # t
      BY <1>2, <1>4, <2>2, <2>3, <2>4, <3>2, BasisKept
    <3>. QED  BY <3>1, <3>2
  <2>6. \A v \in Workers : WorkerBasis(v)'
    BY <1>2, <2>2, <2>4, BasisKept
  <2>. QED  BY <1>5, <1>6, <2>1, <2>2, <2>4, <2>5, <2>6
<1>11. ASSUME NEW w \in Workers, TakeAnswer(w)
       PROVE  BasisInv'
  <2> DEFINE i == iteration[w]
  <2>1. /\ UNCHANGED <<pc, request, response, parameters_, worker_gradients, caller, late>>
        /\ answered' = answered \ {w}
        /\ answer' = [v \in Workers |-> IF v = w THEN NoResponse ELSE answer[v]]
    BY <1>11, TakeAnswerKeeps DEF vars, coreVars
  <2>2. /\ Frame(w) /\ i \in Iterations /\ w \in answered
        /\ \/ \E s \in {"pull", "poll"} : Stays(w, s, grads[w])
           \/ stage[w] = "pulling" /\ Stays(w, "push", Len(answer[w].parameters))
           \/ Leaves(w, FALSE)
           \/ Leaves(w, TRUE)
    BY <1>11, TakeAnswerMoves DEF Stays, Leaves
  <2>3. \A v \in Workers : gave_up[v] \subseteq gave_up'[v]
    BY <2>2 DEF Stays, Leaves, Frame
  <2>4. \A j \in Iterations : Clean(j)' => Clean(j)
    BY <2>3 DEF Clean
  <2>5. ASSUME NEW v \in Workers \ {w}
        PROVE  WorkerBasis(v)'
    BY <1>2, <2>1, <2>2, <2>4, BasisKept DEF Frame
  <2>6. WorkerBasis(w)'
    <3>1. WorkerBasis(w)
      BY <1>2
    <3>2. CASE \E s \in {"pull", "poll"} : Stays(w, s, grads[w])
      BY <2>4, <3>1, <3>2, <1>2, BasisKept DEF Stays
    <3>3. CASE stage[w] = "pulling" /\ Stays(w, "push", Len(answer[w].parameters))
      <4>1. /\ iteration'[w] = i /\ completed'[w] = completed[w] /\ gave_up'[w] = gave_up[w]
            /\ grads'[w] = Len(answer[w].parameters) /\ stage'[w] = "push"
        BY <3>3 DEF Stays
      <4>2. Clean(iteration[w])' => Clean(i)
        BY <2>2, <2>4, <4>1 DEF Clean
      <4>3. /\ Clean(i) => grads'[w] >= i
            /\ grads'[w] <= Len(parameters_')
        BY <2>1, <2>2, <3>1, <3>3, <4>1 DEF WorkerBasis
      <4>4. \A j \in Iterations : j < iteration'[w] => j \in completed'[w] \cup gave_up'[w]
        BY <3>1, <4>1 DEF WorkerBasis
      <4> HIDE DEF i
      <4>. QED  BY <4>1, <4>2, <4>3, <4>4 DEF WorkerBasis
    <3>4. CASE Leaves(w, FALSE) \/ Leaves(w, TRUE)
      <4>1. /\ stage'[w] \notin {"push", "pushing", "pulling"} /\ grads'[w] = 0
            /\ iteration'[w] \in {i, i + 1}
            /\ completed'[w] \cup gave_up'[w] = completed[w] \cup gave_up[w] \cup {i}
        BY <3>4 DEF Leaves
      <4>2. \A j \in Iterations : j < iteration'[w] => j < i \/ j = i
        BY <2>2, <4>1, Numbers
      <4>3. \A j \in Iterations : j < iteration'[w] => j \in completed'[w] \cup gave_up'[w]
        BY <3>1, <4>1, <4>2 DEF WorkerBasis
      <4>4. grads'[w] <= Len(parameters_')
        BY <1>3, <4>1
      <4>. QED  BY <4>1, <4>3, <4>4 DEF WorkerBasis
    <3>. QED  BY <2>2, <3>2, <3>3, <3>4
  <2>7. ASSUME NEW u \in Threads
        PROVE  ThreadBasis(u)'
    BY <1>2, <1>4, <2>1, <2>4, BasisKept
  <2>. QED  BY <1>5, <1>6, <2>1, <2>4, <2>5, <2>6, <2>7
<1>12. ASSUME NEW w \in Workers, RestartWorker(w)
       PROVE  BasisInv'
  <2>1. /\ Frame(w)
        /\ stage'[w] = "pull" /\ iteration'[w] = 0 /\ grads'[w] = 0
        /\ UNCHANGED <<pc, request, response, parameters_, worker_gradients, completed, gave_up>>
        /\ late' \subseteq PushRequest
        /\ late' = late \/ (stage[w] = "push" /\ late' = late \cup {Push(w)})
        /\ \A t \in Threads : caller'[t] = IF caller[t] = w THEN NoWorker ELSE caller[t]
        /\ answered' = answered \ {w}
        /\ answer' = [v \in Workers |-> IF v = w THEN NoResponse ELSE answer[v]]
    BY <1>12, RestartMoves DEF vars, coreVars
  <2>2. \A i \in Iterations : Clean(i)' => Clean(i)
    BY <2>1 DEF Clean
  <2>3. ASSUME NEW v \in Workers, v # w
        PROVE  WorkerBasis(v)'
    BY <1>2, <2>1, <2>2, <2>3, BasisKept DEF Frame
  <2>4. WorkerBasis(w)'
    <3>1. \A j \in Iterations : ~(j < 0)
      BY Numbers
    <3>. QED  BY <1>3, <2>1, <3>1 DEF WorkerBasis
  <2>5. ASSUME NEW u \in Threads
        PROVE  ThreadBasis(u)'
    <3>1. caller'[u] \in {caller[u], NoWorker} /\ request'[u] = request[u] /\ pc'[u] = pc[u]
          /\ response'[u] = response[u]
      BY <2>1
    <3>. QED  BY <1>2, <1>4, <2>2, <3>1, BasisKept
  <2>6. ASSUME NEW r \in late'
        PROVE  LateBasis(r)'
    <3>1. CASE r \in late
      BY <1>6, <2>1, <2>2, <3>1
    <3>2. CASE stage[w] = "push" /\ r = Push(w)
      <4>1. r.iteration = iteration[w] /\ r.gradients = grads[w]
        BY <3>2 DEF Push
      <4>2. LateBasis(r)
        BY <1>2, <3>2, <4>1 DEF WorkerBasis, LateBasis
      <4>. QED  BY <2>1, <2>2, <4>2, BasisKept
    <3>. QED  BY <2>1, <3>1, <3>2
  <2>. QED  BY <1>5, <1>6, <2>1, <2>2, <2>3, <2>4, <2>5, <2>6
<1>. QED  BY <1>1, <1>7, <1>8, <1>9, <1>10, <1>11, <1>12, CalmSteps DEF Finished

-----------------------------------------------------------------------------
(* The inductive invariant and what follows from it *)

\* Nothing has happened yet.
LEMMA TrainingInitially == TrainingInit => TrainingInv
<1> SUFFICES ASSUME TrainingInit
             PROVE  TrainingInv
  OBVIOUS
<1>1. IInv
  BY Initially DEF TrainingInit
<1>2. /\ 0 \in Iterations /\ 0 \in Gradients /\ 0 \in 0..MaxFaults
      /\ 0 \in 0..(max_retries - 1) /\ 0 \in 0..(max_polls - 1)
      /\ \A j \in Iterations : ~(j < 0)
      /\ 0 <= 0
  BY Numbers
<1>3. LocalsTypeOK
  <2>1. NoResponse \in Response
    BY DEF NoResponse, Verdict, Response
  <2>. QED  BY <1>2, <2>1, StageNames DEF TrainingInit, LocalsTypeOK, WorkerTypeOK
<1>4. CallInv /\ InboxInv /\ DoneInv
  <2>1. Len(NoResponse.parameters) = 0
    BY DEF NoResponse, Verdict
  <2>. QED  BY <1>2, <2>1 DEF TrainingInit, CallInv, InboxInv, DoneInv
<1>5. /\ parameters_ = <<>> /\ Len(<<>>) = 0
      /\ \A t \in Threads : pc[t] = "idle" /\ response[t].parameters = <<>> /\ caller[t] = NoWorker
      /\ \A i \in Iterations : Senders(worker_gradients[i]) = {}
  BY DEF TrainingInit, Init, NoResponse, Verdict, Senders
<1>6. CopyInv
  BY <1>5 DEF CopyInv
<1>7. OrderInv
  BY <1>2, <1>5
     DEF TrainingInit, OrderInv, WorkerOrder, Calling, StoredBelow, InReceive, AnsweredPush, Answered, Received
<1>8. InOrder
  BY <1>5 DEF InOrder
<1>9. BasisInv
  BY <1>2, <1>5 DEF TrainingInit, BasisInv, WorkerBasis, ThreadBasis, StoredBasis, InReceive
<1>. QED  BY <1>1, <1>3, <1>4, <1>6, <1>7, <1>8, <1>9 DEF TrainingInv

\* Every step keeps every part.
LEMMA TrainingInductive == TrainingInv /\ [TrainingNext]_trainingVars => TrainingInv'
BY ServerInvStep, LocalsStep, CopyStep, CallStep, InboxStep, DoneStep, OrderStep, InOrderStep, BasisStep
   DEF TrainingInv

\* Every reachable state of the training satisfies the inductive invariant.
THEOREM TrainingInvariant == TrainingSpec => []TrainingInv
BY TrainingInitially, TrainingInductive, PTL DEF TrainingSpec

\* The state has its types: a worker's iteration, attempt and poll stay in
\* their ranges and its gradients come from a model there can be.
THEOREM TrainingTypeCorrect == TrainingSpec => []TrainingTypeOK
<1>1. TrainingInv => TrainingTypeOK
  BY DEF TrainingInv, IInv, LocalsTypeOK, WorkerTypeOK, TrainingTypeOK
<1>. QED  BY <1>1, TrainingInvariant, PTL

\* run_iteration returns true only for iterations in the model, and when no
\* more workers train than are awaited, with the worker's gradients in them.
THEOREM DoneIsContributed == TrainingSpec => []DoneMeansContributed
<1>1. TrainingInv => DoneMeansContributed
  <2> SUFFICES ASSUME TrainingInv, stops = 0,
                      NEW w \in Workers, NEW i \in completed[w]
               PROVE  \E k \in 1..Len(parameters_) :
                        /\ parameters_[k].iteration = i
                        /\ Cardinality(Workers) = total_workers =>
                             parameters_[k].contributions[w] # NoGradient
    BY DEF DoneMeansContributed
  <2>1. i \in Iterations /\ aggregated[i]
    BY DEF TrainingInv, DoneInv, LocalsTypeOK, WorkerTypeOK
  <2>2. PICK k \in 1..Len(parameters_) : parameters_[k].iteration = i
    BY <2>1 DEF TrainingInv, IInv, AppliedExactlyOnce, Applied
  <2>3. ASSUME Cardinality(Workers) = total_workers
        PROVE  parameters_[k].contributions[w] # NoGradient
    <3> DEFINE c == parameters_[k].contributions
    <3>1. Cardinality(Senders(c)) = total_workers
      BY DEF TrainingInv, IInv, UpdateIsFinal
    <3>2. Senders(c) \in SUBSET Workers
      BY DEF Senders
    <3>3. Senders(c) = Workers
      BY <2>3, <3>1, <3>2, FS_Subset, ParameterServerAssumption
    <3>. QED  BY <3>3 DEF Senders
  <2>. QED  BY <2>2, <2>3
<1>. QED  BY <1>1, TrainingInvariant, PTL

\* While no call fails, iterations enter the model in their order, without gaps.
THEOREM AppliedInOrder == TrainingSpec => []InOrder
<1>1. TrainingInv => InOrder
  BY DEF TrainingInv
<1>. QED  BY <1>1, TrainingInvariant, PTL

\* While no call fails and nobody gives up on an earlier iteration, the
\* gradients averaged in an update come from one model: that of all earlier
\* iterations.
THEOREM OneModelPerUpdate == TrainingSpec => []OneBasis
<1>1. TrainingInv => OneBasis
  <2> SUFFICES ASSUME TrainingInv, failures = 0 /\ stops = 0,
                      NEW k \in 1..Len(parameters_),
                      \A w \in Workers : \A i \in gave_up[w] : i >= parameters_[k].iteration,
                      NEW v \in Senders(parameters_[k].contributions),
                      NEW w \in Senders(parameters_[k].contributions)
               PROVE  parameters_[k].contributions[v] = parameters_[k].contributions[w]
    BY DEF OneBasis
  <2> DEFINE i == parameters_[k].iteration
             c == parameters_[k].contributions
  <2>1. parameters_ \in Seq(Update)
    BY DEF TrainingInv, IInv, TypeOK
  <2>2. i \in Iterations /\ c \in Contributions
    <3>1. parameters_[k] \in Update
      BY <2>1
    <3>. QED  BY <3>1 DEF Update
  <2>3. c = worker_gradients[i]
    BY DEF TrainingInv, IInv, UpdateIsFinal
  <2>4. Clean(i) /\ Calm
    BY DEF Clean, Calm
  <2>5. \A x \in Senders(c) : c[x] <= i /\ c[x] >= i
    BY <2>2, <2>3, <2>4 DEF TrainingInv, BasisInv, StoredBasis
  <2>6. \A x \in Senders(c) : c[x] \in Nat
    BY <2>2, Numbers DEF Senders, Contributions
  <2>7. i \in Nat
    BY <2>2, Numbers
  <2> HIDE DEF i, c
  <2>8. \A x \in Senders(c) : c[x] = i
    BY <2>5, <2>6, <2>7
  <2>. QED  BY <2>8 DEF c
<1>. QED  BY <1>1, TrainingInvariant, PTL
-----------------------------------------------------------------------------
(* Refinement of SynchronousTraining *)

\* What the server does by itself is a step of the barrier.
LEMMA ServerTrains ==
  ASSUME IInv, [Next]_vars, UNCHANGED <<completed, stage, iteration, answered, answer>>
  PROVE  [Synchronous!Train]_(Synchronous!trainingVars)
<1>0. UNCHANGED [w \in Workers |-> Told(w)]
  BY DEF Told
<1>1. CASE UNCHANGED Barrier!vars
  BY <1>0, <1>1 DEF Barrier!vars, Synchronous!vars, Synchronous!trainingVars
<1>2. CASE Barrier!Next
  <2>1. \A c : Barrier!Full(c) <=> Synchronous!Full(c)
    <3> TAKE c
    <3>1. Synchronous!Contributors(c) = Barrier!Contributors(c)
      BY DEF Synchronous!Contributors, Barrier!Contributors
    <3>2. \A S : Synchronous!Cardinality(S) = Barrier!Cardinality(S)
      BY DEF Synchronous!Cardinality, Barrier!Cardinality
    <3>. QED  BY <3>1, <3>2 DEF Synchronous!Full, Barrier!Full
  <2>2. \A i : Barrier!Closed(i) <=> Synchronous!Closed(i)
    BY DEF Barrier!Closed, Synchronous!Closed
  <2>3. ASSUME NEW i \in Iterations, NEW w \in Workers, NEW g \in Gradients,
               Barrier!Contribute(w, i, g)
        PROVE  Synchronous!Next
    <3>1. Synchronous!Contribute(w, i, g)
      BY <2>1, <2>3 DEF Barrier!Contribute, Synchronous!Contribute
    <3>. QED  BY <3>1 DEF Synchronous!Next
  <2>4. ASSUME NEW i \in Iterations, Barrier!Aggregate(i)
        PROVE  Synchronous!Next
    <3>1. Synchronous!Aggregate(i)
      BY <2>1, <2>2, <2>4 DEF Barrier!Aggregate, Synchronous!Aggregate
    <3>. QED  BY <3>1 DEF Synchronous!Next
  <2>5. Synchronous!Next
    BY <1>2, <2>3, <2>4 DEF Barrier!Next
  <2>. QED  BY <1>0, <2>5 DEF Synchronous!Train
<1>. QED  BY <1>1, <1>2, BarrierStep

\* Workers to which no answer is on its way have been told nothing.
LEMMA ToldNothing ==
  ASSUME NEW w \in Workers, w \notin answered
  PROVE  Told(w) = {}
BY DEF Told

\* The answer of a server tells its worker of an iteration that this server has
\* in its model.
LEMMA SendTells ==
  ASSUME TrainingInv, NEW t \in Threads, SendAnswer(t)
  PROVE  \/ UNCHANGED Synchronous!trainingVars
         \/ \E w \in Workers, i \in Iterations : Synchronous!Tell(w, i)
<1>1. /\ UNCHANGED <<stage, iteration, completed, coreVars>>
      /\ pc[t] = "replied"
      /\ \/ /\ caller[t] \in Workers
            /\ answered' = answered \cup {caller[t]}
            /\ answer' = [answer EXCEPT ![caller[t]] = response[t]]
         \/ caller[t] = NoWorker /\ UNCHANGED <<answered, answer>>
  BY SendAnswerKeeps DEF TrainingInv
<1>2. UNCHANGED <<Synchronous!vars, completed>>
  BY <1>1 DEF coreVars, Synchronous!vars
<1>3. CASE UNCHANGED <<answered, answer>>
  <2>1. UNCHANGED [w \in Workers |-> Told(w)]
    BY <1>1, <1>3 DEF Told
  <2>. QED  BY <1>2, <2>1 DEF Synchronous!trainingVars
<1>4. ASSUME NEW w \in Workers, w = caller[t],
             answered' = answered \cup {w}, answer' = [answer EXCEPT ![w] = response[t]]
      PROVE  \/ UNCHANGED Synchronous!trainingVars
             \/ \E v \in Workers, i \in Iterations : Synchronous!Tell(v, i)
  <2> DEFINE i == iteration[w]
  <2>1. w # NoWorker /\ i \in Iterations /\ answer \in [Workers -> Response]
    BY TrainingAssumption DEF TrainingInv, LocalsTypeOK, WorkerTypeOK
  <2>2. /\ request[t].op = Awaited[stage[w]] /\ request[t].iteration = i
        /\ w \notin answered
    BY <1>4, <2>1 DEF TrainingInv, CallInv, InboxInv
  <2>3. \A v \in Workers \ {w} : Told(v)' = Told(v)
    BY <1>1, <1>4, <2>1 DEF Told
  <2>4. Told(w) = {}
    BY <2>2, ToldNothing
  <2>5. Told(w)' = IF stage[w] \in {"pushing", "polling"} /\ response[t].ready THEN {i} ELSE {}
    BY <1>1, <1>4, <2>1 DEF Told
  <2>6. CASE Told(w)' = {}
    <3>1. [v \in Workers |-> Told(v)'] = [v \in Workers |-> Told(v)]
      BY <2>3, <2>4, <2>6
    <3>. QED  BY <1>2, <3>1 DEF Synchronous!trainingVars
  <2>7. CASE stage[w] \in {"pushing", "polling"} /\ response[t].ready
    <3>1. request[t].op \in {"ReceiveGradients", "CheckSyncStatus"}
      BY <2>2, <2>7 DEF Awaited
    <3>2. aggregated[i]
      BY <1>1, <2>2, <2>7, <3>1 DEF TrainingInv, IInv, VerdictInv, Answered
    <3>3. Synchronous!Closed(i)
      BY <2>1, <3>2 DEF TrainingInv, IInv, AppliedExactlyOnce, Applied, Synchronous!Closed
    <3>4. [v \in Workers |-> Told(v)'] = [[v \in Workers |-> Told(v)] EXCEPT ![w] = {i}]
      BY <2>3, <2>5, <2>7
    <3>5. Synchronous!Tell(w, i)
      BY <1>2, <3>3, <3>4 DEF Synchronous!Tell
    <3>. QED  BY <2>1, <3>5
  <2>. QED  BY <2>5, <2>6, <2>7
<1>. QED  BY <1>1, <1>3, <1>4

\* A worker that takes the answer completes what it was told of.
LEMMA TakeCompletes ==
  ASSUME TrainingInv, NEW w \in Workers, TakeAnswer(w)
  PROVE  Synchronous!Complete(w)
<1>1. /\ UNCHANGED vars /\ answered' = answered \ {w}
      /\ answer' = [v \in Workers |-> IF v = w THEN NoResponse ELSE answer[v]]
  BY TakeAnswerKeeps DEF TrainingInv
<1>2. /\ Frame(w) /\ WorkerTypeOK' /\ w \in answered
      /\ completed'[w] = completed[w] \cup Told(w)
  BY TakeAnswerMoves DEF TrainingInv, Stays, Leaves, Told
<1>3. /\ completed \in [Workers -> SUBSET Iterations]
      /\ completed' \in [Workers -> SUBSET Iterations]
  BY <1>2 DEF TrainingInv, LocalsTypeOK, WorkerTypeOK
<1>4. completed' = [completed EXCEPT ![w] = @ \cup [v \in Workers |-> Told(v)][w]]
  BY <1>2, <1>3 DEF Frame
<1>5. \A v \in Workers \ {w} : Told(v)' = Told(v)
  BY <1>1, <1>2 DEF Told, Frame
<1>6. Told(w)' = {}
  BY <1>1 DEF Told
<1>7. [v \in Workers |-> Told(v)'] = [[v \in Workers |-> Told(v)] EXCEPT ![w] = {}]
  BY <1>5, <1>6
<1>. QED  BY <1>1, <1>4, <1>7 DEF vars, coreVars, Synchronous!vars, Synchronous!Complete

\* A call that fails completes nothing, nor does a worker's restart; what the
\* worker was told is lost on it.
LEMMA FaultsCompleteNothing ==
  ASSUME TrainingInv, NEW w \in Workers, FailedCall(w) \/ RestartWorker(w)
  PROVE  Synchronous!Miss(w)
<1>1. /\ UNCHANGED vars /\ Frame(w) /\ WorkerTypeOK' /\ completed'[w] = completed[w]
      /\ answered' = answered \ {w}
      /\ answer' = answer \/ answer' = [v \in Workers |-> IF v = w THEN NoResponse ELSE answer[v]]
  <2>1. CASE FailedCall(w)
    BY <2>1, FailedCallMoves, FailedCallKeeps DEF TrainingInv, Stays, Leaves
  <2>2. CASE RestartWorker(w)
    BY <2>2, RestartMoves DEF TrainingInv
  <2>. QED  BY <2>1, <2>2
<1>2. completed' = completed
  <2>1. /\ completed \in [Workers -> SUBSET Iterations]
        /\ completed' \in [Workers -> SUBSET Iterations]
    BY <1>1 DEF TrainingInv, LocalsTypeOK, WorkerTypeOK
  <2>2. \A v \in Workers : completed'[v] = completed[v]
    BY <1>1 DEF Frame
  <2>. QED  BY <2>1, <2>2
<1>3. \A v \in Workers \ {w} : Told(v)' = Told(v)
  BY <1>1 DEF Told, Frame
<1>4. Told(w)' = {}
  BY <1>1 DEF Told
<1>5. [v \in Workers |-> Told(v)']
        = [v \in Workers |-> IF v \in {w} THEN {} ELSE [x \in Workers |-> Told(x)][v]]
  BY <1>3, <1>4
<1>. QED
  BY <1>1, <1>2, <1>5 DEF vars, coreVars, Synchronous!vars, Synchronous!Forget, Synchronous!Miss

\* A server that stops takes its model with it, but not the answers it has sent.
LEMMA StopRestarts ==
  ASSUME TrainingInv, StopServer
  PROVE  Synchronous!Restart
<1>1. PICK cut \in SUBSET {w \in Workers : stage[w] \in Calling} : ClearInbox(cut)
  BY DEF StopServer
<1>2. UNCHANGED <<stage, iteration, completed>>
  BY DEF StopServer, workerVars, history
<1>3. ASSUME NEW v \in Workers
      PROVE  Told(v)' = IF v \in cut THEN {} ELSE Told(v)
  BY <1>1, <1>2 DEF ClearInbox, Told
<1>4. [v \in Workers |-> Told(v)']
        = [v \in Workers |-> IF v \in cut THEN {} ELSE [x \in Workers |-> Told(x)][v]]
  BY <1>3
<1>5. cut \in SUBSET Workers
  BY <1>1
<1>6. Synchronous!Forget(cut)
  BY <1>4 DEF Synchronous!Forget
<1>. QED  BY <1>2, <1>5, <1>6 DEF StopServer, Synchronous!Restart

\* Every step of the training is a step of SynchronousTraining, or not seen
\* there.
LEMMA SynchronousStep ==
  ASSUME TrainingInv, [TrainingNext]_trainingVars
  PROVE  [Synchronous!TrainingNext]_(Synchronous!trainingVars)
<1>1. ASSUME NEW t \in Threads, RunHandler(t) \/ StartLatePush(t)
      PROVE  [Synchronous!Train]_(Synchronous!trainingVars)
  <2>1. UNCHANGED <<completed, stage, iteration, answered, answer>>
    BY <1>1 DEF RunHandler, StartLatePush, workerVars, history, inboxVars
  <2>2. Next
    BY <1>1, CallsAreNext DEF TrainingInv
  <2>. QED  BY <2>1, <2>2, ServerTrains DEF TrainingInv
<1>2. ASSUME NEW t \in Threads, NEW w \in Workers, StartCall(w, t)
      PROVE  UNCHANGED Synchronous!trainingVars
  <2>1. /\ Stays(w, WaitingFor[stage[w]], grads[w])
        /\ stage[w] \in {"pull", "push", "poll"}
        /\ UNCHANGED <<completed, answered, answer, coreVars>>
    BY <1>2, StartCallMoves DEF TrainingInv, StartCall, history
  <2>2. w \notin answered
    BY <2>1 DEF TrainingInv, InboxInv, Calling
  <2>3. ASSUME NEW v \in Workers
        PROVE  Told(v)' = Told(v)
    BY <2>1, <2>2 DEF Told, Stays, Frame
  <2>4. [v \in Workers |-> Told(v)'] = [v \in Workers |-> Told(v)]
    BY <2>3
  <2>. QED  BY <2>1, <2>4 DEF coreVars, Synchronous!vars, Synchronous!trainingVars
<1>3. CASE StartServer \/ Finished \/ UNCHANGED trainingVars
  <2>1. UNCHANGED <<worker_gradients, parameters_, completed, stage, iteration, answered, answer>>
    BY <1>3 DEF StartServer, Finished, trainingVars, vars, coreVars, workerVars, history, inboxVars
  <2>. QED  BY <2>1 DEF Told, Synchronous!vars, Synchronous!trainingVars
<1>. QED
  BY <1>1, <1>2, <1>3, SendTells, TakeCompletes, FaultsCompleteNothing, StopRestarts
     DEF TrainingNext, WorkerStep, ServerStep, Fault, FailedCall, Synchronous!TrainingNext

\* Whatever fails, each server process is a barrier, and a worker takes an
\* iteration for completed only when it was told so by a server process that
\* had the iteration in its model when it answered.
THEOREM RefinesSynchronous == TrainingSpec => ImplementsSynchronous
<1>1. TrainingInit => Synchronous!TrainingInit
  BY DEF TrainingInit, Init, Told, Synchronous!TrainingInit, Synchronous!Init
<1>. QED
  BY <1>1, SynchronousStep, TrainingInvariant, PTL
     DEF TrainingSpec, ImplementsSynchronous, Synchronous!TrainingSpec
-----------------------------------------------------------------------------
(* Calls run out *)

Closer(w) == Left(w)' \in 0..(Left(w) - 1)
Unmoved(w) == Progress(w)' = Progress(w)

\* What the iterations after number n are worth.
Later(n) == (iterations - 1 - n) * PerIteration

\* A worker in its last iteration has none after it; any other iteration is
\* worth PerIteration.
LEMMA LaterIterations ==
  ASSUME NEW n \in Iterations
  PROVE  /\ PerIteration \in Nat /\ Later(n) \in Nat
         /\ n + 1 \in Iterations => Later(n) = Later(n + 1) + PerIteration
<1>1. PerIteration \in Nat
  BY Numbers DEF PerIteration
<1>2. \A k \in Nat : k * PerIteration \in Nat /\ (k + 1) * PerIteration = k * PerIteration + PerIteration
  BY <1>1
<1>3. n \in Nat /\ iterations - 1 - n \in Nat
  BY Numbers
<1>4. ASSUME n + 1 \in Iterations
      PROVE  Later(n) = Later(n + 1) + PerIteration
  <2> DEFINE k == iterations - 1 - (n + 1)
  <2>1. k \in Nat /\ k + 1 = iterations - 1 - n
    BY <1>3, <1>4, Numbers
  <2>2. Later(n) = (k + 1) * PerIteration /\ Later(n + 1) = k * PerIteration
    BY <2>1 DEF Later
  <2> HIDE DEF k
  <2>. QED  BY <1>2, <2>1, <2>2
<1>. QED  BY <1>1, <1>2, <1>3, <1>4 DEF Later

\* What is left, from the attempt and the poll a worker is at.
LEMMA LeftNow ==
  ASSUME WorkerTypeOK, NEW w \in Workers
  PROVE  /\ iteration[w] \in Iterations
         /\ max_retries - 1 - retry_count[w] \in Nat
         /\ max_polls - poll_count[w] \in Nat \ {0}
         /\ stage[w] # "done" =>
              Left(w) = Later(iteration[w]) + 4 * (max_retries - 1 - retry_count[w])
                        + 2 * (max_polls - poll_count[w]) + Pending[stage[w]]
<1>1. /\ retry_count[w] \in 0..(max_retries - 1)
      /\ poll_count[w] \in 0..(max_polls - 1)
      /\ iteration[w] \in Iterations
  BY DEF WorkerTypeOK
<1>2. max_retries - 1 - retry_count[w] \in Nat /\ max_polls - poll_count[w] \in Nat \ {0}
  <2>1. \A r \in 0..(max_retries - 1) : max_retries - 1 - r \in Nat
    BY Numbers
  <2>2. \A p \in 0..(max_polls - 1) : max_polls - p \in Nat \ {0}
    BY Numbers
  <2>. QED  BY <1>1, <2>1, <2>2
<1>. QED  BY <1>1, <1>2 DEF Left, Later

\* What a worker does next leaves less to do: in the same attempt, ...
LEMMA StageIsCloser ==
  ASSUME WorkerTypeOK, NEW w \in Workers, NEW s, Move(w, s),
         UNCHANGED <<iteration, retry_count, poll_count>>,
         <<stage[w], s>> \in
           {<<"pull", "pulling">>, <<"pull", "push">>, <<"pulling", "push">>,
            <<"push", "pushing">>, <<"push", "poll">>, <<"pushing", "poll">>,
            <<"poll", "polling">>}
  PROVE  Closer(w)
<1> DEFINE r == Later(iteration[w]) + 4 * (max_retries - 1 - retry_count[w])
                + 2 * (max_polls - poll_count[w])
<1>1. r \in Nat
  BY LeftNow, LaterIterations
<1>2. stage'[w] = s /\ s # "done" /\ stage[w] # "done"
  BY DEF Move, WorkerTypeOK
<1>3. Left(w) = r + Pending[stage[w]]
  BY <1>2, LeftNow
<1>4. Left(w)' = r + Pending[s]
  BY <1>2 DEF Left, Later
<1>5. Pending[stage[w]] \in Nat /\ Pending[s] \in Nat /\ Pending[s] < Pending[stage[w]]
  BY DEF Pending
<1> HIDE DEF r
<1>. QED  BY <1>1, <1>3, <1>4, <1>5 DEF Closer

\* ... in the next attempt, ...
LEMMA RetryIsCloser ==
  ASSUME WorkerTypeOK, NEW w \in Workers, ~LastAttempt(w), Retry(w),
         stage[w] \in {"pull", "pulling", "push", "pushing"}
  PROVE  Closer(w)
<1> DEFINE r == Later(iteration[w]) + 2 * (max_polls - poll_count[w])
           a == max_retries - 1 - retry_count[w]
<1>1. r \in Nat /\ a \in Nat
  BY LeftNow, LaterIterations
<1>2. a # 0
  <2>1. retry_count[w] \in 0..(max_retries - 1) /\ retry_count[w] # max_retries - 1
    BY DEF WorkerTypeOK, LastAttempt
  <2>. QED  BY <2>1, Numbers
<1>3. /\ stage'[w] = "pull" /\ retry_count'[w] = retry_count[w] + 1
      /\ UNCHANGED <<iteration, poll_count>>
  BY DEF Retry, Move, WorkerTypeOK
<1>4. Left(w) = r + 4 * a + Pending[stage[w]]
  BY <1>1, LeftNow, LaterIterations DEF Pending
<1>5. Left(w)' = r + 4 * (a - 1) + Pending["pull"]
  <2>1. /\ retry_count[w] \in Nat /\ poll_count[w] \in Nat
        /\ max_retries - 1 - (retry_count[w] + 1) = a - 1
    BY Numbers DEF WorkerTypeOK
  <2>2. Left(w)' = Later(iteration[w]) + 4 * (max_retries - 1 - (retry_count[w] + 1))
                   + 2 * (max_polls - poll_count[w]) + Pending["pull"]
    BY <1>3 DEF Left, Later
  <2>. QED  BY <1>1, <2>1, <2>2, LeftNow, LaterIterations DEF Pending
<1>6. Pending[stage[w]] \in 2..5 /\ Pending["pull"] = 5
  BY DEF Pending
<1> HIDE DEF r, a
<1>. QED  BY <1>1, <1>2, <1>4, <1>5, <1>6 DEF Closer

\* ... in the next iteration, ...
LEMMA ReturnIsCloser ==
  ASSUME WorkerTypeOK, NEW w \in Workers, NEW done \in BOOLEAN, Return(w, done),
         stage[w] # "done"
  PROVE  Closer(w)
<1> DEFINE a == max_retries - 1 - retry_count[w]
           p == max_polls - poll_count[w]
           n == iteration[w]
<1>1. /\ a \in Nat /\ p \in Nat \ {0} /\ n \in Iterations
      /\ Later(n) \in Nat /\ PerIteration \in Nat
  BY LeftNow, LaterIterations
<1>2. Pending[stage[w]] \in Nat
  BY DEF Pending, WorkerTypeOK, Calling, WaitingFor
<1>3. Left(w) = Later(n) + 4 * a + 2 * p + Pending[stage[w]]
  BY LeftNow
<1>4. CASE n + 1 < iterations
  <2>1. n + 1 \in Iterations
    BY <1>1, <1>4, Numbers
  <2>2. /\ stage'[w] = "pull" /\ iteration'[w] = n + 1
        /\ retry_count'[w] = 0 /\ poll_count'[w] = 0
    BY <1>4, Numbers DEF Return, Move, WorkerTypeOK
  <2>3. Left(w)' = Later(n + 1) + 4 * (max_retries - 1 - 0) + 2 * (max_polls - 0) + Pending["pull"]
    BY <2>2 DEF Left, Later
  <2>4. Left(w)' = Later(n + 1) + PerIteration + 1
    BY <2>1, <2>3, LaterIterations, Numbers DEF PerIteration, Pending
  <2>5. Later(n) = Later(n + 1) + PerIteration /\ Later(n + 1) \in Nat
    BY <1>1, <2>1, LaterIterations
  <2> HIDE DEF a, p, n
  <2>. QED  BY <1>1, <1>2, <1>3, <2>4, <2>5 DEF Closer
<1>5. CASE ~(n + 1 < iterations)
  <2>1. stage'[w] = "done"
    BY <1>5 DEF Return, Move, WorkerTypeOK
  <2>2. Left(w)' = 0
    BY <2>1 DEF Left
  <2> HIDE DEF a, p, n
  <2>. QED  BY <1>1, <1>2, <1>3, <2>2 DEF Closer
<1>. QED  BY <1>4, <1>5

\* ... or with the next poll.
LEMMA PollIsCloser ==
  ASSUME WorkerTypeOK, NEW w \in Workers, NEW ready \in BOOLEAN, OnPoll(w, ready),
         stage[w] \in {"poll", "polling"}
  PROVE  Closer(w)
<1>1. CASE \E done \in BOOLEAN : Return(w, done)
  BY <1>1, ReturnIsCloser
<1>2. CASE /\ poll_count' = [poll_count EXCEPT ![w] = @ + 1]
           /\ poll_count[w] + 1 < max_polls
           /\ Move(w, "poll")
           /\ UNCHANGED <<iteration, retry_count>>
  <2> DEFINE r == Later(iteration[w]) + 4 * (max_retries - 1 - retry_count[w])
             p == max_polls - poll_count[w]
  <2>1. r \in Nat /\ p \in Nat \ {0}
    BY LeftNow, LaterIterations
  <2>2. Left(w) = r + 2 * p + Pending[stage[w]]
    BY LeftNow
  <2>3. Left(w)' = r + 2 * (p - 1) + Pending["poll"]
    <3>1. stage'[w] = "poll" /\ poll_count'[w] = poll_count[w] + 1
      BY <1>2 DEF Move, WorkerTypeOK
    <3>2. Left(w)' = r + 2 * (max_polls - (poll_count[w] + 1)) + Pending["poll"]
      BY <1>2, <3>1 DEF Left, Later
    <3>3. max_polls - (poll_count[w] + 1) = p - 1
      BY Numbers DEF WorkerTypeOK
    <3>. QED  BY <3>2, <3>3
  <2>4. Pending[stage[w]] \in 0..1 /\ Pending["poll"] = 1
    BY DEF Pending
  <2> HIDE DEF r, p
  <2>. QED  BY <2>1, <2>2, <2>3, <2>4 DEF Closer
<1>. QED  BY <1>1, <1>2 DEF OnPoll

\* The answers to a pull and a push, then.
LEMMA PullIsCloser ==
  ASSUME WorkerTypeOK, NEW w \in Workers, NEW params, OnPull(w, params),
         stage[w] \in {"pull", "pulling"}
  PROVE  Closer(w)
<1>1. CASE ~LastAttempt(w) /\ Retry(w)
  BY <1>1, RetryIsCloser
<1>2. CASE Move(w, "push") /\ UNCHANGED <<iteration, retry_count, poll_count>>
  BY <1>2, StageIsCloser
<1>. QED  BY <1>1, <1>2 DEF OnPull

\* So does an answered push: the worker returns, tries again or polls.
LEMMA PushIsCloser ==
  ASSUME WorkerTypeOK, NEW w \in Workers, NEW complete \in BOOLEAN, OnPush(w, complete),
         stage[w] \in {"push", "pushing"}
  PROVE  Closer(w)
<1>1. CASE Return(w, TRUE)
  BY <1>1, ReturnIsCloser
<1>2. CASE ~LastAttempt(w) /\ Retry(w)
  BY <1>2, RetryIsCloser
<1>3. CASE Move(w, "poll") /\ UNCHANGED <<iteration, retry_count, poll_count>>
  BY <1>3, StageIsCloser
<1>. QED  BY <1>1, <1>2, <1>3 DEF OnPush

\* The handling of any answer gets its worker closer to the end.
LEMMA OnReturnIsCloser ==
  ASSUME WorkerTypeOK, NEW w \in Workers, NEW r, r.ready \in BOOLEAN, OnReturn(w, r)
  PROVE  Closer(w)
BY PullIsCloser, PushIsCloser, PollIsCloser DEF OnReturn

\* A step of one worker does not move another.
LEMMA OthersUnmoved ==
  ASSUME WorkerTypeOK, NEW w \in Workers, NEW v \in Workers \ {w},
         \/ \E params : OnPull(w, params)
         \/ \E b \in BOOLEAN : OnPush(w, b) \/ OnPoll(w, b)
         \/ \E s : Move(w, s) /\ UNCHANGED <<iteration, retry_count, poll_count>>
  PROVE  Unmoved(v)
<1>1. CASE Retry(w)
  BY <1>1 DEF Retry, Move, Unmoved, Progress, WorkerTypeOK
<1>2. ASSUME NEW b \in BOOLEAN, Return(w, b)
      PROVE  Unmoved(v)
  BY <1>2 DEF Return, Move, Unmoved, Progress, WorkerTypeOK
<1>3. ASSUME NEW s, Move(w, s), UNCHANGED <<iteration, retry_count>>,
             poll_count' = [poll_count EXCEPT ![w] = @ + 1] \/ UNCHANGED poll_count
      PROVE  Unmoved(v)
  BY <1>3 DEF Move, Unmoved, Progress, WorkerTypeOK
<1>. QED  BY <1>1, <1>2, <1>3 DEF OnPull, OnPush, OnPoll

\* A worker with a call that returns, or fails, is closer to the end; the
\* others stay where they are.
LEMMA ReturnMovesOne ==
  ASSUME WorkerTypeOK, NEW w \in Workers, NEW r, r.ready \in BOOLEAN, OnReturn(w, r),
         NEW v \in Workers
  PROVE  Unmoved(v) \/ Closer(v)
<1>1. Closer(w)
  BY OnReturnIsCloser
<1>2. \/ \E params : OnPull(w, params)
      \/ \E b \in BOOLEAN : OnPush(w, b) \/ OnPoll(w, b)
  BY DEF OnReturn
<1>3. v # w => Unmoved(v)
  BY <1>2, OthersUnmoved
<1>. QED  BY <1>1, <1>3

\* A call that fails at once moves its worker, and no other.
LEMMA FailureMovesOne ==
  ASSUME WorkerTypeOK, NEW w \in Workers,
         \/ stage[w] = "pull" /\ OnPull(w, <<>>)
         \/ stage[w] = "push" /\ OnPush(w, FALSE)
         \/ stage[w] = "poll" /\ OnPoll(w, FALSE),
         NEW v \in Workers
  PROVE  Unmoved(v) \/ Closer(v)
<1>1. Closer(w)
  <2>1. CASE stage[w] = "pull" /\ OnPull(w, <<>>)
    BY <2>1, PullIsCloser
  <2>2. CASE stage[w] = "push" /\ OnPush(w, FALSE)
    BY <2>2, PushIsCloser
  <2>3. CASE stage[w] = "poll" /\ OnPoll(w, FALSE)
    BY <2>3, PollIsCloser
  <2>. QED  BY <2>1, <2>2, <2>3
<1>2. v # w => Unmoved(v)
  BY OthersUnmoved
<1>. QED  BY <1>1, <1>2

\* So does a call that is made, whether or not it gets to the server.
LEMMA CallMovesOne ==
  ASSUME WorkerTypeOK, NEW w \in Workers, stage[w] \in DOMAIN WaitingFor,
         Move(w, WaitingFor[stage[w]]), UNCHANGED <<iteration, retry_count, poll_count>>,
         NEW v \in Workers
  PROVE  Unmoved(v) \/ Closer(v)
<1>1. <<stage[w], WaitingFor[stage[w]]>> \in
        {<<"pull", "pulling">>, <<"push", "pushing">>, <<"poll", "polling">>}
  BY StageNames DEF WaitingFor
<1>2. Closer(w)
  BY <1>1, StageIsCloser
<1>3. v # w => Unmoved(v)
  BY OthersUnmoved
<1>. QED  BY <1>2, <1>3

\* Every step of a worker, other than its restart, leaves it less to do.
LEMMA CloserStep ==
  ASSUME TrainingInv, [TrainingNext]_trainingVars, restarts' = restarts, NEW v \in Workers
  PROVE  Unmoved(v) \/ Closer(v)
<1>1. WorkerTypeOK /\ \A w \in Workers : answer[w].ready \in BOOLEAN
  BY DEF TrainingInv, LocalsTypeOK, Response
<1>2. ASSUME NEW w \in Workers, LoseRequest(w) \/ \E t \in Threads : StartCall(w, t)
      PROVE  Unmoved(v) \/ Closer(v)
  BY <1>1, <1>2, CallMovesOne DEF LoseRequest, StartCall
<1>3. ASSUME NEW w \in Workers, TakeAnswer(w)
      PROVE  Unmoved(v) \/ Closer(v)
  BY <1>1, <1>3, ReturnMovesOne DEF TakeAnswer
<1>4. ASSUME NEW w \in Workers, FailCall(w)
      PROVE  Unmoved(v) \/ Closer(v)
  <2>1. NoResponse.ready \in BOOLEAN
    BY DEF NoResponse, Verdict
  <2>2. CASE OnReturn(w, NoResponse)
    BY <1>1, <2>1, <2>2, ReturnMovesOne
  <2>3. CASE ~OnReturn(w, NoResponse)
    BY <1>1, <1>4, <2>3, FailureMovesOne DEF FailCall
  <2>. QED  BY <2>2, <2>3
<1>5. ASSUME NEW w \in Workers, RestartWorker(w)
      PROVE  FALSE
  BY <1>5, Numbers DEF RestartWorker, TrainingInv, LocalsTypeOK
<1>6. ASSUME \/ \E t \in Threads : RunHandler(t) \/ SendAnswer(t) \/ StartLatePush(t)
             \/ \E w \in Workers : LoseAnswer(w)
             \/ StopServer \/ StartServer \/ Finished \/ UNCHANGED trainingVars
      PROVE  Unmoved(v)
  BY <1>6 DEF RunHandler, SendAnswer, StartLatePush, LoseAnswer, StopServer, StartServer, Finished,
              trainingVars, workerVars, Unmoved, Progress
<1>. QED
  BY <1>2, <1>3, <1>4, <1>5, <1>6 DEF TrainingNext, WorkerStep, ServerStep, Fault

\* No retry and no poll is for nothing: whatever is answered, lost or refused,
\* what a worker has left to do is a natural number that only shrinks, except
\* by its own restart.  (That a worker does go on is fairness, left to TLC.)
THEOREM StepsRunOut == TrainingSpec => CallsRunOut
<1> DEFINE Step == \A w \in Workers : Progress(w)' # Progress(w) /\ restarts' = restarts
                                        => Left(w)' \in 0..(Left(w) - 1)
<1>1. TrainingInv /\ [TrainingNext]_trainingVars => [Step]_trainingVars
  BY CloserStep DEF Unmoved, Closer
<1>. QED  BY <1>1, TrainingInvariant, PTL DEF TrainingSpec, CallsRunOut
=============================================================================
