------------------------ MODULE ParameterServerProofs ------------------------
(***************************************************************************)
(* Proofs about ParameterServer, for any threads, workers, iterations,     *)
(* gradients and total_workers: type correctness, the safety properties    *)
(* the runs check on small instances, and that every step of the server is *)
(* a step of GradientBarrier or leaves it unchanged.                       *)
(*                                                                         *)
(* The argument rests on two facts about state_mutex_.  Only its holder    *)
(* can be between storing the gradients that complete an iteration and     *)
(* setting the aggregated flag (LockInv), so whoever finds it free finds   *)
(* the flag, the model and the sender count in agreement (QuorumInv); and  *)
(* a set flag stops every later push before it stores (FoldingInv).        *)
(***************************************************************************)
EXTENDS ParameterServer, FiniteSetTheorems, TLAPS

Folding == {"averaging", "marking"}

\* state_mutex_ is held exactly by the thread inside receive_gradients.
LockInv ==
  \A t \in Threads : pc[t] \in InReceive <=> state_mutex_ = t

\* A handler works on a request of its own kind.
RequestInv ==
  \A t \in Threads :
    /\ pc[t] \in InReceive \cup Received => request[t] \in PushRequest
    /\ pc[t] = "served" => request[t] \in PullRequest
    /\ pc[t] = "replied" => request[t] \in PushRequest \cup PullRequest \cup SyncStatusRequest

\* The sender count of an iteration stops at total_workers, and is there
\* exactly when the iteration is aggregated or a thread is doing that.
QuorumInv ==
  \A i \in Iterations :
    /\ WorkersReceived(i) <= total_workers
    /\ aggregated[i] => WorkersReceived(i) = total_workers
    /\ WorkersReceived(i) = total_workers =>
         aggregated[i] \/ \E t \in Threads : pc[t] \in Folding /\ request[t].iteration = i

\* A thread that folds an iteration has its quorum and is the first to do so.
FoldingInv ==
  \A t \in Threads : pc[t] \in Folding =>
    /\ ~aggregated[request[t].iteration]
    /\ WorkersReceived(request[t].iteration) = total_workers

\* A verdict, given or about to be given, is backed by the flag; a copy of the
\* model taken for a pull holds nothing the model does not hold.
VerdictInv ==
  \A t \in Threads :
    /\ pc[t] = "complete" => aggregated[request[t].iteration]
    /\ (response[t].ready /\ (Answered(t, "ReceiveGradients") \/ Answered(t, "CheckSyncStatus")))
         => aggregated[request[t].iteration]
    /\ (pc[t] = "served" /\ Applied(request[t].iteration, response[t].parameters))
         => Applied(request[t].iteration, parameters_)

IInv ==
  /\ TypeOK
  /\ LockInv
  /\ RequestInv
  /\ QuorumInv
  /\ FoldingInv
  /\ AppliedExactlyOnce
  /\ UpdateIsFinal
  /\ VerdictInv
  /\ NewModelIsMarkedReady
  /\ CountsMatchVerdict

-----------------------------------------------------------------------------
(* Contributions and their senders *)

\* The senders of an iteration are a finite set of workers.
LEMMA SendersFinite ==
  ASSUME NEW c
  PROVE  IsFiniteSet(Senders(c)) /\ Cardinality(Senders(c)) \in Nat
<1>1. Senders(c) \in SUBSET Workers
  BY DEF Senders
<1>2. IsFiniteSet(Senders(c))
  BY <1>1, FS_Subset, ParameterServerAssumption
<1>. QED  BY <1>2, FS_CardinalityType

\* Storing a worker's gradients keeps the contributions well formed and adds
\* the worker, and no one else, to the senders.
LEMMA SendersStore ==
  ASSUME NEW c \in Contributions, NEW w \in Workers, NEW g \in Gradients
  PROVE  LET d == [c EXCEPT ![w] = g]
         IN  /\ d \in Contributions
             /\ Cardinality(Senders(d)) =
                  IF c[w] # NoGradient THEN Cardinality(Senders(c))
                                       ELSE Cardinality(Senders(c)) + 1
<1> DEFINE d == [c EXCEPT ![w] = g]
<1>1. d \in Contributions
  BY DEF Contributions
<1>2. Senders(d) = Senders(c) \cup {w}
  BY ParameterServerAssumption DEF Senders, Contributions
<1>3. w \in Senders(c) <=> c[w] # NoGradient
  BY DEF Senders
<1>. QED  BY <1>1, <1>2, <1>3, SendersFinite, FS_AddElement

\* The initial contributions have no senders.
LEMMA SendersInit ==
  Cardinality(Senders([w \in Workers |-> NoGradient])) = 0
<1>1. Senders([w \in Workers |-> NoGradient]) = {}
  BY DEF Senders
<1>. QED  BY <1>1, FS_EmptySet

\* Appending an update applies its iteration and keeps what was applied.
LEMMA AppliedAppend ==
  ASSUME NEW s \in Seq(Update), NEW u \in Update, NEW i
  PROVE  /\ Append(s, u) \in Seq(Update)
         /\ Applied(i, Append(s, u)) <=> (Applied(i, s) \/ u.iteration = i)
<1>1. /\ Append(s, u) \in Seq(Update)
      /\ Len(Append(s, u)) = Len(s) + 1
      /\ \A k \in 1..Len(s) : Append(s, u)[k] = s[k]
      /\ Append(s, u)[Len(s) + 1] = u
      /\ Len(s) \in Nat
  OBVIOUS
<1>2. 1..(Len(s) + 1) = 1..Len(s) \cup {Len(s) + 1}
  BY <1>1
<1>. QED  BY <1>1, <1>2 DEF Applied

-----------------------------------------------------------------------------
(* Type correctness *)

LEMMA TypeInit == Init => TypeOK
<1>1. NoRequest \in PushRequest \cup PullRequest \cup SyncStatusRequest \cup {NoRequest}
  OBVIOUS
<1>2. NoResponse \in Response
  BY DEF NoResponse, Verdict, Response
<1>. QED
  BY <1>1, <1>2 DEF Init, TypeOK, Contributions, Stages

LEMMA TypeStep ==
  ASSUME TypeOK, RequestInv, [Next]_vars
  PROVE  TypeOK'
<1> USE DEF TypeOK, Goto, coreVars, Stages, InReceive, Received
<1>1. ASSUME NEW t \in Threads, NEW w \in Workers, NEW i \in Iterations, NEW g \in Gradients,
             EnterReceive(t, w, i, g)
      PROVE  TypeOK'
  BY <1>1 DEF EnterReceive, PushRequest
<1>2. ASSUME NEW t \in Threads, RaiseIteration(t)
      PROVE  TypeOK'
  BY <1>2, ParameterServerAssumption DEF RaiseIteration, RequestInv, PushRequest
<1>3. ASSUME NEW t \in Threads, SkipAggregated(t)
      PROVE  TypeOK'
  BY <1>3 DEF SkipAggregated
<1>4. ASSUME NEW t \in Threads, StoreGradients(t)
      PROVE  TypeOK'
  <2>1. request[t] \in PushRequest
    BY <1>4 DEF StoreGradients, RequestInv
  <2> DEFINE i == request[t].iteration
             c == [worker_gradients[i] EXCEPT ![request[t].worker] = request[t].gradients]
  <2>2. i \in Iterations /\ c \in Contributions
    BY <2>1, SendersStore DEF PushRequest
  <2>. QED  BY <1>4, <2>2 DEF StoreGradients, KeepStateMutex
<1>5. ASSUME NEW t \in Threads, AggregateGradients(t)
      PROVE  TypeOK'
  <2>1. request[t].iteration \in Iterations
    BY <1>5 DEF AggregateGradients, RequestInv, PushRequest
  <2>2. [iteration |-> request[t].iteration,
         contributions |-> worker_gradients[request[t].iteration]] \in Update
    BY <2>1 DEF Update
  <2>. QED  BY <1>5, <2>2 DEF AggregateGradients
<1>6. ASSUME NEW t \in Threads, MarkAggregated(t)
      PROVE  TypeOK'
  BY <1>6 DEF MarkAggregated, RequestInv, PushRequest
<1>7. ASSUME NEW t \in Threads, ReplyReceive(t)
      PROVE  TypeOK'
  <2>1. WorkersReceived(request[t].iteration) \in Nat
    BY SendersFinite DEF WorkersReceived
  <2>2. Verdict(pc[t] = "complete", WorkersReceived(request[t].iteration)) \in Response
    BY <2>1 DEF Verdict, Response
  <2>. QED  BY <1>7, <2>2 DEF ReplyReceive
<1>8. ASSUME NEW t \in Threads, NEW i \in Iterations, ServeParameters(t, i)
      PROVE  TypeOK'
  BY <1>8 DEF ServeParameters, PullRequest, Response
<1>9. ASSUME NEW t \in Threads, ReplyServe(t)
      PROVE  TypeOK'
  BY <1>9 DEF ReplyServe, RequestInv, PullRequest, Response
<1>10. ASSUME NEW t \in Threads, NEW i \in Iterations, CheckSyncStatus(t, i)
       PROVE  TypeOK'
  <2>1. WorkersReceived(i) \in Nat
    BY SendersFinite DEF WorkersReceived
  <2>2. Verdict(aggregated[i], WorkersReceived(i)) \in Response
    BY <2>1 DEF Verdict, Response
  <2>. QED  BY <1>10, <2>2 DEF CheckSyncStatus, SyncStatusRequest
<1>11. ASSUME NEW t \in Threads, FinishCall(t)
       PROVE  TypeOK'
  BY <1>11 DEF FinishCall, NoResponse, Verdict, Response
<1>12. CASE UNCHANGED vars
  BY <1>12 DEF vars
<1>. QED
  BY <1>1, <1>2, <1>3, <1>4, <1>5, <1>6, <1>7, <1>8, <1>9, <1>10, <1>11, <1>12
     DEF Next, NewCall, HandlerStep
-----------------------------------------------------------------------------
(* The lock and the requests *)

\* Only receive_gradients takes state_mutex_ for more than one step, and it
\* takes it free and gives it back.
LEMMA LockStep ==
  ASSUME TypeOK, LockInv, [Next]_vars
  PROVE  LockInv'
<1> USE DEF TypeOK, LockInv, Goto, coreVars, Stages, InReceive, Received, StateFree
<1>1. ASSUME NEW t \in Threads, NEW w \in Workers, NEW i \in Iterations, NEW g \in Gradients,
             EnterReceive(t, w, i, g)
      PROVE  LockInv'
  BY <1>1, ParameterServerAssumption DEF EnterReceive
<1>2. ASSUME NEW t \in Threads, RaiseIteration(t)
      PROVE  LockInv'
  BY <1>2, ParameterServerAssumption DEF RaiseIteration
<1>3. ASSUME NEW t \in Threads, SkipAggregated(t)
      PROVE  LockInv'
  BY <1>3, ParameterServerAssumption DEF SkipAggregated
<1>4. ASSUME NEW t \in Threads, StoreGradients(t)
      PROVE  LockInv'
  BY <1>4, ParameterServerAssumption DEF StoreGradients, KeepStateMutex
<1>5. ASSUME NEW t \in Threads, AggregateGradients(t)
      PROVE  LockInv'
  BY <1>5, ParameterServerAssumption DEF AggregateGradients
<1>6. ASSUME NEW t \in Threads, MarkAggregated(t)
      PROVE  LockInv'
  BY <1>6, ParameterServerAssumption DEF MarkAggregated
<1>7. ASSUME NEW t \in Threads, ReplyReceive(t)
      PROVE  LockInv'
  BY <1>7, ParameterServerAssumption DEF ReplyReceive
<1>8. ASSUME NEW t \in Threads, NEW i \in Iterations, ServeParameters(t, i)
      PROVE  LockInv'
  BY <1>8, ParameterServerAssumption DEF ServeParameters
<1>9. ASSUME NEW t \in Threads, ReplyServe(t)
      PROVE  LockInv'
  BY <1>9, ParameterServerAssumption DEF ReplyServe
<1>10. ASSUME NEW t \in Threads, NEW i \in Iterations, CheckSyncStatus(t, i)
       PROVE  LockInv'
  BY <1>10, ParameterServerAssumption DEF CheckSyncStatus
<1>11. ASSUME NEW t \in Threads, FinishCall(t)
       PROVE  LockInv'
  BY <1>11, ParameterServerAssumption DEF FinishCall
<1>12. CASE UNCHANGED vars
  BY <1>12, ParameterServerAssumption DEF vars
<1>. QED
  BY <1>1, <1>2, <1>3, <1>4, <1>5, <1>6, <1>7, <1>8, <1>9, <1>10, <1>11, <1>12
     DEF Next, NewCall, HandlerStep

\* A thread keeps its request until it has answered.
LEMMA RequestStep ==
  ASSUME TypeOK, RequestInv, [Next]_vars
  PROVE  RequestInv'
<1> USE DEF TypeOK, RequestInv, Goto, coreVars, Stages, InReceive, Received
<1>1. ASSUME NEW t \in Threads, NEW w \in Workers, NEW i \in Iterations, NEW g \in Gradients,
             EnterReceive(t, w, i, g)
      PROVE  RequestInv'
  BY <1>1 DEF EnterReceive, PushRequest
<1>2. ASSUME NEW t \in Threads, RaiseIteration(t)
      PROVE  RequestInv'
  BY <1>2 DEF RaiseIteration
<1>3. ASSUME NEW t \in Threads, SkipAggregated(t)
      PROVE  RequestInv'
  BY <1>3 DEF SkipAggregated
<1>4. ASSUME NEW t \in Threads, StoreGradients(t)
      PROVE  RequestInv'
  BY <1>4 DEF StoreGradients
<1>5. ASSUME NEW t \in Threads, AggregateGradients(t)
      PROVE  RequestInv'
  BY <1>5 DEF AggregateGradients
<1>6. ASSUME NEW t \in Threads, MarkAggregated(t)
      PROVE  RequestInv'
  BY <1>6 DEF MarkAggregated
<1>7. ASSUME NEW t \in Threads, ReplyReceive(t)
      PROVE  RequestInv'
  BY <1>7 DEF ReplyReceive
<1>8. ASSUME NEW t \in Threads, NEW i \in Iterations, ServeParameters(t, i)
      PROVE  RequestInv'
  BY <1>8 DEF ServeParameters, PullRequest
<1>9. ASSUME NEW t \in Threads, ReplyServe(t)
      PROVE  RequestInv'
  BY <1>9 DEF ReplyServe
<1>10. ASSUME NEW t \in Threads, NEW i \in Iterations, CheckSyncStatus(t, i)
       PROVE  RequestInv'
  BY <1>10 DEF CheckSyncStatus, SyncStatusRequest
<1>11. ASSUME NEW t \in Threads, FinishCall(t)
       PROVE  RequestInv'
  BY <1>11 DEF FinishCall
<1>12. CASE UNCHANGED vars
  BY <1>12 DEF vars
<1>. QED
  BY <1>1, <1>2, <1>3, <1>4, <1>5, <1>6, <1>7, <1>8, <1>9, <1>10, <1>11, <1>12
     DEF Next, NewCall, HandlerStep

-----------------------------------------------------------------------------
(* Senders, quorum and flag *)

\* The quorum is reached by the one push that brings the sender count to
\* total_workers, and the flag follows before the mutex is free again.
LEMMA QuorumStep ==
  ASSUME TypeOK, LockInv, RequestInv, QuorumInv, FoldingInv, [Next]_vars
  PROVE  (QuorumInv /\ FoldingInv)'
<1> USE DEF TypeOK, LockInv, QuorumInv, FoldingInv, Folding, WorkersReceived, Goto, coreVars,
        Stages, InReceive, Received, StateFree
<1>1. ASSUME NEW t \in Threads, NEW w \in Workers, NEW i \in Iterations, NEW g \in Gradients,
             EnterReceive(t, w, i, g)
      PROVE  (QuorumInv /\ FoldingInv)'
  BY <1>1 DEF EnterReceive
<1>2. ASSUME NEW t \in Threads, RaiseIteration(t)
      PROVE  (QuorumInv /\ FoldingInv)'
  BY <1>2 DEF RaiseIteration
<1>3. ASSUME NEW t \in Threads, SkipAggregated(t)
      PROVE  (QuorumInv /\ FoldingInv)'
  BY <1>3 DEF SkipAggregated
<1>4. ASSUME NEW t \in Threads, StoreGradients(t)
      PROVE  (QuorumInv /\ FoldingInv)'
  <2> DEFINE i == request[t].iteration
             stored == [worker_gradients[i] EXCEPT ![request[t].worker] = request[t].gradients]
  <2>1. request[t] \in PushRequest
    BY <1>4 DEF StoreGradients, RequestInv
  <2>2. i \in Iterations /\ worker_gradients[i] \in Contributions
    BY <2>1 DEF PushRequest
  <2>3. /\ pc[t] = "storing" /\ state_mutex_ = t /\ ~aggregated[i]
        /\ worker_gradients' = [worker_gradients EXCEPT ![i] = stored]
        /\ UNCHANGED <<aggregated, request>>
    BY <1>4 DEF StoreGradients
  <2>4. /\ Cardinality(Senders(worker_gradients[i])) \in Nat
        /\ Cardinality(Senders(stored)) \in Nat
        /\ Cardinality(Senders(stored)) <= Cardinality(Senders(worker_gradients[i])) + 1
    BY <2>1, <2>2, SendersStore, SendersFinite DEF PushRequest
  <2>5. \A u \in Threads : pc[u] \notin Folding
    BY <2>3
  <2>6. Cardinality(Senders(worker_gradients[i])) < total_workers
    <3>1. /\ Cardinality(Senders(worker_gradients[i])) <= total_workers
          /\ Cardinality(Senders(worker_gradients[i])) # total_workers
      BY <2>2, <2>3, <2>5
    <3> HIDE DEF i
    <3>. QED  BY <2>4, <3>1, ParameterServerAssumption
  <2>7. worker_gradients'[i] = stored
    BY <2>2, <2>3
  <2>8. \A j \in Iterations \ {i} : worker_gradients'[j] = worker_gradients[j]
    BY <2>2, <2>3
  <2>9. CASE QuorumReached(stored)
    <3>1. Cardinality(Senders(stored)) = total_workers
      BY <2>4, <2>6, <2>9, ParameterServerAssumption DEF QuorumReached
    <3>2. pc' = [pc EXCEPT ![t] = "averaging"]
      BY <1>4, <2>9 DEF StoreGradients
    <3>3. QuorumInv'
      <4>1. pc'[t] \in Folding /\ request'[t].iteration = i
        BY <2>3, <3>2
      <4>2. SUFFICES ASSUME NEW j \in Iterations
                     PROVE  /\ WorkersReceived(j)' <= total_workers
                            /\ aggregated[j] => WorkersReceived(j)' = total_workers
                            /\ WorkersReceived(j)' = total_workers => aggregated[j] \/ j = i
                                 \/ \E u \in Threads : pc'[u] \in Folding /\ request[u].iteration = j
        BY <2>3, <4>1
      <4>3. CASE j = i
        BY <2>3, <2>7, <3>1, <4>3, ParameterServerAssumption
      <4>4. CASE j # i
        BY <2>5, <2>8, <4>4
      <4>. QED  BY <4>3, <4>4
    <3>4. FoldingInv'
      BY <2>2, <2>3, <2>5, <2>7, <2>8, <3>1, <3>2
    <3>. QED  BY <3>3, <3>4
  <2>10. CASE ~QuorumReached(stored)
    <3>1. /\ Cardinality(Senders(stored)) <= total_workers
          /\ Cardinality(Senders(stored)) # total_workers
      BY <2>4, <2>10, ParameterServerAssumption DEF QuorumReached
    <3>2. pc' = [pc EXCEPT ![t] = "incomplete"]
      BY <1>4, <2>10 DEF StoreGradients
    <3>. QED  BY <2>2, <2>3, <2>5, <2>7, <2>8, <3>1, <3>2
  <2>. QED  BY <2>9, <2>10
<1>5. ASSUME NEW t \in Threads, AggregateGradients(t)
      PROVE  (QuorumInv /\ FoldingInv)'
  BY <1>5 DEF AggregateGradients
<1>6. ASSUME NEW t \in Threads, MarkAggregated(t)
      PROVE  (QuorumInv /\ FoldingInv)'
  BY <1>6 DEF MarkAggregated
<1>7. ASSUME NEW t \in Threads, ReplyReceive(t)
      PROVE  (QuorumInv /\ FoldingInv)'
  BY <1>7 DEF ReplyReceive
<1>8. ASSUME NEW t \in Threads, NEW i \in Iterations, ServeParameters(t, i)
      PROVE  (QuorumInv /\ FoldingInv)'
  BY <1>8 DEF ServeParameters
<1>9. ASSUME NEW t \in Threads, ReplyServe(t)
      PROVE  (QuorumInv /\ FoldingInv)'
  BY <1>9 DEF ReplyServe
<1>10. ASSUME NEW t \in Threads, NEW i \in Iterations, CheckSyncStatus(t, i)
       PROVE  (QuorumInv /\ FoldingInv)'
  BY <1>10 DEF CheckSyncStatus
<1>11. ASSUME NEW t \in Threads, FinishCall(t)
       PROVE  (QuorumInv /\ FoldingInv)'
  BY <1>11 DEF FinishCall
<1>12. CASE UNCHANGED vars
  BY <1>12 DEF vars
<1>. QED
  BY <1>1, <1>2, <1>3, <1>4, <1>5, <1>6, <1>7, <1>8, <1>9, <1>10, <1>11, <1>12
     DEF Next, NewCall, HandlerStep

-----------------------------------------------------------------------------
(* The model *)

\* The iteration being folded is not yet in the model, and afterwards it is
\* there once.
LEMMA AppliedStep ==
  ASSUME TypeOK, LockInv, RequestInv, FoldingInv, AppliedExactlyOnce, [Next]_vars
  PROVE  AppliedExactlyOnce'
<1> USE DEF TypeOK, AppliedExactlyOnce, Marking, Goto, coreVars, Stages, InReceive, Received
<1>1. ASSUME NEW t \in Threads, NEW w \in Workers, NEW i \in Iterations, NEW g \in Gradients,
             EnterReceive(t, w, i, g)
      PROVE  AppliedExactlyOnce'
  <2>1. /\ pc' = [pc EXCEPT ![t] = "raising"] \/ pc' = [pc EXCEPT ![t] = "storing"]
        /\ pc[t] = "idle"
        /\ \A v \in Threads \ {t} : request'[v] = request[v]
        /\ UNCHANGED <<aggregated, parameters_>>
    BY <1>1 DEF EnterReceive
  <2>2. \A j : Marking(j)' <=> Marking(j)
    BY <2>1
  <2> HIDE DEF Marking
  <2>. QED  BY <2>1, <2>2
<1>2. ASSUME NEW t \in Threads, RaiseIteration(t)
      PROVE  AppliedExactlyOnce'
  BY <1>2 DEF RaiseIteration
<1>3. ASSUME NEW t \in Threads, SkipAggregated(t)
      PROVE  AppliedExactlyOnce'
  BY <1>3 DEF SkipAggregated
<1>4. ASSUME NEW t \in Threads, StoreGradients(t)
      PROVE  AppliedExactlyOnce'
  BY <1>4 DEF StoreGradients
<1>5. ASSUME NEW t \in Threads, AggregateGradients(t)
      PROVE  AppliedExactlyOnce'
  <2> DEFINE i == request[t].iteration
             u == [iteration |-> i, contributions |-> worker_gradients[i]]
  <2>1. i \in Iterations /\ u \in Update
    BY <1>5 DEF AggregateGradients, RequestInv, PushRequest, Update
  <2>2. /\ parameters_' = Append(parameters_, u)
        /\ pc' = [pc EXCEPT ![t] = "marking"]
        /\ UNCHANGED <<aggregated, request>>
    BY <1>5 DEF AggregateGradients
  <2>3. ~aggregated[i] /\ \A v \in Threads : pc[v] # "marking"
    BY <1>5 DEF AggregateGradients, FoldingInv, Folding, LockInv
  <2>4. ~Applied(i, parameters_)
    BY <2>1, <2>3
  <2>5. /\ Len(parameters_') = Len(parameters_) + 1
        /\ \A k \in 1..Len(parameters_) : parameters_'[k] = parameters_[k]
        /\ parameters_'[Len(parameters_) + 1] = u
        /\ Len(parameters_) \in Nat
    BY <2>1, <2>2
  <2>6. 1..Len(parameters_') = 1..Len(parameters_) \cup {Len(parameters_) + 1}
    BY <2>5
  <2>7. \A j, k \in 1..Len(parameters_') :
          parameters_'[j].iteration = parameters_'[k].iteration => j = k
    BY <2>4, <2>5, <2>6 DEF Applied
  <2>8. ASSUME NEW j \in Iterations
        PROVE  Applied(j, parameters_') <=> (aggregated'[j] \/ Marking(j)')
    <3>1. Applied(j, parameters_') <=> Applied(j, parameters_) \/ j = i
      BY <2>1, <2>2, AppliedAppend
    <3>2. Applied(j, parameters_) <=> aggregated[j]
      BY <2>3
    <3>3. Marking(j)' <=> j = i
      BY <2>2, <2>3
    <3>. QED  BY <2>2, <3>1, <3>2, <3>3
  <2>. QED  BY <2>7, <2>8
<1>6. ASSUME NEW t \in Threads, MarkAggregated(t)
      PROVE  AppliedExactlyOnce'
  <2>1. \A u \in Threads : pc[u] = "marking" => u = t
    BY <1>6 DEF MarkAggregated, LockInv
  <2>2. request[t].iteration \in Iterations
    BY <1>6 DEF MarkAggregated, RequestInv, PushRequest
  <2>3. /\ pc[t] = "marking" /\ pc' = [pc EXCEPT ![t] = "complete"]
        /\ aggregated' = [aggregated EXCEPT ![request[t].iteration] = TRUE]
        /\ UNCHANGED <<parameters_, request>>
    BY <1>6 DEF MarkAggregated
  <2>4. ASSUME NEW j \in Iterations
        PROVE  (aggregated'[j] \/ Marking(j)') <=> (aggregated[j] \/ Marking(j))
    BY <2>1, <2>2, <2>3
  <2> HIDE DEF Marking
  <2>. QED  BY <2>3, <2>4
<1>7. ASSUME NEW t \in Threads, ReplyReceive(t)
      PROVE  AppliedExactlyOnce'
  BY <1>7 DEF ReplyReceive
<1>8. ASSUME NEW t \in Threads, NEW i \in Iterations, ServeParameters(t, i)
      PROVE  AppliedExactlyOnce'
  BY <1>8 DEF ServeParameters
<1>9. ASSUME NEW t \in Threads, ReplyServe(t)
      PROVE  AppliedExactlyOnce'
  BY <1>9 DEF ReplyServe
<1>10. ASSUME NEW t \in Threads, NEW i \in Iterations, CheckSyncStatus(t, i)
       PROVE  AppliedExactlyOnce'
  BY <1>10 DEF CheckSyncStatus
<1>11. ASSUME NEW t \in Threads, FinishCall(t)
       PROVE  AppliedExactlyOnce'
  BY <1>11 DEF FinishCall
<1>12. CASE UNCHANGED vars
  BY <1>12 DEF vars
<1>. QED
  BY <1>1, <1>2, <1>3, <1>4, <1>5, <1>6, <1>7, <1>8, <1>9, <1>10, <1>11, <1>12
     DEF Next, NewCall, HandlerStep

\* Stores go to iterations that are not in the model.
LEMMA UpdateStep ==
  ASSUME TypeOK, LockInv, RequestInv, FoldingInv, AppliedExactlyOnce, UpdateIsFinal, [Next]_vars
  PROVE  UpdateIsFinal'
<1> USE DEF TypeOK, UpdateIsFinal, Goto, coreVars
<1>1. ASSUME NEW t \in Threads, NEW w \in Workers, NEW i \in Iterations, NEW g \in Gradients,
             EnterReceive(t, w, i, g)
      PROVE  UpdateIsFinal'
  BY <1>1 DEF EnterReceive
<1>2. ASSUME NEW t \in Threads, RaiseIteration(t)
      PROVE  UpdateIsFinal'
  BY <1>2 DEF RaiseIteration
<1>3. ASSUME NEW t \in Threads, SkipAggregated(t)
      PROVE  UpdateIsFinal'
  BY <1>3 DEF SkipAggregated
<1>4. ASSUME NEW t \in Threads, StoreGradients(t)
      PROVE  UpdateIsFinal'
  <2>1. request[t].iteration \in Iterations /\ ~aggregated[request[t].iteration]
    BY <1>4 DEF StoreGradients, RequestInv, PushRequest, InReceive
  <2>2. \A v \in Threads : pc[v] # "marking"
    BY <1>4 DEF StoreGradients, LockInv, InReceive
  <2>3. ~Applied(request[t].iteration, parameters_)
    BY <2>1, <2>2 DEF AppliedExactlyOnce, Marking
  <2>4. \A k \in 1..Len(parameters_) :
          /\ parameters_[k].iteration \in Iterations
          /\ parameters_[k].iteration # request[t].iteration
    <3>1. \A k \in 1..Len(parameters_) : parameters_[k] \in Update
      OBVIOUS
    <3>. QED  BY <2>3, <3>1 DEF Applied, Update
  <2>. QED  BY <1>4, <2>1, <2>4 DEF StoreGradients
<1>5. ASSUME NEW t \in Threads, AggregateGradients(t)
      PROVE  UpdateIsFinal'
  <2> DEFINE i == request[t].iteration
             u == [iteration |-> i, contributions |-> worker_gradients[i]]
  <2>1. i \in Iterations /\ u \in Update
    BY <1>5 DEF AggregateGradients, RequestInv, PushRequest, Update, InReceive
  <2>2. /\ parameters_' = Append(parameters_, u)
        /\ UNCHANGED worker_gradients
    BY <1>5 DEF AggregateGradients
  <2>3. Cardinality(Senders(worker_gradients[i])) = total_workers
    BY <1>5 DEF AggregateGradients, FoldingInv, Folding, WorkersReceived
  <2>4. /\ Len(parameters_') = Len(parameters_) + 1
        /\ \A k \in 1..Len(parameters_) : parameters_'[k] = parameters_[k]
        /\ parameters_'[Len(parameters_) + 1] = u
        /\ Len(parameters_) \in Nat
    BY <2>1, <2>2
  <2>5. 1..Len(parameters_') = 1..Len(parameters_) \cup {Len(parameters_) + 1}
    BY <2>4
  <2>. QED  BY <2>2, <2>3, <2>4, <2>5
<1>6. ASSUME NEW t \in Threads, MarkAggregated(t)
      PROVE  UpdateIsFinal'
  BY <1>6 DEF MarkAggregated
<1>7. ASSUME NEW t \in Threads, ReplyReceive(t)
      PROVE  UpdateIsFinal'
  BY <1>7 DEF ReplyReceive
<1>8. ASSUME NEW t \in Threads, NEW i \in Iterations, ServeParameters(t, i)
      PROVE  UpdateIsFinal'
  BY <1>8 DEF ServeParameters
<1>9. ASSUME NEW t \in Threads, ReplyServe(t)
      PROVE  UpdateIsFinal'
  BY <1>9 DEF ReplyServe
<1>10. ASSUME NEW t \in Threads, NEW i \in Iterations, CheckSyncStatus(t, i)
       PROVE  UpdateIsFinal'
  BY <1>10 DEF CheckSyncStatus
<1>11. ASSUME NEW t \in Threads, FinishCall(t)
       PROVE  UpdateIsFinal'
  BY <1>11 DEF FinishCall
<1>12. CASE UNCHANGED vars
  BY <1>12 DEF vars
<1>. QED
  BY <1>1, <1>2, <1>3, <1>4, <1>5, <1>6, <1>7, <1>8, <1>9, <1>10, <1>11, <1>12
     DEF Next, NewCall, HandlerStep

-----------------------------------------------------------------------------
(* The answers *)

\* Flags are never cleared and updates never removed, so what a verdict or a
\* copy rests on stays.
LEMMA VerdictStep ==
  ASSUME TypeOK, LockInv, RequestInv, FoldingInv, VerdictInv, [Next]_vars
  PROVE  VerdictInv'
<1> USE DEF TypeOK, VerdictInv, Answered, Goto, coreVars, Stages, InReceive, Received, Verdict,
            NoResponse, Response
<1>1. ASSUME NEW t \in Threads, NEW w \in Workers, NEW i \in Iterations, NEW g \in Gradients,
             EnterReceive(t, w, i, g)
      PROVE  VerdictInv'
  BY <1>1 DEF EnterReceive
<1>2. ASSUME NEW t \in Threads, RaiseIteration(t)
      PROVE  VerdictInv'
  BY <1>2 DEF RaiseIteration
<1>3. ASSUME NEW t \in Threads, SkipAggregated(t)
      PROVE  VerdictInv'
  BY <1>3 DEF SkipAggregated
<1>4. ASSUME NEW t \in Threads, StoreGradients(t)
      PROVE  VerdictInv'
  BY <1>4 DEF StoreGradients
<1>5. ASSUME NEW t \in Threads, AggregateGradients(t)
      PROVE  VerdictInv'
  <2> DEFINE i == request[t].iteration
             u == [iteration |-> i, contributions |-> worker_gradients[i]]
  <2>1. u \in Update
    BY <1>5 DEF AggregateGradients, RequestInv, PushRequest, Update
  <2>2. parameters_' = Append(parameters_, u)
    BY <1>5 DEF AggregateGradients
  <2>3. \A j : Applied(j, parameters_) => Applied(j, parameters_')
    BY <2>1, <2>2, AppliedAppend
  <2>. QED  BY <1>5, <2>3 DEF AggregateGradients
<1>6. ASSUME NEW t \in Threads, MarkAggregated(t)
      PROVE  VerdictInv'
  <2>1. request[t].iteration \in Iterations
    BY <1>6 DEF MarkAggregated, RequestInv, PushRequest
  <2>. QED  BY <1>6, <2>1 DEF MarkAggregated
<1>7. ASSUME NEW t \in Threads, ReplyReceive(t)
      PROVE  VerdictInv'
  <2>1. request[t].op = "ReceiveGradients"
    BY <1>7 DEF ReplyReceive, RequestInv, PushRequest
  <2>. QED  BY <1>7, <2>1 DEF ReplyReceive
<1>8. ASSUME NEW t \in Threads, NEW i \in Iterations, ServeParameters(t, i)
      PROVE  VerdictInv'
  BY <1>8 DEF ServeParameters
<1>9. ASSUME NEW t \in Threads, ReplyServe(t)
      PROVE  VerdictInv'
  <2>1. request[t].op = "ServeParameters"
    BY <1>9 DEF ReplyServe, RequestInv, PullRequest
  <2>. QED  BY <1>9, <2>1 DEF ReplyServe
<1>10. ASSUME NEW t \in Threads, NEW i \in Iterations, CheckSyncStatus(t, i)
       PROVE  VerdictInv'
  BY <1>10 DEF CheckSyncStatus
<1>11. ASSUME NEW t \in Threads, FinishCall(t)
       PROVE  VerdictInv'
  BY <1>11 DEF FinishCall
<1>12. CASE UNCHANGED vars
  BY <1>12 DEF vars
<1>. QED
  BY <1>1, <1>2, <1>3, <1>4, <1>5, <1>6, <1>7, <1>8, <1>9, <1>10, <1>11, <1>12
     DEF Next, NewCall, HandlerStep

\* A pull asks for readiness with state_mutex_ free, when the flag of every
\* iteration in the model is set.
LEMMA MarkedReadyStep ==
  ASSUME TypeOK, LockInv, RequestInv, AppliedExactlyOnce, VerdictInv, NewModelIsMarkedReady, [Next]_vars
  PROVE  NewModelIsMarkedReady'
<1> USE DEF TypeOK, NewModelIsMarkedReady, Answered, Goto, coreVars, Stages, InReceive, Received,
            NoResponse, Verdict, Response
<1>1. ASSUME NEW t \in Threads, NEW w \in Workers, NEW i \in Iterations, NEW g \in Gradients,
             EnterReceive(t, w, i, g)
      PROVE  NewModelIsMarkedReady'
  BY <1>1 DEF EnterReceive
<1>2. ASSUME NEW t \in Threads, RaiseIteration(t)
      PROVE  NewModelIsMarkedReady'
  BY <1>2 DEF RaiseIteration
<1>3. ASSUME NEW t \in Threads, SkipAggregated(t)
      PROVE  NewModelIsMarkedReady'
  BY <1>3 DEF SkipAggregated
<1>4. ASSUME NEW t \in Threads, StoreGradients(t)
      PROVE  NewModelIsMarkedReady'
  BY <1>4 DEF StoreGradients
<1>5. ASSUME NEW t \in Threads, AggregateGradients(t)
      PROVE  NewModelIsMarkedReady'
  BY <1>5 DEF AggregateGradients
<1>6. ASSUME NEW t \in Threads, MarkAggregated(t)
      PROVE  NewModelIsMarkedReady'
  BY <1>6 DEF MarkAggregated
<1>7. ASSUME NEW t \in Threads, ReplyReceive(t)
      PROVE  NewModelIsMarkedReady'
  <2>1. request[t].op = "ReceiveGradients"
    BY <1>7 DEF ReplyReceive, RequestInv, PushRequest
  <2>. QED  BY <1>7, <2>1 DEF ReplyReceive
<1>8. ASSUME NEW t \in Threads, NEW i \in Iterations, ServeParameters(t, i)
      PROVE  NewModelIsMarkedReady'
  BY <1>8 DEF ServeParameters
<1>9. ASSUME NEW t \in Threads, ReplyServe(t)
      PROVE  NewModelIsMarkedReady'
  <2>1. request[t].iteration \in Iterations
    BY <1>9 DEF ReplyServe, RequestInv, PullRequest
  <2>2. \A i \in Iterations : Applied(i, parameters_) => aggregated[i]
    BY <1>9, ParameterServerAssumption DEF ReplyServe, StateFree, LockInv, AppliedExactlyOnce, Marking
  <2>3. Applied(request[t].iteration, response[t].parameters) => aggregated[request[t].iteration]
    BY <1>9, <2>1, <2>2 DEF ReplyServe, VerdictInv
  <2>. QED  BY <1>9, <2>3 DEF ReplyServe
<1>10. ASSUME NEW t \in Threads, NEW i \in Iterations, CheckSyncStatus(t, i)
       PROVE  NewModelIsMarkedReady'
  BY <1>10 DEF CheckSyncStatus
<1>11. ASSUME NEW t \in Threads, FinishCall(t)
       PROVE  NewModelIsMarkedReady'
  BY <1>11 DEF FinishCall
<1>12. CASE UNCHANGED vars
  BY <1>12 DEF vars
<1>. QED
  BY <1>1, <1>2, <1>3, <1>4, <1>5, <1>6, <1>7, <1>8, <1>9, <1>10, <1>11, <1>12
     DEF Next, NewCall, HandlerStep

\* A count is read with state_mutex_ free, when it is total_workers exactly if
\* the flag is set.
LEMMA CountsStep ==
  ASSUME TypeOK, LockInv, RequestInv, QuorumInv, VerdictInv, CountsMatchVerdict, [Next]_vars
  PROVE  CountsMatchVerdict'
<1> USE DEF TypeOK, CountsMatchVerdict, Answered, Goto, coreVars, Stages, InReceive, Received,
            NoResponse, Verdict, Response
<1>1. ASSUME NEW t \in Threads, NEW w \in Workers, NEW i \in Iterations, NEW g \in Gradients,
             EnterReceive(t, w, i, g)
      PROVE  CountsMatchVerdict'
  BY <1>1 DEF EnterReceive
<1>2. ASSUME NEW t \in Threads, RaiseIteration(t)
      PROVE  CountsMatchVerdict'
  BY <1>2 DEF RaiseIteration
<1>3. ASSUME NEW t \in Threads, SkipAggregated(t)
      PROVE  CountsMatchVerdict'
  BY <1>3 DEF SkipAggregated
<1>4. ASSUME NEW t \in Threads, StoreGradients(t)
      PROVE  CountsMatchVerdict'
  BY <1>4 DEF StoreGradients
<1>5. ASSUME NEW t \in Threads, AggregateGradients(t)
      PROVE  CountsMatchVerdict'
  BY <1>5 DEF AggregateGradients
<1>6. ASSUME NEW t \in Threads, MarkAggregated(t)
      PROVE  CountsMatchVerdict'
  BY <1>6 DEF MarkAggregated
<1>7. ASSUME NEW t \in Threads, ReplyReceive(t)
      PROVE  CountsMatchVerdict'
  <2>1. request[t].op = "ReceiveGradients" /\ request[t].iteration \in Iterations
    BY <1>7 DEF ReplyReceive, RequestInv, PushRequest
  <2>2. /\ WorkersReceived(request[t].iteration) <= total_workers
        /\ pc[t] = "complete" => WorkersReceived(request[t].iteration) = total_workers
    BY <1>7, <2>1 DEF VerdictInv, QuorumInv
  <2>. QED  BY <1>7, <2>1, <2>2 DEF ReplyReceive
<1>8. ASSUME NEW t \in Threads, NEW i \in Iterations, ServeParameters(t, i)
      PROVE  CountsMatchVerdict'
  BY <1>8 DEF ServeParameters
<1>9. ASSUME NEW t \in Threads, ReplyServe(t)
      PROVE  CountsMatchVerdict'
  <2>1. request[t].op = "ServeParameters"
    BY <1>9 DEF ReplyServe, RequestInv, PullRequest
  <2>. QED  BY <1>9, <2>1 DEF ReplyServe
<1>10. ASSUME NEW t \in Threads, NEW i \in Iterations, CheckSyncStatus(t, i)
       PROVE  CountsMatchVerdict'
  <2>1. /\ WorkersReceived(i) <= total_workers
        /\ aggregated[i] <=> WorkersReceived(i) = total_workers
    BY <1>10, ParameterServerAssumption
       DEF CheckSyncStatus, StateFree, LockInv, QuorumInv, Folding
  <2>. QED  BY <1>10, <2>1 DEF CheckSyncStatus
<1>11. ASSUME NEW t \in Threads, FinishCall(t)
       PROVE  CountsMatchVerdict'
  BY <1>11, ParameterServerAssumption DEF FinishCall
<1>12. CASE UNCHANGED vars
  BY <1>12 DEF vars
<1>. QED
  BY <1>1, <1>2, <1>3, <1>4, <1>5, <1>6, <1>7, <1>8, <1>9, <1>10, <1>11, <1>12
     DEF Next, NewCall, HandlerStep

-----------------------------------------------------------------------------
(* The inductive invariant *)

LEMMA Initially == Init => IInv
<1> SUFFICES ASSUME Init
             PROVE  IInv
  OBVIOUS
<1>1. TypeOK
  BY TypeInit
<1>2. \A i \in Iterations : WorkersReceived(i) = 0
  BY SendersInit DEF Init, WorkersReceived
<1>3. \A t \in Threads : /\ pc[t] = "idle"
                         /\ response[t].ready = FALSE
                         /\ response[t].workers_received = 0
  BY DEF Init, NoResponse, Verdict
<1>4. LockInv /\ RequestInv /\ FoldingInv /\ VerdictInv /\ NewModelIsMarkedReady
  BY <1>3, ParameterServerAssumption
     DEF Init, LockInv, RequestInv, FoldingInv, Folding, VerdictInv, NewModelIsMarkedReady,
         Answered, InReceive, Received
<1>5. QuorumInv
  BY <1>2, ParameterServerAssumption DEF Init, QuorumInv
<1>6. CountsMatchVerdict
  BY <1>3, ParameterServerAssumption DEF CountsMatchVerdict, Answered
<1>7. AppliedExactlyOnce /\ UpdateIsFinal
  <2>1. 1..Len(parameters_) = {}
    BY DEF Init
  <2>. QED  BY <1>3, <2>1 DEF Init, AppliedExactlyOnce, UpdateIsFinal, Applied, Marking
<1>. QED  BY <1>1, <1>4, <1>5, <1>6, <1>7 DEF IInv

LEMMA Inductive == IInv /\ [Next]_vars => IInv'
BY TypeStep, LockStep, RequestStep, QuorumStep, AppliedStep, UpdateStep, VerdictStep,
   MarkedReadyStep, CountsStep DEF IInv

\* Every reachable state of the server satisfies the inductive invariant.
THEOREM Invariant == Spec => []IInv
BY Initially, Inductive, PTL DEF Spec

\* The state has its types, in every state the handlers can reach.
THEOREM TypeCorrect == Spec => []TypeOK
<1>1. IInv => TypeOK
  BY DEF IInv
<1>. QED  BY <1>1, Invariant, PTL

\* receive_gradients puts an iteration into the model once, and the aggregated
\* flag tells which ones are in.
THEOREM AppliedOnce == Spec => []AppliedExactlyOnce
<1>1. IInv => AppliedExactlyOnce
  BY DEF IInv
<1>. QED  BY <1>1, Invariant, PTL

\* Every update in the model is the mean of exactly total_workers gradients,
\* which nothing replaces afterwards.
THEOREM UpdatesAreFinal == Spec => []UpdateIsFinal
<1>1. IInv => UpdateIsFinal
  BY DEF IInv
<1>. QED  BY <1>1, Invariant, PTL

\* Whoever is told that an iteration is complete, or ready, finds its update
\* in the model.
THEOREM VerdictsAreTrue == Spec => []CompleteMeansApplied
<1>1. IInv => CompleteMeansApplied
  <2> SUFFICES ASSUME IInv, NEW t \in Threads,
                      \/ pc[t] = "complete"
                      \/ /\ response[t].ready
                         /\ Answered(t, "ReceiveGradients") \/ Answered(t, "CheckSyncStatus")
               PROVE  Applied(request[t].iteration, parameters_)
    BY DEF CompleteMeansApplied
  <2>1. aggregated[request[t].iteration]
    BY DEF IInv, VerdictInv
  <2>2. request[t].iteration \in Iterations
    BY DEF IInv, RequestInv, Answered, Received, PushRequest, PullRequest, SyncStatusRequest
  <2>. QED  BY <2>1, <2>2 DEF IInv, AppliedExactlyOnce
<1>. QED  BY <1>1, Invariant, PTL

\* A copy of the model that holds the requested iteration is sent as ready.
THEOREM NewModelsAreMarked == Spec => []NewModelIsMarkedReady
<1>1. IInv => NewModelIsMarkedReady
  BY DEF IInv
<1>. QED  BY <1>1, Invariant, PTL

\* The sender count in an answer fits the verdict in it.
THEOREM CountsFit == Spec => []CountsMatchVerdict
<1>1. IInv => CountsMatchVerdict
  BY DEF IInv
<1>. QED  BY <1>1, Invariant, PTL

-----------------------------------------------------------------------------
(* Refinement of GradientBarrier *)

\* An iteration is full at the barrier when the server has its quorum.
LEMMA FullAtQuorum ==
  ASSUME NEW c
  PROVE  Barrier!Full(c) <=> Cardinality(Senders(c)) >= total_workers
<1>1. Barrier!Contributors(c) = Senders(c)
  BY DEF Barrier!Contributors, Senders
<1>2. Barrier!Cardinality(Senders(c)) = Cardinality(Senders(c))
  BY DEF Barrier!Cardinality, Cardinality
<1>. QED  BY <1>1, <1>2 DEF Barrier!Full

LEMMA BarrierInit == Init => Barrier!Init
BY DEF Init, Barrier!Init

\* Storing gradients contributes to an iteration that is not full, folding
\* closes one that is, and no other step is seen at the barrier.
LEMMA BarrierStep ==
  ASSUME IInv, [Next]_vars
  PROVE  [Barrier!Next]_(Barrier!vars)
<1> USE DEF coreVars, Barrier!vars, InReceive
<1>1. ASSUME NEW t \in Threads, StoreGradients(t)
      PROVE  Barrier!Next
  <2> DEFINE i == request[t].iteration
             w == request[t].worker
             g == request[t].gradients
  <2>1. i \in Iterations /\ w \in Workers /\ g \in Gradients
    BY <1>1 DEF StoreGradients, IInv, RequestInv, PushRequest
  <2>2. \A u \in Threads : pc[u] \notin Folding
    BY <1>1 DEF StoreGradients, IInv, LockInv, Folding
  <2>3. /\ WorkersReceived(i) <= total_workers
        /\ WorkersReceived(i) # total_workers
    BY <1>1, <2>1, <2>2 DEF StoreGradients, IInv, QuorumInv
  <2>4. WorkersReceived(i) \in Nat
    BY SendersFinite DEF WorkersReceived
  <2>5. ~(WorkersReceived(i) >= total_workers)
    <3> HIDE DEF i
    <3>. QED  BY <2>3, <2>4, ParameterServerAssumption
  <2>6. ~Barrier!Full(worker_gradients[i])
    BY <2>5, FullAtQuorum DEF WorkersReceived
  <2>7. /\ worker_gradients' = [worker_gradients EXCEPT ![i][w] = g]
        /\ UNCHANGED parameters_
    BY <1>1 DEF StoreGradients
  <2>8. Barrier!Contribute(w, i, g)
    BY <2>6, <2>7 DEF Barrier!Contribute
  <2>. QED  BY <2>1, <2>8 DEF Barrier!Next
<1>2. ASSUME NEW t \in Threads, AggregateGradients(t)
      PROVE  Barrier!Next
  <2> DEFINE i == request[t].iteration
  <2>1. i \in Iterations
    BY <1>2 DEF AggregateGradients, IInv, RequestInv, PushRequest
  <2>2. ~aggregated[i] /\ WorkersReceived(i) = total_workers
    BY <1>2 DEF AggregateGradients, IInv, FoldingInv, Folding
  <2>3. \A u \in Threads : pc[u] # "marking"
    BY <1>2 DEF AggregateGradients, IInv, LockInv
  <2>4. ~Barrier!Closed(i)
    BY <2>1, <2>2, <2>3 DEF IInv, AppliedExactlyOnce, Marking, Applied, Barrier!Closed
  <2>5. Barrier!Full(worker_gradients[i])
    BY <2>2, FullAtQuorum, ParameterServerAssumption DEF WorkersReceived
  <2>6. Barrier!Aggregate(i)
    BY <1>2, <2>4, <2>5 DEF AggregateGradients, Barrier!Aggregate
  <2>. QED  BY <2>1, <2>6 DEF Barrier!Next
<1>3. ASSUME NEW t \in Threads,
             \/ NewCall(t) \/ FinishCall(t)
             \/ RaiseIteration(t) \/ SkipAggregated(t) \/ MarkAggregated(t)
             \/ ReplyReceive(t) \/ ReplyServe(t)
      PROVE  UNCHANGED Barrier!vars
  BY <1>3 DEF NewCall, EnterReceive, ServeParameters, CheckSyncStatus, FinishCall,
              RaiseIteration, SkipAggregated, MarkAggregated, ReplyReceive, ReplyServe
<1>4. CASE UNCHANGED vars
  BY <1>4 DEF vars
<1>. QED  BY <1>1, <1>2, <1>3, <1>4 DEF Next, HandlerStep

\* With all its threads, locks and flags the server is still a barrier per
\* iteration.  (That a full iteration is closed in the end is left to TLC.)
THEOREM RefinesBarrier == Spec => Barrier!Spec
BY BarrierInit, BarrierStep, Invariant, PTL DEF Spec, Barrier!Spec
=============================================================================
