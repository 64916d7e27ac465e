------------------------- MODULE CheckpointingProofs -------------------------
(***************************************************************************)
(* Proofs about Checkpointing, for any threads, workers, iterations,       *)
(* intervals, calls and faults: type correctness, the four safety          *)
(* properties the runs check on small instances, and the refinement of     *)
(* CheckpointStore.                                                        *)
(*                                                                         *)
(* The argument: params_mutex_ has one holder, who writes a file or reads  *)
(* one (ParamsMutexInv), so the model stays what it is while it is written *)
(* (ProgressInv) and no unfinished file is read that is being written      *)
(* (DamageInv).  The flags outlive a load (SettledInv).  Without loads     *)
(* current_iteration_ only grows, although it is read and written with no  *)
(* common lock (RaiseInv), and never falls behind the model (HeaderInv).   *)
(*                                                                         *)
(* For the store, a file holds the model from the moment it is opened:     *)
(* ProgressInv says that what is still to be written is what was there     *)
(* then.  An iteration is closed at its quorum and no later (QuorumInv).   *)
(***************************************************************************)
EXTENDS Checkpointing, FiniteSetTheorems, TLAPS

Folding == {"averaging", "marking"}
LoadStages == {"load", "loading", "loaded"}

Requests == PushRequest \cup PullRequest \cup SyncStatusRequest \cup {NoRequest}

\* The types CheckpointTypeOK leaves out, and where iterations come from.
RestTypeOK ==
  /\ request \in [Threads -> Requests]
  /\ {saves, loads, crashes, open_errors, write_errors} \subseteq Nat
  /\ current_iteration_ \in Iterations \cup {0}
  /\ \A e \in Epochs : files[e].iteration \in Iterations \cup {0}

\* state_mutex_ is held exactly by the thread inside receive_gradients, which
\* works on a push, and on an open iteration when it averages.
StateMutexInv ==
  \A t \in Threads :
    /\ pc[t] \in InReceive <=> state_mutex_ = t
    /\ pc[t] \in InReceive => request[t] \in PushRequest
    /\ pc[t] \in Folding => ~aggregated[request[t].iteration]

\* An iteration being averaged is full; a full one is being averaged or closed.
QuorumInv ==
  /\ \A t \in Threads : pc[t] \in Folding => QuorumReached(worker_gradients[request[t].iteration])
  /\ \A i \in Iterations : QuorumReached(worker_gradients[i]) =>
       aggregated[i] \/ \E t \in Threads : pc[t] \in Folding /\ request[t].iteration = i

\* Without loads nobody but its holder writes current_iteration_, which grows.
RaiseInv ==
  loads = 0 =>
    \A t \in Threads :
      /\ pc[t] = "raising" => request[t].iteration > current_iteration_
      /\ pc[t] \in InReceive \ {"raising"} => request[t].iteration <= current_iteration_

\* params_mutex_ is held by the one that writes a file or reads one; a handler
\* saves, loads or exchanges gradients.
ParamsMutexInv ==
  /\ \A p \in Savers : saving[p] \in Writing => params_mutex_ = p
  /\ \A t \in Threads :
       /\ pc[t] = "loading" => params_mutex_ = t
       /\ saving[t] # "no" <=> pc[t] = "saving"
       /\ pc[t] = "saving" => saves > 0
       /\ pc[t] \in LoadStages => loads > 0

\* How far a file is that is being written, and that a file that is read is.
ProgressInv ==
  /\ \A p \in Savers :
       /\ saving[p] = "header" => files[epoch[p]].part = "empty"
       /\ saving[p] = "front" => files[epoch[p]].part = "header"
       /\ saving[p] = "back" => /\ files[epoch[p]].part = "front"
                                /\ files[epoch[p]].front = parameters_
  /\ \A t \in Threads : pc[t] = "loading" => files[epoch[t]].part # "none"

\* Without faults every unfinished file is being written.
DamageInv ==
  crashes + write_errors = 0 =>
    /\ \A k \in 1..Len(parameters_) : parameters_[k] # Damaged
    /\ \A e \in Epochs :
         /\ Complete(e) => \A k \in 1..Len(files[e].back) : files[e].back[k] # Damaged
         /\ files[e].part \notin {"none", "complete"} =>
              \E p \in Savers : saving[p] \in Writing /\ epoch[p] = e

\* A model of updates of these iterations, each once.
Fine(model, is) ==
  /\ \A k \in 1..Len(model) : model[k] # Damaged => model[k].iteration \in is
  /\ Distinct(model)

\* The flag of every iteration in a model, loaded or to be loaded, is set.
SettledInv ==
  crashes = 0 =>
    /\ Fine(parameters_, Done)
    /\ \A e \in Epochs : Fine(files[e].front, Done) /\ Fine(files[e].back, Done)

\* No update of the model is of an iteration after i.
UpTo(model, i) == \A k \in 1..Len(model) : model[k].iteration <= i

\* Without loads, and for the epochs without calls of SaveCheckpoint.
HeaderInv ==
  loads = 0 =>
    /\ UpTo(parameters_, current_iteration_)
    /\ \A p \in Savers : saving[p] \in {"front", "back"} =>
         UpTo(parameters_, files[epoch[p]].iteration)
    /\ saves = 0 =>
         /\ saving[Saver] \in {"open", "header"} => EpochOf(current_iteration_) >= epoch[Saver]
         /\ saving[Saver] \in {"front", "back"} =>
              EpochOf(files[epoch[Saver]].iteration) >= epoch[Saver]

IInv ==
  /\ CheckpointTypeOK
  /\ RestTypeOK
  /\ StateMutexInv
  /\ QuorumInv
  /\ RaiseInv
  /\ ParamsMutexInv
  /\ ProgressInv
  /\ FilesAreSnapshots
  /\ DamageInv
  /\ SettledInv
  /\ HeaderInv
  /\ HeaderFits

-----------------------------------------------------------------------------
(* The assumptions, in the form they are used in *)

LEMMA Constants ==
  /\ Iterations \subseteq Nat
  /\ NoGradient \notin Gradients
  /\ NoThread \notin Savers
  /\ Saver \notin Threads
  /\ checkpoint_interval \in Nat \ {0}
  /\ MaxCalls \in Nat /\ MaxFaults \in Nat
<1>1. /\ Iterations \subseteq Nat /\ NoGradient \notin Gradients /\ NoThread \notin Threads
  BY ParameterServerAssumption
<1>2. /\ Saver \notin Threads /\ Saver # NoThread
      /\ checkpoint_interval \in Nat \ {0}
      /\ MaxCalls \in Nat /\ MaxFaults \in Nat
  BY CheckpointingAssumption
<1>. QED  BY <1>1, <1>2 DEF Savers

\* Iteration 0 and those that are pushed have an epoch.
LEMMA EpochsOfIterations ==
  ASSUME NEW i \in Iterations \cup {0}
  PROVE  i \in Nat /\ EpochOf(i) \in Epochs
BY Constants DEF Epochs

LEMMA ZeroIsAnEpoch == 0 \in Epochs
<1>1. EpochOf(0) = 0
  BY Constants DEF EpochOf
<1>. QED  BY <1>1, EpochsOfIterations

\* A later iteration has the same epoch or a later one.
LEMMA EpochsGrow ==
  ASSUME NEW i \in Nat, NEW j \in Nat, i <= j
  PROVE  EpochOf(i) \in Nat /\ EpochOf(j) \in Nat /\ EpochOf(i) <= EpochOf(j)
<1>1. checkpoint_interval \in Nat /\ checkpoint_interval > 0
  BY Constants
<1>. QED  BY <1>1 DEF EpochOf

\* A damaged model is none that was averaged.
LEMMA DamagedIsNoUpdate ==
  /\ Damaged.iteration = -1
  /\ \A u \in Update : u # Damaged /\ u.iteration \in Nat
<1>1. Damaged.iteration = -1
  BY DEF Damaged
<1>2. \A u \in Update : u.iteration \in Nat
  BY Constants DEF Update
<1>3. -1 \notin Nat
  OBVIOUS
<1>. QED  BY <1>1, <1>2, <1>3

\* Without senders there is no quorum.
LEMMA NobodyIsNoQuorum == ~QuorumReached([w \in Workers |-> NoGradient])
<1>1. Senders([w \in Workers |-> NoGradient]) = {}
  BY DEF Senders
<1>2. Cardinality({}) = 0
  BY FS_EmptySet
<1>3. ~(0 >= total_workers)
  BY ParameterServerAssumption
<1>. QED  BY <1>1, <1>2, <1>3 DEF QuorumReached

-----------------------------------------------------------------------------
(* The steps of the exchange, as far as checkpoints are concerned *)

\* A step of a handler that leaves the server's state alone.
Quiet(t) ==
  /\ pc[t] \in {"idle", "served", "replied"} \cup Received
  /\ \E s \in {"idle", "served", "replied"} : Goto(t, s)
  /\ \E r \in Requests : request' = [request EXCEPT ![t] = r]
  /\ UNCHANGED <<coreVars, state_mutex_>>

Enters(t) ==
  /\ \E w \in Workers, i \in Iterations, g \in Gradients : EnterReceive(t, w, i, g)

LEMMA ExchangeCases ==
  ASSUME RestTypeOK, CheckpointTypeOK, NEW t \in Threads, Exchange(t)
  PROVE  /\ UNCHANGED <<fileVars, callVars, faultVars>>
         /\ \/ Enters(t)
            \/ RaiseIteration(t)
            \/ SkipAggregated(t)
            \/ StoreGradients(t)
            \/ AggregateGradients(t) /\ ParamsFree
            \/ MarkAggregated(t)
            \/ Quiet(t)
<1>1. UNCHANGED <<fileVars, callVars, faultVars>>
  BY DEF Exchange
<1>2. request[t] \in Requests /\ request = [request EXCEPT ![t] = request[t]]
  BY DEF RestTypeOK
<1>3. CASE NewCall(t)
  <2>1. ASSUME NEW i \in Iterations, ServeParameters(t, i) PROVE Quiet(t)
    BY <2>1 DEF ServeParameters, Quiet, Requests, PullRequest
  <2>2. ASSUME NEW i \in Iterations, CheckSyncStatus(t, i) PROVE Quiet(t)
    BY <2>2 DEF CheckSyncStatus, Quiet, Requests, SyncStatusRequest
  <2>. QED  BY <1>1, <1>3, <2>1, <2>2 DEF NewCall, Enters
<1>4. CASE HandlerStep(t)
  <2>1. ReplyReceive(t) \/ ReplyServe(t) => Quiet(t)
    BY <1>2 DEF ReplyReceive, ReplyServe, Quiet
  <2>2. AggregateGradients(t) => ParamsFree
    BY DEF Exchange, AggregateGradients
  <2>. QED  BY <1>1, <1>4, <2>1, <2>2 DEF HandlerStep
<1>5. CASE FinishCall(t)
  <2>1. Quiet(t)
    BY <1>5 DEF FinishCall, Quiet, Requests
  <2>. QED  BY <1>1, <2>1
<1>. QED  BY <1>3, <1>4, <1>5 DEF Exchange

-----------------------------------------------------------------------------
(* Type correctness *)

TypeInv == CheckpointTypeOK /\ RestTypeOK

\* A file, and what of it changes in one step.
LEMMA FileTypes ==
  ASSUME CheckpointTypeOK, NEW e \in Epochs
  PROVE  /\ NoFile \in File
         /\ files[e] \in File
         /\ files[e].part \in Parts /\ files[e].iteration \in Nat
         /\ files[e].front \in Model /\ files[e].back \in Model
BY DEF CheckpointTypeOK, File, NoFile, Parts, Model

\* Models are sequences of updates and end with Damaged or not.
LEMMA ModelTypes ==
  /\ <<>> \in Model
  /\ \A m \in Model : Append(m, Damaged) \in Model
  /\ \A m \in Model, u \in Update : Append(m, u) \in Model
BY DEF Model

\* What a failed write leaves of a file.
LEMMA BeginningsAre ==
  ASSUME NEW g \in File, NEW f \in Beginnings(g)
  PROVE  /\ f \in File
         /\ f.part \in {"empty", "header", g.part}
         /\ (f.part = g.part /\ f.front = g.front) \/ f.part \in {"empty", "header"}
         /\ f.iteration \in {0, g.iteration}
         /\ f.front \in {<<>>, g.front} /\ f.back \in {<<>>, g.back}
<1> DEFINE empty == [part |-> "empty", iteration |-> 0, front |-> <<>>, back |-> <<>>]
           header == [part |-> "header", iteration |-> g.iteration, front |-> <<>>, back |-> <<>>]
<1>1. f \in {empty, header, g}
  BY DEF Beginnings, NoFile
<1>2. empty \in File /\ header \in File
  BY ModelTypes DEF File, Parts
<1>. QED  BY <1>1, <1>2

LEMMA TypeInit == CheckpointInit => TypeInv
<1> SUFFICES ASSUME CheckpointInit PROVE TypeInv
  OBVIOUS
<1>1. NoFile \in File
  BY DEF NoFile, File, Parts, Model
<1>2. CheckpointTypeOK
  BY <1>1, ZeroIsAnEpoch
     DEF CheckpointInit, Init, CheckpointTypeOK, Stages, Contributions, Model
<1>3. RestTypeOK
  BY DEF CheckpointInit, Init, RestTypeOK, Requests, NoFile
<1>. QED  BY <1>2, <1>3 DEF TypeInv

\* What the handlers of the exchange do to the types.
LEMMA TypeExchange ==
  ASSUME TypeInv, StateMutexInv, NEW t \in Threads, Exchange(t)
  PROVE  TypeInv'
<1> USE DEF Goto, coreVars, fileVars, callVars, faultVars, Stages, InReceive, Received
<1>1. CheckpointTypeOK /\ RestTypeOK
  BY DEF TypeInv
<1>2. UNCHANGED <<fileVars, callVars, faultVars>>
  BY <1>1, ExchangeCases
<1>3. ASSUME /\ current_iteration_' \in Iterations \cup {0}
             /\ parameters_' \in Model
             /\ worker_gradients' \in [Iterations -> Contributions]
             /\ aggregated' \in [Iterations -> BOOLEAN]
             /\ state_mutex_' \in Threads \cup {NoThread}
             /\ pc' \in [Threads -> Stages \cup CheckpointStages]
             /\ request' \in [Threads -> Requests]
      PROVE  TypeInv'
  BY <1>1, <1>2, <1>3, Constants DEF TypeInv, CheckpointTypeOK, RestTypeOK
<1>4. CASE Enters(t)
  <2>. SUFFICES ASSUME NEW w \in Workers, NEW i \in Iterations, NEW g \in Gradients,
                       EnterReceive(t, w, i, g)
                PROVE  TypeInv'
    BY <1>4 DEF Enters
  <2>. QED  BY <1>1, <1>3 DEF EnterReceive, Requests, PushRequest, CheckpointTypeOK, RestTypeOK
<1>5. pc[t] \in InReceive => request[t] \in PushRequest
  BY DEF StateMutexInv
<1>6. CASE RaiseIteration(t)
  BY <1>1, <1>3, <1>5, <1>6 DEF RaiseIteration, PushRequest, CheckpointTypeOK, RestTypeOK
<1>7. CASE SkipAggregated(t)
  BY <1>1, <1>3, <1>7 DEF SkipAggregated, CheckpointTypeOK, RestTypeOK
<1>8. CASE StoreGradients(t)
  <2> DEFINE i == request[t].iteration
             stored == [worker_gradients[i] EXCEPT ![request[t].worker] = request[t].gradients]
  <2>1. request[t] \in PushRequest
    BY <1>5, <1>8 DEF StoreGradients
  <2>2. i \in Iterations /\ stored \in Contributions
    BY <1>1, <2>1 DEF PushRequest, Contributions, CheckpointTypeOK
  <2>. QED  BY <1>1, <1>3, <1>8, <2>2 DEF StoreGradients, KeepStateMutex, CheckpointTypeOK, RestTypeOK
<1>9. CASE AggregateGradients(t)
  <2> DEFINE i == request[t].iteration
             u == [iteration |-> i, contributions |-> worker_gradients[i]]
  <2>1. i \in Iterations
    BY <1>5, <1>9 DEF AggregateGradients, PushRequest
  <2>2. u \in Update /\ parameters_ \in Model
    BY <1>1, <2>1 DEF Update, CheckpointTypeOK
  <2>3. Append(parameters_, u) \in Model
    BY <2>2, ModelTypes
  <2>. QED  BY <1>1, <1>3, <1>9, <2>3 DEF AggregateGradients, CheckpointTypeOK, RestTypeOK
<1>10. CASE MarkAggregated(t)
  BY <1>1, <1>3, <1>5, <1>10 DEF MarkAggregated, PushRequest, CheckpointTypeOK, RestTypeOK
<1>11. CASE Quiet(t)
  BY <1>1, <1>3, <1>11 DEF Quiet, CheckpointTypeOK, RestTypeOK
<1>. QED  BY <1>1, <1>4, <1>6, <1>7, <1>8, <1>9, <1>10, <1>11, ExchangeCases

\* What saving does to the types.
LEMMA TypeSave ==
  ASSUME TypeInv, NEW p \in Savers, Save(p)
  PROVE  TypeInv'
<1> USE DEF Goto, coreVars, fileVars, callVars, faultVars, NextPiece
<1>1. CheckpointTypeOK /\ RestTypeOK /\ epoch[p] \in Epochs
  BY DEF TypeInv, CheckpointTypeOK
<1>2. ASSUME /\ params_mutex_' \in Savers \cup {NoThread}
             /\ files' \in [Epochs -> File]
             /\ \A e \in Epochs : files'[e].iteration \in Iterations \cup {0}
             /\ saving' \in [Savers -> {"no", "open", "header", "front", "back"}]
             /\ last_checkpointed_epoch' \in Epochs \cup {-1}
             /\ pc' \in [Threads -> Stages \cup CheckpointStages]
             /\ open_errors' \in Nat /\ write_errors' \in Nat
             /\ UNCHANGED <<coreVars, state_mutex_, request, epoch, callVars, crashes>>
      PROVE  TypeInv'
  BY <1>1, <1>2 DEF TypeInv, CheckpointTypeOK, RestTypeOK
<1>3. ASSUME NEW success \in BOOLEAN, Return(p, success)
      PROVE  /\ saving' \in [Savers -> {"no", "open", "header", "front", "back"}]
             /\ last_checkpointed_epoch' \in Epochs \cup {-1}
             /\ pc' \in [Threads -> Stages \cup CheckpointStages]
  BY <1>1, <1>3 DEF Return, CheckpointTypeOK, Stages
<1>4. CASE OpenFile(p)
  <2>1. CASE open_errors' = open_errors + 1 /\ Return(p, FALSE) /\ UNCHANGED <<params_mutex_, files>>
    <3>1. open_errors' \in Nat /\ write_errors' \in Nat
      BY <1>1, <1>4, <2>1 DEF OpenFile, RestTypeOK
    <3>2. /\ saving' \in [Savers -> {"no", "open", "header", "front", "back"}]
          /\ last_checkpointed_epoch' \in Epochs \cup {-1}
          /\ pc' \in [Threads -> Stages \cup CheckpointStages]
      BY <1>3, <2>1
    <3>3. /\ params_mutex_' \in Savers \cup {NoThread}
          /\ files' \in [Epochs -> File]
          /\ \A e \in Epochs : files'[e].iteration \in Iterations \cup {0}
      BY <1>1, <2>1 DEF CheckpointTypeOK, RestTypeOK
    <3>. QED  BY <1>2, <1>4, <3>1, <3>2, <3>3 DEF OpenFile
  <2>2. CASE /\ params_mutex_' = p
             /\ files' = [files EXCEPT ![epoch[p]] = [NoFile EXCEPT !.part = "empty"]]
             /\ NextPiece(p, "header")
             /\ UNCHANGED <<pc, response, last_checkpointed_epoch, open_errors>>
    <3>1. [NoFile EXCEPT !.part = "empty"] \in File
      <4>1. [NoFile EXCEPT !.part = "empty"] =
              [part |-> "empty", iteration |-> 0, front |-> <<>>, back |-> <<>>]
        BY DEF NoFile
      <4>. QED  BY <4>1, ModelTypes DEF File, Parts
    <3>2. [NoFile EXCEPT !.part = "empty"].iteration = 0
      BY DEF NoFile
    <3>3. files' \in [Epochs -> File] /\ \A e \in Epochs : files'[e].iteration \in Iterations \cup {0}
      BY <1>1, <2>2, <3>1, <3>2 DEF CheckpointTypeOK, RestTypeOK
    <3>. QED  BY <1>1, <1>2, <1>4, <2>2, <3>3 DEF OpenFile, CheckpointTypeOK, RestTypeOK
  <2>. QED  BY <1>4, <2>1, <2>2 DEF OpenFile
<1>5. CASE WriteHeader(p)
  <2>1. files' \in [Epochs -> File] /\ \A e \in Epochs : files'[e].iteration \in Iterations \cup {0}
    BY <1>1, <1>5 DEF WriteHeader, CheckpointTypeOK, RestTypeOK, File, Parts
  <2>. QED  BY <1>1, <1>2, <1>5, <2>1 DEF WriteHeader, vars, CheckpointTypeOK, RestTypeOK
<1>6. CASE WriteFront(p)
  <2>1. files' \in [Epochs -> File] /\ \A e \in Epochs : files'[e].iteration \in Iterations \cup {0}
    BY <1>1, <1>6 DEF WriteFront, CheckpointTypeOK, RestTypeOK, File, Parts
  <2>. QED  BY <1>1, <1>2, <1>6, <2>1
            DEF WriteFront, KeepParamsMutex, vars, CheckpointTypeOK, RestTypeOK
<1>7. CASE WriteBack(p)
  <2>1. files' \in [Epochs -> File] /\ \A e \in Epochs : files'[e].iteration \in Iterations \cup {0}
    <3>1. \/ \E f \in Beginnings(files[epoch[p]]) : files' = [files EXCEPT ![epoch[p]] = f]
          \/ files' = [files EXCEPT ![epoch[p]].part = "complete", ![epoch[p]].back = parameters_]
      BY <1>7 DEF WriteBack
    <3>2. /\ files \in [Epochs -> File] /\ parameters_ \in Model
          /\ \A e \in Epochs : files[e].iteration \in Iterations \cup {0}
      BY <1>1 DEF CheckpointTypeOK, RestTypeOK
    <3>3. ASSUME NEW f \in Beginnings(files[epoch[p]]), files' = [files EXCEPT ![epoch[p]] = f]
          PROVE  files' \in [Epochs -> File] /\ \A e \in Epochs : files'[e].iteration \in Iterations \cup {0}
      <4>1. f \in File /\ f.iteration \in {0, files[epoch[p]].iteration}
        BY <1>1, <3>3, FileTypes, BeginningsAre
      <4>2. f.iteration \in Iterations \cup {0}
        BY <1>1, <3>2, <4>1
      <4>. QED  BY <3>2, <3>3, <4>1, <4>2
    <3>4. CASE files' = [files EXCEPT ![epoch[p]].part = "complete", ![epoch[p]].back = parameters_]
      BY <1>1, <3>2, <3>4 DEF File, Parts
    <3>. QED  BY <3>1, <3>3, <3>4
  <2>2. write_errors' \in Nat /\ open_errors' \in Nat /\ params_mutex_' = NoThread
    BY <1>1, <1>7 DEF WriteBack, RestTypeOK
  <2>3. /\ saving' \in [Savers -> {"no", "open", "header", "front", "back"}]
        /\ last_checkpointed_epoch' \in Epochs \cup {-1}
        /\ pc' \in [Threads -> Stages \cup CheckpointStages]
    BY <1>3, <1>7 DEF WriteBack
  <2>. QED  BY <1>2, <1>7, <2>1, <2>2, <2>3 DEF WriteBack
<1>. QED  BY <1>4, <1>5, <1>6, <1>7 DEF Save

\* What loading does to the types.
LEMMA TypeLoad ==
  ASSUME TypeInv, ProgressInv, NEW t \in Threads, Load(t)
  PROVE  TypeInv'
<1> USE DEF Goto, coreVars, fileVars, callVars, faultVars
<1>1. CheckpointTypeOK /\ RestTypeOK
  BY DEF TypeInv
<1>2. /\ t \in Savers /\ epoch[t] \in Epochs
      /\ files[epoch[t]].part \in Parts
      /\ files[epoch[t]].iteration \in Iterations \cup {0}
      /\ files[epoch[t]].front \in Model /\ files[epoch[t]].back \in Model
  <2>1. t \in Savers /\ epoch[t] \in Epochs
    BY <1>1 DEF Savers, CheckpointTypeOK
  <2>. QED  BY <1>1, <2>1, FileTypes DEF RestTypeOK
<1>3. ASSUME /\ current_iteration_' \in Iterations \cup {0}
             /\ parameters_' \in Model
             /\ params_mutex_' \in Savers \cup {NoThread}
             /\ pc' \in [Threads -> Stages \cup CheckpointStages]
             /\ UNCHANGED <<worker_gradients, aggregated, state_mutex_, request, files, saving, epoch,
                            last_checkpointed_epoch, callVars, faultVars>>
      PROVE  TypeInv'
  BY <1>1, <1>3, Constants DEF TypeInv, CheckpointTypeOK, RestTypeOK
<1>4. CASE LoadHeader(t)
  BY <1>1, <1>2, <1>3, <1>4 DEF LoadHeader, CheckpointTypeOK, RestTypeOK, Stages, CheckpointStages
<1>5. CASE LoadTensors(t)
  <2>1. files[epoch[t]].part # "none"
    BY <1>5 DEF LoadTensors, ProgressInv
  <2>2. parameters_' \in Model
    BY <1>2, <1>5, <2>1, ModelTypes DEF LoadTensors, Contents, Parts
  <2>. QED  BY <1>1, <1>3, <1>5, <2>2
            DEF LoadTensors, KeepStates, CheckpointTypeOK, RestTypeOK, CheckpointStages
<1>6. CASE ReplyLoad(t)
  BY <1>1, <1>3, <1>6 DEF ReplyLoad, CheckpointTypeOK, RestTypeOK, Stages
<1>. QED  BY <1>4, <1>5, <1>6 DEF Load

\* A call comes in, the periodic thread looks, the server crashes.
LEMMA TypeOther ==
  ASSUME TypeInv,
         \/ \E t \in Threads, e \in Epochs : SaveCheckpoint(t, e) \/ LoadCheckpoint(t, e)
         \/ Look
         \/ Crash
         \/ UNCHANGED checkpointVars
  PROVE  TypeInv'
<1> USE DEF Goto, NextPiece, coreVars, fileVars, callVars, faultVars, vars
<1>1. CheckpointTypeOK /\ RestTypeOK
  BY DEF TypeInv
<1>2. ASSUME NEW t \in Threads, NEW e \in Epochs, SaveCheckpoint(t, e) PROVE TypeInv'
  <2>1. CheckpointTypeOK'
    BY <1>1, <1>2 DEF SaveCheckpoint, CheckpointTypeOK, Savers, CheckpointStages
  <2>2. RestTypeOK'
    BY <1>1, <1>2 DEF SaveCheckpoint, RestTypeOK
  <2>. QED  BY <2>1, <2>2 DEF TypeInv
<1>3. ASSUME NEW t \in Threads, NEW e \in Epochs, LoadCheckpoint(t, e) PROVE TypeInv'
  <2>1. CheckpointTypeOK'
    BY <1>1, <1>3 DEF LoadCheckpoint, CheckpointTypeOK, Savers, CheckpointStages
  <2>2. RestTypeOK'
    BY <1>1, <1>3 DEF LoadCheckpoint, RestTypeOK
  <2>. QED  BY <2>1, <2>2 DEF TypeInv
<1>4. CASE Look
  <2>1. CurrentEpoch \in Epochs
    BY <1>1, EpochsOfIterations DEF CurrentEpoch, RestTypeOK
  <2>2. CheckpointTypeOK'
    BY <1>1, <1>4, <2>1 DEF Look, CheckpointTypeOK, Savers
  <2>3. RestTypeOK'
    BY <1>1, <1>4 DEF Look, RestTypeOK
  <2>. QED  BY <2>2, <2>3 DEF TypeInv
<1>5. CASE Crash
  <2>1. CheckpointTypeOK'
    BY <1>1, <1>5, ZeroIsAnEpoch DEF Crash, CheckpointTypeOK, Stages, Contributions, Model
  <2>2. RestTypeOK'
    BY <1>1, <1>5 DEF Crash, RestTypeOK, Requests
  <2>. QED  BY <2>1, <2>2 DEF TypeInv
<1>6. CASE UNCHANGED checkpointVars
  BY <1>1, <1>6 DEF checkpointVars, TypeInv, CheckpointTypeOK, RestTypeOK
<1>. QED  BY <1>2, <1>3, <1>4, <1>5, <1>6

LEMMA TypeStep ==
  ASSUME TypeInv, StateMutexInv, ProgressInv, [CheckpointNext]_checkpointVars
  PROVE  TypeInv'
BY TypeExchange, TypeSave, TypeLoad, TypeOther DEF CheckpointNext

-----------------------------------------------------------------------------
(* The two mutexes *)

\* Saving leaves the exchange alone; a handler that is done answers.
LEMMA SaveEffect ==
  ASSUME TypeInv, ParamsMutexInv, NEW p \in Savers, Save(p)
  PROVE  /\ saving[p] # "no" /\ (p \in Threads => pc[p] = "saving")
         /\ UNCHANGED <<coreVars, state_mutex_, request, epoch, callVars, crashes>>
         /\ \/ pc' = pc /\ (saving'[p] # "no" \/ p \notin Threads)
            \/ p \in Threads /\ pc[p] = "saving" /\ pc' = [pc EXCEPT ![p] = "replied"]
                 /\ saving' = [saving EXCEPT ![p] = "no"]
<1>1. saving \in [Savers -> {"no", "open", "header", "front", "back"}]
  BY DEF TypeInv, CheckpointTypeOK
<1>2. saving[p] # "no" /\ UNCHANGED <<coreVars, state_mutex_, request, epoch, callVars, crashes>>
  BY DEF Save, OpenFile, WriteHeader, WriteFront, WriteBack, vars, coreVars, faultVars
<1>3. p \in Threads => pc[p] = "saving"
  BY <1>2 DEF ParamsMutexInv
<1>4. ASSUME NEW success, Return(p, success)
      PROVE  \/ pc' = pc /\ p \notin Threads
             \/ p \in Threads /\ pc' = [pc EXCEPT ![p] = "replied"]
                  /\ saving' = [saving EXCEPT ![p] = "no"]
  BY <1>4, Constants DEF Return, Goto, NextPiece, Savers
<1>5. \/ \E success : Return(p, success)
      \/ pc' = pc /\ saving'[p] # "no"
  BY <1>1 DEF Save, OpenFile, WriteHeader, WriteFront, WriteBack, NextPiece, vars
<1>. QED  BY <1>2, <1>3, <1>4, <1>5

\* Loading changes the model and current_iteration_ and nothing else.
LEMMA LoadEffect ==
  ASSUME NEW t \in Threads, Load(t)
  PROVE  /\ UNCHANGED <<worker_gradients, aggregated, state_mutex_, request, files, saving, epoch,
                        last_checkpointed_epoch, callVars, faultVars>>
         /\ pc[t] \in LoadStages
         /\ \E s \in {"loading", "loaded", "replied"} : pc' = [pc EXCEPT ![t] = s]
BY DEF Load, LoadHeader, LoadTensors, KeepStates, ReplyLoad, Goto, LoadStages, coreVars, fileVars

\* A call comes in, or the periodic thread looks.
Begins ==
  \/ \E t \in Threads, e \in Epochs : SaveCheckpoint(t, e) \/ LoadCheckpoint(t, e)
  \/ Look

LEMMA BeginEffect ==
  ASSUME Begins
  PROVE  /\ UNCHANGED <<coreVars, state_mutex_, request, params_mutex_, files, faultVars>>
         /\ \/ /\ UNCHANGED pc
            \/ \E t \in Threads : /\ pc[t] = "idle"
                                  /\ \E s \in {"saving", "load"} : pc' = [pc EXCEPT ![t] = s]
BY DEF Begins, SaveCheckpoint, LoadCheckpoint, Look, Goto, vars, coreVars

\* state_mutex_ is taken free, kept by its holder and given back; a push that
\* goes on to average has found the flag of its iteration not set.
LEMMA StateMutexStep ==
  ASSUME TypeInv, StateMutexInv, ParamsMutexInv, [CheckpointNext]_checkpointVars
  PROVE  StateMutexInv'
<1> USE DEF Goto, StateMutexInv, InReceive, Received, Folding, StateFree
<1>1. /\ pc \in [Threads -> Stages \cup CheckpointStages]
      /\ request \in [Threads -> Requests]
      /\ aggregated \in [Iterations -> BOOLEAN]
      /\ NoThread \notin Threads
  BY ParameterServerAssumption DEF TypeInv, CheckpointTypeOK, RestTypeOK
<1>2. ASSUME NEW t \in Threads, Exchange(t) PROVE StateMutexInv'
  <2>1. CASE Enters(t)
    <3>. SUFFICES ASSUME NEW w \in Workers, NEW i \in Iterations, NEW g \in Gradients,
                         EnterReceive(t, w, i, g)
                  PROVE  StateMutexInv'
      BY <2>1 DEF Enters
    <3>. QED  BY <1>1 DEF EnterReceive, PushRequest, coreVars
  <2>2. CASE RaiseIteration(t)
    BY <1>1, <2>2 DEF RaiseIteration
  <2>3. CASE SkipAggregated(t)
    BY <1>1, <2>3 DEF SkipAggregated, coreVars
  <2>4. CASE StoreGradients(t)
    BY <1>1, <2>4 DEF StoreGradients, KeepStateMutex
  <2>5. CASE AggregateGradients(t)
    BY <1>1, <2>5 DEF AggregateGradients
  <2>6. CASE MarkAggregated(t)
    BY <1>1, <2>6 DEF MarkAggregated
  <2>7. CASE Quiet(t)
    BY <1>1, <2>7 DEF Quiet, coreVars
  <2>. QED  BY <1>2, <2>1, <2>2, <2>3, <2>4, <2>5, <2>6, <2>7, ExchangeCases DEF TypeInv
<1>3. ASSUME NEW p \in Savers, Save(p) PROVE StateMutexInv'
  BY <1>1, <1>3, SaveEffect DEF coreVars
<1>4. ASSUME NEW t \in Threads, Load(t) PROVE StateMutexInv'
  BY <1>1, <1>4, LoadEffect DEF LoadStages
<1>5. CASE Begins
  BY <1>1, <1>5, BeginEffect DEF coreVars
<1>6. CASE Crash
  BY <1>1, <1>6 DEF Crash
<1>7. CASE UNCHANGED checkpointVars
  BY <1>7 DEF checkpointVars, vars, coreVars
<1>. QED  BY <1>2, <1>3, <1>4, <1>5, <1>6, <1>7 DEF CheckpointNext, Begins

\* An iteration is full when its average is taken, and until then, or its flag
\* is set, it is not.
LEMMA QuorumStep ==
  ASSUME TypeInv, StateMutexInv, ParamsMutexInv, QuorumInv, [CheckpointNext]_checkpointVars
  PROVE  QuorumInv'
<1> USE DEF Goto, QuorumInv, Folding, Received
<1>1. /\ pc \in [Threads -> Stages \cup CheckpointStages]
      /\ request \in [Threads -> Requests]
      /\ aggregated \in [Iterations -> BOOLEAN]
      /\ worker_gradients \in [Iterations -> Contributions]
  BY DEF TypeInv, CheckpointTypeOK, RestTypeOK
<1>2. ASSUME NEW t \in Threads, Exchange(t) PROVE QuorumInv'
  <2>1. CASE Enters(t)
    <3>. SUFFICES ASSUME NEW w \in Workers, NEW i \in Iterations, NEW g \in Gradients,
                         EnterReceive(t, w, i, g)
                  PROVE  QuorumInv'
      BY <2>1 DEF Enters
    <3>. QED  BY <1>1 DEF EnterReceive, coreVars
  <2>2. CASE RaiseIteration(t)
    BY <1>1, <2>2 DEF RaiseIteration
  <2>3. CASE SkipAggregated(t)
    BY <1>1, <2>3 DEF SkipAggregated, coreVars
  <2>4. CASE StoreGradients(t)
    <3> DEFINE i == request[t].iteration
               stored == [worker_gradients[i] EXCEPT ![request[t].worker] = request[t].gradients]
    <3>1. i \in Iterations
      BY <2>4 DEF StoreGradients, StateMutexInv, InReceive, PushRequest
    <3>2. \A u \in Threads : pc[u] \notin Folding
      BY <2>4 DEF StoreGradients, StateMutexInv, InReceive
    <3>3. /\ worker_gradients' = [worker_gradients EXCEPT ![i] = stored]
          /\ UNCHANGED <<aggregated, request>>
          /\ \/ QuorumReached(stored) /\ pc' = [pc EXCEPT ![t] = "averaging"]
             \/ ~QuorumReached(stored) /\ pc' = [pc EXCEPT ![t] = "incomplete"]
      BY <2>4 DEF StoreGradients
    <3> HIDE DEF i, stored
    <3>4. /\ worker_gradients'[i] = stored
          /\ \A j \in Iterations : j # i => worker_gradients'[j] = worker_gradients[j]
      BY <1>1, <3>1, <3>3
    <3>5. request'[t].iteration = i
      BY <3>3 DEF i
    <3>6. /\ \A u \in Threads : u # t => pc'[u] = pc[u]
          /\ QuorumReached(stored) => pc'[t] = "averaging"
          /\ ~QuorumReached(stored) => pc'[t] = "incomplete"
      BY <1>1, <3>3
    <3>. QED  BY <3>2, <3>3, <3>4, <3>5, <3>6
  <2>5. CASE AggregateGradients(t)
    BY <1>1, <2>5 DEF AggregateGradients
  <2>6. CASE MarkAggregated(t)
    <3>1. request[t].iteration \in Iterations
      BY <2>6 DEF MarkAggregated, StateMutexInv, InReceive, PushRequest
    <3>. QED  BY <1>1, <2>6, <3>1 DEF MarkAggregated
  <2>7. CASE Quiet(t)
    BY <1>1, <2>7 DEF Quiet, coreVars
  <2>. QED  BY <1>2, <2>1, <2>2, <2>3, <2>4, <2>5, <2>6, <2>7, ExchangeCases DEF TypeInv
<1>3. ASSUME NEW p \in Savers, Save(p) PROVE QuorumInv'
  BY <1>1, <1>3, SaveEffect DEF coreVars
<1>4. ASSUME NEW t \in Threads, Load(t) PROVE QuorumInv'
  BY <1>1, <1>4, LoadEffect DEF LoadStages
<1>5. CASE Begins
  BY <1>1, <1>5, BeginEffect DEF coreVars
<1>6. CASE Crash
  BY <1>6, NobodyIsNoQuorum DEF Crash
<1>7. CASE UNCHANGED checkpointVars
  BY <1>7 DEF checkpointVars, vars, coreVars
<1>. QED  BY <1>2, <1>3, <1>4, <1>5, <1>6, <1>7 DEF CheckpointNext, Begins

\* A push that raises current_iteration_ read it under state_mutex_; without
\* loads nobody writes it meanwhile.
LEMMA RaiseStep ==
  ASSUME TypeInv, StateMutexInv, ParamsMutexInv, RaiseInv, [CheckpointNext]_checkpointVars
  PROVE  RaiseInv'
<1> USE DEF Goto, RaiseInv, InReceive, Received
<1>1. /\ pc \in [Threads -> Stages \cup CheckpointStages]
      /\ request \in [Threads -> Requests]
      /\ current_iteration_ \in Nat
      /\ Iterations \subseteq Nat
      /\ loads \in Nat
  BY Constants DEF TypeInv, CheckpointTypeOK, RestTypeOK
<1>2. \A t, u \in Threads : pc[t] \in InReceive /\ pc[u] \in InReceive => t = u
  BY DEF StateMutexInv
<1>3. ASSUME NEW t \in Threads, Exchange(t) PROVE RaiseInv'
  <2>1. loads' = loads
    BY <1>3, ExchangeCases DEF TypeInv, callVars
  <2>2. CASE Enters(t)
    <3>. SUFFICES ASSUME NEW w \in Workers, NEW i \in Iterations, NEW g \in Gradients,
                         EnterReceive(t, w, i, g)
                  PROVE  RaiseInv'
      BY <2>2 DEF Enters
    <3>1. i \in Nat
      BY <1>1
    <3>. QED  BY <1>1, <2>1, <3>1 DEF EnterReceive, coreVars
  <2>3. CASE RaiseIteration(t)
    <3>1. request[t].iteration \in Nat
      BY <1>1, <2>3 DEF RaiseIteration, StateMutexInv, PushRequest
    <3>. QED  BY <1>1, <1>2, <2>1, <2>3, <3>1 DEF RaiseIteration
  <2>4. CASE SkipAggregated(t)
    BY <1>1, <2>1, <2>4 DEF SkipAggregated, coreVars
  <2>5. CASE StoreGradients(t)
    BY <1>1, <2>1, <2>5 DEF StoreGradients
  <2>6. CASE AggregateGradients(t)
    BY <1>1, <2>1, <2>6 DEF AggregateGradients
  <2>7. CASE MarkAggregated(t)
    BY <1>1, <2>1, <2>7 DEF MarkAggregated
  <2>8. CASE Quiet(t)
    BY <1>1, <2>1, <2>8 DEF Quiet, coreVars
  <2>. QED  BY <1>3, <2>2, <2>3, <2>4, <2>5, <2>6, <2>7, <2>8, ExchangeCases DEF TypeInv
<1>4. ASSUME NEW p \in Savers, Save(p) PROVE RaiseInv'
  BY <1>1, <1>4, SaveEffect DEF coreVars, callVars
<1>5. ASSUME NEW t \in Threads, Load(t) PROVE RaiseInv'
  BY <1>1, <1>5, LoadEffect DEF ParamsMutexInv, callVars
<1>6. CASE Begins
  <2>1. loads' = 0 => loads = 0
    BY <1>1, <1>6 DEF Begins, SaveCheckpoint, LoadCheckpoint, Look, callVars
  <2>. QED  BY <1>1, <1>6, <2>1, BeginEffect DEF coreVars
<1>7. CASE Crash
  BY <1>7 DEF Crash
<1>8. CASE UNCHANGED checkpointVars
  BY <1>8 DEF checkpointVars, vars, coreVars, callVars
<1>. QED  BY <1>3, <1>4, <1>5, <1>6, <1>7, <1>8 DEF CheckpointNext, Begins

\* The exchange changes the model only when nobody saves or loads.
LEMMA ExchangeEffect ==
  ASSUME TypeInv, NEW t \in Threads, Exchange(t)
  PROVE  /\ UNCHANGED <<fileVars, callVars, faultVars>>
         /\ pc[t] \in Stages
         /\ \E s \in Stages : pc' = [pc EXCEPT ![t] = s]
         /\ parameters_' = parameters_ \/ ParamsFree
<1> USE DEF Goto, Stages, InReceive, Received, coreVars
<1>1. CASE Enters(t)
  <2>. SUFFICES ASSUME NEW w \in Workers, NEW i \in Iterations, NEW g \in Gradients,
                       EnterReceive(t, w, i, g)
                PROVE  /\ pc[t] \in Stages
                       /\ \E s \in Stages : pc' = [pc EXCEPT ![t] = s]
                       /\ parameters_' = parameters_ \/ ParamsFree
    BY <1>1, ExchangeCases DEF Enters, TypeInv
  <2>. QED  BY DEF EnterReceive
<1>2. CASE Quiet(t)
  BY <1>2, ExchangeCases DEF Quiet, TypeInv
<1>3. CASE \/ RaiseIteration(t) \/ SkipAggregated(t) \/ StoreGradients(t)
           \/ AggregateGradients(t) /\ ParamsFree
           \/ MarkAggregated(t)
  <2>1. /\ pc[t] \in Stages
        /\ \E s \in Stages : pc' = [pc EXCEPT ![t] = s]
        /\ parameters_' = parameters_ \/ ParamsFree
    BY <1>3 DEF RaiseIteration, SkipAggregated, StoreGradients, AggregateGradients, MarkAggregated
  <2>. QED  BY <2>1, ExchangeCases DEF TypeInv
<1>. QED  BY <1>1, <1>2, <1>3, ExchangeCases DEF TypeInv

\* params_mutex_ is taken free and kept until the file is written or read.
LEMMA ParamsMutexStep ==
  ASSUME TypeInv, ParamsMutexInv, [CheckpointNext]_checkpointVars
  PROVE  ParamsMutexInv'
<1> USE DEF ParamsMutexInv, Writing, LoadStages, Goto, ParamsFree, Savers
<1>1. /\ pc \in [Threads -> Stages \cup CheckpointStages]
      /\ saving \in [Savers -> {"no", "open", "header", "front", "back"}]
      /\ saves \in Nat /\ loads \in Nat
      /\ NoThread \notin Savers /\ Saver \notin Threads
  BY Constants DEF TypeInv, CheckpointTypeOK, RestTypeOK
<1>2. ASSUME NEW t \in Threads, Exchange(t) PROVE ParamsMutexInv'
  BY <1>1, <1>2, ExchangeEffect DEF Stages, InReceive, Received, fileVars, callVars
<1>3. ASSUME NEW p \in Savers, Save(p) PROVE ParamsMutexInv'
  <2>1. UNCHANGED <<saves, loads>>
    BY <1>3, SaveEffect DEF callVars
  <2>2. CASE OpenFile(p)
    <3>1. CASE params_mutex_' = p /\ NextPiece(p, "header") /\ UNCHANGED pc
      BY <1>1, <2>1, <2>2, <3>1 DEF OpenFile, NextPiece
    <3>2. CASE Return(p, FALSE) /\ UNCHANGED params_mutex_
      <4>1. saving' = [saving EXCEPT ![p] = "no"]
        BY <3>2 DEF Return, NextPiece
      <4>2. CASE p = Saver
        BY <1>1, <2>1, <3>2, <4>1, <4>2 DEF Return
      <4>3. CASE p \in Threads
        <5>1. pc' = [pc EXCEPT ![p] = "replied"] /\ pc[p] = "saving"
          BY <1>1, <1>3, <3>2, <4>3, SaveEffect DEF Return
        <5>. QED  BY <1>1, <2>1, <3>2, <4>1, <4>3, <5>1
      <4>. QED  BY <4>2, <4>3
    <3>. QED  BY <2>2, <3>1, <3>2 DEF OpenFile
  <2>3. CASE WriteHeader(p)
    BY <1>1, <2>1, <2>3 DEF WriteHeader, NextPiece, vars
  <2>4. CASE WriteFront(p)
    BY <1>1, <2>1, <2>4 DEF WriteFront, NextPiece, KeepParamsMutex, vars
  <2>5. CASE WriteBack(p)
    <3>1. /\ params_mutex_ = p /\ saving[p] = "back" /\ params_mutex_' = NoThread
          /\ Return(p, TRUE)
      BY <2>5 DEF WriteBack
    <3>2. \A q \in Savers : q # p => saving'[q] = saving[q] /\ saving[q] \notin Writing
      BY <1>1, <3>1 DEF Return, NextPiece
    <3>3. saving'[p] = "no"
      BY <1>1, <3>1 DEF Return, NextPiece
    <3>4. CASE p \in Threads
      BY <1>1, <2>1, <3>1, <3>2, <3>3, <3>4 DEF Return
    <3>5. CASE p = Saver
      BY <1>1, <2>1, <3>1, <3>2, <3>3, <3>5 DEF Return
    <3>. QED  BY <3>4, <3>5
  <2>. QED  BY <1>3, <2>2, <2>3, <2>4, <2>5 DEF Save
<1>4. ASSUME NEW t \in Threads, Load(t) PROVE ParamsMutexInv'
  <2>1. UNCHANGED <<saving, saves, loads>>
    BY <1>4, LoadEffect DEF callVars
  <2>2. CASE LoadHeader(t)
    BY <1>1, <2>1, <2>2 DEF LoadHeader, MayLoad
  <2>3. CASE LoadTensors(t)
    BY <1>1, <2>1, <2>3 DEF LoadTensors
  <2>4. CASE ReplyLoad(t)
    BY <1>1, <2>1, <2>4 DEF ReplyLoad, fileVars
  <2>. QED  BY <1>4, <2>2, <2>3, <2>4 DEF Load
<1>5. ASSUME NEW t \in Threads, NEW e \in Epochs, SaveCheckpoint(t, e) PROVE ParamsMutexInv'
  BY <1>1, <1>5 DEF SaveCheckpoint, NextPiece
<1>6. ASSUME NEW t \in Threads, NEW e \in Epochs, LoadCheckpoint(t, e) PROVE ParamsMutexInv'
  BY <1>1, <1>6 DEF LoadCheckpoint
<1>7. CASE Look
  BY <1>1, <1>7 DEF Look, NextPiece, vars, callVars
<1>8. CASE Crash
  BY <1>1, <1>8 DEF Crash
<1>9. CASE UNCHANGED checkpointVars
  BY <1>9 DEF checkpointVars, vars, fileVars, callVars
<1>. QED  BY <1>2, <1>3, <1>4, <1>5, <1>6, <1>7, <1>8, <1>9 DEF CheckpointNext

-----------------------------------------------------------------------------
(* Files *)

\* Whoever writes a file finds it as it left it and the model unchanged; a
\* complete file stays until someone opens it.
LEMMA FilesStep ==
  ASSUME TypeInv, ParamsMutexInv, ProgressInv, FilesAreSnapshots, [CheckpointNext]_checkpointVars
  PROVE  (ProgressInv /\ FilesAreSnapshots)'
<1> USE DEF ProgressInv, FilesAreSnapshots, Complete, Goto, ParamsFree
<1>1. /\ pc \in [Threads -> Stages \cup CheckpointStages]
      /\ saving \in [Savers -> {"no", "open", "header", "front", "back"}]
      /\ epoch \in [Savers -> Epochs]
      /\ files \in [Epochs -> File]
      /\ NoThread \notin Savers /\ Saver \notin Threads /\ Threads \subseteq Savers
  BY Constants DEF TypeInv, CheckpointTypeOK, Savers
<1>2. \A p, q \in Savers : saving[p] \in Writing /\ saving[q] \in Writing => p = q
  BY DEF ParamsMutexInv
<1>3. \A p \in Savers, t \in Threads : saving[p] \in Writing => pc[t] # "loading"
  BY <1>1 DEF ParamsMutexInv, Writing
<1>4. ASSUME NEW t \in Threads, Exchange(t) PROVE (ProgressInv /\ FilesAreSnapshots)'
  <2>1. ParamsFree => \A p \in Savers : saving[p] \notin Writing
    BY <1>1 DEF ParamsMutexInv
  <2>. QED  BY <1>1, <1>4, <2>1, ExchangeEffect DEF Stages, InReceive, Received, fileVars, Writing
<1>5. ASSUME NEW p \in Savers, Save(p) PROVE (ProgressInv /\ FilesAreSnapshots)'
  <2>1. UNCHANGED <<parameters_, epoch>>
    BY <1>5, SaveEffect DEF coreVars
  <2>2. \A t \in Threads : pc'[t] = "loading" => pc[t] = "loading" /\ t # p
    <3>1. \A t \in Threads : t # p => pc'[t] = pc[t]
      BY <1>1, <1>5, SaveEffect
    <3>2. p \in Threads => pc'[p] # "loading"
      BY <1>1, <1>5, SaveEffect
    <3>. QED  BY <3>1, <3>2
  <2>3. CASE OpenFile(p)
    <3>1. CASE /\ files' = [files EXCEPT ![epoch[p]] = [NoFile EXCEPT !.part = "empty"]]
               /\ NextPiece(p, "header")
      <4>1. [NoFile EXCEPT !.part = "empty"].part = "empty"
        BY DEF NoFile
      <4>2. \A q \in Savers : saving[q] \notin Writing
        BY <1>1, <2>3 DEF ParamsMutexInv, OpenFile
      <4>. QED  BY <1>1, <2>1, <2>2, <3>1, <4>1, <4>2 DEF NextPiece, Writing
    <3>2. CASE UNCHANGED files /\ Return(p, FALSE)
      BY <1>1, <2>1, <2>2, <3>2 DEF Return, NextPiece
    <3>. QED  BY <2>3, <3>1, <3>2 DEF OpenFile
  <2>4. CASE WriteHeader(p)
    BY <1>1, <1>2, <2>1, <2>2, <2>4 DEF WriteHeader, NextPiece, Writing, File
  <2>5. CASE WriteFront(p)
    BY <1>1, <1>2, <2>1, <2>2, <2>5 DEF WriteFront, NextPiece, Writing, File
  <2>6. CASE WriteBack(p)
    <3>1. saving[p] = "back" /\ saving' = [saving EXCEPT ![p] = "no"]
      BY <2>6 DEF WriteBack, Return, NextPiece
    <3>2. \A q \in Savers : saving'[q] \in Writing => saving[q] \in Writing /\ q # p
      BY <1>1, <3>1 DEF Writing
    <3>3. \A q \in Savers : saving'[q] \notin Writing
      BY <1>2, <3>1, <3>2 DEF Writing
    <3>4. files[epoch[p]].front = parameters_ /\ files[epoch[p]].part = "front"
      BY <3>1
    <3>5. ASSUME NEW f \in Beginnings(files[epoch[p]]), files' = [files EXCEPT ![epoch[p]] = f]
          PROVE  (ProgressInv /\ FilesAreSnapshots)'
      <4>1. files'[epoch[p]].part \in {"empty", "header", "front"}
        BY <1>1, <3>4, <3>5, BeginningsAre
      <4>2. \A e \in Epochs : e # epoch[p] => files'[e] = files[e]
        BY <1>1, <3>5
      <4>. QED  BY <1>1, <2>1, <2>2, <3>3, <4>1, <4>2 DEF Writing
    <3>6. CASE files' = [files EXCEPT ![epoch[p]].part = "complete", ![epoch[p]].back = parameters_]
      <4>1. /\ files'[epoch[p]].part = "complete" /\ files'[epoch[p]].back = parameters_
            /\ files'[epoch[p]].front = parameters_
        BY <1>1, <3>4, <3>6 DEF File
      <4>2. \A e \in Epochs : e # epoch[p] => files'[e] = files[e]
        BY <1>1, <3>6
      <4>. QED  BY <1>1, <2>1, <2>2, <3>3, <4>1, <4>2 DEF Writing
    <3>. QED  BY <2>6, <3>5, <3>6 DEF WriteBack
  <2>. QED  BY <1>5, <2>3, <2>4, <2>5, <2>6 DEF Save
<1>6. ASSUME NEW t \in Threads, Load(t) PROVE (ProgressInv /\ FilesAreSnapshots)'
  <2>1. UNCHANGED <<files, saving, epoch>>
    BY <1>6, LoadEffect
  <2>2. CASE LoadHeader(t)
    BY <1>1, <2>1, <2>2 DEF LoadHeader
  <2>3. CASE LoadTensors(t)
    <3>1. \A p \in Savers : saving[p] # "back"
      BY <1>3, <2>3 DEF LoadTensors, Writing
    <3>. QED  BY <1>1, <2>1, <2>3, <3>1 DEF LoadTensors
  <2>4. CASE ReplyLoad(t)
    BY <1>1, <2>1, <2>4 DEF ReplyLoad, coreVars
  <2>. QED  BY <1>6, <2>2, <2>3, <2>4 DEF Load
<1>7. ASSUME NEW t \in Threads, NEW e \in Epochs, SaveCheckpoint(t, e)
      PROVE  (ProgressInv /\ FilesAreSnapshots)'
  BY <1>1, <1>7 DEF SaveCheckpoint, NextPiece, coreVars
<1>8. ASSUME NEW t \in Threads, NEW e \in Epochs, LoadCheckpoint(t, e)
      PROVE  (ProgressInv /\ FilesAreSnapshots)'
  BY <1>1, <1>8 DEF LoadCheckpoint, coreVars, ParamsMutexInv
<1>9. CASE Look
  BY <1>1, <1>9 DEF Look, NextPiece, vars, coreVars
<1>10. CASE Crash
  BY <1>1, <1>10 DEF Crash
<1>11. CASE UNCHANGED checkpointVars
  BY <1>11 DEF checkpointVars, vars, coreVars, fileVars
<1>. QED  BY <1>4, <1>5, <1>6, <1>7, <1>8, <1>9, <1>10, <1>11 DEF CheckpointNext

-----------------------------------------------------------------------------
(* Models *)

\* The update that is averaged, and what loading makes of a file.
LEMMA Averages ==
  ASSUME TypeInv, StateMutexInv, NEW t \in Threads, AggregateGradients(t)
  PROVE  LET u == [iteration |-> request[t].iteration,
                   contributions |-> worker_gradients[request[t].iteration]]
         IN  /\ u \in Update
             /\ parameters_ \in Model /\ parameters_' = Append(parameters_, u)
             /\ Len(parameters_) \in Nat /\ Len(parameters_') = Len(parameters_) + 1
             /\ \A k \in 1..Len(parameters_) : parameters_'[k] = parameters_[k]
             /\ parameters_'[Len(parameters_) + 1] = u
<1> DEFINE u == [iteration |-> request[t].iteration,
                 contributions |-> worker_gradients[request[t].iteration]]
<1>1. request[t].iteration \in Iterations
  BY DEF AggregateGradients, StateMutexInv, InReceive, PushRequest
<1>2. u \in Update /\ parameters_ \in Model
  BY <1>1 DEF Update, TypeInv, CheckpointTypeOK
<1>3. parameters_' = Append(parameters_, u)
  BY DEF AggregateGradients
<1> HIDE DEF u
<1>4. parameters_ \in Seq(Update \cup {Damaged}) /\ u \in Update \cup {Damaged}
  BY <1>2 DEF Model
<1>5. /\ Len(parameters_) \in Nat /\ Len(parameters_') = Len(parameters_) + 1
      /\ \A k \in 1..Len(parameters_) : parameters_'[k] = parameters_[k]
      /\ parameters_'[Len(parameters_) + 1] = u
  BY <1>3, <1>4
<1>. QED  BY <1>2, <1>3, <1>5 DEF u

\* Every other step of the exchange leaves the model alone.
LEMMA ExchangeModel ==
  ASSUME TypeInv, NEW t \in Threads, Exchange(t)
  PROVE  AggregateGradients(t) \/ parameters_' = parameters_
<1>1. Enters(t) => parameters_' = parameters_
  BY DEF Enters, EnterReceive, coreVars
<1>2. Quiet(t) => parameters_' = parameters_
  BY DEF Quiet, coreVars
<1>. QED  BY <1>1, <1>2, ExchangeCases
          DEF TypeInv, RaiseIteration, SkipAggregated, StoreGradients, MarkAggregated, coreVars

\* Who writes is one, and is neither loading nor about to take a call.
LEMMA WriterFacts ==
  ASSUME TypeInv, ParamsMutexInv
  PROVE  /\ \A p, q \in Savers : saving[p] \in Writing /\ saving[q] \in Writing => p = q
         /\ ParamsFree => \A p \in Savers : saving[p] \notin Writing
         /\ \A p \in Savers, t \in Threads : saving[p] \in Writing => pc[t] # "loading"
         /\ \A t \in Threads : pc[t] # "saving" => saving[t] \notin Writing
<1>1. NoThread \notin Savers
  BY Constants
<1>. QED  BY <1>1 DEF ParamsMutexInv, ParamsFree, Writing, Savers

\* Without faults a damaged model is never read, since nobody reads the file
\* that is being written.
LEMMA DamageStep ==
  ASSUME TypeInv, StateMutexInv, ParamsMutexInv, ProgressInv, FilesAreSnapshots, DamageInv,
         [CheckpointNext]_checkpointVars
  PROVE  DamageInv'
<1> USE DEF DamageInv, Complete, Goto
<1>1. /\ saving \in [Savers -> {"no", "open", "header", "front", "back"}]
      /\ epoch \in [Savers -> Epochs]
      /\ files \in [Epochs -> File]
      /\ crashes \in Nat /\ write_errors \in Nat /\ Threads \subseteq Savers
  BY DEF TypeInv, CheckpointTypeOK, RestTypeOK, Savers
<1>2. ASSUME NEW t \in Threads, Exchange(t) PROVE DamageInv'
  <2>1. UNCHANGED <<files, saving, epoch, crashes, write_errors>>
    BY <1>2, ExchangeEffect DEF fileVars, faultVars
  <2>2. CASE parameters_' = parameters_
    BY <2>1, <2>2
  <2>3. CASE AggregateGradients(t)
    <3>1. crashes + write_errors = 0 => \A k \in 1..Len(parameters_') : parameters_'[k] # Damaged
      <4>1. \A k \in 1..Len(parameters_') : k \in 1..Len(parameters_) \/ k = Len(parameters_) + 1
        <5>1. Len(parameters_) \in Nat /\ Len(parameters_') = Len(parameters_) + 1
          BY <2>3, Averages
        <5>. QED  BY <5>1
      <4>2. parameters_'[Len(parameters_) + 1] # Damaged
        BY <2>3, Averages, DamagedIsNoUpdate
      <4>3. \A k \in 1..Len(parameters_) : parameters_'[k] = parameters_[k]
        BY <2>3, Averages
      <4>. QED  BY <4>1, <4>2, <4>3
    <3>. QED  BY <2>1, <3>1
  <2>. QED  BY <1>2, <2>2, <2>3, ExchangeModel
<1>3. ASSUME NEW p \in Savers, Save(p) PROVE DamageInv'
  <2>1. UNCHANGED <<parameters_, epoch, crashes>> /\ epoch[p] \in Epochs
    BY <1>1, <1>3, SaveEffect DEF coreVars
  <2>2. CASE OpenFile(p)
    <3>1. CASE /\ files' = [files EXCEPT ![epoch[p]] = [NoFile EXCEPT !.part = "empty"]]
               /\ NextPiece(p, "header")
      <4>1. files'[epoch[p]].part = "empty"
        BY <1>1, <2>1, <3>1 DEF NoFile
      <4>2. \A e \in Epochs : e # epoch[p] => files'[e] = files[e]
        BY <1>1, <3>1
      <4>3. saving'[p] = "header" /\ \A q \in Savers : q # p => saving'[q] = saving[q]
        BY <1>1, <3>1 DEF NextPiece
      <4>4. write_errors' = write_errors /\ saving[p] = "open"
        BY <2>2 DEF OpenFile
      <4>. QED  BY <2>1, <4>1, <4>2, <4>3, <4>4 DEF Writing
    <3>2. CASE UNCHANGED files /\ Return(p, FALSE)
      <4>1. saving[p] = "open" /\ \A q \in Savers : q # p => saving'[q] = saving[q]
        BY <1>1, <2>2, <3>2 DEF OpenFile, Return, NextPiece
      <4>2. write_errors' = write_errors
        BY <2>2 DEF OpenFile
      <4>. QED  BY <2>1, <3>2, <4>1, <4>2 DEF Writing
    <3>. QED  BY <2>2, <3>1, <3>2 DEF OpenFile
  <2>3. CASE WriteHeader(p) \/ WriteFront(p)
    <3>1. /\ saving[p] \in Writing /\ saving'[p] \in Writing
          /\ \A q \in Savers : q # p => saving'[q] = saving[q]
          /\ files'[epoch[p]].part # "complete"
          /\ \A e \in Epochs : e # epoch[p] => files'[e] = files[e]
          /\ UNCHANGED write_errors
      BY <1>1, <2>1, <2>3 DEF WriteHeader, WriteFront, NextPiece, Writing, faultVars, File
    <3>. QED  BY <2>1, <3>1
  <2>4. CASE WriteBack(p)
    <3>1. /\ saving[p] \in Writing
          /\ \A q \in Savers : saving[q] \in Writing => q = p
      BY <1>1, <2>4, WriterFacts DEF WriteBack, Writing
    <3>2. CASE files' = [files EXCEPT ![epoch[p]].part = "complete", ![epoch[p]].back = parameters_]
               /\ UNCHANGED write_errors
      <4>1. files'[epoch[p]].part = "complete" /\ files'[epoch[p]].back = parameters_
        BY <1>1, <2>1, <3>2 DEF File
      <4>2. \A e \in Epochs : e # epoch[p] => files'[e] = files[e]
        BY <1>1, <3>2
      <4>3. \A e \in Epochs : files'[e].part \notin {"none", "complete"} =>
              e # epoch[p] /\ files[e].part \notin {"none", "complete"}
        BY <4>1, <4>2
      <4>4. crashes + write_errors = 0 => \A e \in Epochs : files'[e].part \in {"none", "complete"}
        BY <3>1, <4>3
      <4>5. crashes' = crashes /\ write_errors' = write_errors /\ parameters_' = parameters_
        BY <2>1, <3>2
      <4>6. crashes + write_errors = 0 =>
              \A e \in Epochs : files'[e].part = "complete" =>
                \A k \in 1..Len(files'[e].back) : files'[e].back[k] # Damaged
        <5>. SUFFICES ASSUME crashes + write_errors = 0, NEW e \in Epochs,
                             files'[e].part = "complete"
                      PROVE  \A k \in 1..Len(files'[e].back) : files'[e].back[k] # Damaged
          OBVIOUS
        <5>1. CASE e = epoch[p]
          BY <4>1, <5>1
        <5>2. CASE e # epoch[p]
          BY <4>2, <5>2
        <5>. QED  BY <5>1, <5>2
      <4>. QED  BY <4>4, <4>5, <4>6
    <3>3. CASE write_errors' = write_errors + 1
      BY <1>1, <2>1, <3>3
    <3>. QED  BY <2>4, <3>2, <3>3 DEF WriteBack
  <2>. QED  BY <1>3, <2>2, <2>3, <2>4 DEF Save
<1>4. ASSUME NEW t \in Threads, Load(t) PROVE DamageInv'
  <2>1. UNCHANGED <<files, saving, epoch, crashes, write_errors>>
    BY <1>4, LoadEffect DEF faultVars
  <2>2. CASE parameters_' = parameters_
    BY <2>1, <2>2
  <2>3. CASE LoadTensors(t)
    <3>1. epoch[t] \in Epochs /\ files[epoch[t]].part # "none" /\ files[epoch[t]].part \in Parts
      BY <1>1, <2>3, FileTypes DEF LoadTensors, ProgressInv, TypeInv
    <3>2. \A p \in Savers : saving[p] \notin Writing
      BY <2>3, WriterFacts DEF LoadTensors
    <3>3. crashes + write_errors = 0 => Complete(epoch[t])
      BY <3>1, <3>2
    <3>4. Complete(epoch[t]) => parameters_' = files[epoch[t]].back
      BY <2>3 DEF LoadTensors, Contents
    <3>. QED  BY <2>1, <3>1, <3>3, <3>4
  <2>. QED  BY <1>4, <2>2, <2>3 DEF Load, LoadHeader, ReplyLoad, coreVars
<1>5. ASSUME NEW t \in Threads, NEW e \in Epochs, SaveCheckpoint(t, e) \/ LoadCheckpoint(t, e)
      PROVE  DamageInv'
  <2>1. /\ UNCHANGED <<parameters_, files, crashes, write_errors>>
        /\ pc[t] = "idle"
        /\ \A q \in Savers : q # t => saving'[q] = saving[q] /\ epoch'[q] = epoch[q]
    BY <1>1, <1>5 DEF SaveCheckpoint, LoadCheckpoint, NextPiece, coreVars, faultVars
  <2>2. saving[t] \notin Writing
    BY <2>1, WriterFacts
  <2>. QED  BY <2>1, <2>2
<1>6. CASE Look
  <2>1. /\ UNCHANGED <<parameters_, files, crashes, write_errors>>
        /\ saving[Saver] \notin Writing
        /\ \A q \in Savers : q # Saver => saving'[q] = saving[q] /\ epoch'[q] = epoch[q]
    BY <1>1, <1>6 DEF Look, NextPiece, vars, coreVars, faultVars, Writing
  <2>. QED  BY <2>1
<1>7. CASE Crash
  BY <1>1, <1>7 DEF Crash
<1>8. CASE UNCHANGED checkpointVars
  BY <1>8 DEF checkpointVars, vars, coreVars, fileVars, faultVars
<1>. QED  BY <1>2, <1>3, <1>4, <1>5, <1>6, <1>7, <1>8 DEF CheckpointNext

\* A flag that is set, or about to be, stays so until a crash.
LEMMA DoneGrows ==
  ASSUME TypeInv, StateMutexInv, ParamsMutexInv, [CheckpointNext]_checkpointVars, ~Crash
  PROVE  Done \subseteq Done'
<1> USE DEF Done, Marking, Goto
<1>1. /\ pc \in [Threads -> Stages \cup CheckpointStages]
      /\ request \in [Threads -> Requests]
      /\ aggregated \in [Iterations -> BOOLEAN]
  BY DEF TypeInv, CheckpointTypeOK, RestTypeOK
<1>2. ASSUME NEW t \in Threads, Exchange(t) PROVE Done \subseteq Done'
  <2>1. CASE Enters(t)
    <3>. SUFFICES ASSUME NEW w \in Workers, NEW i \in Iterations, NEW g \in Gradients,
                         EnterReceive(t, w, i, g)
                  PROVE  Done \subseteq Done'
      BY <2>1 DEF Enters
    <3>. QED  BY <1>1 DEF EnterReceive, coreVars
  <2>2. CASE RaiseIteration(t)
    BY <1>1, <2>2 DEF RaiseIteration
  <2>3. CASE SkipAggregated(t)
    BY <1>1, <2>3 DEF SkipAggregated, coreVars
  <2>4. CASE StoreGradients(t)
    BY <1>1, <2>4 DEF StoreGradients
  <2>5. CASE AggregateGradients(t)
    BY <1>1, <2>5 DEF AggregateGradients
  <2>6. CASE MarkAggregated(t)
    BY <1>1, <2>6 DEF MarkAggregated
  <2>7. CASE Quiet(t)
    BY <1>1, <2>7 DEF Quiet, coreVars, Received
  <2>. QED  BY <1>2, <2>1, <2>2, <2>3, <2>4, <2>5, <2>6, <2>7, ExchangeCases DEF TypeInv
<1>3. ASSUME NEW p \in Savers, Save(p) PROVE Done \subseteq Done'
  BY <1>1, <1>3, SaveEffect DEF coreVars
<1>4. ASSUME NEW t \in Threads, Load(t) PROVE Done \subseteq Done'
  BY <1>1, <1>4, LoadEffect DEF LoadStages
<1>5. CASE Begins
  BY <1>1, <1>5, BeginEffect DEF coreVars
<1>6. CASE UNCHANGED checkpointVars
  BY <1>6 DEF checkpointVars, vars, coreVars
<1>. QED  BY <1>2, <1>3, <1>4, <1>5, <1>6 DEF CheckpointNext, Begins

\* The iteration of an update that is appended was open and is done now.
LEMMA AveragesOpen ==
  ASSUME TypeInv, StateMutexInv, NEW t \in Threads, AggregateGradients(t)
  PROVE  /\ request[t].iteration \in Iterations
         /\ request[t].iteration \notin Done
         /\ request[t].iteration \in Done'
<1>1. /\ pc[t] = "averaging" /\ request[t].iteration \in Iterations
      /\ ~aggregated[request[t].iteration]
      /\ pc' = [pc EXCEPT ![t] = "marking"] /\ request' = request
  BY DEF AggregateGradients, StateMutexInv, InReceive, Folding, PushRequest, Goto
<1>2. \A u \in Threads : pc[u] # "marking"
  BY <1>1 DEF StateMutexInv, InReceive
<1>3. pc'[t] = "marking"
  BY <1>1 DEF TypeInv, CheckpointTypeOK
<1>. QED  BY <1>1, <1>2, <1>3 DEF Done, Marking

\* An update of an iteration that is new makes a fine model of a fine model,
\* and so does Damaged.
LEMMA FineAppend ==
  ASSUME NEW m \in Model, NEW u \in Update \cup {Damaged}, NEW is \in SUBSET Nat,
         NEW js \in SUBSET Nat,
         Fine(m, is), is \subseteq js, u # Damaged => u.iteration \in js \ is
  PROVE  Fine(Append(m, u), js)
<1> DEFINE n == Append(m, u)
<1>1. m \in Seq(Update \cup {Damaged})
  BY DEF Model
<1>2. /\ Len(m) \in Nat /\ Len(n) = Len(m) + 1 /\ n[Len(m) + 1] = u
      /\ \A k \in 1..Len(m) : n[k] = m[k] /\ m[k] \in Update \cup {Damaged}
  BY <1>1
<1> HIDE DEF n
<1>3. \A k \in 1..Len(n) : k \in 1..Len(m) \/ k = Len(m) + 1
  BY <1>2
<1>4. \A k \in 1..Len(m) : m[k] # Damaged => m[k].iteration \in is
  BY DEF Fine
<1>5. \A k \in 1..Len(m) : m[k] # Damaged => u.iteration # m[k].iteration
  <2>1. CASE u = Damaged
    BY <1>2, <2>1, DamagedIsNoUpdate
  <2>2. CASE u # Damaged
    BY <1>4, <2>2
  <2>. QED  BY <2>1, <2>2
<1>6. \A k \in 1..Len(m) : u # Damaged => u.iteration # m[k].iteration
  <2>. SUFFICES ASSUME NEW k \in 1..Len(m), u # Damaged PROVE u.iteration # m[k].iteration
    OBVIOUS
  <2>1. CASE m[k] # Damaged
    BY <1>5, <2>1
  <2>2. CASE m[k] = Damaged
    BY <2>2, DamagedIsNoUpdate
  <2>. QED  BY <2>1, <2>2
<1>7. \A k \in 1..Len(n) : n[k] # Damaged => n[k].iteration \in js
  BY <1>2, <1>3, <1>4
<1>8. Distinct(n)
  <2>. SUFFICES ASSUME NEW j \in 1..Len(n), NEW k \in 1..Len(n), n[j] # Damaged,
                       n[j].iteration = n[k].iteration
                PROVE  j = k
    BY DEF Distinct
  <2>1. CASE j \in 1..Len(m) /\ k \in 1..Len(m)
    BY <1>2, <2>1 DEF Fine, Distinct
  <2>2. CASE j = Len(m) + 1 /\ k \in 1..Len(m)
    BY <1>2, <1>6, <2>2
  <2>3. CASE j \in 1..Len(m) /\ k = Len(m) + 1
    BY <1>2, <1>5, <2>3
  <2>. QED  BY <1>3, <2>1, <2>2, <2>3
<1>. QED  BY <1>7, <1>8 DEF Fine, n

\* A fine model stays fine.
LEMMA FineGrows ==
  ASSUME NEW m, NEW is, NEW js, Fine(m, is), is \subseteq js
  PROVE  Fine(m, js)
BY DEF Fine

LEMMA FineEmpty == ASSUME NEW is PROVE Fine(<<>>, is)
BY DEF Fine, Distinct

\* Whatever is saved was in the model, whatever is loaded was saved, and what
\* is averaged is new.
LEMMA SettledStep ==
  ASSUME TypeInv, StateMutexInv, ParamsMutexInv, ProgressInv, SettledInv,
         [CheckpointNext]_checkpointVars
  PROVE  SettledInv'
<1>1. /\ files \in [Epochs -> File] /\ epoch \in [Savers -> Epochs] /\ crashes \in Nat
      /\ Threads \subseteq Savers /\ Done \in SUBSET Nat /\ Done' \in SUBSET Nat
  BY Constants DEF TypeInv, CheckpointTypeOK, RestTypeOK, Savers, Done
<1>2. CASE Crash
  BY <1>1, <1>2 DEF Crash, SettledInv
<1>. SUFFICES ASSUME ~Crash, crashes' = 0
              PROVE  /\ Fine(parameters_', Done')
                     /\ \A e \in Epochs : /\ Fine(files'[e].front, Done')
                                          /\ Fine(files'[e].back, Done')
  BY <1>2 DEF SettledInv
<1>3. Done \subseteq Done'
  BY DoneGrows
<1>4. crashes' = crashes
  <2>1. ASSUME NEW t \in Threads, Exchange(t) PROVE crashes' = crashes
    BY <2>1, ExchangeEffect DEF faultVars
  <2>2. ASSUME NEW p \in Savers, Save(p) PROVE crashes' = crashes
    BY <2>2, SaveEffect
  <2>3. ASSUME NEW t \in Threads, Load(t) PROVE crashes' = crashes
    BY <2>3, LoadEffect DEF faultVars
  <2>4. Begins => crashes' = crashes
    BY BeginEffect DEF faultVars
  <2>. QED  BY <2>1, <2>2, <2>3, <2>4 DEF CheckpointNext, Begins, checkpointVars, faultVars
<1>5. /\ Fine(parameters_, Done') /\ Fine(<<>>, Done')
      /\ \A e \in Epochs : Fine(files[e].front, Done') /\ Fine(files[e].back, Done')
  BY <1>3, <1>4, FineGrows, FineEmpty DEF SettledInv
<1>6. CASE UNCHANGED <<parameters_, files>>
  BY <1>5, <1>6
<1>7. ASSUME NEW t \in Threads, AggregateGradients(t), UNCHANGED files
      PROVE  Fine(parameters_', Done')
  <2>1. parameters_ \in Model /\ Fine(parameters_, Done)
    BY <1>4 DEF TypeInv, CheckpointTypeOK, SettledInv
  <2> DEFINE u == [iteration |-> request[t].iteration,
                   contributions |-> worker_gradients[request[t].iteration]]
  <2>2. u \in Update /\ parameters_' = Append(parameters_, u)
    BY <1>7, Averages
  <2>3. u.iteration \in Done' \ Done
    BY <1>7, AveragesOpen
  <2> HIDE DEF u
  <2>. QED  BY <1>1, <1>3, <2>1, <2>2, <2>3, FineAppend
<1>8. ASSUME NEW t \in Threads, Exchange(t)
      PROVE  UNCHANGED files /\ (AggregateGradients(t) \/ parameters_' = parameters_)
  BY <1>8, ExchangeEffect, ExchangeModel DEF fileVars
<1>9. ASSUME NEW p \in Savers, Save(p)
      PROVE  /\ parameters_' = parameters_
             /\ \A e \in Epochs : /\ files'[e].front \in {files[e].front, parameters_, <<>>}
                                  /\ files'[e].back \in {files[e].back, parameters_, <<>>}
  <2>1. parameters_' = parameters_
    BY <1>9, SaveEffect DEF coreVars
  <2>2. [NoFile EXCEPT !.part = "empty"].front = <<>> /\ [NoFile EXCEPT !.part = "empty"].back = <<>>
    BY DEF NoFile
  <2>3. CASE UNCHANGED files
    BY <2>1, <2>3
  <2>4. CASE files' = [files EXCEPT ![epoch[p]] = [NoFile EXCEPT !.part = "empty"]]
    BY <1>1, <2>1, <2>2, <2>4
  <2>5. CASE WriteHeader(p)
    BY <1>1, <2>1, <2>5 DEF WriteHeader, File
  <2>6. CASE WriteFront(p)
    BY <1>1, <2>1, <2>6 DEF WriteFront, File
  <2>7. CASE files' = [files EXCEPT ![epoch[p]].part = "complete", ![epoch[p]].back = parameters_]
    BY <1>1, <2>1, <2>7 DEF File
  <2>8. ASSUME NEW f \in Beginnings(files[epoch[p]]), files' = [files EXCEPT ![epoch[p]] = f]
        PROVE  \A e \in Epochs : /\ files'[e].front \in {files[e].front, <<>>}
                                 /\ files'[e].back \in {files[e].back, <<>>}
    <3>1. /\ f.front \in {files[epoch[p]].front, <<>>}
          /\ f.back \in {files[epoch[p]].back, <<>>}
      BY <1>1, <2>8, BeginningsAre
    <3>. QED  BY <1>1, <2>8, <3>1
  <2>. QED  BY <1>9, <2>1, <2>3, <2>4, <2>5, <2>6, <2>7, <2>8 DEF Save, OpenFile, WriteBack
<1>10. ASSUME NEW t \in Threads, Load(t)
       PROVE  UNCHANGED files /\ Fine(parameters_', Done')
  <2>1. UNCHANGED files
    BY <1>10, LoadEffect
  <2>2. CASE parameters_' = parameters_
    BY <1>5, <2>1, <2>2
  <2>3. CASE LoadTensors(t)
    <3>1. /\ epoch[t] \in Epochs /\ files[epoch[t]].part \in Parts \ {"none"}
          /\ files[epoch[t]].front \in Model
      BY <1>1, <2>3, FileTypes DEF LoadTensors, ProgressInv, TypeInv
    <3>2. Fine(Append(files[epoch[t]].front, Damaged), Done')
      BY <1>1, <1>5, <3>1, FineAppend
    <3>3. parameters_' \in {<<>>, Append(files[epoch[t]].front, Damaged), files[epoch[t]].back}
      BY <2>3, <3>1 DEF LoadTensors, Contents, Parts
    <3>. QED  BY <1>5, <2>1, <3>1, <3>2, <3>3
  <2>. QED  BY <1>10, <2>1, <2>2, <2>3 DEF Load, LoadHeader, ReplyLoad, coreVars
<1>11. CASE Begins
  BY <1>6, <1>11, BeginEffect DEF coreVars
<1>12. CASE UNCHANGED checkpointVars
  BY <1>6, <1>12 DEF checkpointVars, vars, coreVars, fileVars
<1>13. ASSUME NEW t \in Threads, Exchange(t)
       PROVE  /\ Fine(parameters_', Done')
              /\ \A e \in Epochs : Fine(files'[e].front, Done') /\ Fine(files'[e].back, Done')
  BY <1>5, <1>7, <1>8, <1>13
<1>14. ASSUME NEW p \in Savers, Save(p)
       PROVE  /\ Fine(parameters_', Done')
              /\ \A e \in Epochs : Fine(files'[e].front, Done') /\ Fine(files'[e].back, Done')
  BY <1>5, <1>9, <1>14
<1>. QED  BY <1>5, <1>10, <1>11, <1>12, <1>13, <1>14 DEF CheckpointNext, Begins

-----------------------------------------------------------------------------
(* Headers *)

\* A model does not get ahead of an iteration by growing with one up to it.
LEMMA UpToAppend ==
  ASSUME NEW m \in Model, NEW u \in Update, NEW i \in Nat, UpTo(m, i), u.iteration <= i
  PROVE  UpTo(Append(m, u), i)
<1> DEFINE n == Append(m, u)
<1>1. m \in Seq(Update \cup {Damaged})
  BY DEF Model
<1>2. /\ Len(m) \in Nat /\ Len(n) = Len(m) + 1 /\ n[Len(m) + 1] = u
      /\ \A k \in 1..Len(m) : n[k] = m[k]
  BY <1>1
<1> HIDE DEF n
<1>3. \A k \in 1..Len(n) : k \in 1..Len(m) \/ k = Len(m) + 1
  BY <1>2
<1>4. UpTo(n, i)
  BY <1>2, <1>3 DEF UpTo
<1>. QED  BY <1>4 DEF n

\* A later iteration bounds the model as well.
LEMMA UpToGrows ==
  ASSUME NEW m \in Model, NEW i \in Nat, NEW j \in Nat, UpTo(m, i), i <= j
  PROVE  UpTo(m, j)
<1>. SUFFICES ASSUME NEW k \in 1..Len(m) PROVE m[k].iteration <= j
  BY DEF UpTo
<1>1. m[k] \in Update \cup {Damaged}
  BY DEF Model
<1>2. m[k].iteration \in Int
  BY <1>1, DamagedIsNoUpdate
<1>3. m[k].iteration <= i
  BY DEF UpTo
<1>. QED  BY <1>2, <1>3

\* Without loads current_iteration_ does not fall until a crash.
LEMMA IterationGrows ==
  ASSUME TypeInv, StateMutexInv, RaiseInv, ParamsMutexInv, [CheckpointNext]_checkpointVars,
         ~Crash, loads' = 0
  PROVE  /\ loads = 0
         /\ current_iteration_ \in Nat /\ current_iteration_' \in Nat
         /\ current_iteration_ <= current_iteration_'
         /\ saves' = 0 => saves = 0
<1>1. current_iteration_ \in Nat /\ loads \in Nat /\ saves \in Nat /\ Iterations \subseteq Nat
  BY Constants DEF TypeInv, CheckpointTypeOK, RestTypeOK
<1>2. loads = 0 /\ (saves' = 0 => saves = 0)
  <2>1. ASSUME NEW t \in Threads, Exchange(t) PROVE UNCHANGED callVars
    BY <2>1, ExchangeEffect
  <2>2. ASSUME NEW p \in Savers, Save(p) PROVE UNCHANGED callVars
    BY <2>2, SaveEffect
  <2>3. ASSUME NEW t \in Threads, Load(t) PROVE UNCHANGED callVars
    BY <2>3, LoadEffect
  <2>4. Begins => \/ UNCHANGED callVars
                  \/ saves' = saves + 1 /\ loads' = loads
                  \/ loads' = loads + 1
    BY DEF Begins, SaveCheckpoint, LoadCheckpoint, Look, callVars
  <2>5. \/ UNCHANGED callVars
        \/ saves' = saves + 1 /\ loads' = loads
        \/ loads' = loads + 1
    BY <2>1, <2>2, <2>3, <2>4 DEF CheckpointNext, Begins, checkpointVars
  <2>. QED  BY <1>1, <2>5 DEF callVars
<1>3. ASSUME NEW t \in Threads, Exchange(t)
      PROVE  current_iteration_' = current_iteration_ \/ RaiseIteration(t)
  <2>1. Enters(t) \/ Quiet(t) => current_iteration_' = current_iteration_
    BY DEF Enters, EnterReceive, Quiet, coreVars
  <2>. QED  BY <1>3, <2>1, ExchangeCases
            DEF TypeInv, SkipAggregated, StoreGradients, AggregateGradients, MarkAggregated, coreVars
<1>4. ASSUME NEW t \in Threads, RaiseIteration(t)
      PROVE  /\ current_iteration_' \in Nat
             /\ current_iteration_ <= current_iteration_'
  <2>1. request[t].iteration \in Nat
    BY <1>1, <1>4 DEF RaiseIteration, StateMutexInv, InReceive, PushRequest
  <2>2. request[t].iteration > current_iteration_ /\ current_iteration_' = request[t].iteration
    BY <1>2, <1>4 DEF RaiseIteration, RaiseInv
  <2>. QED  BY <1>1, <2>1, <2>2
<1>5. ASSUME NEW p \in Savers, Save(p) PROVE current_iteration_' = current_iteration_
  BY <1>5, SaveEffect DEF coreVars
<1>6. ASSUME NEW t \in Threads, Load(t) PROVE FALSE
  BY <1>1, <1>2, <1>6, LoadEffect DEF ParamsMutexInv
<1>7. Begins => current_iteration_' = current_iteration_
  BY BeginEffect DEF coreVars
<1>8. \/ current_iteration_' = current_iteration_
      \/ \E t \in Threads : RaiseIteration(t)
  BY <1>3, <1>5, <1>6, <1>7 DEF CheckpointNext, Begins, checkpointVars, vars, coreVars
<1>. QED  BY <1>1, <1>2, <1>4, <1>8

\* The header is written after the file was opened, when the model could not
\* change any more, and before the model; its iteration is the newest.
LEMMA HeaderStep ==
  ASSUME TypeInv, StateMutexInv, RaiseInv, ParamsMutexInv, ProgressInv, HeaderInv, HeaderFits,
         [CheckpointNext]_checkpointVars
  PROVE  (HeaderInv /\ HeaderFits)'
<1>1. CASE Crash
  <2>1. \A i \in Nat : UpTo(<<>>, i)
    BY DEF UpTo
  <2>2. HeaderInv'
    BY <1>1, <2>1 DEF Crash, HeaderInv, Savers
  <2>. QED  BY <1>1, <2>2 DEF Crash, HeaderFits, Complete, callVars
<1>. SUFFICES ASSUME ~Crash, loads' = 0 PROVE (HeaderInv /\ HeaderFits)'
  BY <1>1 DEF HeaderInv, HeaderFits
<1>2. /\ loads = 0
      /\ current_iteration_ \in Nat /\ current_iteration_' \in Nat
      /\ current_iteration_ <= current_iteration_'
      /\ saves' = 0 => saves = 0
  BY IterationGrows
<1>3. /\ files \in [Epochs -> File] /\ epoch \in [Savers -> Epochs] /\ parameters_ \in Model
      /\ saving \in [Savers -> {"no", "open", "header", "front", "back"}]
      /\ Saver \in Savers /\ Threads \subseteq Savers /\ Iterations \subseteq Nat
      /\ \A e \in Epochs : e \in Nat
  <2>1. \A e \in Epochs : e \in Nat
    BY Constants, EpochsGrow DEF Epochs
  <2>. QED  BY <2>1, Constants DEF TypeInv, CheckpointTypeOK, Savers
<1>4. /\ UpTo(parameters_, current_iteration_)
      /\ \A p \in Savers : saving[p] \in {"front", "back"} =>
           UpTo(parameters_, files[epoch[p]].iteration)
      /\ \A e \in Epochs : Complete(e) => UpTo(files[e].back, files[e].iteration)
  BY <1>2 DEF HeaderInv, HeaderFits, UpTo
<1>5. saves = 0 =>
        /\ saving[Saver] \in {"open", "header"} => EpochOf(current_iteration_) >= epoch[Saver]
        /\ saving[Saver] \in {"front", "back"} =>
             EpochOf(files[epoch[Saver]].iteration) >= epoch[Saver]
        /\ \A e \in Epochs : Complete(e) => EpochOf(files[e].iteration) >= e
        /\ \A t \in Threads : saving[t] = "no"
  BY <1>2 DEF HeaderInv, HeaderFits, ParamsMutexInv
<1>6. \A e \in Nat : EpochOf(current_iteration_) >= e => EpochOf(current_iteration_') >= e
  BY <1>2, EpochsGrow
\* What has to be shown, in terms of the files and the savers after the step.
<1>7. ASSUME UpTo(parameters_', current_iteration_'),
             \A p \in Savers : saving'[p] \in {"front", "back"} =>
               UpTo(parameters_', files'[epoch'[p]].iteration),
             \A e \in Epochs : files'[e].part = "complete" => UpTo(files'[e].back, files'[e].iteration),
             saves = 0 =>
               /\ saving'[Saver] \in {"open", "header"} => EpochOf(current_iteration_') >= epoch'[Saver]
               /\ saving'[Saver] \in {"front", "back"} =>
                    EpochOf(files'[epoch'[Saver]].iteration) >= epoch'[Saver]
               /\ \A e \in Epochs : files'[e].part = "complete" => EpochOf(files'[e].iteration) >= e
      PROVE  (HeaderInv /\ HeaderFits)'
  BY <1>2, <1>7 DEF HeaderInv, HeaderFits, Complete, UpTo
<1>8. UpTo(parameters_, current_iteration_')
  BY <1>2, <1>3, <1>4, UpToGrows
<1>9. ASSUME NEW t \in Threads, Exchange(t) PROVE (HeaderInv /\ HeaderFits)'
  <2>1. UNCHANGED <<files, saving, epoch>>
    BY <1>9, ExchangeEffect DEF fileVars
  <2>2. CASE parameters_' = parameters_
    BY <1>3, <1>4, <1>5, <1>6, <1>7, <1>8, <2>1, <2>2 DEF Complete
  <2>3. CASE AggregateGradients(t) /\ parameters_' # parameters_
    <3> DEFINE u == [iteration |-> request[t].iteration,
                     contributions |-> worker_gradients[request[t].iteration]]
    <3>1. u \in Update /\ parameters_' = Append(parameters_, u)
      BY <2>3, Averages
    <3>2. u.iteration <= current_iteration_ /\ current_iteration_' = current_iteration_
      BY <1>2, <2>3 DEF AggregateGradients, RaiseInv, InReceive
    <3> HIDE DEF u
    <3>3. UpTo(parameters_', current_iteration_')
      BY <1>2, <1>3, <1>4, <3>1, <3>2, UpToAppend
    <3>4. \A p \in Savers : saving[p] \notin {"front", "back"}
      BY <1>9, <2>3, ExchangeEffect, WriterFacts DEF Writing
    <3>. QED  BY <1>3, <1>4, <1>5, <1>6, <1>7, <2>1, <3>3, <3>4 DEF Complete
  <2>. QED  BY <1>9, <2>2, <2>3, ExchangeModel
<1>10. ASSUME NEW p \in Savers, Save(p) PROVE (HeaderInv /\ HeaderFits)'
  <2>1. /\ UNCHANGED <<parameters_, current_iteration_, epoch>> /\ saving[p] # "no"
        /\ epoch[p] \in Epochs /\ (saves = 0 => p = Saver)
    BY <1>3, <1>5, <1>10, SaveEffect DEF coreVars, Savers
  <2>2. \A q \in Savers : q # p => saving'[q] = saving[q]
    BY <1>3, <1>10 DEF Save, OpenFile, WriteHeader, WriteFront, WriteBack, Return, NextPiece
  <2>3. CASE OpenFile(p)
    <3>1. saving'[p] \in {"no", "header"} /\ saving[p] = "open"
      BY <1>3, <2>3 DEF OpenFile, Return, NextPiece
    <3>2. \A q \in Savers : saving'[q] \notin {"front", "back"}
      BY <2>2, <2>3, <3>1, WriterFacts DEF OpenFile, Return, NextPiece, Writing
    <3>3. \A e \in Epochs : files'[e].part = "complete" => files'[e] = files[e]
      <4>1. [NoFile EXCEPT !.part = "empty"].part = "empty"
        BY DEF NoFile
      <4>. QED  BY <1>3, <2>3, <4>1 DEF OpenFile
    <3>. QED  BY <1>4, <1>5, <1>7, <1>8, <2>1, <2>2, <3>1, <3>2, <3>3 DEF Complete
  <2>4. CASE WriteHeader(p)
    <3>1. /\ saving[p] = "header" /\ saving'[p] = "front"
          /\ files'[epoch[p]].part = "header" /\ files'[epoch[p]].iteration = current_iteration_
          /\ \A e \in Epochs : e # epoch[p] => files'[e] = files[e]
      BY <1>3, <2>1, <2>4 DEF WriteHeader, NextPiece, File
    <3>2. \A q \in Savers : saving'[q] \in {"front", "back"} => q = p
      BY <2>2, <3>1, WriterFacts DEF Writing
    <3>. QED  BY <1>4, <1>5, <1>7, <1>8, <2>1, <3>1, <3>2 DEF Complete
  <2>5. CASE WriteFront(p)
    <3>1. /\ saving[p] = "front" /\ saving'[p] = "back"
          /\ files'[epoch[p]].part = "front"
          /\ files'[epoch[p]].iteration = files[epoch[p]].iteration
          /\ \A e \in Epochs : e # epoch[p] => files'[e] = files[e]
      BY <1>3, <2>1, <2>5 DEF WriteFront, NextPiece, File
    <3>2. \A q \in Savers : saving'[q] \in {"front", "back"} => q = p
      BY <2>2, <3>1, WriterFacts DEF Writing
    <3>. QED  BY <1>4, <1>5, <1>7, <1>8, <2>1, <3>1, <3>2 DEF Complete
  <2>6. CASE WriteBack(p)
    <3>1. saving[p] = "back" /\ saving'[p] = "no"
      BY <1>3, <2>6 DEF WriteBack, Return, NextPiece
    <3>2. \A q \in Savers : saving'[q] \notin {"front", "back"}
      BY <2>2, <3>1, WriterFacts DEF Writing
    <3>3. saves = 0 => saving'[Saver] = "no"
      BY <2>1, <3>1
    <3>4. ASSUME NEW f \in Beginnings(files[epoch[p]]), files' = [files EXCEPT ![epoch[p]] = f]
          PROVE  (HeaderInv /\ HeaderFits)'
      <4>1. files[epoch[p]].part = "front"
        BY <1>1, <3>1 DEF ProgressInv
      <4>2. /\ files'[epoch[p]].part # "complete"
            /\ \A e \in Epochs : e # epoch[p] => files'[e] = files[e]
        BY <1>3, <2>1, <3>4, <4>1, BeginningsAre
      <4>. QED  BY <1>4, <1>5, <1>7, <1>8, <2>1, <3>2, <3>3, <4>2 DEF Complete
    <3>5. CASE files' = [files EXCEPT ![epoch[p]].part = "complete", ![epoch[p]].back = parameters_]
      <4>1. /\ files'[epoch[p]].back = parameters_
            /\ files'[epoch[p]].iteration = files[epoch[p]].iteration
            /\ \A e \in Epochs : e # epoch[p] => files'[e] = files[e]
        BY <1>3, <2>1, <3>5 DEF File
      <4>2. UpTo(files'[epoch[p]].back, files'[epoch[p]].iteration)
        BY <1>4, <3>1, <4>1
      <4>3. saves = 0 => EpochOf(files'[epoch[p]].iteration) >= epoch[p]
        BY <1>5, <2>1, <3>1, <4>1
      <4>. QED  BY <1>4, <1>5, <1>7, <1>8, <2>1, <3>2, <3>3, <4>1, <4>2, <4>3 DEF Complete
    <3>. QED  BY <2>6, <3>4, <3>5 DEF WriteBack
  <2>. QED  BY <1>10, <2>3, <2>4, <2>5, <2>6 DEF Save
<1>11. ASSUME NEW t \in Threads, Load(t) PROVE FALSE
  BY <1>2, <1>11, LoadEffect DEF ParamsMutexInv
<1>12. ASSUME NEW t \in Threads, NEW e \in Epochs, SaveCheckpoint(t, e)
       PROVE  (HeaderInv /\ HeaderFits)'
  <2>1. saves' # 0 /\ saving'[t] = "open" /\ \A q \in Savers : q # t => saving'[q] = saving[q]
    BY <1>3, <1>12 DEF SaveCheckpoint, NextPiece, TypeInv, RestTypeOK
  <2>2. UNCHANGED <<parameters_, current_iteration_, files>>
    BY <1>12 DEF SaveCheckpoint, coreVars
  <2>3. \A q \in Savers : q # t => epoch'[q] = epoch[q]
    BY <1>3, <1>12 DEF SaveCheckpoint
  <2>. QED  BY <1>2, <1>4, <2>1, <2>2, <2>3 DEF HeaderInv, HeaderFits, Complete, UpTo
<1>13. ASSUME NEW t \in Threads, NEW e \in Epochs, LoadCheckpoint(t, e) PROVE FALSE
  BY <1>2, <1>13 DEF LoadCheckpoint
<1>14. CASE Look
  <2>1. /\ UNCHANGED <<parameters_, current_iteration_, files>>
        /\ saving'[Saver] = "open" /\ epoch'[Saver] = EpochOf(current_iteration_)
        /\ \A q \in Savers : q # Saver => saving'[q] = saving[q] /\ epoch'[q] = epoch[q]
    BY <1>3, <1>14 DEF Look, NextPiece, CurrentEpoch, vars, coreVars
  <2>2. EpochOf(current_iteration_) \in Nat
    BY <1>2, EpochsGrow
  <2>. QED  BY <1>4, <1>5, <1>7, <1>8, <2>1, <2>2 DEF Complete
<1>15. CASE UNCHANGED checkpointVars
  BY <1>4, <1>5, <1>7, <1>15 DEF checkpointVars, vars, coreVars, fileVars, Complete
<1>. QED  BY <1>9, <1>10, <1>11, <1>12, <1>13, <1>14, <1>15 DEF CheckpointNext

-----------------------------------------------------------------------------
(* The invariant *)

LEMMA Initially == CheckpointInit => IInv
<1>. SUFFICES ASSUME CheckpointInit PROVE IInv
  OBVIOUS
<1>1. CheckpointTypeOK /\ RestTypeOK
  BY TypeInit DEF TypeInv
<1>2. /\ parameters_ = <<>> /\ current_iteration_ = 0 /\ loads = 0 /\ saves = 0
      /\ pc = [t \in Threads |-> "idle"] /\ state_mutex_ = NoThread
      /\ files = [e \in Epochs |-> NoFile]
      /\ saving = [p \in Savers |-> "no"] /\ params_mutex_ = NoThread
  BY DEF CheckpointInit, Init
<1>3. \A e \in Epochs : /\ files[e].part = "none"
                        /\ files[e].front = <<>> /\ files[e].back = <<>>
  BY <1>2 DEF NoFile
<1>4. StateMutexInv /\ RaiseInv
  BY <1>2, Constants DEF StateMutexInv, RaiseInv, InReceive, Folding, Savers
<1>10. QuorumInv
  <2>1. \A i \in Iterations : worker_gradients[i] = [w \in Workers |-> NoGradient]
    BY DEF CheckpointInit, Init
  <2>. QED  BY <1>2, <2>1, NobodyIsNoQuorum DEF QuorumInv, Folding
<1>5. ParamsMutexInv /\ ProgressInv
  BY <1>2 DEF ParamsMutexInv, ProgressInv, Writing, LoadStages, Savers
<1>6. FilesAreSnapshots /\ HeaderFits
  BY <1>3 DEF FilesAreSnapshots, HeaderFits, Complete
<1>7. DamageInv
  BY <1>2, <1>3 DEF DamageInv, Complete
<1>8. SettledInv
  BY <1>2, <1>3, FineEmpty DEF SettledInv
<1>9. HeaderInv
  BY <1>2 DEF HeaderInv, UpTo, Savers
<1>. QED  BY <1>1, <1>4, <1>5, <1>6, <1>7, <1>8, <1>9, <1>10 DEF IInv

LEMMA Inductive == IInv /\ [CheckpointNext]_checkpointVars => IInv'
<1>. SUFFICES ASSUME IInv, [CheckpointNext]_checkpointVars PROVE IInv'
  OBVIOUS
<1>1. TypeInv
  BY DEF IInv, TypeInv
<1>2. (CheckpointTypeOK /\ RestTypeOK)'
  BY <1>1, TypeStep DEF IInv, TypeInv
<1>3. StateMutexInv' /\ QuorumInv' /\ RaiseInv'
  BY <1>1, StateMutexStep, QuorumStep, RaiseStep DEF IInv
<1>4. ParamsMutexInv' /\ (ProgressInv /\ FilesAreSnapshots)'
  BY <1>1, ParamsMutexStep, FilesStep DEF IInv
<1>5. DamageInv' /\ SettledInv'
  BY <1>1, DamageStep, SettledStep DEF IInv
<1>6. (HeaderInv /\ HeaderFits)'
  BY <1>1, HeaderStep DEF IInv
<1>. QED  BY <1>2, <1>3, <1>4, <1>5, <1>6 DEF IInv

\* The parts of the invariant, and with them all safety properties, hold in
\* every reachable state of save_checkpoint, load_checkpoint and the exchange.
THEOREM Invariant == CheckpointSpec => []IInv
BY Initially, Inductive, PTL DEF CheckpointSpec

-----------------------------------------------------------------------------
\* Every variable of the server, its files and the threads that save and load
\* keeps its type, whatever crashes and errors do to the files.
THEOREM CheckpointTypeCorrect == CheckpointSpec => []CheckpointTypeOK
BY Invariant, PTL DEF IInv

\* A file that save_checkpoint wrote to its end holds the model of one moment,
\* for any number of threads that push, save and load meanwhile.
THEOREM SnapshotsAreTaken == CheckpointSpec => []FilesAreSnapshots
BY Invariant, PTL DEF IInv

\* The epoch, the iteration and the model of a file fit together until
\* load_checkpoint sets current_iteration_ back, although save_checkpoint reads
\* current_iteration_ without the mutex it is written under.
THEOREM HeadersFit == CheckpointSpec => []HeaderFits
BY Invariant, PTL DEF IInv

\* load_checkpoint never reads a file while it is written: only crashes and
\* failed writes give the server a model with tensors missing.
THEOREM OnlyFaultsDamageModels == CheckpointSpec => []OnlyFaultsDamage
<1>1. IInv => OnlyFaultsDamage
  BY DEF IInv, DamageInv, OnlyFaultsDamage
<1>. QED  BY <1>1, Invariant, PTL

\* Loading and saving in any order, between and during pushes, brings no
\* iteration into the model twice as long as the server does not crash.
THEOREM NothingAppliedTwice == CheckpointSpec => []NoneTwice
<1>1. IInv => NoneTwice
  BY DEF IInv, SettledInv, Fine, NoneTwice
<1>. QED  BY <1>1, Invariant, PTL
-----------------------------------------------------------------------------
(* Refinement of CheckpointStore *)

\* An iteration is full for the store when it has its quorum.
LEMMA FullAtQuorum ==
  ASSUME NEW c
  PROVE  Store!Full(c) <=> QuorumReached(c)
<1>1. Store!Contributors(c) = Senders(c)
  BY DEF Store!Contributors, Senders
<1>2. Store!Cardinality(Senders(c)) = Cardinality(Senders(c))
  BY DEF Store!Cardinality, Cardinality
<1>. QED  BY <1>1, <1>2 DEF Store!Full, QuorumReached

\* The closed iterations are those with the flag set and the one being marked.
LEMMA DoneBy ==
  ASSUME TypeInv, NEW t \in Threads, NEW s, pc' = [pc EXCEPT ![t] = s], pc[t] # "marking", s # "marking",
         NEW r, request' = [request EXCEPT ![t] = r], UNCHANGED aggregated
  PROVE  Done' = Done
BY DEF Done, Marking, TypeInv, CheckpointTypeOK, RestTypeOK

\* What the exchange does is a step of the barrier, or not seen there.
LEMMA StoresPush ==
  ASSUME IInv, NEW t \in Threads, StoreGradients(t)
  PROVE  /\ Done' = Done
         /\ \E i \in Iterations \ Done, w \in Workers, g \in Gradients : Store!Contribute(w, i, g)
<1> DEFINE i == request[t].iteration
           w == request[t].worker
           g == request[t].gradients
<1>1. i \in Iterations /\ w \in Workers /\ g \in Gradients
  BY DEF StoreGradients, IInv, StateMutexInv, InReceive, PushRequest
<1>2. \A u \in Threads : pc[u] \notin Folding
  BY DEF StoreGradients, IInv, StateMutexInv, InReceive, Folding
<1>3. i \notin Done
  BY <1>1, <1>2 DEF StoreGradients, Done, Marking, Folding
<1>4. ~Store!Full(worker_gradients[i])
  BY <1>1, <1>2, FullAtQuorum DEF StoreGradients, IInv, QuorumInv
<1>5. /\ worker_gradients' = [worker_gradients EXCEPT ![i][w] = g]
      /\ UNCHANGED parameters_
  BY DEF StoreGradients
<1>6. Store!Contribute(w, i, g)
  BY <1>4, <1>5 DEF Store!Contribute
<1>7. Done' = Done
  <2>1. request = [request EXCEPT ![t] = request[t]]
    BY DEF IInv, RestTypeOK
  <2>. QED  BY <1>2, <2>1, DoneBy DEF StoreGradients, Goto, IInv, TypeInv, Folding
<1> HIDE DEF i, w, g
<1>. QED  BY <1>1, <1>3, <1>6, <1>7

\* Folding a full iteration into the model closes it.
LEMMA AggregatesClose ==
  ASSUME IInv, NEW t \in Threads, AggregateGradients(t), UNCHANGED <<Snapshots, Unfinished>>
  PROVE  \E i \in Iterations : Store!Close(i)
<1> DEFINE i == request[t].iteration
<1>1. i \in Iterations /\ i \notin Done /\ i \in Done'
  BY AveragesOpen DEF IInv, TypeInv
<1>2. Store!Full(worker_gradients[i])
  BY FullAtQuorum DEF AggregateGradients, IInv, QuorumInv, Folding
<1>3. /\ parameters_' = Append(parameters_, [iteration |-> i, contributions |-> worker_gradients[i]])
      /\ pc' = [pc EXCEPT ![t] = "marking"]
      /\ UNCHANGED <<worker_gradients, aggregated, request>>
  BY DEF AggregateGradients, Goto
<1>4. Done' = Done \cup {i}
  BY <1>1, <1>3 DEF Done, Marking, IInv, CheckpointTypeOK
<1>5. Store!Close(i)
  BY <1>1, <1>2, <1>3, <1>4 DEF Store!Close
<1>. QED  BY <1>1, <1>5

\* Nothing else of the exchange is seen by the store.
LEMMA OtherStepsOfExchange ==
  ASSUME IInv, NEW t \in Threads,
         \/ Enters(t) \/ RaiseIteration(t) \/ SkipAggregated(t)
         \/ MarkAggregated(t) \/ Quiet(t)
  PROVE  Done' = Done /\ UNCHANGED <<worker_gradients, parameters_>>
<1>1. request = [request EXCEPT ![t] = request[t]]
  BY DEF IInv, RestTypeOK
<1>2. CASE Enters(t)
  BY <1>2, DoneBy DEF Enters, EnterReceive, Goto, coreVars, IInv, TypeInv
<1>3. CASE RaiseIteration(t)
  BY <1>1, <1>3, DoneBy DEF RaiseIteration, Goto, IInv, TypeInv
<1>4. CASE SkipAggregated(t)
  BY <1>1, <1>4, DoneBy DEF SkipAggregated, Goto, coreVars, IInv, TypeInv
<1>5. CASE MarkAggregated(t)
  <2>1. request[t].iteration \in Iterations
    BY <1>5 DEF MarkAggregated, IInv, StateMutexInv, InReceive, PushRequest
  <2>. QED  BY <1>5, <2>1 DEF MarkAggregated, Done, Marking, Goto, IInv, CheckpointTypeOK
<1>6. CASE Quiet(t)
  BY <1>6, DoneBy DEF Quiet, Received, Goto, coreVars, IInv, TypeInv
<1>. QED  BY <1>2, <1>3, <1>4, <1>5, <1>6

\* The models in the files are the same while the files are, nobody begins or
\* ends writing, and the model is not changed under a writer.
LEMMA SnapshotsKeep ==
  ASSUME UNCHANGED files,
         \A e \in Epochs : BeingWritten(e)' <=> BeingWritten(e),
         \A e \in Epochs : BeingWritten(e) => UNCHANGED parameters_
  PROVE  UNCHANGED <<Snapshots, Unfinished>>
BY DEF Snapshots, Unfinished

\* With one writer at most, and what its file is.
LEMMA NobodyWrites ==
  ASSUME IInv, \A p \in Savers : saving[p] \notin Writing
  PROVE  \A e \in Epochs : ~BeingWritten(e)
BY DEF BeingWritten

\* Whoever holds params_mutex_ to write is the only writer.
LEMMA OnlyWriter ==
  ASSUME IInv, NEW p \in Savers, saving[p] \in Writing
  PROVE  /\ \A e \in Epochs : BeingWritten(e) <=> e = epoch[p]
         /\ Unfinished = {epoch[p]}
<1>1. \A q \in Savers : saving[q] \in Writing => q = p
  BY WriterFacts DEF IInv, TypeInv
<1>2. epoch[p] \in Epochs
  BY DEF IInv, CheckpointTypeOK
<1>. QED  BY <1>1, <1>2 DEF BeingWritten, Unfinished

\* What is in the files before and after a step that leaves the model alone.
LEMMA SnapshotsMove ==
  ASSUME UNCHANGED parameters_, NEW e \in Epochs
  PROVE  /\ BeingWritten(e) => Snapshots[e] = <<parameters_>>
         /\ BeingWritten(e)' => Snapshots'[e] = <<parameters_>>
         /\ ~BeingWritten(e)' /\ files'[e].part # "none" => Snapshots'[e] = <<Contents(files'[e])>>
         /\ (BeingWritten(e)' <=> BeingWritten(e)) /\ files'[e] = files[e] => Snapshots'[e] = Snapshots[e]
BY DEF Snapshots

\* Saving is done when the file is opened, unless the rest fails to be written.
LEMMA SaveIsSeen ==
  ASSUME IInv, NEW p \in Savers, Save(p)
  PROVE  \/ UNCHANGED <<Snapshots, Unfinished>>
         \/ /\ Unfinished = {} /\ Unfinished' = {epoch[p]}
            /\ Store!Write(epoch[p], parameters_)
         \/ Store!Settle(epoch[p])
<1> DEFINE e == epoch[p]
<1>1. /\ saving \in [Savers -> {"no", "open", "header", "front", "back"}]
      /\ e \in Epochs /\ epoch' = epoch /\ parameters_' = parameters_
      /\ files \in [Epochs -> File] /\ epoch \in [Savers -> Epochs]
      /\ Snapshots = [d \in Epochs |-> Snapshots[d]]
      /\ Snapshots' = [d \in Epochs |-> Snapshots'[d]]
  BY SaveEffect DEF IInv, TypeInv, CheckpointTypeOK, coreVars, Snapshots
<1>2. CASE saving[p] = "open" /\ NextPiece(p, "no") /\ UNCHANGED files
  <2>1. \A d \in Epochs : BeingWritten(d)' <=> BeingWritten(d)
    BY <1>1, <1>2 DEF BeingWritten, NextPiece, Writing
  <2>. QED  BY <1>1, <1>2, <2>1, SnapshotsKeep
<1>3. CASE /\ OpenFile(p)
           /\ NextPiece(p, "header")
           /\ files' = [files EXCEPT ![e] = [NoFile EXCEPT !.part = "empty"]]
  <2>1. \A q \in Savers : saving[q] \notin Writing
    BY <1>3, WriterFacts DEF OpenFile, IInv, TypeInv
  <2>2. \A d \in Epochs : ~BeingWritten(d) /\ (BeingWritten(d)' <=> d = e)
    BY <1>1, <1>3, <2>1 DEF BeingWritten, NextPiece, Writing
  <2>3. Snapshots'[e] = <<parameters_>>
    BY <1>1, <2>2, SnapshotsMove
  <2>4. \A d \in Epochs \ {e} : Snapshots'[d] = Snapshots[d]
    <3> TAKE d \in Epochs \ {e}
    <3>1. files'[d] = files[d]
      BY <1>1, <1>3
    <3>. QED  BY <1>1, <2>2, <3>1, SnapshotsMove
  <2> HIDE DEF e
  <2>5. Snapshots' = [Snapshots EXCEPT ![e] = <<parameters_>>]
    BY <1>1, <2>3, <2>4
  <2>6. Unfinished = {} /\ Unfinished' = {e}
    BY <1>1, <2>2 DEF Unfinished, e
  <2>. QED  BY <2>5, <2>6 DEF Store!Write, e
<1>4. CASE saving[p] \in Writing
  <2>1. \A q \in Savers : saving[q] \in Writing => q = p
    BY <1>4, WriterFacts DEF IInv, TypeInv
  <2>2. \A d \in Epochs : BeingWritten(d) <=> d = e
    BY <1>1, <1>4, <2>1 DEF BeingWritten
  <2>3. Snapshots[e] = <<parameters_>>
    BY <1>1, <2>2, SnapshotsMove
  <2>4. ASSUME \A d \in Epochs \ {e} : ~BeingWritten(d)', Snapshots'[e] = Snapshots[e],
               \A d \in Epochs \ {e} : files'[d] = files[d]
        PROVE  UNCHANGED Snapshots
    <3>1. \A d \in Epochs \ {e} : Snapshots'[d] = Snapshots[d]
      BY <1>1, <2>2, <2>4, SnapshotsMove
    <3>2. \A d \in Epochs : Snapshots'[d] = Snapshots[d]
      BY <2>4, <3>1
    <3>. QED  BY <1>1, <3>2
  <2>5. CASE WriteHeader(p) \/ WriteFront(p)
    <3>1. PICK s \in Writing : NextPiece(p, s)
      BY <2>5 DEF WriteHeader, WriteFront, Writing
    <3>2. \A d \in Epochs : BeingWritten(d)' <=> d = e
      BY <1>1, <2>1, <3>1 DEF BeingWritten, NextPiece
    <3>3. \A d \in Epochs \ {e} : files'[d] = files[d]
      BY <1>1, <2>5 DEF WriteHeader, WriteFront
    <3>4. Snapshots'[e] = Snapshots[e]
      BY <1>1, <2>3, <3>2, SnapshotsMove
    <3>5. Unfinished' = Unfinished
      BY <2>2, <3>2 DEF Unfinished
    <3>. QED  BY <2>4, <3>2, <3>3, <3>4, <3>5
  <2>6. CASE WriteBack(p)
    <3>1. saving[p] = "back" /\ NextPiece(p, "no")
      BY <2>6 DEF WriteBack, Return
    <3>2. \A d \in Epochs : ~BeingWritten(d)'
      BY <1>1, <2>1, <3>1 DEF BeingWritten, NextPiece, Writing
    <3>0. e \in Unfinished /\ Unfinished' = {}
      BY <1>1, <2>2, <3>2 DEF Unfinished
    <3>3. files[e].part = "front" /\ files[e].front = parameters_
      BY <3>1 DEF IInv, ProgressInv
    <3>4. CASE files' = [files EXCEPT ![e].part = "complete", ![e].back = parameters_]
      <4>1. /\ files'[e].part = "complete" /\ files'[e].back = parameters_
            /\ \A d \in Epochs \ {e} : files'[d] = files[d]
        BY <1>1, <3>4 DEF File
      <4>2. Contents(files'[e]) = parameters_
        BY <4>1 DEF Contents
      <4>3. Snapshots'[e] = Snapshots[e]
        BY <1>1, <2>3, <3>2, <4>1, <4>2, SnapshotsMove
      <4>4. UNCHANGED Snapshots
        BY <2>4, <3>2, <4>1, <4>3
      <4>. QED  BY <3>0, <4>4 DEF Store!Settle, e
    <3>5. ASSUME NEW f \in Beginnings(files[e]), files' = [files EXCEPT ![e] = f]
          PROVE  Store!Settle(e)
      <4>1. files'[e] = f /\ \A d \in Epochs \ {e} : files'[d] = files[d]
        BY <1>1, <3>5
      <4>2. /\ f.part \in {"empty", "header", "front"}
            /\ f.part = "front" => f.front = parameters_
        BY <1>1, <3>3, <3>5, BeginningsAre
      <4>3. Contents(f) \in {<<>>, Append(parameters_, Damaged)}
        BY <4>2 DEF Contents
      <4>4. Snapshots'[e] = <<Contents(f)>>
        BY <1>1, <3>2, <4>1, <4>2, SnapshotsMove
      <4>5. \A d \in Epochs \ {e} : Snapshots'[d] = Snapshots[d]
        BY <1>1, <2>2, <3>2, <4>1, SnapshotsMove
      <4>6. Snapshots[e][1] = parameters_
        BY <2>3
      <4> HIDE DEF e
      <4>7. Snapshots' = [Snapshots EXCEPT ![e] = <<Contents(f)>>]
        BY <1>1, <4>4, <4>5
      <4>8. Store!Tear(e)
        BY <4>3, <4>6, <4>7 DEF Store!Tear, Store!Write
      <4>. QED  BY <3>0, <4>8 DEF Store!Settle
    <3>. QED  BY <2>6, <3>4, <3>5 DEF WriteBack
  <2>. QED  BY <1>4, <2>5, <2>6 DEF Save, OpenFile, Writing
<1>. QED
  BY <1>2, <1>3, <1>4 DEF Save, OpenFile, WriteHeader, WriteFront, WriteBack, Return, Writing

\* A server that crashes leaves its files behind, at most one of them, which
\* it was writing, unfinished.
LEMMA CrashIsSeen ==
  ASSUME IInv, Crash
  PROVE  \/ Unfinished = {} /\ UNCHANGED <<Snapshots, Unfinished>>
         \/ \E e \in Epochs : Store!Settle(e)
<1>1. /\ Snapshots = [d \in Epochs |-> Snapshots[d]]
      /\ Snapshots' = [d \in Epochs |-> Snapshots'[d]]
      /\ files' = files
  BY DEF Snapshots, Crash
<1>2. \A d \in Epochs : ~BeingWritten(d)'
  BY DEF Crash, BeingWritten, Writing
<1>3. \A d \in Epochs : ~BeingWritten(d) => Snapshots'[d] = Snapshots[d]
  BY <1>1, <1>2 DEF Snapshots
<1>4. CASE \A d \in Epochs : ~BeingWritten(d)
  <2>1. Unfinished = {} /\ Unfinished' = {}
    BY <1>2, <1>4 DEF Unfinished
  <2>. QED  BY <1>1, <1>3, <1>4, <2>1
<1>5. ASSUME NEW p \in Savers, saving[p] \in Writing
      PROVE  \E e \in Epochs : Store!Settle(e)
  <2> DEFINE e == epoch[p]
  <2>1. e \in Epochs /\ \A d \in Epochs : BeingWritten(d) <=> d = e
    BY <1>5, OnlyWriter DEF IInv, CheckpointTypeOK
  <2>2. \/ files[e].part \in {"empty", "header"}
        \/ files[e].part = "front" /\ files[e].front = parameters_
    BY <1>5 DEF IInv, ProgressInv, Writing
  <2>3. Contents(files[e]) \in {<<>>, Append(parameters_, Damaged)}
    BY <2>2 DEF Contents
  <2>4. Snapshots'[e] = <<Contents(files[e])>> /\ Snapshots[e] = <<parameters_>>
    BY <1>1, <1>2, <2>1, <2>2 DEF Snapshots
  <2> HIDE DEF e
  <2>5. Snapshots' = [Snapshots EXCEPT ![e] = <<Contents(files[e])>>]
    BY <1>1, <1>3, <2>1, <2>4
  <2>6. Snapshots[e][1] = parameters_
    BY <2>4
  <2>7. Store!Tear(e)
    BY <2>3, <2>5, <2>6 DEF Store!Tear, Store!Write
  <2>8. e \in Unfinished /\ Unfinished' = {}
    BY <1>2, <2>1 DEF Unfinished
  <2>. QED  BY <2>1, <2>7, <2>8 DEF Store!Settle
<1>. QED  BY <1>4, <1>5 DEF BeingWritten

\* Loading is done when the tensors are read: all the time the file is as it
\* was found.
LEMMA LoadIsSeen ==
  ASSUME IInv, NEW t \in Threads, Load(t)
  PROVE  \/ UNCHANGED Store!storeVars
         \/ \E e \in Epochs : Store!Load(e)
<1>1. /\ UNCHANGED <<worker_gradients, files, saving, epoch>>
      /\ Done' = Done
  <2>1. request = [request EXCEPT ![t] = request[t]]
    BY DEF IInv, RestTypeOK
  <2>. QED  BY <2>1, LoadEffect, DoneBy DEF LoadStages, IInv, TypeInv
<1>2. \A d \in Epochs : BeingWritten(d)' <=> BeingWritten(d)
  BY <1>1 DEF BeingWritten
<1>3. CASE UNCHANGED parameters_
  <2>1. UNCHANGED <<Snapshots, Unfinished>>
    BY <1>1, <1>2, <1>3, SnapshotsKeep
  <2>. QED  BY <1>1, <1>3, <2>1 DEF Store!storeVars, Store!vars
<1>4. CASE LoadTensors(t)
  <2> DEFINE e == epoch[t]
  <2>1. pc[t] = "loading" /\ e \in Epochs /\ parameters_' = Contents(files[e])
    BY <1>4 DEF LoadTensors, IInv, CheckpointTypeOK, Savers
  <2>2. \A d \in Epochs : ~BeingWritten(d)
    BY <2>1, WriterFacts DEF IInv, TypeInv, BeingWritten
  <2>3. UNCHANGED <<Snapshots, Unfinished>> /\ e \notin Unfinished
    BY <1>1, <1>2, <2>2, SnapshotsKeep DEF Unfinished
  <2>4. files[e].part # "none"
    BY <2>1 DEF IInv, ProgressInv
  <2>5. Snapshots[e] = <<Contents(files[e])>>
    BY <2>1, <2>2, <2>4 DEF Snapshots
  <2>6. Store!Load(e)
    BY <1>1, <2>1, <2>3, <2>5 DEF Store!Load
  <2>. QED  BY <2>1, <2>6
<1>. QED  BY <1>3, <1>4 DEF Load, LoadHeader, ReplyLoad, coreVars

\* To begin a call is nothing to the store.
LEMMA BeginIsUnseen ==
  ASSUME IInv, Begins
  PROVE  UNCHANGED Store!storeVars
<1>1. UNCHANGED <<worker_gradients, parameters_, files>> /\ Done' = Done
  <2>1. CASE UNCHANGED pc
    BY <2>1, BeginEffect DEF Done, Marking, coreVars
  <2>2. ASSUME NEW t \in Threads, pc[t] = "idle",
               NEW s \in {"saving", "load"}, pc' = [pc EXCEPT ![t] = s]
        PROVE  Done' = Done
    <3>1. UNCHANGED <<request, aggregated>>
      BY BeginEffect DEF coreVars
    <3>2. request' = [request EXCEPT ![t] = request[t]]
      BY <3>1 DEF IInv, RestTypeOK
    <3>. QED  BY <2>2, <3>1, <3>2, DoneBy DEF IInv, TypeInv
  <2>. QED  BY <2>1, <2>2, BeginEffect DEF coreVars
<1>2. PICK p \in Savers, e \in Epochs :
        /\ saving[p] = "no" /\ epoch' = [epoch EXCEPT ![p] = e]
        /\ saving' = saving \/ saving' = [saving EXCEPT ![p] = "open"]
  <2>1. ASSUME NEW t \in Threads, NEW e \in Epochs, SaveCheckpoint(t, e) \/ LoadCheckpoint(t, e)
        PROVE  /\ t \in Savers /\ saving[t] = "no" /\ epoch' = [epoch EXCEPT ![t] = e]
               /\ saving' = saving \/ saving' = [saving EXCEPT ![t] = "open"]
    <3>1. pc[t] = "idle"
      BY <2>1 DEF SaveCheckpoint, LoadCheckpoint
    <3>. QED  BY <2>1, <3>1 DEF SaveCheckpoint, LoadCheckpoint, NextPiece, IInv, ParamsMutexInv, Savers
  <2>2. ASSUME Look
        PROVE  /\ Saver \in Savers /\ CurrentEpoch \in Epochs
               /\ saving[Saver] = "no" /\ epoch' = [epoch EXCEPT ![Saver] = CurrentEpoch]
               /\ saving' = saving \/ saving' = [saving EXCEPT ![Saver] = "open"]
    BY <2>2, EpochsOfIterations DEF Look, NextPiece, Savers, CurrentEpoch, IInv, RestTypeOK
  <2>. QED  BY <2>1, <2>2 DEF Begins
<1>3. \A d \in Epochs : BeingWritten(d)' <=> BeingWritten(d)
  BY <1>2 DEF BeingWritten, Writing, IInv, CheckpointTypeOK
<1>4. UNCHANGED <<Snapshots, Unfinished>>
  BY <1>1, <1>3, SnapshotsKeep
<1>. QED  BY <1>1, <1>4 DEF Store!storeVars, Store!vars

\* Every step of the server is a step of the store, or not seen there.
LEMMA StoreStep ==
  ASSUME IInv, [CheckpointNext]_checkpointVars
  PROVE  [Store!StoreNext]_(Store!storeVars)
<1>1. ASSUME NEW t \in Threads, Exchange(t)
      PROVE  [Store!StoreNext]_(Store!storeVars)
  <2>1. UNCHANGED <<files, saving, epoch>> /\ \A d \in Epochs : BeingWritten(d)' <=> BeingWritten(d)
    BY <1>1, ExchangeEffect DEF IInv, TypeInv, fileVars, BeingWritten
  <2>2. \A d \in Epochs : BeingWritten(d) => UNCHANGED parameters_
    BY <1>1, ExchangeEffect, WriterFacts DEF IInv, TypeInv, BeingWritten
  <2>3. UNCHANGED <<Snapshots, Unfinished>>
    BY <2>1, <2>2, SnapshotsKeep
  <2>4. CASE StoreGradients(t)
    BY <2>3, <2>4, StoresPush DEF Store!Push, Store!StoreNext
  <2>5. CASE AggregateGradients(t)
    BY <2>3, <2>5, AggregatesClose DEF Store!StoreNext
  <2>6. CASE \/ Enters(t) \/ RaiseIteration(t) \/ SkipAggregated(t)
             \/ MarkAggregated(t) \/ Quiet(t)
    BY <2>3, <2>6, OtherStepsOfExchange DEF Store!storeVars, Store!vars
  <2>. QED  BY <1>1, <2>4, <2>5, <2>6, ExchangeCases DEF IInv, TypeInv
<1>2. ASSUME NEW p \in Savers, Save(p)
      PROVE  [Store!StoreNext]_(Store!storeVars)
  <2>1. UNCHANGED <<worker_gradients, parameters_>> /\ epoch[p] \in Epochs
    BY <1>2, SaveEffect DEF IInv, TypeInv, CheckpointTypeOK, coreVars
  <2>2. Done' = Done
    <3>1. UNCHANGED <<request, aggregated>>
      BY <1>2, SaveEffect DEF IInv, TypeInv, coreVars
    <3>2. CASE pc' = pc
      BY <3>1, <3>2 DEF Done, Marking
    <3>3. CASE p \in Threads /\ pc[p] = "saving" /\ pc' = [pc EXCEPT ![p] = "replied"]
      <4>1. request' = [request EXCEPT ![p] = request[p]]
        BY <3>1, <3>3 DEF IInv, RestTypeOK
      <4>. QED  BY <3>1, <3>3, <4>1, DoneBy DEF IInv, TypeInv
    <3>. QED  BY <1>2, <3>2, <3>3, SaveEffect DEF IInv, TypeInv
  <2>3. CASE UNCHANGED <<Snapshots, Unfinished>>
    BY <2>1, <2>3, <2>2 DEF Store!storeVars, Store!vars
  <2>4. CASE /\ Unfinished = {} /\ Unfinished' = {epoch[p]}
             /\ Store!Write(epoch[p], parameters_)
    BY <2>1, <2>4, <2>2 DEF Store!Save, Store!StoreNext, Store!vars
  <2>5. CASE Store!Settle(epoch[p])
    BY <2>1, <2>5, <2>2 DEF Store!Finish, Store!StoreNext, Store!vars
  <2>. QED  BY <1>2, <2>3, <2>4, <2>5, SaveIsSeen
<1>3. ASSUME NEW t \in Threads, Load(t)
      PROVE  [Store!StoreNext]_(Store!storeVars)
  BY <1>3, LoadIsSeen DEF Store!StoreNext
<1>4. CASE Begins
  BY <1>4, BeginIsUnseen
<1>5. CASE Crash
  <2>1. Done' = {}
    BY <1>5 DEF Crash, Done, Marking
  <2>2. Store!Crash
    BY <1>5, <2>1, CrashIsSeen DEF Crash, Store!Crash
  <2>. QED  BY <2>2 DEF Store!StoreNext
<1>6. CASE UNCHANGED checkpointVars
  <2>1. UNCHANGED <<worker_gradients, parameters_, files, saving, epoch>> /\ Done' = Done
    BY <1>6 DEF checkpointVars, vars, coreVars, fileVars, Done, Marking
  <2>2. \A d \in Epochs : BeingWritten(d)' <=> BeingWritten(d)
    BY <2>1 DEF BeingWritten
  <2>3. UNCHANGED <<Snapshots, Unfinished>>
    BY <2>1, <2>2, SnapshotsKeep
  <2>. QED  BY <2>1, <2>3 DEF Store!storeVars, Store!vars
<1>. QED  BY <1>1, <1>2, <1>3, <1>4, <1>5, <1>6 DEF CheckpointNext, Begins

\* Saving and loading checkpoints, piece by piece and among pushes, crashes
\* and errors, are single steps of a store of whole models, in which only the
\* file that is being written can be harmed.
THEOREM RefinesStore == CheckpointSpec => ImplementsStore
<1>1. CheckpointInit => Store!StoreInit
  <2>. SUFFICES ASSUME CheckpointInit PROVE Store!StoreInit
    OBVIOUS
  <2>1. Done = {} /\ \A e \in Epochs : ~BeingWritten(e) /\ files[e].part = "none"
    BY DEF CheckpointInit, Init, Done, Marking, BeingWritten, Writing, NoFile
  <2>2. Snapshots = [e \in Epochs |-> <<>>]
    BY <2>1 DEF Snapshots
  <2>3. Unfinished = {}
    BY <2>1 DEF Unfinished
  <2>. QED  BY <2>1, <2>2, <2>3 DEF CheckpointInit, Init, Store!StoreInit, Store!Init
<1>. QED
  BY <1>1, StoreStep, Invariant, PTL DEF CheckpointSpec, ImplementsStore, Store!StoreSpec
=============================================================================
