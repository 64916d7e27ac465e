--------------------------- MODULE GradientAveraging ---------------------------
(***************************************************************************)
(* What the parameter server does with the numbers: the average that       *)
(* receive_gradients takes of the gradients of an iteration and the update *)
(* aggregate_gradients makes with it (src/parameter_server.cpp).           *)
(*                                                                         *)
(* Tensors are matched by position; the names, shapes and sizes of the     *)
(* average are those of the list that completed the iteration, and what    *)
(* the other lists do not have at a position is passed over.  The lists    *)
(* differ when workers computed them for different models: the model can   *)
(* change between their pulls (load_checkpoint, a restarted server), and a *)
(* worker whose last pull failed makes up a tensor.                        *)
(*                                                                         *)
(* Data: gradients are small integers, and the model is counted in units   *)
(* of 1/total_workers, so that the mean of total_workers gradients is      *)
(* their sum; rounding is left out.  A shape is its number of elements,    *)
(* dtype is left out.  Iterations come one after the other, and a push is  *)
(* one step: module ParameterServer has what goes on in between.           *)
(***************************************************************************)
EXTENDS Integers, Sequences, FiniteSets, Functions

CONSTANTS
  Workers,        \* worker ids
  total_workers,  \* total_workers_: the quorum of an iteration
  Values,         \* what an element of a gradient can be
  Layouts,        \* layouts of the models in checkpoint files
  Dummy,          \* layout of the tensor made up without a model
  MaxIteration    \* bound: number of iterations

IsLayout(l) == l \in Seq([name : STRING, shape : Nat])

ASSUME AveragingAssumption ==
  /\ total_workers \in Nat \ {0}
  /\ IsFiniteSet(Workers)
  /\ Values \subseteq Int
  /\ \A l \in Layouts \cup {Dummy} : IsLayout(l) /\ l # <<>>
  /\ MaxIteration \in Nat

VARIABLES
  parameters_,       \* the model: a sequence of tensors
  worker_gradients,  \* the lists of the current iteration, by worker
  aggregated,        \* the current iteration is closed
  iteration,         \* its number
  basis              \* basis[w]: layout of the model w has pulled

vars == <<parameters_, worker_gradients, aggregated, iteration, basis>>

Layout(ts) == [i \in DOMAIN ts |-> [name |-> ts[i].name, shape |-> ts[i].shape]]

\* The lists of tensors with this layout and these values.
TensorsOf(l, V) ==
  {[i \in DOMAIN l |-> [name |-> l[i].name, shape |-> l[i].shape, data |-> d[i]]] :
     d \in {f \in [DOMAIN l -> UNION {[1..l[i].shape -> V] : i \in DOMAIN l}] :
              \A i \in DOMAIN l : Len(f[i]) = l[i].shape}}

AllLayouts == Layouts \cup {Dummy}
NoGradients == [w \in {} |-> <<>>]

\* Tensors of a known layout whose data have the size their shape says.
IsTensors(ts) ==
  /\ Layout(ts) \in AllLayouts
  /\ \A i \in DOMAIN ts : DOMAIN ts[i].data = 1..ts[i].shape

TypeOK ==
  /\ parameters_ = <<>> \/ IsTensors(parameters_)
  /\ DOMAIN worker_gradients \subseteq Workers
  /\ \A w \in DOMAIN worker_gradients : IsTensors(worker_gradients[w])
  /\ Cardinality(DOMAIN worker_gradients) <= total_workers
  /\ aggregated <=> Cardinality(DOMAIN worker_gradients) = total_workers
  /\ iteration \in 0..MaxIteration
  /\ basis \in [Workers -> AllLayouts]

Init ==
  /\ parameters_ = <<>>
  /\ worker_gradients = NoGradients
  /\ aggregated = FALSE
  /\ iteration = 0
  /\ basis = [w \in Workers |-> Dummy]

-----------------------------------------------------------------------------
(* The average and the update *)

HasElement(ts, i, j) == i \in DOMAIN ts /\ j \in DOMAIN ts[i].data

Element(ts, i, j) == IF HasElement(ts, i, j) THEN ts[i].data[j] ELSE 0

\* agg_tensor.data[j] of tensor i, before the division: what the lists that
\* have such an element add up to.
ElementSum(grads, i, j) ==
  SumFunctionOnSet([w \in DOMAIN grads |-> Element(grads[w], i, j)], DOMAIN grads)

\* Mutant of Mean: the sum starts from the data of the last list.
MeanFromLast(grads, last) ==
  [i \in DOMAIN last |->
     [name |-> last[i].name, shape |-> last[i].shape,
      data |-> [j \in DOMAIN last[i].data |-> last[i].data[j] + ElementSum(grads, i, j)]]]

\* The average of the lists in grads, the last of them to arrive being last.
Mean(grads, last) ==
  [i \in DOMAIN last |->
     [name |-> last[i].name, shape |-> last[i].shape,
      data |-> [j \in DOMAIN last[i].data |-> ElementSum(grads, i, j)]]]

\* Mutant of Subtract: the last element is passed over.
SubtractShort(t, g) ==
  [name |-> t.name, shape |-> t.shape,
   data |-> [j \in DOMAIN t.data |->
               IF j + 1 \in DOMAIN g.data THEN t.data[j] - g.data[j] ELSE t.data[j]]]

Subtract(t, g) ==
  [name |-> t.name, shape |-> t.shape,
   data |-> [j \in DOMAIN t.data |->
               IF j \in DOMAIN g.data THEN t.data[j] - g.data[j] ELSE t.data[j]]]

\* The average has a tensor for position i of the model.
Matches(params, mean, i) ==
  i \in DOMAIN mean /\ mean[i].name = params[i].name /\ mean[i].shape = params[i].shape

\* Mutants of Update: a tensor that does not match is replaced; an average
\* that does not match throughout becomes the model.
UpdateReplacing(params, mean) ==
  IF params = <<>> THEN mean
  ELSE [i \in DOMAIN params |->
          IF i \notin DOMAIN mean THEN params[i]
          ELSE IF Matches(params, mean, i) THEN Subtract(params[i], mean[i]) ELSE mean[i]]
UpdateAnew(params, mean) ==
  IF \E i \in DOMAIN mean : i \notin DOMAIN params \/ ~Matches(params, mean, i) THEN mean
  ELSE [i \in DOMAIN params |->
          IF Matches(params, mean, i) THEN Subtract(params[i], mean[i]) ELSE params[i]]

\* aggregate_gradients: the first average becomes the model, a later one is
\* subtracted where it has the model's tensor.
Update(params, mean) ==
  IF params = <<>> THEN mean
  ELSE [i \in DOMAIN params |->
          IF Matches(params, mean, i) THEN Subtract(params[i], mean[i]) ELSE params[i]]

-----------------------------------------------------------------------------
\* pull_parameters; w goes on with the made-up tensor when the call fails or
\* there is no model.
Pull(w) ==
  /\ \/ basis' = [basis EXCEPT ![w] = Dummy]
     \/ parameters_ # <<>> /\ basis' = [basis EXCEPT ![w] = Layout(parameters_)]
  /\ UNCHANGED <<parameters_, worker_gradients, aggregated, iteration>>

\* receive_gradients: w's list replaces one it pushed before; the list that
\* makes them total_workers closes the iteration.
Push(w) ==
  /\ ~aggregated
  /\ \E gradients \in TensorsOf(basis[w], Values) :
       LET received == [v \in DOMAIN worker_gradients \cup {w} |->
                          IF v = w THEN gradients ELSE worker_gradients[v]]
           full == Cardinality(DOMAIN received) >= total_workers
       IN  /\ worker_gradients' = received
           /\ aggregated' = full
           /\ parameters_' = IF full THEN Update(parameters_, Mean(received, gradients))
                             ELSE parameters_
  /\ UNCHANGED <<iteration, basis>>

\* The gradients of the next iteration.
NextIteration ==
  /\ aggregated
  /\ iteration < MaxIteration
  /\ iteration' = iteration + 1
  /\ worker_gradients' = NoGradients
  /\ aggregated' = FALSE
  /\ UNCHANGED <<parameters_, basis>>

\* load_checkpoint puts another model in place.
Load ==
  /\ \E l \in Layouts : parameters_' \in TensorsOf(l, {0})
  /\ UNCHANGED <<worker_gradients, aggregated, iteration, basis>>

\* The server loses its state, the workers keep what they have pulled.
RestartServer ==
  /\ parameters_' = <<>>
  /\ worker_gradients' = NoGradients
  /\ aggregated' = FALSE
  /\ UNCHANGED <<iteration, basis>>

Next ==
  \/ \E w \in Workers : Pull(w) \/ Push(w)
  \/ NextIteration
  \/ Load
  \/ RestartServer

Spec == Init /\ [][Next]_vars

-----------------------------------------------------------------------------
\* The current iteration is closed by this step.
Closing == aggregated' /\ ~aggregated

\* All lists have the layout l.
Uniform(grads, l) == \A w \in DOMAIN grads : Layout(grads[w]) = l

\* While the workers agree on the layout it makes no difference which of them
\* is the last to push: averaging is a function of the lists alone, though the
\* code takes it from the last list.
OrderIndependent ==
  [][Closing =>
       \A l \in AllLayouts : Uniform(worker_gradients', l) =>
         \A w \in DOMAIN worker_gradients' :
           parameters_' = Update(parameters_, Mean(worker_gradients', worker_gradients'[w]))]_vars

\* When the workers and the model agree on the layout, every element of the
\* model is updated, with the sum of what each of the workers pushed for it.
EveryElementUpdated ==
  [][Closing /\ parameters_ # <<>> /\ Uniform(worker_gradients', Layout(parameters_)) =>
       \A i \in DOMAIN parameters_ : \A j \in 1..parameters_[i].shape :
         parameters_[i].data[j] - parameters_'[i].data[j]
           = SumFunction([w \in DOMAIN worker_gradients' |-> worker_gradients'[w][i].data[j]])]_vars

\* Whatever lists are pushed, no update adds, drops, renames or resizes a
\* tensor of a model.
LayoutIsStable ==
  [][Closing /\ parameters_ # <<>> => Layout(parameters_') = Layout(parameters_)]_vars

\* A completed iteration has changed the model: "true if parameters are
\* updated for requested iteration" (src/proto/parameter_server.proto:43).
CompleteMeansUpdated == [][Closing => parameters_' # parameters_]_vars
=============================================================================
