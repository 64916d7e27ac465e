--------------------------- MODULE GradientBarrier ---------------------------
(***************************************************************************)
(* What the parameter server promises its workers, with no threads, locks, *)
(* RPCs or flags: every training iteration is a barrier.  Workers          *)
(* contribute a gradient to an iteration, a worker may replace what it     *)
(* contributed, and when total_workers workers have contributed the        *)
(* iteration is folded, once and as a whole, into the model.               *)
(*                                                                         *)
(* The model is the sequence of updates applied to the tensors; an update  *)
(* is the iteration and the contributions whose mean it applies (the       *)
(* arithmetic is the subject of module GradientAveraging).                 *)
(***************************************************************************)
EXTENDS Naturals, FiniteSets, Sequences

CONSTANTS
  Workers,        \* worker ids
  Iterations,     \* iteration numbers
  Gradients,      \* gradient payloads, up to what the properties tell apart
  NoGradient,     \* "this worker has not contributed"
  total_workers   \* contributions that close an iteration

\* What the barrier needs of them; a definition, for whoever implements the
\* barrier has its own assumptions to derive it from.
GradientBarrierAssumption ==
  /\ IsFiniteSet(Workers)
  /\ Iterations \subseteq Nat
  /\ NoGradient \notin Gradients
  /\ total_workers \in Nat \ {0}

VARIABLES
  contributed,    \* contributed[i][w]: what w contributed to iteration i
  model           \* updates applied so far, oldest first

vars == <<contributed, model>>

Contributions == [Workers -> Gradients \cup {NoGradient}]
Update == [iteration: Iterations, contributions: Contributions]

Contributors(c) == {w \in Workers : c[w] # NoGradient}

Full(c) == Cardinality(Contributors(c)) >= total_workers
Closed(i) == \E k \in 1..Len(model) : model[k].iteration = i

TypeOK ==
  /\ contributed \in [Iterations -> Contributions]
  /\ model \in Seq(Update)

Init ==
  /\ contributed = [i \in Iterations |-> [w \in Workers |-> NoGradient]]
  /\ model = <<>>

\* Worker w contributes g to iteration i, or replaces its contribution.
Contribute(w, i, g) ==
  /\ ~Full(contributed[i])
  /\ contributed' = [contributed EXCEPT ![i][w] = g]
  /\ UNCHANGED model

\* The last contribution is in: the iteration closes.
Aggregate(i) ==
  /\ Full(contributed[i])
  /\ ~Closed(i)
  /\ model' = Append(model, [iteration |-> i, contributions |-> contributed[i]])
  /\ UNCHANGED contributed

Next ==
  \E i \in Iterations :
    \/ \E w \in Workers, g \in Gradients : Contribute(w, i, g)
    \/ Aggregate(i)

Spec == Init /\ [][Next]_vars

FairSpec == Spec /\ \A i \in Iterations : WF_vars(Aggregate(i))

-----------------------------------------------------------------------------
\* Every update holds the contributions of exactly total_workers workers, is
\* what those workers contributed to that iteration, and no iteration is
\* applied twice: the promise of receive_gradients and aggregate_gradients.
BarrierSafe ==
  /\ \A k \in 1..Len(model) :
       /\ Cardinality(Contributors(model[k].contributions)) = total_workers
       /\ model[k].contributions = contributed[model[k].iteration]
  /\ \A j, k \in 1..Len(model) : model[j].iteration = model[k].iteration => j = k
=============================================================================
