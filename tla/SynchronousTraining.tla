-------------------------- MODULE SynchronousTraining --------------------------
(***************************************************************************)
(* What training promises, with no calls, attempts or failures of calls:   *)
(* the server is a barrier per iteration, which may lose everything at any *)
(* moment and start anew, and a worker finishes an iteration only when it  *)
(* was told that the iteration is in the model, at a moment when it was in *)
(* the model of the server there was.                                      *)
(***************************************************************************)
EXTENDS GradientBarrier

VARIABLES
  told,      \* told[w]: the iteration w was told of and has not acted on
  completed  \* completed[w]: iterations w has finished, ever

trainingVars == <<vars, told, completed>>

TrainingInit ==
  /\ Init
  /\ told = [w \in Workers |-> {}]
  /\ completed = [w \in Workers |-> {}]

\* The server goes on.
Train == Next /\ UNCHANGED <<told, completed>>

\* Worker w is told that iteration i is in the model.
Tell(w, i) ==
  /\ Closed(i)
  /\ told' = [told EXCEPT ![w] = {i}]
  /\ UNCHANGED <<vars, completed>>

\* Worker w finishes the iteration it was told of, maybe not for the first time.
Complete(w) ==
  /\ completed' = [completed EXCEPT ![w] = @ \cup told[w]]
  /\ told' = [told EXCEPT ![w] = {}]
  /\ UNCHANGED vars

Forget(ws) == told' = [w \in Workers |-> IF w \in ws THEN {} ELSE told[w]]

\* What worker w was told does not get through to it.
Miss(w) == Forget({w}) /\ UNCHANGED <<vars, completed>>

\* The server forgets everything, its workers need not.
Restart ==
  /\ contributed' = [i \in Iterations |-> [w \in Workers |-> NoGradient]]
  /\ model' = <<>>
  /\ \E ws \in SUBSET Workers : Forget(ws)
  /\ UNCHANGED completed

TrainingNext ==
  \/ Train
  \/ \E w \in Workers, i \in Iterations : Tell(w, i)
  \/ \E w \in Workers : Complete(w) \/ Miss(w)
  \/ Restart

TrainingSpec == TrainingInit /\ [][TrainingNext]_trainingVars
=============================================================================
