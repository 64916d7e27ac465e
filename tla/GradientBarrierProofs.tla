------------------------ MODULE GradientBarrierProofs ------------------------
(***************************************************************************)
(* The promise of the barrier holds, for any workers, iterations,          *)
(* gradients and total_workers: BarrierSafe is an invariant of Spec, and   *)
(* of TrainingSpec of SynchronousTraining, where servers come and go.      *)
(*                                                                         *)
(* BarrierSafe is not inductive: it does not say that the contributors of  *)
(* an iteration stop at total_workers (CountInv), and only because they    *)
(* do, and a full iteration takes no more contributions, does an update    *)
(* hold exactly that many and stay what was contributed.                   *)
(***************************************************************************)
EXTENDS SynchronousTraining, FiniteSetTheorems, TLAPS

CountInv == \A i \in Iterations : Cardinality(Contributors(contributed[i])) <= total_workers

IInv == TypeOK /\ CountInv /\ BarrierSafe

\* The contributors of an iteration are a finite set of workers.
LEMMA ContributorsFinite ==
  ASSUME GradientBarrierAssumption, NEW c
  PROVE  IsFiniteSet(Contributors(c)) /\ Cardinality(Contributors(c)) \in Nat
<1>1. Contributors(c) \in SUBSET Workers
  BY DEF Contributors
<1>2. IsFiniteSet(Contributors(c))
  BY <1>1, FS_Subset DEF GradientBarrierAssumption
<1>. QED  BY <1>2, FS_CardinalityType

\* Without contributions there are no contributors.
LEMMA NobodyFirst ==
  ASSUME GradientBarrierAssumption
  PROVE  Init => IInv
<1> SUFFICES ASSUME Init PROVE IInv
  OBVIOUS
<1>1. TypeOK
  BY DEF Init, TypeOK, Contributions
<1>2. \A i \in Iterations : Contributors(contributed[i]) = {}
  BY DEF Init, Contributors
<1>3. CountInv
  BY <1>2, FS_EmptySet DEF CountInv, GradientBarrierAssumption
<1>4. BarrierSafe
  BY DEF Init, BarrierSafe
<1>. QED  BY <1>1, <1>3, <1>4 DEF IInv

\* A contribution adds at most its sender, and to an iteration that no update
\* was made of.
LEMMA ContributeKeeps ==
  ASSUME GradientBarrierAssumption, IInv,
         NEW i \in Iterations, NEW w \in Workers, NEW g \in Gradients, Contribute(w, i, g)
  PROVE  IInv'
<1>1. contributed' = [contributed EXCEPT ![i][w] = g] /\ model' = model
  BY DEF Contribute
<1>2. contributed \in [Iterations -> Contributions] /\ contributed' \in [Iterations -> Contributions]
  BY <1>1 DEF IInv, TypeOK, Contributions
<1>3. TypeOK'
  BY <1>1, <1>2 DEF IInv, TypeOK
<1>4. \A j \in Iterations : j # i => contributed'[j] = contributed[j]
  BY <1>1, <1>2
<1>5. Cardinality(Contributors(contributed[i])) < total_workers
  BY ContributorsFinite DEF Contribute, Full, GradientBarrierAssumption
<1>6. Contributors(contributed'[i]) = Contributors(contributed[i]) \cup {w}
  BY <1>1, <1>2 DEF Contributors, Contributions, GradientBarrierAssumption
<1>7. Cardinality(Contributors(contributed'[i])) <= total_workers
  <2>1. Cardinality(Contributors(contributed'[i])) <= Cardinality(Contributors(contributed[i])) + 1
    <3>1. IsFiniteSet(Contributors(contributed[i]))
      BY ContributorsFinite
    <3>2. Cardinality(Contributors(contributed[i]) \cup {w})
            \in {Cardinality(Contributors(contributed[i])),
                 Cardinality(Contributors(contributed[i])) + 1}
      BY <3>1, FS_AddElement
    <3>. QED  BY <1>6, <3>2, ContributorsFinite
  <2>. QED  BY <1>5, <2>1, ContributorsFinite DEF GradientBarrierAssumption
<1>8. CountInv'
  BY <1>4, <1>7 DEF IInv, CountInv
<1>9. BarrierSafe'
  <2>1. ASSUME NEW k \in 1..Len(model)
        PROVE  model[k].iteration \in Iterations /\ model[k].iteration # i
    <3>. model[k] \in Update
      BY DEF IInv, TypeOK
    <3>1. model[k].iteration \in Iterations
      BY DEF Update
    <3>2. Cardinality(Contributors(contributed[model[k].iteration])) = total_workers
      BY DEF IInv, BarrierSafe
    <3>. QED  BY <1>5, <3>1, <3>2 DEF GradientBarrierAssumption
  <2>. QED  BY <1>1, <1>4, <2>1 DEF IInv, BarrierSafe
<1>. QED  BY <1>3, <1>8, <1>9 DEF IInv

\* An update is made of a full iteration that none was made of.
LEMMA AggregateKeeps ==
  ASSUME GradientBarrierAssumption, IInv, NEW i \in Iterations, Aggregate(i)
  PROVE  IInv'
<1> DEFINE u == [iteration |-> i, contributions |-> contributed[i]]
<1>1. model' = Append(model, u) /\ contributed' = contributed
  BY DEF Aggregate
<1>2. u \in Update /\ model \in Seq(Update)
  BY DEF IInv, TypeOK, Update
<1>3. TypeOK'
  BY <1>1, <1>2 DEF IInv, TypeOK
<1>4. CountInv'
  BY <1>1 DEF IInv, CountInv
<1>5. Cardinality(Contributors(contributed[i])) = total_workers
  <2>1. /\ Cardinality(Contributors(contributed[i])) >= total_workers
        /\ Cardinality(Contributors(contributed[i])) <= total_workers
    BY DEF Aggregate, Full, IInv, CountInv
  <2>. QED  BY <2>1, ContributorsFinite DEF GradientBarrierAssumption
<1>6. /\ Len(model') = Len(model) + 1
      /\ model'[Len(model) + 1] = u
      /\ \A k \in 1..Len(model) : model'[k] = model[k]
  BY <1>1, <1>2
<1>7. \A k \in 1..Len(model) : model[k].iteration # i
  BY DEF Aggregate, Closed
<1>8. \A k \in 1..Len(model') : k = Len(model) + 1 \/ k \in 1..Len(model)
  BY <1>2, <1>6
<1>9. \A k \in 1..Len(model') :
        /\ Cardinality(Contributors(model'[k].contributions)) = total_workers
        /\ model'[k].contributions = contributed[model'[k].iteration]
  BY <1>5, <1>6, <1>8 DEF IInv, BarrierSafe
<1>10. \A j, k \in 1..Len(model') : model'[j].iteration = model'[k].iteration => j = k
  BY <1>6, <1>7, <1>8 DEF IInv, BarrierSafe
<1>11. BarrierSafe'
  BY <1>1, <1>9, <1>10 DEF BarrierSafe, Contributors
<1>. QED  BY <1>3, <1>4, <1>11 DEF IInv

LEMMA Inductive ==
  ASSUME GradientBarrierAssumption
  PROVE  IInv /\ [Next]_vars => IInv'
<1> SUFFICES ASSUME IInv, [Next]_vars PROVE IInv'
  OBVIOUS
<1>1. CASE UNCHANGED vars
  BY <1>1 DEF vars, IInv, TypeOK, CountInv, BarrierSafe, Contributors
<1>2. ASSUME NEW i \in Iterations, NEW w \in Workers, NEW g \in Gradients, Contribute(w, i, g)
      PROVE  IInv'
  BY <1>2, ContributeKeeps
<1>3. ASSUME NEW i \in Iterations, Aggregate(i)
      PROVE  IInv'
  BY <1>3, AggregateKeeps
<1>. QED  BY <1>1, <1>2, <1>3 DEF Next

\* The promise of receive_gradients and aggregate_gradients: every update
\* holds the contributions of exactly total_workers workers, they are final,
\* and no iteration is applied twice.
THEOREM BarrierKept ==
  ASSUME GradientBarrierAssumption
  PROVE  Spec => []BarrierSafe
<1>1. Init => IInv
  BY NobodyFirst
<1>2. IInv /\ [Next]_vars => IInv'
  BY Inductive
<1>3. IInv => BarrierSafe
  BY DEF IInv
<1>. QED  BY <1>1, <1>2, <1>3, PTL DEF Spec

\* The promise outlives the servers: at any moment the updates in the model
\* are what the present server, and no earlier one, was sent.
THEOREM BarrierOutlivesServers ==
  ASSUME GradientBarrierAssumption
  PROVE  TrainingSpec => []BarrierSafe
<1>1. TrainingInit => IInv
  BY NobodyFirst DEF TrainingInit
<1>2. IInv /\ [TrainingNext]_trainingVars => IInv'
  <2> SUFFICES ASSUME IInv, [TrainingNext]_trainingVars PROVE IInv'
    OBVIOUS
  <2>1. CASE Train
    BY <2>1, Inductive DEF Train
  <2>2. ASSUME Restart PROVE IInv'
    <3>1. Init'
      BY <2>2 DEF Restart, Init
    <3>2. (Init => IInv)'
      BY NobodyFirst, PTL
    <3>. QED  BY <3>1, <3>2
  <2>3. CASE UNCHANGED vars
    BY <2>3, Inductive
  <2>. QED  BY <2>1, <2>2, <2>3 DEF TrainingNext, Tell, Miss, Complete, trainingVars
<1>3. IInv => BarrierSafe
  BY DEF IInv
<1>. QED  BY <1>1, <1>2, <1>3, PTL DEF TrainingSpec
=============================================================================
