----------------------- MODULE GradientAveragingProofs -----------------------
(***************************************************************************)
(* Proofs about GradientAveraging: the model keeps its layout whatever the *)
(* workers push, an update does not depend on who completed the iteration, *)
(* and it changes every element by the sum of what was pushed for it.  For *)
(* the first two ElementSum stays opaque; the last needs that a sum of     *)
(* integers is one.                                                        *)
(***************************************************************************)
EXTENDS GradientAveraging, FiniteSetTheorems, TLAPS

\* What is in a sequence belongs to the set it is a sequence over.
LEMMA SeqElements ==
  ASSUME NEW S, NEW s \in Seq(S), NEW i \in DOMAIN s
  PROVE  s[i] \in S
  OBVIOUS

\* A layout is a sequence of names with natural numbers as sizes.
LEMMA LayoutShapes ==
  ASSUME NEW l \in AllLayouts
  PROVE  /\ l \in Seq([name : STRING, shape : Nat])
         /\ \A i \in DOMAIN l : l[i] \in [name : STRING, shape : Nat]
<1>1. IsLayout(l)
  BY AveragingAssumption DEF AllLayouts
<1> HIDE DEF AllLayouts
<1>2. l \in Seq([name : STRING, shape : Nat])
  BY <1>1 DEF IsLayout
<1>3. \A i \in DOMAIN l : l[i] \in [name : STRING, shape : Nat]
  BY <1>2, SeqElements
<1> QED
  BY <1>2, <1>3

\* The average has the layout of the list it is taken from, and is well formed
\* when that list is.
LEMMA MeanKeepsLayout ==
  ASSUME NEW grads, NEW last
  PROVE  /\ DOMAIN Mean(grads, last) = DOMAIN last
         /\ Layout(Mean(grads, last)) = Layout(last)
         /\ IsTensors(last) => IsTensors(Mean(grads, last))
  BY DEF Mean, Layout, IsTensors

\* An update leaves the layout of a model as it is.
LEMMA UpdateKeepsLayout ==
  ASSUME NEW params, NEW mean, params # <<>>
  PROVE  /\ Layout(Update(params, mean)) = Layout(params)
         /\ IsTensors(params) => IsTensors(Update(params, mean))
<1> DEFINE new == Update(params, mean)
<1>1. DOMAIN new = DOMAIN params
  BY DEF Update
<1>2. \A i \in DOMAIN params :
        /\ Matches(params, mean, i) => new[i] = Subtract(params[i], mean[i])
        /\ ~Matches(params, mean, i) => new[i] = params[i]
  BY DEF Update
<1>3. \A i \in DOMAIN params :
        /\ new[i].name = params[i].name
        /\ new[i].shape = params[i].shape
        /\ DOMAIN new[i].data = DOMAIN params[i].data
  <2> SUFFICES ASSUME NEW i \in DOMAIN params
               PROVE  /\ new[i].name = params[i].name
                      /\ new[i].shape = params[i].shape
                      /\ DOMAIN new[i].data = DOMAIN params[i].data
    OBVIOUS
  <2> HIDE DEF new
  <2>1. CASE Matches(params, mean, i)
    <3>1. new[i] = Subtract(params[i], mean[i])
      BY <1>2, <2>1
    <3> QED
      BY <3>1 DEF Subtract
  <2>2. CASE ~Matches(params, mean, i)
    BY <1>2, <2>2
  <2> QED
    BY <2>1, <2>2
<1> QED
  BY <1>1, <1>3 DEF Layout, IsTensors

\* What a worker may push has the layout it was computed for and is well
\* formed.
LEMMA TensorsFit ==
  ASSUME NEW l \in AllLayouts, NEW V, NEW ts \in TensorsOf(l, V)
  PROVE  IsTensors(ts) /\ Layout(ts) = l
<1>1. PICK f \in [DOMAIN l -> UNION {[1..l[i].shape -> V] : i \in DOMAIN l}] :
        /\ \A i \in DOMAIN l : Len(f[i]) = l[i].shape
        /\ ts = [i \in DOMAIN l |-> [name |-> l[i].name, shape |-> l[i].shape, data |-> f[i]]]
  BY DEF TensorsOf
<1>2. \A i \in DOMAIN l : DOMAIN f[i] = 1..l[i].shape
  <2> TAKE i \in DOMAIN l
  <2>1. PICK k \in DOMAIN l : f[i] \in [1..l[k].shape -> V]
    BY <1>1
  <2>2. l[k].shape \in Nat
    BY LayoutShapes
  <2>3. Len(f[i]) = l[k].shape
    BY <2>1, <2>2
  <2> QED
    BY <1>1, <2>1, <2>3
<1>3. Layout(ts) = l
  <2>1. l \in Seq([name : STRING, shape : Nat])
    BY LayoutShapes
  <2>2. \A i \in DOMAIN l : l[i] = [name |-> l[i].name, shape |-> l[i].shape]
    BY LayoutShapes
  <2>3. Layout(ts) = [i \in DOMAIN l |-> l[i]]
    BY <1>1, <2>2 DEF Layout
  <2> QED
    BY <2>1, <2>3
<1> QED
  BY <1>1, <1>2, <1>3 DEF IsTensors

\* Averaging lists of one layout, it makes no difference which is the last.
LEMMA MeanOfUniform ==
  ASSUME NEW grads, NEW s, NEW t,
         IsTensors(s), IsTensors(t), Layout(s) = Layout(t)
  PROVE  Mean(grads, s) = Mean(grads, t)
<1>1. DOMAIN s = DOMAIN t
  BY DEF Layout
<1>2. \A i \in DOMAIN s : s[i].name = t[i].name /\ s[i].shape = t[i].shape
  <2> TAKE i \in DOMAIN s
  <2>1. Layout(s)[i] = Layout(t)[i]
    OBVIOUS
  <2> QED
    BY <1>1, <2>1 DEF Layout
<1>3. \A i \in DOMAIN s : DOMAIN s[i].data = DOMAIN t[i].data
  BY <1>1, <1>2 DEF IsTensors
<1> QED
  BY <1>1, <1>2, <1>3 DEF Mean

-----------------------------------------------------------------------------
(* Sums over finite sets.  The folds they are defined by are recursive     *)
(* functions on sets; induction is taken from the well-foundedness of the  *)
(* strict subsets of a finite set: of the subsets a claim fails for there  *)
(* would be a smallest.                                                    *)

\* The element a fold over a set takes first.
First(S) == CHOOSE x \in S : TRUE

\* it is the function the sum over S is defined by.
IsIter(it, f, S) ==
  it = [s \in SUBSET S |-> IF s = {} THEN 0 ELSE f[First(s)] + it[s \ {First(s)}]]

Iter(f, S) == CHOOSE it : IsIter(it, f, S)

\* The sum over some workers is the fold that defines it.
LEMMA SumByIter ==
  ASSUME NEW f, NEW S
  PROVE  SumFunctionOnSet(f, S) = Iter(f, S)[S]
BY DEF SumFunctionOnSet, FoldFunctionOnSet, MapThenFoldSet, Iter, IsIter, First

\* The fold takes its next worker from those that are left.
LEMMA FirstIsIn ==
  ASSUME NEW S, S # {}
  PROVE  First(S) \in S
BY DEF First

\* Induction over the subsets of a finite set: of a set of them there is a
\* smallest.
LEMMA SmallestSubset ==
  ASSUME NEW S, IsFiniteSet(S), NEW Bad \in SUBSET SUBSET S, Bad # {}
  PROVE  \E T \in Bad : \A U \in SUBSET T : U # T => U \notin Bad
<1>1. IsWellFoundedOn(StrictSubsetOrdering(S), SUBSET S)
  BY FS_StrictSubsetOrderingWellFounded, FS_FiniteSubsetsOfFinite
<1>2. PICK T \in Bad : \A U \in Bad : <<U, T>> \notin StrictSubsetOrdering(S)
  BY <1>1, WFMin
<1>. QED  BY <1>2 DEF StrictSubsetOrdering

\* There is at most one, and the one for a set has those for its subsets in it.
LEMMA IterUnique ==
  ASSUME NEW f, NEW S, NEW T \in SUBSET S, IsFiniteSet(T),
         NEW g, NEW h, IsIter(g, f, S), IsIter(h, f, T)
  PROVE  g[T] = h[T]
<1> DEFINE Bad == {U \in SUBSET T : g[U] # h[U]}
<1>1. ASSUME Bad # {} PROVE FALSE
  <2>1. PICK U \in Bad : \A V \in SUBSET U : V # U => V \notin Bad
    <3> HIDE DEF Bad
    <3>1. Bad \in SUBSET SUBSET T
      BY DEF Bad
    <3>. QED  BY <1>1, <3>1, SmallestSubset
  <2>2. U \in SUBSET S /\ U \in SUBSET T
    OBVIOUS
  <2>3. /\ g[U] = IF U = {} THEN 0 ELSE f[First(U)] + g[U \ {First(U)}]
        /\ h[U] = IF U = {} THEN 0 ELSE f[First(U)] + h[U \ {First(U)}]
    BY <2>2 DEF IsIter
  <2>4. U # {} => g[U \ {First(U)}] = h[U \ {First(U)}]
    BY <2>1, FirstIsIn
  <2>. QED  BY <2>1, <2>3, <2>4
<1>. QED  BY <1>1

\* There is one.
LEMMA IterExists ==
  ASSUME NEW f, NEW S, IsFiniteSet(S)
  PROVE  IsIter(Iter(f, S), f, S)
<1> DEFINE Bad == {T \in SUBSET S : ~ IsIter(Iter(f, T), f, T)}
<1>1. ASSUME Bad # {} PROVE FALSE
  <2>1. PICK T \in Bad : \A U \in SUBSET T : U # T => U \notin Bad
    <3>1. Bad \in SUBSET SUBSET S
      OBVIOUS
    <3> HIDE DEF Bad
    <3>. QED  BY <1>1, <3>1, SmallestSubset
  <2> DEFINE rest(s) == s \ {First(s)}
             g == [s \in SUBSET T |-> IF s = {} THEN 0 ELSE f[First(s)] + Iter(f, rest(s))[rest(s)]]
  <2>2. \A U \in SUBSET T : U # T => IsIter(Iter(f, U), f, U) /\ IsFiniteSet(U)
    <3>1. \A U \in SUBSET T : IsFiniteSet(U) /\ U \in SUBSET S
      BY FS_Subset
    <3>. QED  BY <2>1, <3>1
  <2>3. ASSUME NEW s \in SUBSET T, s # {}
        PROVE  g[rest(s)] = Iter(f, rest(s))[rest(s)]
    <3> DEFINE U == rest(s)
    <3>1. U \in SUBSET T /\ U # T
      BY <2>3, FirstIsIn
    <3>2. IsIter(Iter(f, U), f, U)
      BY <2>2, <3>1
    <3>3. Iter(f, U)[U] = IF U = {} THEN 0 ELSE f[First(U)] + Iter(f, U)[rest(U)]
      <4> HIDE DEF U
      <4>. QED  BY <3>2 DEF IsIter
    <3>4. g[U] = IF U = {} THEN 0 ELSE f[First(U)] + Iter(f, rest(U))[rest(U)]
      <4> HIDE DEF U
      <4>. QED  BY <3>1
    <3>5. U # {} => Iter(f, U)[rest(U)] = Iter(f, rest(U))[rest(U)]
      <4>1. rest(U) \in SUBSET U /\ rest(U) \in SUBSET T
        BY <3>1
      <4>2. U # {} => rest(U) # T
        BY <3>1
      <4>3. U # {} => IsIter(Iter(f, rest(U)), f, rest(U)) /\ IsFiniteSet(rest(U))
        BY <2>2, <4>1, <4>2
      <4> HIDE DEF U, rest
      <4>. QED  BY <3>2, <4>1, <4>3, IterUnique
    <3>. QED  BY <3>3, <3>4, <3>5
  <2>4. IsIter(g, f, T)
    <3>1. g = [s \in SUBSET T |-> IF s = {} THEN 0 ELSE f[First(s)] + g[rest(s)]]
      BY <2>3
    <3>. QED  BY <3>1 DEF IsIter
  <2>5. IsIter(Iter(f, T), f, T)
    <3> HIDE DEF g
    <3>. QED  BY <2>4 DEF Iter
  <2>. QED  BY <2>1, <2>5
<1>. QED  BY <1>1

\* Sums over finite sets, one element at a time.
LEMMA SumStep ==
  ASSUME NEW f, NEW S, IsFiniteSet(S)
  PROVE  SumFunctionOnSet(f, S) =
           IF S = {} THEN 0 ELSE f[First(S)] + SumFunctionOnSet(f, S \ {First(S)})
<1> DEFINE T == S \ {First(S)}
<1>1. IsIter(Iter(f, S), f, S) /\ IsFiniteSet(T) /\ IsIter(Iter(f, T), f, T)
  BY IterExists, FS_Subset
<1>2. Iter(f, S)[T] = Iter(f, T)[T]
  BY <1>1, IterUnique
<1>3. Iter(f, S)[S] = IF S = {} THEN 0 ELSE f[First(S)] + Iter(f, S)[T]
  BY <1>1 DEF IsIter
<1>. QED  BY <1>2, <1>3, SumByIter

\* A sum of integers is an integer.
LEMMA SumType ==
  ASSUME NEW f, NEW S, IsFiniteSet(S), \A x \in S : f[x] \in Int
  PROVE  SumFunctionOnSet(f, S) \in Int
<1> DEFINE Bad == {T \in SUBSET S : SumFunctionOnSet(f, T) \notin Int}
<1>1. ASSUME Bad # {} PROVE FALSE
  <2>1. PICK T \in Bad : \A U \in SUBSET T : U # T => U \notin Bad
    <3>1. Bad \in SUBSET SUBSET S
      OBVIOUS
    <3> HIDE DEF Bad
    <3>. QED  BY <1>1, <3>1, SmallestSubset
  <2>2. IsFiniteSet(T)
    BY FS_Subset
  <2>3. ASSUME T # {} PROVE f[First(T)] \in Int /\ SumFunctionOnSet(f, T \ {First(T)}) \in Int
    <3>1. First(T) \in T
      BY <2>3, FirstIsIn
    <3>2. T \ {First(T)} \notin Bad
      BY <2>1, <3>1
    <3>. QED  BY <3>1, <3>2
  <2>4. SumFunctionOnSet(f, T) =
          IF T = {} THEN 0 ELSE f[First(T)] + SumFunctionOnSet(f, T \ {First(T)})
    BY <2>2, SumStep
  <2>5. SumFunctionOnSet(f, T) \in Int
    <3> HIDE DEF Bad
    <3>. QED  BY <2>3, <2>4
  <2>. QED  BY <2>5
<1>. QED  BY <1>1

-----------------------------------------------------------------------------
\* What a push stores and does to the model, without its LET.
LEMMA PushStep ==
  ASSUME TypeOK, NEW w \in Workers, Push(w)
  PROVE  /\ ~aggregated
         /\ DOMAIN worker_gradients' = DOMAIN worker_gradients \cup {w}
         /\ \A v \in DOMAIN worker_gradients' : IsTensors(worker_gradients'[v])
         /\ aggregated' <=> Cardinality(DOMAIN worker_gradients') >= total_workers
         /\ aggregated' => parameters_' = Update(parameters_, Mean(worker_gradients', worker_gradients'[w]))
         /\ ~aggregated' => parameters_' = parameters_
         /\ UNCHANGED <<iteration, basis>>
<1>1. PICK gradients \in TensorsOf(basis[w], Values) :
        /\ worker_gradients' = [v \in DOMAIN worker_gradients \cup {w} |->
                                  IF v = w THEN gradients ELSE worker_gradients[v]]
        /\ aggregated' = (Cardinality(DOMAIN worker_gradients') >= total_workers)
        /\ parameters_' = IF aggregated' THEN Update(parameters_, Mean(worker_gradients', gradients))
                          ELSE parameters_
  BY DEF Push
<1>2. basis[w] \in AllLayouts
  BY DEF TypeOK
<1>3. IsTensors(gradients)
  BY <1>2, TensorsFit
<1>4. worker_gradients'[w] = gradients
  BY <1>1
<1>5. \A v \in DOMAIN worker_gradients' : IsTensors(worker_gradients'[v])
  BY <1>1, <1>3 DEF TypeOK
<1> QED
  BY <1>1, <1>4, <1>5 DEF Push

\* Init establishes TypeOK.
LEMMA InitTypeOK == Init => TypeOK
<1> SUFFICES ASSUME Init PROVE TypeOK
  OBVIOUS
<1>1. DOMAIN worker_gradients = {}
  BY DEF Init, NoGradients
<1>2. Cardinality({}) = 0
  BY FS_EmptySet
<1> QED
  BY <1>1, <1>2, AveragingAssumption DEF Init, TypeOK, AllLayouts

\* Every step keeps TypeOK.
LEMMA NextTypeOK == TypeOK /\ [Next]_vars => TypeOK'
<1> SUFFICES ASSUME TypeOK, [Next]_vars PROVE TypeOK'
  OBVIOUS
<1>1. total_workers \in Nat \ {0} /\ IsFiniteSet(Workers) /\ MaxIteration \in Nat
  BY AveragingAssumption
<1>2. ASSUME NEW w \in Workers, Pull(w) PROVE TypeOK'
  <2>1. parameters_ # <<>> => Layout(parameters_) \in AllLayouts
    BY DEF TypeOK, IsTensors
  <2>2. basis' \in [Workers -> AllLayouts]
    BY <1>2, <2>1 DEF Pull, TypeOK, AllLayouts
  <2> QED
    BY <1>2, <2>2 DEF Pull, TypeOK
<1>3. ASSUME NEW w \in Workers, Push(w) PROVE TypeOK'
  <2>1. PICK pushed : pushed = DOMAIN worker_gradients
    OBVIOUS
  <2>2. IsFiniteSet(pushed)
    BY <1>1, <2>1, FS_Subset DEF TypeOK
  <2>3. /\ Cardinality(pushed) \in Nat
        /\ Cardinality(pushed \cup {w}) \in {Cardinality(pushed), Cardinality(pushed) + 1}
    BY <2>2, FS_AddElement, FS_CardinalityType
  <2>4. Cardinality(pushed) < total_workers
    <3>1. ~aggregated
      BY <1>3, PushStep
    <3>2. Cardinality(pushed) # total_workers /\ Cardinality(pushed) <= total_workers
      BY <2>1, <3>1 DEF TypeOK
    <3> QED
      BY <1>1, <2>3, <3>2
  <2>5. DOMAIN worker_gradients' = pushed \cup {w}
    BY <1>3, <2>1, PushStep
  <2>6. /\ Cardinality(DOMAIN worker_gradients') <= total_workers
        /\ aggregated' <=> Cardinality(DOMAIN worker_gradients') = total_workers
    BY <1>1, <1>3, <2>3, <2>4, <2>5, PushStep
  <2>7. parameters_' = <<>> \/ IsTensors(parameters_')
    <3>1. CASE ~aggregated'
      BY <1>3, <3>1, PushStep DEF TypeOK
    <3>2. CASE aggregated'
      <4> DEFINE mean == Mean(worker_gradients', worker_gradients'[w])
      <4>1. IsTensors(mean)
        BY <1>3, PushStep, MeanKeepsLayout
      <4>2. parameters_' = Update(parameters_, mean)
        BY <1>3, <3>2, PushStep
      <4>3. CASE parameters_ = <<>>
        BY <4>1, <4>2, <4>3 DEF Update
      <4>4. CASE parameters_ # <<>>
        BY <4>2, <4>4, UpdateKeepsLayout DEF TypeOK
      <4> QED
        BY <4>3, <4>4
    <3> QED
      BY <3>1, <3>2
  <2> QED
    BY <1>3, <2>6, <2>5, <2>1, <2>7, PushStep DEF TypeOK
<1>4. ASSUME NextIteration PROVE TypeOK'
  <2>1. DOMAIN worker_gradients' = {} /\ Cardinality({}) = 0
    BY <1>4, FS_EmptySet DEF NextIteration, NoGradients
  <2> QED
    BY <1>1, <1>4, <2>1 DEF NextIteration, TypeOK
<1>5. ASSUME Load PROVE TypeOK'
  <2>1. PICK l \in Layouts : parameters_' \in TensorsOf(l, {0})
    BY <1>5 DEF Load
  <2>2. IsTensors(parameters_')
    BY <2>1, TensorsFit DEF AllLayouts
  <2> QED
    BY <1>5, <2>2 DEF Load, TypeOK
<1>6. ASSUME RestartServer PROVE TypeOK'
  <2>1. DOMAIN worker_gradients' = {} /\ Cardinality({}) = 0
    BY <1>6, FS_EmptySet DEF RestartServer, NoGradients
  <2> QED
    BY <1>1, <1>6, <2>1 DEF RestartServer, TypeOK
<1>7. ASSUME UNCHANGED vars PROVE TypeOK'
  BY <1>7 DEF vars, TypeOK
<1> QED
  BY <1>2, <1>3, <1>4, <1>5, <1>6, <1>7 DEF Next

\* Every reachable model, and every list that waits to be averaged, consists
\* of tensors of a known layout with the sizes their shapes say.
THEOREM TypeCorrect == Spec => []TypeOK
  BY InitTypeOK, NextTypeOK, PTL DEF Spec

\* Only a push closes an iteration.
LEMMA ClosingIsPush ==
  ASSUME [Next]_vars, Closing
  PROVE  \E w \in Workers : Push(w)
  BY DEF Closing, Next, vars, Pull, NextIteration, Load, RestartServer

\* Averaging is a function of the lists of an iteration and not of which of
\* them came last, as long as the workers agree on the layout.
THEOREM OrderDoesNotMatter == Spec => OrderIndependent
<1> DEFINE Independent ==
      \A l \in AllLayouts : Uniform(worker_gradients', l) =>
        \A w \in DOMAIN worker_gradients' :
          parameters_' = Update(parameters_, Mean(worker_gradients', worker_gradients'[w]))
<1>1. ASSUME TypeOK, [Next]_vars, Closing PROVE Independent
  <2> SUFFICES ASSUME NEW l \in AllLayouts, Uniform(worker_gradients', l),
                      NEW w \in DOMAIN worker_gradients'
               PROVE  parameters_' = Update(parameters_, Mean(worker_gradients', worker_gradients'[w]))
    OBVIOUS
  <2>1. PICK last \in Workers : Push(last)
    BY <1>1, ClosingIsPush
  <2>2. /\ last \in DOMAIN worker_gradients'
        /\ \A v \in DOMAIN worker_gradients' : IsTensors(worker_gradients'[v])
        /\ parameters_' = Update(parameters_, Mean(worker_gradients', worker_gradients'[last]))
    BY <1>1, <2>1, PushStep DEF Closing
  <2>3. Layout(worker_gradients'[w]) = Layout(worker_gradients'[last])
    BY <2>2 DEF Uniform
  <2>4. Mean(worker_gradients', worker_gradients'[w]) = Mean(worker_gradients', worker_gradients'[last])
    BY <2>2, <2>3, MeanOfUniform
  <2> QED
    BY <2>2, <2>4
<1>2. TypeOK /\ [Next]_vars => [Closing => Independent]_vars
  BY <1>1
<1> QED
  BY <1>2, TypeCorrect, PTL DEF Spec, OrderIndependent

\* No update adds, drops, renames or resizes a tensor of the model, whatever
\* lists of whatever layouts were pushed.
THEOREM LayoutStays == Spec => LayoutIsStable
<1>1. ASSUME TypeOK, [Next]_vars, Closing, parameters_ # <<>>
      PROVE  Layout(parameters_') = Layout(parameters_)
  <2>1. PICK last \in Workers : Push(last)
    BY <1>1, ClosingIsPush
  <2>2. parameters_' = Update(parameters_, Mean(worker_gradients', worker_gradients'[last]))
    BY <1>1, <2>1, PushStep DEF Closing
  <2> QED
    BY <1>1, <2>2, UpdateKeepsLayout
<1>2. TypeOK /\ [Next]_vars
        => [Closing /\ parameters_ # <<>> => Layout(parameters_') = Layout(parameters_)]_vars
  BY <1>1
<1> QED
  BY <1>2, TypeCorrect, PTL DEF Spec, LayoutIsStable
-----------------------------------------------------------------------------
(* Every element is updated *)

IntegerData(ts) == \A i \in DOMAIN ts : \A j \in DOMAIN ts[i].data : ts[i].data[j] \in Int

\* The elements of the model and of the lists to be averaged are integers.
DataInv ==
  /\ IntegerData(parameters_)
  /\ \A w \in DOMAIN worker_gradients : IntegerData(worker_gradients[w])

\* What a worker pushes has elements of the values there are.
LEMMA TensorsData ==
  ASSUME NEW l \in AllLayouts, NEW V \in SUBSET Int, NEW ts \in TensorsOf(l, V)
  PROVE  IntegerData(ts)
<1>1. PICK f \in [DOMAIN l -> UNION {[1..l[i].shape -> V] : i \in DOMAIN l}] :
        ts = [i \in DOMAIN l |-> [name |-> l[i].name, shape |-> l[i].shape, data |-> f[i]]]
  BY DEF TensorsOf
<1>2. \A i \in DOMAIN l : \A j \in DOMAIN f[i] : f[i][j] \in Int
  <2> TAKE i \in DOMAIN l
  <2>1. PICK k \in DOMAIN l : f[i] \in [1..l[k].shape -> V]
    BY <1>1
  <2>. QED  BY <2>1
<1>. QED  BY <1>1, <1>2 DEF IntegerData

\* The average of integers is an integer in the units of the model.
LEMMA ElementSumType ==
  ASSUME NEW grads, IsFiniteSet(DOMAIN grads),
         \A w \in DOMAIN grads : IntegerData(grads[w]),
         NEW i, NEW j
  PROVE  ElementSum(grads, i, j) \in Int
<1> DEFINE f == [w \in DOMAIN grads |-> Element(grads[w], i, j)]
<1>1. \A w \in DOMAIN grads : f[w] \in Int
  BY DEF Element, HasElement, IntegerData
<1>2. SumFunctionOnSet(f, DOMAIN grads) \in Int
  <2> HIDE DEF f
  <2>. QED  BY <1>1, SumType
<1>. QED  BY <1>2 DEF ElementSum

\* The mean of lists of integers consists of integers.
LEMMA MeanData ==
  ASSUME NEW grads, IsFiniteSet(DOMAIN grads),
         \A w \in DOMAIN grads : IntegerData(grads[w]),
         NEW last
  PROVE  IntegerData(Mean(grads, last))
BY ElementSumType DEF Mean, IntegerData

\* So does a model updated with it.
LEMMA UpdateData ==
  ASSUME NEW params, NEW mean, IntegerData(params), IntegerData(mean)
  PROVE  IntegerData(Update(params, mean))
<1>1. CASE params = <<>>
  BY <1>1 DEF Update
<1>2. CASE params # <<>>
  <2>1. /\ DOMAIN Update(params, mean) = DOMAIN params
        /\ \A i \in DOMAIN params :
             Update(params, mean)[i]
               = IF Matches(params, mean, i) THEN Subtract(params[i], mean[i]) ELSE params[i]
    BY <1>2 DEF Update
  <2>2. ASSUME NEW i \in DOMAIN params, Matches(params, mean, i),
               NEW j \in DOMAIN params[i].data
        PROVE  /\ DOMAIN Subtract(params[i], mean[i]).data = DOMAIN params[i].data
               /\ Subtract(params[i], mean[i]).data[j] \in Int
    <3>1. params[i].data[j] \in Int
      BY DEF IntegerData
    <3>2. j \in DOMAIN mean[i].data => mean[i].data[j] \in Int
      BY <2>2 DEF IntegerData, Matches
    <3>. QED  BY <3>1, <3>2 DEF Subtract
  <2>3. \A i \in DOMAIN params :
          DOMAIN Subtract(params[i], mean[i]).data = DOMAIN params[i].data
    BY DEF Subtract
  <2>4. ASSUME NEW i \in DOMAIN params, NEW j \in DOMAIN Update(params, mean)[i].data
        PROVE  Update(params, mean)[i].data[j] \in Int
    <3>1. CASE Matches(params, mean, i)
      BY <2>1, <2>2, <2>3, <2>4, <3>1
    <3>2. CASE ~Matches(params, mean, i)
      BY <2>1, <2>4, <3>2 DEF IntegerData
    <3>. QED  BY <3>1, <3>2
  <2>. QED  BY <2>1, <2>4 DEF IntegerData
<1>. QED  BY <1>1, <1>2

\* The empty model consists of integers, and at first nothing was pushed.
LEMMA EmptyData ==
  /\ IntegerData(<<>>)
  /\ DOMAIN NoGradients = {}
BY DEF IntegerData, NoGradients

\* Every step keeps models and lists made of integers.
LEMMA DataStep == TypeOK /\ TypeOK' /\ DataInv /\ [Next]_vars => DataInv'
<1> SUFFICES ASSUME TypeOK, TypeOK', DataInv, [Next]_vars PROVE DataInv'
  OBVIOUS
<1>1. ASSUME NEW w \in Workers, Push(w) PROVE DataInv'
  <2>1. PICK gradients \in TensorsOf(basis[w], Values) :
          worker_gradients' = [v \in DOMAIN worker_gradients \cup {w} |->
                                 IF v = w THEN gradients ELSE worker_gradients[v]]
    BY <1>1 DEF Push
  <2>2. basis[w] \in AllLayouts /\ Values \in SUBSET Int
    BY AveragingAssumption DEF TypeOK
  <2>3. IntegerData(gradients)
    BY <2>2, TensorsData
  <2>4. \A v \in DOMAIN worker_gradients' : IntegerData(worker_gradients'[v])
    BY <2>1, <2>3 DEF DataInv
  <2>5. IsFiniteSet(DOMAIN worker_gradients')
    BY AveragingAssumption, FS_Subset DEF TypeOK
  <2>6. IntegerData(Mean(worker_gradients', worker_gradients'[w]))
    BY <2>4, <2>5, MeanData
  <2>7. IntegerData(parameters_')
    <3>1. CASE aggregated'
      <4> DEFINE mean == Mean(worker_gradients', worker_gradients'[w])
      <4>1. parameters_' = Update(parameters_, mean)
        BY <1>1, <3>1, PushStep
      <4>2. IntegerData(parameters_)
        BY DEF DataInv
      <4>. HIDE DEF mean
      <4>3. IntegerData(Update(parameters_, mean))
        BY <2>6, <4>2, UpdateData DEF mean
      <4>. QED  BY <4>1, <4>3
    <3>2. CASE ~aggregated'
      BY <1>1, <3>2, PushStep DEF DataInv
    <3>. QED  BY <3>1, <3>2
  <2>. QED  BY <2>4, <2>7 DEF DataInv
<1>2. ASSUME Load PROVE DataInv'
  <2>1. PICK l \in Layouts : parameters_' \in TensorsOf(l, {0})
    BY <1>2 DEF Load
  <2>2. l \in AllLayouts /\ {0} \in SUBSET Int
    BY DEF AllLayouts
  <2>3. IntegerData(parameters_')
    BY <2>1, <2>2, TensorsData
  <2>. QED  BY <1>2, <2>3 DEF Load, DataInv
<1>3. ASSUME RestartServer PROVE DataInv'
  BY <1>3, EmptyData DEF RestartServer, DataInv
<1>4. ASSUME NextIteration PROVE DataInv'
  BY <1>4, EmptyData DEF NextIteration, DataInv
<1>5. ASSUME \/ \E w \in Workers : Pull(w)
             \/ UNCHANGED vars
      PROVE  DataInv'
  BY <1>5 DEF Pull, vars, DataInv
<1>. QED  BY <1>1, <1>2, <1>3, <1>4, <1>5 DEF Next

\* All data in the model and in the lists are integers.
LEMMA IntegersOnly == Spec => []DataInv
<1>1. Init => DataInv
  BY EmptyData DEF Init, DataInv
<1>. QED  BY <1>1, DataStep, TypeCorrect, PTL DEF Spec

\* What the lists have for an element adds up to what ElementSum says, when all
\* of them have it.
LEMMA UniformSum ==
  ASSUME NEW grads, NEW i, NEW j, \A w \in DOMAIN grads : HasElement(grads[w], i, j)
  PROVE  ElementSum(grads, i, j) = SumFunction([w \in DOMAIN grads |-> grads[w][i].data[j]])
<1>1. [w \in DOMAIN grads |-> Element(grads[w], i, j)]
        = [w \in DOMAIN grads |-> grads[w][i].data[j]]
  BY DEF Element
<1>2. DOMAIN [w \in DOMAIN grads |-> grads[w][i].data[j]] = DOMAIN grads
  OBVIOUS
<1>. QED  BY <1>1, <1>2 DEF ElementSum, SumFunction

\* Lists of the model's layout have all its elements.
LEMMA SameElements ==
  ASSUME NEW params, NEW ts, IsTensors(params), IsTensors(ts), Layout(ts) = Layout(params),
         NEW i \in DOMAIN params
  PROVE  /\ i \in DOMAIN ts /\ ts[i].name = params[i].name /\ ts[i].shape = params[i].shape
         /\ DOMAIN ts[i].data = 1..params[i].shape
<1>1. DOMAIN ts = DOMAIN params
  BY DEF Layout
<1>2. Layout(ts)[i] = Layout(params)[i]
  OBVIOUS
<1>3. ts[i].name = params[i].name /\ ts[i].shape = params[i].shape
  BY <1>1, <1>2 DEF Layout
<1>. QED  BY <1>1, <1>3 DEF IsTensors

\* When the workers and the model agree on the layout, the update takes from
\* every element of the model the sum of what each of the workers has pushed
\* for it: the loops of receive_gradients and aggregate_gradients leave none
\* out, and a worker counts once.
THEOREM ElementsAreUpdated == Spec => EveryElementUpdated
<1> DEFINE Updated ==
      \A i \in DOMAIN parameters_ : \A j \in 1..parameters_[i].shape :
        parameters_[i].data[j] - parameters_'[i].data[j]
          = SumFunction([w \in DOMAIN worker_gradients' |-> worker_gradients'[w][i].data[j]])
    Agreed == Closing /\ parameters_ # <<>> /\ Uniform(worker_gradients', Layout(parameters_))
<1>1. ASSUME TypeOK, TypeOK', DataInv, DataInv', [Next]_vars, Agreed PROVE Updated
  <2> SUFFICES ASSUME NEW i \in DOMAIN parameters_, NEW j \in 1..parameters_[i].shape
               PROVE  parameters_[i].data[j] - parameters_'[i].data[j]
                        = SumFunction([w \in DOMAIN worker_gradients' |-> worker_gradients'[w][i].data[j]])
    OBVIOUS
  <2> DEFINE grads == worker_gradients'
             sum == ElementSum(grads, i, j)
  <2>1. PICK last \in Workers : Push(last)
    BY <1>1, ClosingIsPush
  <2> DEFINE mean == Mean(grads, grads[last])
  <2>2. /\ last \in DOMAIN grads
        /\ \A v \in DOMAIN grads : IsTensors(grads[v])
        /\ parameters_' = Update(parameters_, mean)
    BY <1>1, <2>1, PushStep DEF Closing
  <2>3. IsTensors(parameters_)
    BY <1>1 DEF TypeOK
  <2>4. \A w \in DOMAIN grads :
          /\ i \in DOMAIN grads[w]
          /\ grads[w][i].name = parameters_[i].name /\ grads[w][i].shape = parameters_[i].shape
          /\ DOMAIN grads[w][i].data = 1..parameters_[i].shape
    BY <1>1, <2>2, <2>3, SameElements DEF Uniform
  <2>5. /\ i \in DOMAIN mean
        /\ mean[i].name = parameters_[i].name /\ mean[i].shape = parameters_[i].shape
        /\ DOMAIN mean[i].data = 1..parameters_[i].shape
        /\ mean[i].data[j] = sum
    <3> HIDE DEF grads
    <3>. QED  BY <2>2, <2>4 DEF Mean
  <2>6. parameters_'[i] = Subtract(parameters_[i], mean[i])
    <3> HIDE DEF mean
    <3>. QED  BY <1>1, <2>2, <2>5 DEF Update, Matches
  <2>7. DOMAIN parameters_[i].data = 1..parameters_[i].shape
    BY <2>3 DEF IsTensors
  <2>8. parameters_'[i].data[j] = parameters_[i].data[j] - sum
    <3> HIDE DEF mean, sum
    <3>. QED  BY <2>5, <2>6, <2>7 DEF Subtract
  <2>9. parameters_[i].data[j] \in Int /\ sum \in Int
    <3>1. IsFiniteSet(DOMAIN grads)
      BY <1>1, AveragingAssumption, FS_Subset DEF TypeOK
    <3>2. \A w \in DOMAIN grads : IntegerData(grads[w])
      BY <1>1 DEF DataInv
    <3>3. sum \in Int
      <4> HIDE DEF grads
      <4>. QED  BY <3>1, <3>2, ElementSumType
    <3>. QED  BY <1>1, <2>7, <3>3 DEF DataInv, IntegerData
  <2>10. parameters_[i].data[j] - parameters_'[i].data[j] = sum
    <3> HIDE DEF sum
    <3>. QED  BY <2>8, <2>9
  <2>11. sum = SumFunction([w \in DOMAIN grads |-> grads[w][i].data[j]])
    <3>1. \A w \in DOMAIN grads : HasElement(grads[w], i, j)
      BY <2>4 DEF HasElement
    <3> HIDE DEF grads
    <3>. QED  BY <3>1, UniformSum
  <2>. QED  BY <2>10, <2>11
<1>2. TypeOK /\ TypeOK' /\ DataInv /\ DataInv' /\ [Next]_vars => [Agreed => Updated]_vars
  BY <1>1
<1>. QED  BY <1>2, TypeCorrect, IntegersOnly, PTL DEF Spec, EveryElementUpdated
=============================================================================
