----------------------------- MODULE ScalingProofs -----------------------------
(***************************************************************************)
(* Proofs about Discovery and Scaling, for any number of workers,          *)
(* iterations, attempts, faults and runs of the script.                    *)
(*                                                                         *)
(* The argument: when the script rests, and from when terraform is done,   *)
(* there are no processes but of the workers the server counts, or is      *)
(* about to count (AliveInv); and a server that is restarted has lost      *)
(* everything, so what it has when the script rests came from those        *)
(* workers alone (LossInv, ScopeInv).  That the calls of a process run out *)
(* needs, besides, that a process that initializes has all of its run      *)
(* before it (FreshInv).                                                   *)
(***************************************************************************)
EXTENDS Scaling, FiniteSetTheorems, TLAPS

\* The processes of workers that terraform, and then the server, leave.
AliveInv ==
  \A w \in Workers : phase[w] # "down" =>
    /\ script \in {"kill_server", "start_server"} => w < NEW_COUNT
    /\ script = "idle" => w < total_workers_

\* There is nothing left of a server that is down.
LossInv ==
  /\ script = "start_server" => ~server_up
  /\ ~server_up => /\ \A i \in Iterations : received[i] = {} /\ updates[i] = {}
                   /\ \A w \in Workers : completed[w] = {}

\* What the server has when the script rests it has from its workers, and it
\* has averaged over all of them.
ScopeInv ==
  script = "idle" => \A i \in Iterations :
    /\ received[i] \subseteq First(total_workers_)
    /\ updates[i] # {} => updates[i] = First(total_workers_)

IInv ==
  /\ ScalingTypeOK
  /\ AliveInv
  /\ LossInv
  /\ ScopeInv
  /\ DoneMeansContributed

-----------------------------------------------------------------------------
(* The first n workers *)

LEMMA CountType == Cardinality(Workers) \in Nat
BY FS_CardinalityType, ScalingAssumption

\* The assumptions, in the form they are used in.
LEMMA Bounds ==
  /\ Cardinality(Workers) \in Nat
  /\ \A k \in Nat : k \in Workers <=> k < Cardinality(Workers)
  /\ \A w \in Workers : w \in Nat
  /\ MaxScalings \in Nat
  /\ iterations \in Nat \ {0} /\ max_retries \in Nat \ {0}
<1>1. Workers = 0..(Cardinality(Workers) - 1)
  BY ScalingAssumption
<1>2. \A k \in 0..(Cardinality(Workers) - 1) : k \in Nat
  BY CountType
<1>3. \A k \in Nat : k \in 0..(Cardinality(Workers) - 1) <=> k < Cardinality(Workers)
  BY CountType
<1>. QED  BY <1>1, <1>2, <1>3, CountType, ScalingAssumption

\* The first n workers are n workers.
LEMMA FirstFacts ==
  ASSUME NEW n \in 1..Cardinality(Workers)
  PROVE  /\ IsFiniteSet(First(n))
         /\ Cardinality(First(n)) = n
         /\ First(n) # {}
<1>1. n \in Nat /\ n >= 1 /\ Workers = 0..(Cardinality(Workers) - 1)
  BY CountType, ScalingAssumption
<1>2. First(n) = 0..(n - 1)
  BY <1>1, CountType DEF First
<1>3. IsFiniteSet(0..(n - 1)) /\ Cardinality(0..(n - 1)) = n
  <2>1. /\ IsFiniteSet(0..(n - 1))
        /\ Cardinality(0..(n - 1)) = IF 0 > n - 1 THEN 0 ELSE (n - 1) - 0 + 1
    BY <1>1, FS_Interval
  <2>. QED  BY <1>1, <2>1
<1>4. 0 \in 0..(n - 1)
  BY <1>1
<1>. QED  BY <1>2, <1>3, <1>4

\* n of the first n workers are all of them.
LEMMA FullMeansAll ==
  ASSUME NEW n \in 1..Cardinality(Workers), NEW S \in SUBSET First(n), Cardinality(S) >= n
  PROVE  S = First(n)
<1>1. Cardinality(S) \in Nat /\ Cardinality(S) <= n
  BY FirstFacts, FS_Subset, FS_CardinalityType
<1>2. Cardinality(S) = Cardinality(First(n))
  BY <1>1, FirstFacts
<1>. QED  BY <1>2, FirstFacts, FS_Subset

-----------------------------------------------------------------------------
(* Type correctness *)

\* The types of the variables in their four groups.
ServerTypeOK ==
  /\ server_up \in BOOLEAN
  /\ total_workers_ \in 1..Cardinality(Workers)
  /\ received \in [Iterations -> SUBSET Workers]
  /\ updates \in [Iterations -> SUBSET Workers]

TrainTypeOK ==
  /\ iteration \in [Workers -> 0..iterations]
  /\ retry_count \in [Workers -> 0..(max_retries - 1)]
  /\ stage \in [Workers -> {"pull", "push", "poll"}]
  /\ completed \in [Workers -> SUBSET Iterations]

ScriptTypeOK ==
  /\ worker_count \in 1..Cardinality(Workers)
  /\ script \in {"idle", "stop_workers", "apply", "kill_server", "start_server", "failed"}
  /\ stopping \in 0..Cardinality(Workers)
  /\ {CURRENT_COUNT, NEW_COUNT} \subseteq 1..Cardinality(Workers)
  /\ scalings \in 0..MaxScalings

LEMMA TypeParts ==
  ScalingTypeOK <=> DiscoveryTypeOK /\ ServerTypeOK /\ TrainTypeOK /\ ScriptTypeOK
BY DEF ScalingTypeOK, ServerTypeOK, TrainTypeOK, ScriptTypeOK

LEMMA TypePrimed ==
  DiscoveryTypeOK' /\ ServerTypeOK' /\ TrainTypeOK' /\ ScriptTypeOK' => ScalingTypeOK'
BY DEF ScalingTypeOK, ServerTypeOK, TrainTypeOK, ScriptTypeOK

\* A step that leaves a group alone leaves its types alone.
LEMMA TypeUnchanged ==
  /\ DiscoveryTypeOK /\ UNCHANGED discoveryVars => DiscoveryTypeOK'
  /\ ServerTypeOK /\ UNCHANGED serverVars => ServerTypeOK'
  /\ TrainTypeOK /\ UNCHANGED trainVars => TrainTypeOK'
  /\ ScriptTypeOK /\ UNCHANGED scriptVars => ScriptTypeOK'
BY DEF discoveryVars, coordinatorVars, initializeVars, serverVars, trainVars, scriptVars, argumentVars,
       DiscoveryTypeOK, ServerTypeOK, TrainTypeOK, ScriptTypeOK, Iterations

LEMMA TypeInit == ScalingInit => ScalingTypeOK
<1> SUFFICES ASSUME NEW n \in 1..Cardinality(Workers), Deployed(n) PROVE ScalingTypeOK
  BY DEF ScalingInit
<1>1. DiscoveryTypeOK
  BY DiscoveryAssumption DEF Deployed, DiscoveryInit, DiscoveryTypeOK, Initializing
<1>2. ServerTypeOK
  BY DEF Deployed, ServerTypeOK
<1>3. TrainTypeOK
  BY Bounds DEF Deployed, TrainTypeOK
<1>4. ScriptTypeOK
  BY Bounds DEF Deployed, ScriptTypeOK
<1>. QED  BY <1>1, <1>2, <1>3, <1>4, TypeParts

LEMMA FaultType ==
  ASSUME faults \in 0..MaxFaults, Fault
  PROVE  faults' \in 0..MaxFaults
<1>1. MaxFaults \in Nat
  BY DiscoveryAssumption
<1>. QED  BY <1>1 DEF Fault, MayFail

LEMMA DiscoveryType ==
  ASSUME ScalingTypeOK, DiscoveryNext, Elsewhere
  PROVE  ScalingTypeOK'
<1> USE DiscoveryAssumption DEF DiscoveryTypeOK, Initializing, Proceed, coordinatorVars, initializeVars
<1>1. DiscoveryTypeOK
  BY DEF ScalingTypeOK
<1>2. ASSUME NEW w \in Workers, TryAgain(w)
      PROVE  /\ phase' \in [Workers -> Initializing \cup {"down", "running", "failed"}]
             /\ attempt' \in [Workers -> 0..(max_attempts - 1)]
             /\ ps_address_' \in [Workers -> {<<>>, main_address, Append(main_address, main_port)}]
  BY <1>1, <1>2 DEF TryAgain
<1>3. ASSUME Fault PROVE faults' \in 0..MaxFaults
  BY <1>1, <1>3, FaultType
<1>4. ASSUME NEW w \in Workers, discover_parameter_server(w)
      PROVE  DiscoveryTypeOK'
  BY <1>1, <1>4 DEF discover_parameter_server, GetParameterServerAddress
<1>5. ASSUME NEW w \in Workers, register_with_coordinator(w)
      PROVE  DiscoveryTypeOK'
  BY <1>1, <1>5 DEF register_with_coordinator, RegisterWorker, RegisterResponse, TakeOver
<1>6. ASSUME NEW w \in Workers, FailQuery(w)
      PROVE  DiscoveryTypeOK'
  BY <1>1, <1>2, <1>6 DEF FailQuery
<1>7. ASSUME NEW w \in Workers, LoseQuery(w)
      PROVE  DiscoveryTypeOK'
  BY <1>1, <1>2, <1>3, <1>7 DEF LoseQuery, RegisterWorker
<1>8. ASSUME StopCoordinator PROVE DiscoveryTypeOK'
  BY <1>1, <1>3, <1>8 DEF StopCoordinator
<1>9. ASSUME StartCoordinator PROVE DiscoveryTypeOK'
  BY <1>1, <1>9 DEF StartCoordinator
<1>10. DiscoveryTypeOK'
  BY <1>4, <1>5, <1>6, <1>7, <1>8, <1>9 DEF DiscoveryNext, Initialize
<1>. QED  BY <1>10 DEF ScalingTypeOK, Elsewhere, serverVars, trainVars, scriptVars, argumentVars, Iterations

LEMMA TrainType ==
  ASSUME ScalingTypeOK, NEW w \in Workers, Train(w)
  PROVE  ScalingTypeOK'
<1>. iterations \in Nat \ {0} /\ max_retries \in Nat \ {0}
  BY ScalingAssumption
<1>1. TrainTypeOK
  BY TypeParts
<1> USE DEF TrainTypeOK
<1>2. iteration[w] \in Iterations /\ Training(w)
  <2>1. Training(w)
    BY DEF Train, Pull, Push, PushFails, Poll
  <2>2. iteration[w] \in 0..iterations /\ iteration[w] < iterations
    BY <1>1, <2>1 DEF Training
  <2>. QED  BY <2>1, <2>2 DEF Iterations
<1>3. ASSUME NEW done, Return(w, done) PROVE TrainTypeOK'
  <2>1. iteration[w] \in Nat /\ iteration[w] + 1 \in 0..iterations
    BY <1>2 DEF Iterations
  <2>2. iteration' \in [Workers -> 0..iterations]
    BY <1>1, <1>3, <2>1 DEF Return
  <2>3. retry_count' \in [Workers -> 0..(max_retries - 1)] /\ stage' \in [Workers -> {"pull", "push", "poll"}]
    BY <1>1, <1>3 DEF Return
  <2>4. completed' \in [Workers -> SUBSET Iterations]
    BY <1>1, <1>2, <1>3 DEF Return
  <2>. QED  BY <2>2, <2>3, <2>4
<1>4. ASSUME NEW s \in {"push", "poll"}, GoOn(w, s) PROVE TrainTypeOK'
  BY <1>1, <1>4 DEF GoOn
<1>5. ASSUME Retry(w), ~LastAttempt(w) PROVE TrainTypeOK'
  <2>1. retry_count[w] + 1 \in 0..(max_retries - 1)
    BY <1>1, <1>5 DEF LastAttempt
  <2>. QED  BY <1>1, <1>5, <2>1 DEF Retry
<1>6. ASSUME NEW complete, OnPush(w, complete) PROVE TrainTypeOK'
  BY <1>3, <1>4, <1>5, <1>6 DEF OnPush
<1> HIDE DEF TrainTypeOK
<1>7. ASSUME TrainTypeOK', UNCHANGED <<discoveryVars, scriptVars, server_up, total_workers_>>,
             received' \in [Iterations -> SUBSET Workers], updates' \in [Iterations -> SUBSET Workers]
      PROVE  ScalingTypeOK'
  <2>1. DiscoveryTypeOK' /\ ScriptTypeOK'
    BY <1>7, TypeParts, TypeUnchanged
  <2>. QED  BY <1>7, <2>1
            DEF ScalingTypeOK, DiscoveryTypeOK, ServerTypeOK, TrainTypeOK, ScriptTypeOK
<1>8. received \in [Iterations -> SUBSET Workers] /\ updates \in [Iterations -> SUBSET Workers]
  BY DEF ScalingTypeOK
<1>9. CASE Pull(w)
  <2>1. TrainTypeOK'
    BY <1>4, <1>5, <1>9 DEF Pull
  <2>. QED  BY <1>7, <1>8, <1>9, <2>1 DEF Pull, serverVars
<1>10. CASE Push(w)
  <2>1. TrainTypeOK'
    BY <1>6, <1>10 DEF Push
  <2>2. /\ received' \in [Iterations -> SUBSET Workers]
        /\ updates' \in [Iterations -> SUBSET Workers]
    <3>1. CASE UNCHANGED <<received, updates>>
      BY <1>8, <3>1
    <3>2. CASE ~UNCHANGED <<received, updates>>
      <4> DEFINE senders == received[iteration[w]] \cup {w}
      <4>1. senders \in SUBSET Workers
        BY <1>2, <1>8
      <4>2. /\ received' = [received EXCEPT ![iteration[w]] = senders]
            /\ updates' = [updates EXCEPT ![iteration[w]] = IF Full(senders) THEN senders ELSE {}]
        BY <1>10, <3>2 DEF Push
      <4>3. (IF Full(senders) THEN senders ELSE {}) \in SUBSET Workers
        BY <4>1
      <4>. HIDE DEF senders
      <4>. QED  BY <1>8, <4>1, <4>2, <4>3
    <3>. QED  BY <3>1, <3>2
  <2>. QED  BY <1>7, <1>10, <2>1, <2>2 DEF Push
<1>11. CASE PushFails(w)
  <2>1. TrainTypeOK'
    BY <1>6, <1>11 DEF PushFails
  <2>. QED  BY <1>7, <1>8, <1>11, <2>1 DEF PushFails, serverVars
<1>12. CASE Poll(w)
  <2>1. TrainTypeOK'
    BY <1>3, <1>12 DEF Poll
  <2>. QED  BY <1>7, <1>8, <1>12, <2>1 DEF Poll, serverVars
<1>. QED  BY <1>9, <1>10, <1>11, <1>12 DEF Train

\* The numbers the script works with, as the arithmetic needs them.
LEMMA Counts ==
  ASSUME ScriptTypeOK
  PROVE  /\ worker_count \in Nat /\ worker_count <= Cardinality(Workers)
         /\ stopping \in Nat /\ stopping <= Cardinality(Workers)
         /\ CURRENT_COUNT \in Nat /\ CURRENT_COUNT <= Cardinality(Workers)
         /\ NEW_COUNT \in Nat /\ NEW_COUNT <= Cardinality(Workers)
<1>1. /\ worker_count \in 1..Cardinality(Workers)
      /\ stopping \in 0..Cardinality(Workers)
      /\ CURRENT_COUNT \in 1..Cardinality(Workers)
      /\ NEW_COUNT \in 1..Cardinality(Workers)
  BY DEF ScriptTypeOK
<1>. QED  BY <1>1, CountType

LEMMA ScriptType ==
  ASSUME ScalingTypeOK,
         (\E n \in 1..Cardinality(Workers) : ScaleUp(n) \/ ScaleDown(n)) \/ ScriptStep \/ FailScript
  PROVE  ScalingTypeOK'
<1>1. DiscoveryTypeOK /\ ServerTypeOK /\ TrainTypeOK /\ ScriptTypeOK
  BY TypeParts
<1>2. /\ faults \in 0..MaxFaults
      /\ phase \in [Workers -> Initializing \cup {"down", "running", "failed"}]
  BY <1>1 DEF DiscoveryTypeOK
<1>3. ASSUME DiscoveryTypeOK', ServerTypeOK', TrainTypeOK', ScriptTypeOK' PROVE ScalingTypeOK'
  BY <1>3, TypePrimed
<1>4. ASSUME NEW n \in 1..Cardinality(Workers), ScaleUp(n) PROVE ScalingTypeOK'
  <2>1. ScriptTypeOK'
    BY <1>1, <1>4 DEF ScaleUp, ScriptTypeOK, argumentVars
  <2>. QED  BY <1>1, <1>3, <1>4, <2>1, TypeUnchanged DEF ScaleUp
<1>5. ASSUME NEW n \in 1..Cardinality(Workers), ScaleDown(n) PROVE ScalingTypeOK'
  <2>1. ScriptTypeOK'
    <3>1. stopping' = n /\ n \in 0..Cardinality(Workers)
      BY <1>5, CountType DEF ScaleDown
    <3>2. scalings' \in 0..MaxScalings
      <4>1. scalings \in 0..MaxScalings /\ scalings < MaxScalings /\ scalings' = scalings + 1
        BY <1>1, <1>5 DEF ScaleDown, ScriptTypeOK
      <4>. QED  BY <4>1, Bounds
    <3>. QED  BY <1>1, <1>5, <3>1, <3>2 DEF ScaleDown, ScriptTypeOK
  <2>. QED  BY <1>1, <1>3, <1>5, <2>1, TypeUnchanged DEF ScaleDown
<1>6. ASSUME UNCHANGED <<coordinatorVars, attempt, ps_address_>>,
             faults' \in 0..MaxFaults,
             phase' \in [Workers -> Initializing \cup {"down", "running", "failed"}]
      PROVE  DiscoveryTypeOK'
  BY <1>1, <1>6 DEF DiscoveryTypeOK, coordinatorVars
<1>8. CASE StopOldWorker
  <2>1. DiscoveryTypeOK'
    <3>1. phase' \in [Workers -> Initializing \cup {"down", "running", "failed"}]
      BY <1>2, <1>8 DEF StopOldWorker, Down
    <3>2. faults' \in 0..MaxFaults
      BY <1>2, <1>8, FaultType DEF StopOldWorker
    <3>. QED  BY <1>6, <1>8, <3>1, <3>2 DEF StopOldWorker
  <2>2. ScriptTypeOK'
    <3>1. (stopping < CURRENT_COUNT /\ stopping' = stopping + 1) \/ stopping' = stopping
      BY <1>8 DEF StopOldWorker
    <3>2. stopping' \in 0..Cardinality(Workers)
      <4>1. stopping \in 0..Cardinality(Workers) /\ CURRENT_COUNT \in 1..Cardinality(Workers)
        BY <1>1 DEF ScriptTypeOK
      <4>. QED  BY <3>1, <4>1, Bounds
    <3>. QED  BY <1>1, <1>8, <3>2 DEF StopOldWorker, AfterStopping, ScriptTypeOK, argumentVars
  <2>. QED  BY <1>1, <1>3, <1>8, <2>1, <2>2, TypeUnchanged DEF StopOldWorker
<1>9. CASE Apply
  <2>1. DiscoveryTypeOK'
    BY <1>2, <1>6, <1>9 DEF Apply, Down
  <2>2. ScriptTypeOK'
    BY <1>1, <1>9 DEF Apply, ScriptTypeOK, argumentVars
  <2>. QED  BY <1>1, <1>3, <1>9, <2>1, <2>2, TypeUnchanged DEF Apply
<1>10. CASE KillServer
  <2>1. ServerTypeOK' /\ TrainTypeOK' /\ ScriptTypeOK'
    BY <1>1, <1>10 DEF KillServer, EmptyServer, ServerTypeOK, TrainTypeOK, ScriptTypeOK, argumentVars
  <2>. QED  BY <1>1, <1>3, <1>10, <2>1, TypeUnchanged DEF KillServer
<1>11. CASE StartServer
  <2>1. ServerTypeOK' /\ ScriptTypeOK'
    BY <1>1, <1>11 DEF StartServer, Start, ServerCount, ServerTypeOK, ScriptTypeOK, argumentVars
  <2>. QED  BY <1>1, <1>3, <1>11, <2>1, TypeUnchanged DEF StartServer
<1>12. CASE FailScript
  <2>1. DiscoveryTypeOK'
    <3>1. phase' \in [Workers -> Initializing \cup {"down", "running", "failed"}]
      BY <1>2, <1>12 DEF FailScript, Down
    <3>. QED  BY <1>2, <1>6, <1>12, <3>1, FaultType DEF FailScript
  <2>2. ServerTypeOK' /\ ScriptTypeOK'
    BY <1>1, <1>12 DEF FailScript, Start, ServerCount, ServerTypeOK, ScriptTypeOK, argumentVars
  <2>. QED  BY <1>1, <1>3, <1>12, <2>1, <2>2, TypeUnchanged DEF FailScript
<1>. QED  BY <1>4, <1>5, <1>8, <1>9, <1>10, <1>11, <1>12 DEF ScriptStep

-----------------------------------------------------------------------------
(* The server has what its workers sent *)

LEMMA Initially == ScalingInit => IInv
<1> SUFFICES ASSUME NEW n \in 1..Cardinality(Workers), Deployed(n) PROVE IInv
  BY DEF ScalingInit
<1>1. ScalingTypeOK
  BY TypeInit DEF ScalingInit
<1>2. AliveInv
  BY DEF Deployed, DiscoveryInit, AliveInv, First
<1>3. LossInv /\ ScopeInv /\ DoneMeansContributed
  BY DEF Deployed, LossInv, ScopeInv, DoneMeansContributed
<1>. QED  BY <1>1, <1>2, <1>3 DEF IInv

\* Initializing does not touch the server, and starts no process.
LEMMA DiscoveryKeeps ==
  ASSUME IInv, DiscoveryNext, Elsewhere
  PROVE  IInv'
<1> USE DEF Proceed, coordinatorVars, initializeVars, Initializing
<1>1. ScalingTypeOK'
  BY DiscoveryType DEF IInv
<1>2. phase \in [Workers -> Initializing \cup {"down", "running", "failed"}]
  BY DEF IInv, ScalingTypeOK, DiscoveryTypeOK
<1>3. \A v \in Workers : phase'[v] # "down" => phase[v] # "down"
  <2>1. CASE StopCoordinator \/ StartCoordinator
    BY <2>1 DEF StopCoordinator, StartCoordinator
  <2>2. ASSUME NEW w \in Workers, FailQuery(w) \/ LoseQuery(w)
        PROVE  \A v \in Workers : phase'[v] # "down" => phase[v] # "down"
    BY <1>2, <2>2 DEF FailQuery, LoseQuery, TryAgain
  <2>3. ASSUME NEW w \in Workers, discover_parameter_server(w) \/ register_with_coordinator(w)
        PROVE  \A v \in Workers : phase'[v] # "down" => phase[v] # "down"
    BY <1>2, <2>3 DEF discover_parameter_server, register_with_coordinator
  <2>. QED  BY <2>1, <2>2, <2>3 DEF DiscoveryNext, Initialize
<1>4. UNCHANGED <<serverVars, trainVars, scriptVars>>
  BY DEF Elsewhere
<1>5. AliveInv'
  BY <1>3, <1>4 DEF IInv, AliveInv, serverVars, scriptVars, argumentVars
<1>6. LossInv' /\ ScopeInv' /\ DoneMeansContributed'
  BY <1>4 DEF IInv, LossInv, ScopeInv, DoneMeansContributed, serverVars, trainVars,
              scriptVars, First
<1>. QED  BY <1>1, <1>5, <1>6 DEF IInv

\* What completed becomes when run_iteration goes on in one way or another.
LEMMA CompletedStep ==
  ASSUME ScalingTypeOK, NEW w \in Workers, NEW complete \in BOOLEAN, OnPush(w, complete)
  PROVE  \A v \in Workers : \A i \in completed'[v] :
           i \in completed[v] \/ (complete /\ v = w /\ i = iteration[w])
<1>1. completed \in [Workers -> SUBSET Iterations]
  BY DEF ScalingTypeOK
<1>2. \/ completed' = completed
      \/ complete /\ completed' = [completed EXCEPT ![w] = @ \cup {iteration[w]}]
  BY <1>1 DEF OnPush, Return, Retry, GoOn
<1>. QED  BY <1>1, <1>2

\* A push adds its sender to the iteration it is in, and completes it at most
\* when total_workers_ senders are in.
LEMMA PushKeeps ==
  ASSUME IInv, NEW w \in Workers, Push(w)
  PROVE  LossInv' /\ ScopeInv' /\ DoneMeansContributed'
<1> DEFINE i == iteration[w]
           senders == received[i] \cup {w}
<1>1. /\ Training(w) /\ server_up
      /\ UNCHANGED <<server_up, total_workers_, script>>
  BY DEF Push, scriptVars
<1>2. i \in Iterations
  <2>1. i \in 0..iterations /\ i < iterations /\ iterations \in Nat
    BY <1>1, ScalingAssumption DEF IInv, ScalingTypeOK, Training
  <2>. QED  BY <2>1 DEF Iterations
<1>3. /\ received \in [Iterations -> SUBSET Workers]
      /\ updates \in [Iterations -> SUBSET Workers]
      /\ total_workers_ \in 1..Cardinality(Workers)
  BY DEF IInv, ScalingTypeOK
<1>4. LossInv'
  BY <1>1 DEF IInv, LossInv
<1>5. CASE script # "idle"
  BY <1>1, <1>4, <1>5 DEF ScopeInv, DoneMeansContributed
<1>6. CASE script = "idle"
  <2>1. w \in First(total_workers_) /\ senders \in SUBSET First(total_workers_)
    <3>1. w < total_workers_
      BY <1>1, <1>6 DEF IInv, AliveInv, Training
    <3>. QED  BY <1>2, <1>6, <3>1 DEF IInv, ScopeInv, First
  <2>2. CASE Aggregated(i)
    <3>1. /\ OnPush(w, TRUE) \/ OnPush(w, FALSE)
          /\ UNCHANGED <<received, updates>>
      BY <2>2 DEF Push
    <3>2. w \in updates[i]
      BY <1>2, <1>6, <2>1, <2>2 DEF IInv, ScopeInv, Aggregated
    <3>3. DoneMeansContributed'
      BY <1>1, <1>6, <3>1, <3>2, CompletedStep DEF IInv, DoneMeansContributed
    <3>. QED  BY <1>1, <1>4, <3>1, <3>3 DEF IInv, ScopeInv, First
  <2>3. CASE ~Aggregated(i)
    <3>1. /\ OnPush(w, Full(senders)) \/ OnPush(w, FALSE)
          /\ received' = [received EXCEPT ![i] = senders]
          /\ updates' = [updates EXCEPT ![i] = IF Full(senders) THEN senders ELSE {}]
      BY <2>3 DEF Push
    <3>2. Full(senders) => senders = First(total_workers_)
      BY <1>3, <2>1, FullMeansAll DEF Full
    <3> HIDE DEF i, senders
    <3>3. /\ \A j \in Iterations : j # i => received'[j] = received[j] /\ updates'[j] = updates[j]
          /\ received'[i] = senders
          /\ updates'[i] = IF Full(senders) THEN senders ELSE {}
      BY <1>2, <1>3, <3>1
    <3>4. ScopeInv'
      BY <1>1, <1>6, <2>1, <3>2, <3>3 DEF IInv, ScopeInv, First
    <3>5. DoneMeansContributed'
      <4> SUFFICES ASSUME NEW v \in Workers, NEW j \in completed'[v] PROVE v \in updates'[j]
        BY <1>1 DEF DoneMeansContributed
      <4>1. j \in completed[v] \/ (Full(senders) /\ v = w /\ j = i)
        <5>1. Full(senders) \in BOOLEAN
          BY DEF Full
        <5>. QED  BY <3>1, <5>1, CompletedStep DEF IInv, i
      <4>2. CASE j \in completed[v]
        <5>1. v \in updates[j] /\ j \in Iterations
          BY <1>6, <4>2 DEF IInv, DoneMeansContributed, ScalingTypeOK
        <5>2. j # i
          BY <2>3, <5>1 DEF Aggregated
        <5>. QED  BY <3>3, <5>1, <5>2
      <4>3. CASE Full(senders) /\ v = w /\ j = i
        BY <2>1, <3>2, <3>3, <4>3
      <4>. QED  BY <4>1, <4>2, <4>3
    <3>. QED  BY <1>4, <3>4, <3>5
  <2>. QED  BY <2>2, <2>3
<1>. QED  BY <1>5, <1>6

LEMMA TrainKeeps ==
  ASSUME IInv, NEW w \in Workers, Train(w)
  PROVE  IInv'
<1>1. ScalingTypeOK'
  BY TrainType DEF IInv
<1>2. UNCHANGED <<discoveryVars, scriptVars, server_up, total_workers_>>
  BY DEF Train, Pull, Push, PushFails, Poll, serverVars
<1>3. AliveInv'
  BY <1>2 DEF IInv, AliveInv, discoveryVars, initializeVars, scriptVars, argumentVars
<1>4. LossInv' /\ ScopeInv' /\ DoneMeansContributed'
  <2>1. CASE Push(w)
    BY <2>1, PushKeeps
  <2>2. ASSUME UNCHANGED serverVars,
               \A v \in Workers : \A j \in completed'[v] :
                 j \in completed[v] \/ (server_up /\ Aggregated(iteration[w]) /\ v = w /\ j = iteration[w]),
               Training(w)
        PROVE  LossInv' /\ ScopeInv' /\ DoneMeansContributed'
    <3>1. UNCHANGED <<received, updates, server_up, total_workers_, script>>
      BY <1>2, <2>2 DEF serverVars, scriptVars
    <3>2. LossInv'
      BY <2>2, <3>1 DEF IInv, LossInv
    <3>3. ScopeInv'
      BY <3>1 DEF IInv, ScopeInv, First
    <3>4. DoneMeansContributed'
      <4> SUFFICES ASSUME script = "idle", NEW v \in Workers, NEW j \in completed'[v]
                   PROVE  v \in updates[j]
        BY <3>1 DEF DoneMeansContributed
      <4>0. script = "idle"
        OBVIOUS
      <4>1. CASE j \in completed[v]
        BY <4>1 DEF IInv, DoneMeansContributed
      <4>2. CASE Aggregated(iteration[w]) /\ v = w /\ j = iteration[w]
        <5>1. w < total_workers_
          BY <2>2, <4>0 DEF IInv, AliveInv, Training
        <5>2. j \in Iterations
          BY <1>1 DEF ScalingTypeOK
        <5>. QED  BY <4>2, <5>1, <5>2 DEF IInv, ScopeInv, Aggregated, First
      <4>. QED  BY <2>2, <4>1, <4>2
    <3>. QED  BY <3>2, <3>3, <3>4
  <2>3. CASE Pull(w)
    BY <2>2, <2>3 DEF Pull, GoOn, Retry
  <2>4. CASE PushFails(w)
    <3>1. \A v \in Workers : \A j \in completed'[v] : j \in completed[v]
      BY <2>4, CompletedStep DEF PushFails, IInv
    <3>. QED  BY <2>2, <2>4, <3>1 DEF PushFails
  <2>5. CASE Poll(w)
    <3>1. completed \in [Workers -> SUBSET Iterations]
      BY DEF IInv, ScalingTypeOK
    <3>. QED  BY <2>2, <2>5, <3>1 DEF Poll, Return
  <2>. QED  BY <2>1, <2>3, <2>4, <2>5 DEF Train
<1>. QED  BY <1>1, <1>3, <1>4 DEF IInv

LEMMA ScriptKeeps ==
  ASSUME IInv,
         (\E n \in 1..Cardinality(Workers) : ScaleUp(n) \/ ScaleDown(n)) \/ ScriptStep \/ FailScript
  PROVE  IInv'
<1> USE DEF discoveryVars, initializeVars, serverVars, trainVars, argumentVars
<1>1. ScalingTypeOK'
  BY ScriptType DEF IInv
<1>3. ASSUME NEW n \in 1..Cardinality(Workers), ScaleUp(n) PROVE IInv'
  <2>1. UNCHANGED <<phase, script, NEW_COUNT, total_workers_, server_up, received, updates, completed>>
    BY <1>3 DEF ScaleUp
  <2>. QED
    BY <1>1, <2>1 DEF IInv, AliveInv, LossInv, ScopeInv, DoneMeansContributed, First
<1>4. ASSUME NEW n \in 1..Cardinality(Workers), ScaleDown(n) PROVE IInv'
  <2>1. /\ script' = "stop_workers"
        /\ UNCHANGED <<discoveryVars, serverVars, trainVars>>
    BY <1>4 DEF ScaleDown
  <2>2. AliveInv' /\ LossInv'
    BY <2>1 DEF IInv, AliveInv, LossInv
  <2>. QED  BY <1>1, <2>1, <2>2 DEF IInv, ScopeInv, DoneMeansContributed
<1>5. CASE StopOldWorker
  <2>1. /\ script' \in {"stop_workers", "apply"}
        /\ UNCHANGED <<serverVars, trainVars>>
    BY <1>5 DEF StopOldWorker, AfterStopping
  <2>. QED  BY <1>1, <2>1 DEF IInv, AliveInv, LossInv, ScopeInv, DoneMeansContributed
<1>6. CASE Apply
  <2>1. /\ script' = "kill_server"
        /\ UNCHANGED <<serverVars, trainVars, NEW_COUNT>>
    BY <1>6 DEF Apply
  <2>2. AliveInv'
    BY <1>6, <2>1 DEF Apply, Down, Removed, First, AliveInv
  <2>. QED  BY <1>1, <2>1, <2>2 DEF IInv, LossInv, ScopeInv, DoneMeansContributed
<1>7. CASE KillServer
  BY <1>1, <1>7 DEF KillServer, EmptyServer, IInv, AliveInv, LossInv, ScopeInv, DoneMeansContributed
<1>8. CASE StartServer
  BY <1>1, <1>8
     DEF StartServer, Start, ServerCount, IInv, AliveInv, LossInv, ScopeInv, DoneMeansContributed
<1>9. CASE FailScript
  <2>1. script' = "failed" /\ UNCHANGED <<received, updates, trainVars>>
    BY <1>9 DEF FailScript
  <2>2. ~server_up' => ~server_up
    BY <1>9 DEF FailScript, Start
  <2>. QED  BY <1>1, <2>1, <2>2 DEF IInv, AliveInv, LossInv, ScopeInv, DoneMeansContributed
<1>. QED  BY <1>3, <1>4, <1>5, <1>6, <1>7, <1>8, <1>9 DEF ScriptStep

LEMMA Inductive == IInv /\ [ScalingNext]_scalingVars => IInv'
<1> SUFFICES ASSUME IInv, [ScalingNext]_scalingVars PROVE IInv'
  OBVIOUS
<1>1. CASE UNCHANGED scalingVars
  BY <1>1 DEF scalingVars, discoveryVars, coordinatorVars, initializeVars, serverVars, trainVars,
              scriptVars, argumentVars, IInv, ScalingTypeOK, DiscoveryTypeOK, Iterations, AliveInv, LossInv, ScopeInv, DoneMeansContributed, First
<1>. QED  BY <1>1, DiscoveryKeeps, TrainKeeps, ScriptKeeps DEF ScalingNext

-----------------------------------------------------------------------------
\* The parts of the invariant hold in every reachable state of the workers,
\* the server and scale_workers.sh.
THEOREM Invariant == ScalingSpec => []IInv
BY Initially, Inductive, PTL DEF ScalingSpec

\* Every variable keeps its type, for any number of workers, runs of the script
\* and faults: the script is never at a worker beyond those there can be, the
\* server is never started with a number of workers the script cannot have been
\* asked for.
THEOREM ScalingTypeCorrect == ScalingSpec => []ScalingTypeOK
BY Invariant, PTL DEF IInv

\* A server that scale_workers.sh left running has no gradients of a worker
\* that was removed: terraform destroys what the script failed to stop before
\* the server is started again.
THEOREM RemovedWorkersStayOut == ScalingSpec => []RemovedStayOut
<1>1. IInv => RemovedStayOut
  BY DEF IInv, ScopeInv, RemovedStayOut
<1>. QED  BY <1>1, Invariant, PTL

\* As long as the script is not at work and has not failed, a worker that was
\* told its iteration is complete has its gradients in the update, whatever the
\* scalings before.
THEOREM CompletedMeansContributed == ScalingSpec => []DoneMeansContributed
BY Invariant, PTL DEF IInv

-----------------------------------------------------------------------------
(* Calls run out *)

\* A process that initializes has all of its run before it.
FreshInv ==
  \A w \in Workers : phase[w] \in Initializing =>
    iteration[w] = 0 /\ retry_count[w] = 0 /\ stage[w] = "pull"

\* The script does nothing to a process but end it.
LEMMA ScriptProcesses ==
  ASSUME (\E n \in 1..Cardinality(Workers) : ScaleUp(n) \/ ScaleDown(n)) \/ ScriptStep \/ FailScript
  PROVE  /\ UNCHANGED <<attempt, iteration, retry_count, stage>>
         /\ \A w \in Workers : phase'[w] \in {phase[w], "down"}
<1>1. CASE StopOldWorker \/ Apply \/ FailScript
  BY <1>1 DEF StopOldWorker, Apply, FailScript, Down, trainVars
<1>2. CASE KillServer \/ StartServer
  BY <1>2 DEF KillServer, StartServer, discoveryVars, initializeVars, trainVars
<1>3. CASE \E n \in 1..Cardinality(Workers) : ScaleUp(n) \/ ScaleDown(n)
  BY <1>3 DEF ScaleUp, ScaleDown, discoveryVars, initializeVars, trainVars
<1>. QED  BY <1>1, <1>2, <1>3 DEF ScriptStep

\* Initializing goes from one phase to the next and starts nothing.
LEMMA InitializingMoves ==
  ASSUME ScalingTypeOK, DiscoveryNext
  PROVE  \/ UNCHANGED <<phase, attempt>>
         \/ \E w \in Workers :
              /\ phase[w] \in Initializing
              /\ \/ attempt[w] + 1 < max_attempts /\ phase' = phase
                      /\ attempt' = [attempt EXCEPT ![w] = @ + 1]
                 \/ \E p \in {"register", "running", "failed"} :
                      /\ p # phase[w]
                      /\ p = "running" => phase[w] = "register"
                      /\ phase' = [phase EXCEPT ![w] = p]
                      /\ attempt' = [attempt EXCEPT ![w] = 0]
<1>1. ASSUME NEW w \in Workers, Initialize(w) \/ LoseQuery(w)
      PROVE  /\ phase[w] \in Initializing
             /\ \/ attempt[w] + 1 < max_attempts /\ phase' = phase
                      /\ attempt' = [attempt EXCEPT ![w] = @ + 1]
                \/ \E p \in {"register", "running", "failed"} :
                      /\ p # phase[w]
                      /\ p = "running" => phase[w] = "register"
                      /\ phase' = [phase EXCEPT ![w] = p]
                      /\ attempt' = [attempt EXCEPT ![w] = 0]
  <2>1. CASE discover_parameter_server(w)
    BY <2>1 DEF discover_parameter_server, Proceed, Initializing
  <2>2. CASE register_with_coordinator(w)
    BY <2>2 DEF register_with_coordinator, Proceed, Initializing
  <2>3. CASE phase[w] \in Initializing /\ TryAgain(w)
    BY <2>3 DEF TryAgain, Proceed, Initializing
  <2>. QED  BY <1>1, <2>1, <2>2, <2>3 DEF Initialize, FailQuery, LoseQuery
<1>2. CASE StopCoordinator \/ StartCoordinator
  BY <1>2 DEF StopCoordinator, StartCoordinator, initializeVars
<1>. QED  BY <1>1, <1>2 DEF DiscoveryNext

\* Nothing that a worker does before it is initialized, and nothing that is
\* done to it, takes it away from the start of its run.
LEMMA FreshStep ==
  ASSUME ScalingTypeOK, FreshInv, [ScalingNext]_scalingVars
  PROVE  FreshInv'
<1>1. /\ phase \in [Workers -> Initializing \cup {"down", "running", "failed"}]
      /\ iteration \in [Workers -> 0..iterations]
      /\ retry_count \in [Workers -> 0..(max_retries - 1)]
      /\ stage \in [Workers -> {"pull", "push", "poll"}]
  BY TypeParts DEF DiscoveryTypeOK, TrainTypeOK
<1>2. CASE UNCHANGED scalingVars
  BY <1>2 DEF FreshInv, scalingVars, discoveryVars, initializeVars, trainVars
<1>3. CASE DiscoveryNext /\ Elsewhere
  <2>1. UNCHANGED <<iteration, retry_count, stage>>
    BY <1>3 DEF Elsewhere, trainVars
  <2>2. \A w \in Workers : phase'[w] \in Initializing => phase[w] \in Initializing
    BY <1>1, <1>3, InitializingMoves DEF Initializing
  <2>. QED  BY <2>1, <2>2 DEF FreshInv
<1>4. ASSUME NEW w \in Workers, Train(w) PROVE FreshInv'
  <2>1. UNCHANGED phase /\ phase[w] = "running"
    BY <1>4 DEF Train, Pull, Push, PushFails, Poll, Training, discoveryVars, initializeVars
  <2>2. \A v \in Workers \ {w} :
          iteration'[v] = iteration[v] /\ retry_count'[v] = retry_count[v] /\ stage'[v] = stage[v]
    BY <1>1, <1>4 DEF Train, Pull, Push, PushFails, Poll, OnPush, Return, GoOn, Retry
  <2>. QED  BY <2>1, <2>2 DEF FreshInv, Initializing
<1>5. CASE (\E n \in 1..Cardinality(Workers) : ScaleUp(n) \/ ScaleDown(n)) \/ ScriptStep \/ FailScript
  BY <1>5, ScriptProcesses DEF FreshInv, Initializing
<1>. QED  BY <1>2, <1>3, <1>4, <1>5 DEF ScalingNext

LEMMA FreshAlways == ScalingSpec => []FreshInv
<1>1. ScalingInit => FreshInv
  BY DEF ScalingInit, Deployed, DiscoveryInit, FreshInv, Initializing
<1>. QED  BY <1>1, FreshStep, ScalingTypeCorrect, PTL DEF ScalingSpec

Closer(w) == Left(w)' \in 0..(Left(w) - 1)

\* A worker that is through has no iteration before it, and any one is worth
\* max_retries attempts of three calls.
LEMMA FromFacts ==
  /\ \A n \in 0..iterations : From(n) \in Nat
  /\ \A n \in 0..iterations : n < iterations => From(n) = From(n + 1) + 3 * max_retries
<1> DEFINE m == 3 * max_retries
<1>1. m \in Nat
  BY Bounds
<1>2. \A k \in Nat : k * m \in Nat /\ (k + 1) * m = k * m + m
  BY <1>1
<1>3. \A n \in 0..iterations : iterations - n \in Nat /\ From(n) = (iterations - n) * m
  <2> TAKE n \in 0..iterations
  <2>1. iterations - n \in Nat
    BY Bounds
  <2>2. \A k, l \in Nat : k * 3 * l = k * (3 * l)
    OBVIOUS
  <2>. QED  BY <2>1, <2>2, Bounds DEF From
<1>4. ASSUME NEW n \in 0..iterations, n < iterations
      PROVE  From(n) = From(n + 1) + m
  <2> DEFINE k == iterations - (n + 1)
  <2>1. k \in Nat /\ k + 1 = iterations - n /\ n + 1 \in 0..iterations
    BY <1>4, Bounds
  <2>2. From(n) = (k + 1) * m /\ From(n + 1) = k * m
    BY <1>3, <2>1
  <2> HIDE DEF k, m
  <2>. QED  BY <1>2, <2>1, <2>2
<1> HIDE DEF m
<1>5. \A n \in 0..iterations : From(n) \in Nat
  BY <1>2, <1>3
<1>. QED  BY <1>4, <1>5 DEF m

\* What is left for a worker that trains.
LEMMA LeftTraining ==
  ASSUME ScalingTypeOK, NEW w \in Workers, Training(w)
  PROVE  /\ iteration[w] \in 0..iterations /\ iteration[w] < iterations
         /\ From(iteration[w] + 1) \in Nat
         /\ max_retries - 1 - retry_count[w] \in Nat
         /\ Pending[stage[w]] \in 1..3
         /\ Left(w) = From(iteration[w] + 1) + 3 * (max_retries - 1 - retry_count[w])
                      + Pending[stage[w]]
<1>1. /\ iteration[w] \in 0..iterations /\ iteration[w] < iterations
      /\ retry_count[w] \in 0..(max_retries - 1)
      /\ stage[w] \in {"pull", "push", "poll"}
  BY TypeParts DEF TrainTypeOK, Training
<1>2. max_retries - 1 - retry_count[w] \in Nat /\ iteration[w] + 1 \in 0..iterations
  BY <1>1, Bounds
<1>3. Pending[stage[w]] \in 1..3
  BY <1>1 DEF Pending
<1>4. Left(w) = From(iteration[w] + 1) + 3 * (max_retries - 1 - retry_count[w]) + Pending[stage[w]]
  BY DEF Left, Training
<1>. QED  BY <1>1, <1>2, <1>3, <1>4, FromFacts

\* A query that was answered, or failed, leaves less to do.
LEMMA QueryIsCloser ==
  ASSUME ScalingTypeOK, NEW w \in Workers, phase[w] \in Initializing,
         iteration[w] = 0, retry_count[w] = 0, stage[w] = "pull",
         UNCHANGED trainVars,
         \/ attempt[w] + 1 < max_attempts /\ phase' = phase
              /\ attempt' = [attempt EXCEPT ![w] = @ + 1]
         \/ \E p \in {"register", "running", "failed"} :
              /\ p # phase[w]
              /\ p = "running" => phase[w] = "register"
              /\ phase' = [phase EXCEPT ![w] = p]
              /\ attempt' = [attempt EXCEPT ![w] = 0]
  PROVE  Closer(w)
<1> DEFINE whole == From(0)
           a == attempt[w]
<1>1. /\ attempt \in [Workers -> 0..(max_attempts - 1)]
      /\ phase \in [Workers -> Initializing \cup {"down", "running", "failed"}]
  BY TypeParts DEF DiscoveryTypeOK
<1>2. /\ max_attempts \in Nat \ {0} /\ a \in Nat /\ max_attempts - a \in Nat \ {0}
      /\ whole \in Nat
  <2>1. max_attempts \in Nat \ {0}
    BY DiscoveryAssumption
  <2>2. \A k \in 0..(max_attempts - 1) : k \in Nat /\ max_attempts - k \in Nat \ {0}
    BY <2>1
  <2>3. 0 \in 0..iterations
    BY Bounds
  <2>. QED  BY <1>1, <2>1, <2>2, <2>3, FromFacts
<1>3. /\ phase[w] = "discover" => Left(w) = 2 * max_attempts - a + whole
      /\ phase[w] = "register" => Left(w) = max_attempts - a + whole
      /\ phase[w] \in {"discover", "register"}
  BY DEF Left, Training, Initializing
<1>4. CASE attempt[w] + 1 < max_attempts /\ phase' = phase /\ attempt' = [attempt EXCEPT ![w] = @ + 1]
  <2>1. attempt'[w] = a + 1
    BY <1>1, <1>4
  <2>2. /\ phase[w] = "discover" => Left(w)' = 2 * max_attempts - (a + 1) + whole
        /\ phase[w] = "register" => Left(w)' = max_attempts - (a + 1) + whole
    BY <1>4, <2>1 DEF Left, Training
  <2> HIDE DEF whole, a
  <2>. QED  BY <1>2, <1>3, <1>4, <2>2 DEF Closer, a
<1>5. CASE /\ phase[w] = "discover" /\ phase'[w] = "register" /\ attempt'[w] = 0
  <2>1. Left(w)' = max_attempts - 0 + whole
    BY <1>5 DEF Left, Training
  <2> HIDE DEF whole, a
  <2>. QED  BY <1>2, <1>3, <1>5, <2>1 DEF Closer
<1>6. CASE phase[w] = "register" /\ phase'[w] = "running"
  <2>1. iteration'[w] = 0 /\ retry_count'[w] = 0 /\ stage'[w] = "pull" /\ 0 < iterations
    BY Bounds DEF trainVars
  <2>2. Left(w)' = From(0 + 1) + 3 * (max_retries - 1 - 0) + 3
    BY <1>6, <2>1 DEF Left, Training, Pending
  <2>3. whole = From(0 + 1) + 3 * max_retries /\ From(0 + 1) \in Nat
    BY <2>1, Bounds, FromFacts
  <2>4. Left(w)' = whole
    BY <2>2, <2>3, Bounds
  <2> HIDE DEF whole, a
  <2>. QED  BY <1>2, <1>3, <1>6, <2>4 DEF Closer
<1>7. CASE phase'[w] = "failed"
  <2>1. Left(w)' = 0
    BY <1>7 DEF Left, Training
  <2> HIDE DEF whole, a
  <2>. QED  BY <1>2, <1>3, <2>1 DEF Closer
<1>. QED  BY <1>1, <1>3, <1>4, <1>5, <1>6, <1>7

\* So does a call to the parameter server.
LEMMA TrainIsCloser ==
  ASSUME ScalingTypeOK, NEW w \in Workers, Train(w)
  PROVE  Closer(w)
<1> DEFINE r == From(iteration[w] + 1)
           k == max_retries - 1 - retry_count[w]
           n == iteration[w]
<1>1. /\ iteration \in [Workers -> 0..iterations]
      /\ retry_count \in [Workers -> 0..(max_retries - 1)]
      /\ stage \in [Workers -> {"pull", "push", "poll"}]
  BY TypeParts DEF TrainTypeOK
<1>2. Training(w) /\ UNCHANGED phase
  BY DEF Train, Pull, Push, PushFails, Poll, discoveryVars, initializeVars
<1>3. /\ n \in 0..iterations /\ n < iterations /\ r \in Nat /\ k \in Nat
      /\ Pending[stage[w]] \in 1..3
      /\ Left(w) = r + 3 * k + Pending[stage[w]]
  BY <1>2, LeftTraining
<1>4. ASSUME NEW done, Return(w, done) PROVE Closer(w)
  <2>1. /\ iteration'[w] = n + 1 /\ retry_count'[w] = 0 /\ stage'[w] = "pull"
    BY <1>1, <1>4 DEF Return
  <2>2. CASE n + 1 < iterations
    <3>1. Left(w)' = From(n + 1 + 1) + 3 * (max_retries - 1 - 0) + 3
      BY <1>2, <2>1, <2>2 DEF Left, Training, Pending
    <3>2. n + 1 \in 0..iterations /\ n + 1 + 1 \in 0..iterations
      BY <1>3, <2>2, Bounds
    <3>3. r = From(n + 1 + 1) + 3 * max_retries /\ From(n + 1 + 1) \in Nat
      BY <2>2, <3>2, FromFacts
    <3>4. Left(w)' = r
      BY <3>1, <3>3, Bounds
    <3> HIDE DEF r, k, n
    <3>. QED  BY <1>3, <3>4 DEF Closer
  <2>3. CASE ~(n + 1 < iterations)
    <3>1. Left(w)' = 0
      BY <1>2, <2>1, <2>3 DEF Left, Training
    <3> HIDE DEF r, k, n
    <3>. QED  BY <1>3, <3>1 DEF Closer
  <2>. QED  BY <2>2, <2>3
<1>5. ASSUME NEW s \in {"push", "poll"}, GoOn(w, s), <<stage[w], s>> \in {<<"pull", "push">>, <<"push", "poll">>}
      PROVE  Closer(w)
  <2>1. stage'[w] = s /\ UNCHANGED <<iteration, retry_count>>
    BY <1>1, <1>5 DEF GoOn
  <2>2. Left(w)' = r + 3 * k + Pending[s]
    BY <1>2, <2>1 DEF Left, Training
  <2>3. Pending[s] \in Nat /\ Pending[s] < Pending[stage[w]]
    BY <1>5 DEF Pending
  <2> HIDE DEF r, k, n
  <2>. QED  BY <1>3, <2>2, <2>3 DEF Closer
<1>6. ASSUME Retry(w), ~LastAttempt(w), stage[w] \in {"pull", "push"} PROVE Closer(w)
  <2>1. retry_count'[w] = retry_count[w] + 1 /\ stage'[w] = "pull" /\ UNCHANGED iteration
    BY <1>1, <1>6 DEF Retry
  <2>2. k # 0 /\ max_retries - 1 - (retry_count[w] + 1) = k - 1
    BY <1>1, <1>6, Bounds DEF LastAttempt
  <2>3. Left(w)' = r + 3 * (max_retries - 1 - (retry_count[w] + 1)) + 3
    BY <1>2, <2>1 DEF Left, Training, Pending
  <2>4. Pending[stage[w]] \in 2..3
    BY <1>6 DEF Pending
  <2>5. Left(w)' = r + 3 * (k - 1) + 3
    BY <2>2, <2>3
  <2> HIDE DEF r, k, n
  <2>. QED  BY <1>3, <2>2, <2>4, <2>5 DEF Closer
<1>7. ASSUME NEW complete, OnPush(w, complete), stage[w] = "push" PROVE Closer(w)
  BY <1>4, <1>5, <1>6, <1>7 DEF OnPush
<1>8. CASE Pull(w)
  BY <1>5, <1>6, <1>8 DEF Pull
<1>9. CASE Push(w) \/ PushFails(w)
  BY <1>7, <1>9 DEF Push, PushFails
<1>10. CASE Poll(w)
  BY <1>4, <1>10 DEF Poll
<1>. QED  BY <1>8, <1>9, <1>10 DEF Train

\* A step that moves a worker that is there stops it or gets it closer to its
\* end.
LEMMA Steps ==
  ASSUME ScalingTypeOK, FreshInv, [ScalingNext]_scalingVars,
         NEW w \in Workers, Progress(w)' # Progress(w), phase[w] \in Initializing \cup {"running"}
  PROVE  phase'[w] = "down" \/ Closer(w)
<1>1. /\ phase \in [Workers -> Initializing \cup {"down", "running", "failed"}]
      /\ attempt \in [Workers -> 0..(max_attempts - 1)]
      /\ iteration \in [Workers -> 0..iterations]
      /\ retry_count \in [Workers -> 0..(max_retries - 1)]
      /\ stage \in [Workers -> {"pull", "push", "poll"}]
      /\ ScalingTypeOK
  BY TypeParts DEF DiscoveryTypeOK, TrainTypeOK
<1>2. ~UNCHANGED <<phase, attempt, iteration, retry_count, stage>>
  BY DEF Progress
<1>3. CASE UNCHANGED scalingVars
  BY <1>2, <1>3 DEF scalingVars, discoveryVars, initializeVars, trainVars
<1>4. CASE DiscoveryNext /\ Elsewhere
  <2>1. UNCHANGED trainVars
    BY <1>4 DEF Elsewhere
  <2>2. PICK v \in Workers :
          /\ phase[v] \in Initializing
          /\ \/ attempt[v] + 1 < max_attempts /\ phase' = phase
                  /\ attempt' = [attempt EXCEPT ![v] = @ + 1]
             \/ \E p \in {"register", "running", "failed"} :
                  /\ p # phase[v]
                  /\ p = "running" => phase[v] = "register"
                  /\ phase' = [phase EXCEPT ![v] = p]
                  /\ attempt' = [attempt EXCEPT ![v] = 0]
    BY <1>1, <1>2, <1>4, <2>1, InitializingMoves DEF trainVars
  <2>3. v = w
    BY <1>1, <2>1, <2>2 DEF Progress, trainVars
  <2>4. iteration[w] = 0 /\ retry_count[w] = 0 /\ stage[w] = "pull"
    BY <2>2, <2>3 DEF FreshInv
  <2>. QED  BY <1>1, <2>1, <2>2, <2>3, <2>4, QueryIsCloser
<1>5. ASSUME NEW v \in Workers, Train(v)
      PROVE  Closer(w)
  <2>1. UNCHANGED <<phase, attempt>>
    BY <1>5 DEF Train, Pull, Push, PushFails, Poll, discoveryVars, initializeVars
  <2>2. \A u \in Workers \ {v} :
          iteration'[u] = iteration[u] /\ retry_count'[u] = retry_count[u] /\ stage'[u] = stage[u]
    BY <1>1, <1>5 DEF Train, Pull, Push, PushFails, Poll, OnPush, Return, GoOn, Retry
  <2>3. v = w
    BY <2>1, <2>2 DEF Progress
  <2>. QED  BY <1>1, <1>5, <2>3, TrainIsCloser
<1>6. CASE (\E n \in 1..Cardinality(Workers) : ScaleUp(n) \/ ScaleDown(n)) \/ ScriptStep \/ FailScript
  <2>1. /\ UNCHANGED <<attempt, iteration, retry_count, stage>>
        /\ phase'[w] \in {phase[w], "down"}
    BY <1>6, ScriptProcesses
  <2>. QED  BY <2>1 DEF Progress
<1>. QED  BY <1>3, <1>4, <1>5, <1>6 DEF ScalingNext

\* Whatever calls are lost or refused, whichever processes stop around it and
\* however often the script is run, a worker gets closer to its end with every
\* step of initialize and run_iteration.  (That its calls return, so that it
\* takes its steps, is no part of this.)
THEOREM StepsRunOut == ScalingSpec => CallsRunOut
<1>1. ASSUME ScalingTypeOK, FreshInv, [ScalingNext]_scalingVars
      PROVE  [\A w \in Workers :
                Progress(w)' # Progress(w) /\ phase[w] \in Initializing \cup {"running"}
                  => phase'[w] = "down" \/ Left(w)' \in 0..(Left(w) - 1)]_scalingVars
  BY <1>1, Steps DEF Closer
<1>. QED  BY <1>1, ScalingTypeCorrect, FreshAlways, PTL DEF ScalingSpec, CallsRunOut

=============================================================================
