-------------------------- MODULE CoordinatorProofs --------------------------
(***************************************************************************)
(* Proofs about Coordinator, for any workers, ticks, intervals, timeout    *)
(* and bounds on delays and losses that satisfy CoordinatorAssumption.     *)
(*                                                                         *)
(* An entry is as old as the heartbeats its worker has lost make it, plus  *)
(* the time since the last (FreshInv); and a worker that is gone ages in   *)
(* step with the cleanup thread's sleep (AgeInv).                          *)
(***************************************************************************)
EXTENDS Coordinator, TLAPS

\* An entry of this age is stale.
Expiry == (timeout + 1) * second

\* No entry that the last pass of the cleanup left was of that age.
AgeInv == \A w \in workers_ : elapsed[w] < Expiry + cleanup_timer

\* The entry of a known worker dates from the last heartbeat that arrived.
FreshInv ==
  \A w \in known :
    /\ process[w] = "initialized"
    /\ w \in workers_
    /\ elapsed[w] <= losses[w] * Period + heartbeat_timer[w]

IInv == TypeOK /\ AgeInv /\ FreshInv

-----------------------------------------------------------------------------
\* A whole second more than timeout has to pass before an entry is stale.
LEMMA Truncation ==
  /\ Expiry \in Nat \ {0}
  /\ \A n \in Nat : n \div second > timeout <=> n >= Expiry
<1> USE CoordinatorAssumption
<1>1. Expiry \in Nat \ {0} /\ Expiry = timeout * second + second
  BY DEF Expiry
<1>2. ASSUME NEW n \in Nat
      PROVE  n \div second > timeout <=> n >= Expiry
  <2>1. /\ n \div second \in Nat
        /\ n = second * (n \div second) + (n % second)
        /\ n % second \in 0..(second - 1)
    OBVIOUS
  <2>2. CASE n \div second > timeout
    <3>1. PICK d \in Nat : n \div second = timeout + 1 + d
      <4>1. n \div second - timeout - 1 \in Nat
        BY <2>1, <2>2
      <4>. QED  BY <2>1, <4>1
    <3>2. second * (timeout + 1 + d) = Expiry + second * d /\ second * d \in Nat
      BY <3>1 DEF Expiry
    <3>. QED  BY <1>1, <2>1, <2>2, <3>1, <3>2
  <2>3. CASE ~(n \div second > timeout)
    <3>1. PICK d \in Nat : timeout = n \div second + d
      <4>1. timeout - n \div second \in Nat
        BY <2>1, <2>3
      <4>. QED  BY <2>1, <4>1
    <3>2. timeout * second = second * (n \div second) + second * d /\ second * d \in Nat
      BY <2>1, <3>1
    <3>. QED  BY <1>1, <2>1, <2>3, <3>2
  <2>. QED  BY <2>2, <2>3
<1>. QED  BY <1>1, <1>2

LEMMA StaleAge ==
  ASSUME TypeOK
  PROVE  \A w \in workers_ : w \in Stale <=> elapsed[w] >= Expiry
BY Truncation DEF TypeOK, Stale

\* Losing one heartbeat more costs one period, and MaxLosses of them and the
\* current period do not make an entry stale.
LEMMA Periods ==
  /\ Period \in Nat
  /\ \A n \in Nat : n * Period \in Nat /\ (n + 1) * Period = n * Period + Period
  /\ \A n \in 0..MaxLosses : n * Period + Period < Expiry
<1>1. Period \in Nat
  BY CoordinatorAssumption DEF Period
<1>2. ASSUME NEW n \in Nat
      PROVE  n * Period \in Nat /\ (n + 1) * Period = n * Period + Period
  BY <1>1
<1>3. ASSUME NEW n \in 0..MaxLosses
      PROVE  n * Period + Period < Expiry
  <2>1. (MaxLosses + 1) * Period < Expiry
    BY CoordinatorAssumption DEF Period, Expiry
  <2>2. PICK d \in Nat : MaxLosses = n + d
    <3>1. MaxLosses - n \in Nat /\ MaxLosses = n + (MaxLosses - n)
      BY CoordinatorAssumption
    <3>. QED  BY <3>1
  <2>3. (MaxLosses + 1) * Period = (n + 1) * Period + d * Period
    BY <1>1, <2>2
  <2>4. d * Period \in Nat /\ (n + 1) * Period = n * Period + Period
    BY <1>2
  <2>5. n * Period \in Nat /\ Expiry \in Nat
    BY <1>2, Truncation
  <2>. QED  BY <1>1, <2>1, <2>3, <2>4, <2>5
<1>. QED  BY <1>1, <1>2, <1>3

LEMMA Initially == Init => IInv
BY CoordinatorAssumption, Truncation DEF Init, IInv, TypeOK, AgeInv, FreshInv, Period

LEMMA TypeStep ==
  ASSUME TypeOK, [Next]_vars
  PROVE  TypeOK'
<1> USE CoordinatorAssumption, Periods DEF TypeOK, coordinatorVars, workerVars
<1>1. ASSUME NEW w \in Workers, StartWorker(w)
      PROVE  TypeOK'
  BY <1>1 DEF StartWorker
<1>2. ASSUME NEW w \in Workers, Register(w)
      PROVE  TypeOK'
  BY <1>2 DEF Register, register_worker, Touch
<1>3. ASSUME NEW w \in Workers, StopWorker(w)
      PROVE  TypeOK'
  BY <1>3 DEF StopWorker
<1>4. ASSUME NEW w \in Workers, HeartbeatLoop(w)
      PROVE  TypeOK'
  BY <1>4 DEF HeartbeatLoop, update_heartbeat, Touch
<1>5. CASE Cleanup
  BY <1>5 DEF Cleanup, Stale
<1>6. CASE RestartCoordinator
  BY <1>6 DEF RestartCoordinator
<1>7. CASE Tick
  BY <1>7 DEF Tick
<1>8. CASE UNCHANGED vars
  BY <1>8 DEF vars
<1>. QED
  BY <1>1, <1>2, <1>3, <1>4, <1>5, <1>6, <1>7, <1>8 DEF Next, WorkerAction

\* Whatever refreshes an entry makes it young, and a pass of the cleanup
\* leaves no stale entries when it sets its timer to 0.
LEMMA AgeStep ==
  ASSUME TypeOK, AgeInv, [Next]_vars
  PROVE  AgeInv'
<1>. Expiry \in Nat \ {0}
  BY Truncation
<1>0. \A w \in workers_ : w \in Stale <=> elapsed[w] >= Expiry
  BY StaleAge
<1> USE CoordinatorAssumption DEF TypeOK, AgeInv, coordinatorVars, workerVars
<1>1. ASSUME NEW w \in Workers, StartWorker(w)
      PROVE  AgeInv'
  BY <1>1 DEF StartWorker
<1>2. ASSUME NEW w \in Workers, Register(w)
      PROVE  AgeInv'
  BY <1>2 DEF Register, register_worker, Touch
<1>3. ASSUME NEW w \in Workers, StopWorker(w)
      PROVE  AgeInv'
  BY <1>3 DEF StopWorker
<1>4. ASSUME NEW w \in Workers, HeartbeatLoop(w)
      PROVE  AgeInv'
  BY <1>4 DEF HeartbeatLoop, update_heartbeat, Touch
<1>5. CASE Cleanup
  BY <1>0, <1>5 DEF Cleanup
<1>6. CASE RestartCoordinator
  BY <1>6 DEF RestartCoordinator
<1>7. CASE Tick
  BY <1>7 DEF Tick
<1>8. CASE UNCHANGED vars
  BY <1>8 DEF vars
<1>. QED
  BY <1>1, <1>2, <1>3, <1>4, <1>5, <1>6, <1>7, <1>8 DEF Next, WorkerAction

\* The entry of a known worker ages with its heartbeat timer; a heartbeat that
\* arrives makes both 0, one that is lost moves a period from the timer to the
\* losses; and the cleanup finds no such entry stale.
LEMMA FreshStep ==
  ASSUME TypeOK, FreshInv, [Next]_vars
  PROVE  FreshInv'
<1> USE DEF TypeOK, FreshInv, coordinatorVars, workerVars
<1>1. ASSUME NEW w \in Workers, StartWorker(w)
      PROVE  FreshInv'
  BY <1>1 DEF StartWorker
<1>2. ASSUME NEW w \in Workers, Register(w)
      PROVE  FreshInv'
  <2>1. \/ losses'[w] = 0 /\ elapsed'[w] = 0
        \/ UNCHANGED <<process, losses, known>>
    BY <1>2 DEF Register, register_worker, Touch
  <2>2. 0 * Period = 0 /\ heartbeat_timer[w] \in Nat
    BY Periods
  <2>3. w \notin known
    BY <1>2 DEF Register
  <2>. QED  BY <1>2, <2>1, <2>2, <2>3, Periods DEF Register, register_worker, Touch
<1>3. ASSUME NEW w \in Workers, StopWorker(w)
      PROVE  FreshInv'
  BY <1>3 DEF StopWorker
<1>4. ASSUME NEW w \in Workers, HeartbeatLoop(w)
      PROVE  FreshInv'
  <2>1. /\ heartbeat_timer' = [heartbeat_timer EXCEPT ![w] = 0]
        /\ UNCHANGED <<workers_, process, known>>
    BY <1>4 DEF HeartbeatLoop, update_heartbeat
  <2>2. \A v \in Workers \ {w} : losses'[v] = losses[v] /\ elapsed'[v] = elapsed[v]
    BY <1>4 DEF HeartbeatLoop, update_heartbeat, Touch
  <2>3. heartbeat_timer[w] \in Nat /\ heartbeat_timer[w] <= Period /\ Period \in Nat
    BY Periods
  <2>4. ASSUME w \in known
        PROVE  elapsed'[w] <= losses'[w] * Period
    <3>1. CASE elapsed'[w] = 0 /\ losses'[w] = 0
      BY <3>1, Periods
    <3>2. CASE elapsed'[w] = elapsed[w] /\ losses'[w] = losses[w] + 1
      <4>1. elapsed[w] \in Nat /\ losses[w] \in Nat
        OBVIOUS
      <4>2. (losses[w] + 1) * Period = losses[w] * Period + Period
            /\ losses[w] * Period \in Nat
        BY <4>1, Periods
      <4>3. elapsed[w] <= losses[w] * Period + heartbeat_timer[w]
        BY <2>4
      <4>. QED  BY <2>3, <3>2, <4>1, <4>2, <4>3
    <3>3. w \in workers_ /\ process[w] = "initialized"
      BY <2>4
    <3>. QED  BY <1>4, <3>1, <3>2, <3>3 DEF HeartbeatLoop, update_heartbeat, Touch
  <2>5. \A v \in known : losses'[v] * Period \in Nat
    BY <1>4, TypeStep, Periods DEF Next, WorkerAction
  <2>. QED  BY <2>1, <2>2, <2>4, <2>5
<1>5. CASE Cleanup
  <2>1. ASSUME NEW w \in known
        PROVE  w \notin Stale
    <3>1. /\ elapsed[w] \in Nat /\ heartbeat_timer[w] \in Nat
          /\ heartbeat_timer[w] <= Period
          /\ losses[w] \in 0..MaxLosses /\ losses[w] \in Nat
      BY Periods, CoordinatorAssumption
    <3>2. losses[w] * Period \in Nat /\ losses[w] * Period + Period < Expiry
      BY <3>1, Periods
    <3>3. elapsed[w] <= losses[w] * Period + heartbeat_timer[w]
      BY <2>1
    <3>. QED  BY <3>1, <3>2, <3>3, Periods, Truncation, StaleAge
  <2>. QED  BY <1>5, <2>1 DEF Cleanup
<1>6. CASE RestartCoordinator
  BY <1>6 DEF RestartCoordinator
<1>7. CASE Tick
  <2>1. ASSUME NEW w \in known
        PROVE  elapsed'[w] <= losses'[w] * Period + heartbeat_timer'[w]
    <3>1. w \in Workers /\ w \in workers_ /\ process[w] # "down"
      BY <2>1
    <3>2. /\ elapsed'[w] = elapsed[w] + 1
          /\ heartbeat_timer'[w] = heartbeat_timer[w] + 1
          /\ losses'[w] = losses[w]
      BY <1>7, <3>1 DEF Tick
    <3>3. losses[w] * Period \in Nat /\ elapsed[w] \in Nat /\ heartbeat_timer[w] \in Nat
      BY <3>1, Periods
    <3>. QED  BY <2>1, <3>2, <3>3
  <2>. QED  BY <1>7, <2>1 DEF Tick
<1>8. CASE UNCHANGED vars
  BY <1>8 DEF vars
<1>. QED
  BY <1>1, <1>2, <1>3, <1>4, <1>5, <1>6, <1>7, <1>8 DEF Next, WorkerAction

-----------------------------------------------------------------------------
LEMMA Invariant == Spec => []IInv
<1>1. IInv /\ [Next]_vars => IInv'
  BY TypeStep, AgeStep, FreshStep DEF IInv
<1>. QED  BY <1>1, Initially, PTL DEF Spec

\* Every variable has its type in every reachable state of the registry.
THEOREM TypeCorrect == Spec => []TypeOK
<1>1. IInv => TypeOK
  BY DEF IInv
<1>. QED  BY <1>1, Invariant, PTL

\* An entry nobody refreshes is gone within timeout and the second that the
\* cast to seconds drops, one sleep of the cleanup thread and its delay, for
\* any of these and any length of a tick.
THEOREM StaleEntriesGo == Spec => []StaleIsEvicted
<1>1. IInv => StaleIsEvicted
  BY CoordinatorAssumption, Truncation DEF IInv, TypeOK, AgeInv, StaleIsEvicted, Expiry
<1>. QED  BY <1>1, Invariant, PTL

\* A worker whose heartbeats are neither too late nor lost too often in a row
\* keeps its entry, for all intervals with (MaxLosses + 1) * (heartbeat_interval
\* + Delay) < (timeout + 1) * second.
THEOREM TimelyWorkersStay == Spec => []TimelyIsKept
<1>1. IInv => TimelyIsKept
  BY DEF IInv, FreshInv, TimelyIsKept
<1>. QED  BY <1>1, Invariant, PTL
=============================================================================
