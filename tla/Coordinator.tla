----------------------------- MODULE Coordinator -----------------------------
(***************************************************************************)
(* The worker registry of the coordinator: CoordinatorCore                 *)
(* (src/coordinator.cpp) with its cleanup thread                           *)
(* (src/coordinator_service.cpp), and what feeds it, the registration and  *)
(* the heartbeat thread of the workers (src/worker.cpp).                   *)
(*                                                                         *)
(* Every operation holds workers_mutex_ throughout, so each is one step.   *)
(* What matters is time: it passes in ticks, second of them in a second, a *)
(* sleeping thread runs at most Delay ticks after it is due, and time      *)
(* cannot pass a thread that is overdue.  remove_stale_workers alone       *)
(* counts in whole seconds.                                                *)
(*                                                                         *)
(* Left out: status and the addresses of a registry entry, which nothing   *)
(* in the registry depends on, and the read-only ListWorkers.              *)
(***************************************************************************)
EXTENDS Naturals

CONSTANTS
  Workers,             \* worker ids
  second,              \* ticks in a second
  heartbeat_interval,  \* sleep of heartbeat_loop, in ticks (5 s in the code)
  cleanup_interval,    \* sleep of cleanup_loop, in ticks (10 s)
  timeout,             \* timeout_seconds of remove_stale_workers (30)
  Delay,               \* bound: how late a due thread runs
  MaxLosses,           \* bound: heartbeats of a worker lost in a row
  MaxRestarts          \* bound: restarts of the coordinator

\* The bounds on delays and losses leave a live worker a heartbeat in time.
ASSUME CoordinatorAssumption ==
  /\ {second, heartbeat_interval, cleanup_interval, timeout} \subseteq Nat \ {0}
  /\ {Delay, MaxLosses, MaxRestarts} \subseteq Nat
  /\ (MaxLosses + 1) * (heartbeat_interval + Delay) < (timeout + 1) * second

VARIABLES
  workers_,         \* the ids in the registry
  elapsed,          \* elapsed[w]: ticks since last_heartbeat of w's entry
  cleanup_timer,    \* ticks since cleanup_loop went to sleep
  process,          \* process[w]: is w's process down, starting or initialized
  heartbeat_timer,  \* ticks since heartbeat_loop of w went to sleep
  losses,           \* heartbeats of w lost since the last that arrived
  known,            \* initialized workers whose registration this
                    \* coordinator process has seen
  restarts          \* restarts of the coordinator so far

coordinatorVars == <<workers_, elapsed, cleanup_timer>>
workerVars == <<process, heartbeat_timer, losses>>
vars == <<coordinatorVars, workerVars, known, restarts>>

Period == heartbeat_interval + Delay

TypeOK ==
  /\ workers_ \subseteq Workers
  /\ elapsed \in [Workers -> Nat]
  /\ cleanup_timer \in 0..(cleanup_interval + Delay)
  /\ process \in [Workers -> {"down", "starting", "initialized"}]
  /\ heartbeat_timer \in [Workers -> 0..Period]
  /\ losses \in [Workers -> 0..MaxLosses]
  /\ known \subseteq Workers
  /\ restarts \in 0..MaxRestarts

Init ==
  /\ workers_ = {}
  /\ elapsed = [w \in Workers |-> 0]
  /\ cleanup_timer = 0
  /\ process = [w \in Workers |-> "down"]
  /\ heartbeat_timer = [w \in Workers |-> 0]
  /\ losses = [w \in Workers |-> 0]
  /\ known = {}
  /\ restarts = 0

-----------------------------------------------------------------------------
(* The registry *)

Touch(w) == elapsed' = [elapsed EXCEPT ![w] = 0]

\* Mutant of register_worker: the entry is stored under the hostname.
register_hostname(w) ==
  /\ workers_' = workers_ \cup {[hostname |-> w]}
  /\ Touch(w)

\* register_worker: a new entry, or the old one overwritten.
register_worker(w) ==
  /\ workers_' = workers_ \cup {w}
  /\ Touch(w)

\* update_heartbeat: an unknown worker is not entered; the worker never looks
\* at the answer.
update_heartbeat(w) ==
  /\ UNCHANGED workers_
  /\ \/ w \in workers_ /\ Touch(w)
     \/ w \notin workers_ /\ UNCHANGED elapsed

\* Mutant of Stale: a worker is stale as soon as timeout has passed.
StaleAtTimeout == {w \in workers_ : elapsed[w] > timeout * second}

\* The age is cast to seconds, which drops the fraction of one that has begun.
Stale == {w \in workers_ : elapsed[w] \div second > timeout}

\* Mutant of Cleanup: the pass over the registry ends with the first it erases.
CleanupFirst ==
  /\ cleanup_timer >= cleanup_interval
  /\ cleanup_timer' = 0
  /\ \/ Stale = {} /\ UNCHANGED workers_
     \/ \E w \in Stale : workers_' = workers_ \ {w}
  /\ UNCHANGED <<elapsed, workerVars, known, restarts>>

\* cleanup_loop has slept: remove_stale_workers, and to sleep again.
Cleanup ==
  /\ cleanup_timer >= cleanup_interval
  /\ cleanup_timer' = 0
  /\ workers_' = workers_ \ Stale
  /\ UNCHANGED <<elapsed, workerVars, known, restarts>>

\* The coordinator stops and is started again: the registry is empty.
RestartCoordinator ==
  /\ restarts < MaxRestarts
  /\ restarts' = restarts + 1
  /\ workers_' = {}
  /\ elapsed' = [w \in Workers |-> 0]
  /\ cleanup_timer' = 0
  /\ known' = {}
  /\ UNCHANGED workerVars

-----------------------------------------------------------------------------
(* The workers *)

\* The constructor starts heartbeat_loop before the worker is initialized.
StartWorker(w) ==
  /\ process[w] = "down"
  /\ process' = [process EXCEPT ![w] = "starting"]
  /\ heartbeat_timer' = [heartbeat_timer EXCEPT ![w] = 0]
  /\ UNCHANGED <<coordinatorVars, losses, known, restarts>>

\* initialize registers; when the answer is lost the worker registers again.
Register(w) ==
  /\ process[w] = "starting"
  /\ register_worker(w)
  /\ \/ /\ process' = [process EXCEPT ![w] = "initialized"]
        /\ losses' = [losses EXCEPT ![w] = 0]
        /\ known' = known \cup {w}
     \/ UNCHANGED <<process, losses, known>>
  /\ UNCHANGED <<cleanup_timer, heartbeat_timer, restarts>>

\* The process is killed, crashes, or returns from main.
StopWorker(w) ==
  /\ process[w] # "down"
  /\ process' = [process EXCEPT ![w] = "down"]
  /\ known' = known \ {w}
  /\ UNCHANGED <<coordinatorVars, heartbeat_timer, losses, restarts>>

\* heartbeat_loop has slept: a heartbeat arrives or is lost (send_heartbeat
\* does not care), or there is none yet because the worker is initializing.
HeartbeatLoop(w) ==
  /\ process[w] # "down"
  /\ heartbeat_timer[w] >= heartbeat_interval
  /\ heartbeat_timer' = [heartbeat_timer EXCEPT ![w] = 0]
  /\ \/ /\ process[w] = "initialized"
        /\ update_heartbeat(w)
        /\ losses' = [losses EXCEPT ![w] = 0]
     \/ /\ process[w] = "initialized"
        /\ losses[w] < MaxLosses
        /\ losses' = [losses EXCEPT ![w] = @ + 1]
        /\ UNCHANGED <<workers_, elapsed>>
     \/ /\ process[w] = "starting"
        /\ UNCHANGED <<workers_, elapsed, losses>>
  /\ UNCHANGED <<cleanup_timer, process, known, restarts>>

-----------------------------------------------------------------------------
\* A tick passes, unless a thread is due that may not be delayed any more.
Tick ==
  /\ cleanup_timer < cleanup_interval + Delay
  /\ \A w \in Workers : process[w] # "down" => heartbeat_timer[w] < Period
  /\ cleanup_timer' = cleanup_timer + 1
  /\ elapsed' = [w \in Workers |-> IF w \in workers_ THEN elapsed[w] + 1 ELSE 0]
  /\ heartbeat_timer' = [w \in Workers |->
       IF process[w] # "down" THEN heartbeat_timer[w] + 1 ELSE 0]
  /\ UNCHANGED <<workers_, process, losses, known, restarts>>

WorkerAction(w) == StartWorker(w) \/ Register(w) \/ StopWorker(w) \/ HeartbeatLoop(w)

Next ==
  \/ \E w \in Workers : WorkerAction(w)
  \/ Cleanup
  \/ RestartCoordinator
  \/ Tick

Spec == Init /\ [][Next]_vars

\* Time passes and threads run when they are due; processes start, stop and
\* register as they like.
FairSpec ==
  /\ Spec
  /\ WF_vars(Tick)
  /\ WF_vars(Cleanup)
  /\ \A w \in Workers : WF_vars(HeartbeatLoop(w))

-----------------------------------------------------------------------------
\* A worker that died, was killed or cut off leaves the registry within
\* timeout and the second that is dropped, the time between two passes of
\* cleanup_loop and its delay.
StaleIsEvicted ==
  \A w \in workers_ : elapsed[w] < (timeout + 1) * second + cleanup_interval + Delay

\* An initialized worker stays in the registry of the coordinator it
\* registered with, though heartbeats come late and up to MaxLosses in a row
\* get lost, and though cleanup runs at any moment between them.
TimelyIsKept ==
  \A w \in known : process[w] = "initialized" /\ w \in workers_

\* "The coordinator automatically handles worker registration"
\* (src/scripts/README.md:100): an initialized worker that goes on sending
\* heartbeats is in the registry sooner or later.
LiveIsListed ==
  \A w \in Workers : process[w] = "initialized" ~> (w \in workers_ \/ process[w] # "initialized")
=============================================================================
