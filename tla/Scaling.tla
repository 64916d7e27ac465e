-------------------------------- MODULE Scaling --------------------------------
(***************************************************************************)
(* Changing the number of workers while they train                         *)
(* (src/scripts/scale_workers.sh).  A scale-down stops workers and then    *)
(* restarts the parameter server, which takes the number of workers from   *)
(* its command line; a scale-up changes the number of machines and fails.  *)
(* The workers go through initialize (module Discovery) and run_iteration; *)
(* the script waits for neither.                                           *)
(*                                                                         *)
(* The script is run from a machine that reaches the others with ssh and   *)
(* stops at the first command that fails (set -e), except where it stops a *)
(* worker.  It learns the present number of workers from terraform.        *)
(*                                                                         *)
(* Any call of a worker may fail, whatever the server did with it: on the  *)
(* machines of scripts/deploy.sh the address that Discovery hands out      *)
(* leads to the server only where something else sees to it.  A call and   *)
(* its handling are one step.  An answer that is taken later than it is    *)
(* sent changes nothing here, where only the worker's own state depends on *)
(* it.                                                                     *)
(*                                                                         *)
(* Data: worker ids are 0, 1, ..., gradients are nobody's business but     *)
(* their sender's.  Threads, late pushes, lost connections and restarts of *)
(* single processes are the subject of modules ParameterServer and         *)
(* Training.                                                               *)
(***************************************************************************)
EXTENDS Discovery, FiniteSets

CONSTANTS
  iterations,     \* ITERATIONS of the workers
  max_retries,    \* attempts in run_iteration (3 in the code)
  MaxScalings     \* bound: scale-downs

ASSUME ScalingAssumption ==
  /\ IsFiniteSet(Workers) /\ Workers = 0..(Cardinality(Workers) - 1)
  /\ {iterations, max_retries} \subseteq Nat \ {0}
  /\ MaxScalings \in Nat

Iterations == 0..(iterations - 1)
First(n) == {w \in Workers : w < n}

VARIABLES
  server_up,        \* the parameter server runs
  total_workers_,   \* its number of workers
  received,         \* received[i]: the workers whose gradients it has for i
  updates,          \* updates[i]: those it averaged, {} when not aggregated
  iteration,        \* iteration[w]: the argument of run_iteration
  retry_count,      \* retry_count[w]: local of run_iteration
  stage,            \* stage[w]: the next call of run_iteration
  completed,        \* completed[w]: iterations for which run_iteration returned
                    \* true on the word of the server that runs
  worker_count,     \* the number of workers terraform knows of
  script,           \* what scale_workers.sh does next, "failed" when it ended
                    \* half way through a scale-down
  stopping,         \* i of the loop that stops workers
  CURRENT_COUNT,    \* the number of workers it started from
  NEW_COUNT,        \* the number of workers it was asked for
  scalings          \* scale-downs so far

serverVars == <<server_up, total_workers_, received, updates>>
trainVars == <<iteration, retry_count, stage, completed>>
argumentVars == <<CURRENT_COUNT, NEW_COUNT, scalings>>
scriptVars == <<worker_count, script, stopping, argumentVars>>
scalingVars == <<discoveryVars, serverVars, trainVars, scriptVars>>

ScalingTypeOK ==
  /\ DiscoveryTypeOK
  /\ server_up \in BOOLEAN
  /\ total_workers_ \in 1..Cardinality(Workers)
  /\ received \in [Iterations -> SUBSET Workers]
  /\ updates \in [Iterations -> SUBSET Workers]
  /\ iteration \in [Workers -> 0..iterations]
  /\ retry_count \in [Workers -> 0..(max_retries - 1)]
  /\ stage \in [Workers -> {"pull", "push", "poll"}]
  /\ completed \in [Workers -> SUBSET Iterations]
  /\ worker_count \in 1..Cardinality(Workers)
  /\ script \in {"idle", "stop_workers", "apply", "kill_server", "start_server", "failed"}
  /\ stopping \in 0..Cardinality(Workers)
  /\ {CURRENT_COUNT, NEW_COUNT} \subseteq 1..Cardinality(Workers)
  /\ scalings \in 0..MaxScalings

EmptyServer ==
  /\ received' = [i \in Iterations |-> {}]
  /\ updates' = [i \in Iterations |-> {}]

\* deploy.sh has started the server and the first WORKER_COUNT workers.
Deployed(WORKER_COUNT) ==
  /\ DiscoveryInit(First(WORKER_COUNT))
  /\ server_up = TRUE
  /\ total_workers_ = WORKER_COUNT
  /\ received = [i \in Iterations |-> {}]
  /\ updates = [i \in Iterations |-> {}]
  /\ iteration = [w \in Workers |-> 0]
  /\ retry_count = [w \in Workers |-> 0]
  /\ stage = [w \in Workers |-> "pull"]
  /\ completed = [w \in Workers |-> {}]
  /\ worker_count = WORKER_COUNT
  /\ script = "idle"
  /\ stopping = 0
  /\ CURRENT_COUNT = WORKER_COUNT
  /\ NEW_COUNT = WORKER_COUNT
  /\ scalings = 0

ScalingInit == \E n \in 1..Cardinality(Workers) : Deployed(n)

-----------------------------------------------------------------------------
(* Initializing and training *)

Elsewhere == UNCHANGED <<serverVars, trainVars, scriptVars>>

Training(w) == phase[w] = "running" /\ iteration[w] < iterations
Aggregated(i) == updates[i] # {}

\* run_iteration returns and main goes on to the next iteration.
Return(w, done) ==
  /\ iteration' = [iteration EXCEPT ![w] = @ + 1]
  /\ retry_count' = [retry_count EXCEPT ![w] = 0]
  /\ stage' = [stage EXCEPT ![w] = "pull"]
  /\ completed' = [completed EXCEPT ![w] = IF done THEN @ \cup {iteration[w]} ELSE @]

GoOn(w, s) ==
  /\ stage' = [stage EXCEPT ![w] = s]
  /\ UNCHANGED <<iteration, retry_count, completed>>

\* Mutant of LastAttempt: one attempt too many.
LastPlusOne(w) == retry_count[w] = max_retries

LastAttempt(w) == retry_count[w] = max_retries - 1

Retry(w) ==
  /\ retry_count' = [retry_count EXCEPT ![w] = @ + 1]
  /\ stage' = [stage EXCEPT ![w] = "pull"]
  /\ UNCHANGED <<iteration, completed>>

\* There is a model once an iteration was averaged; in its last attempt a
\* worker does without.
Pull(w) ==
  /\ Training(w) /\ stage[w] = "pull"
  /\ \/ /\ LastAttempt(w) \/ (server_up /\ \E i \in Iterations : Aggregated(i))
        /\ GoOn(w, "push")
     \/ /\ ~LastAttempt(w)
        /\ Retry(w)
  /\ UNCHANGED <<serverVars, discoveryVars, scriptVars>>

\* Mutant of OnPush: an attempt without success is not counted.
OnPushUncounted(w, complete) ==
  \/ complete /\ Return(w, TRUE)
  \/ ~complete /\ GoOn(w, "pull")

\* push_gradients has returned; without success the last attempt polls.
OnPush(w, complete) ==
  \/ complete /\ Return(w, TRUE)
  \/ ~complete /\ ~LastAttempt(w) /\ Retry(w)
  \/ ~complete /\ LastAttempt(w) /\ GoOn(w, "poll")

Full(senders) == Cardinality(senders) >= total_workers_

\* receive_gradients: the gradients of an aggregated iteration are dropped,
\* others are kept, and averaged when those of total_workers_ workers are in.
\* The answer may be lost.
Push(w) ==
  LET i == iteration[w]
      senders == received[i] \cup {w}
  IN  /\ Training(w) /\ stage[w] = "push" /\ server_up
      /\ \/ /\ Aggregated(i)
            /\ OnPush(w, TRUE) \/ OnPush(w, FALSE)
            /\ UNCHANGED <<received, updates>>
         \/ /\ ~Aggregated(i)
            /\ received' = [received EXCEPT ![i] = senders]
            /\ updates' = [updates EXCEPT ![i] = IF Full(senders) THEN senders ELSE {}]
            /\ OnPush(w, Full(senders)) \/ OnPush(w, FALSE)
      /\ UNCHANGED <<server_up, total_workers_, discoveryVars, scriptVars>>

PushFails(w) ==
  /\ Training(w) /\ stage[w] = "push"
  /\ OnPush(w, FALSE)
  /\ UNCHANGED <<serverVars, discoveryVars, scriptVars>>

\* One of the polls finds the iteration ready, or they run out.
Poll(w) ==
  /\ Training(w) /\ stage[w] = "poll"
  /\ \/ server_up /\ Aggregated(iteration[w]) /\ Return(w, TRUE)
     \/ Return(w, FALSE)
  /\ UNCHANGED <<serverVars, discoveryVars, scriptVars>>

Train(w) == Pull(w) \/ Push(w) \/ PushFails(w) \/ Poll(w)

-----------------------------------------------------------------------------
(* scale_workers.sh *)

\* The script is not at work: it can be run, again if it failed.
Resting == script \in {"idle", "failed"}

\* terraform creates machines, or fails to.  Either way the script ends soon
\* after: it takes the addresses of the new machines from jq, which prints
\* them as a JSON array, and waits for ssh to answer on the first word of
\* that, which is the bracket.
ScaleUp(n) ==
  /\ Resting
  /\ n > worker_count
  /\ worker_count' \in {worker_count, n}
  /\ UNCHANGED <<discoveryVars, serverVars, trainVars, script, stopping, argumentVars>>

ScaleDown(n) ==
  /\ Resting
  /\ n < worker_count
  /\ scalings < MaxScalings
  /\ scalings' = scalings + 1
  /\ CURRENT_COUNT' = worker_count
  /\ NEW_COUNT' = n
  /\ stopping' = n
  /\ script' = "stop_workers"
  /\ UNCHANGED <<discoveryVars, serverVars, trainVars, worker_count>>

Down(ws) == phase' = [w \in Workers |-> IF w \in ws THEN "down" ELSE phase[w]]

\* Mutant of AfterStopping: the instances of the stopped workers are left.
KillAfterStopping == "kill_server"

AfterStopping == "apply"

\* The workers to be removed are stopped; where that fails they go on.
StopOldWorker ==
  /\ script = "stop_workers"
  /\ \/ /\ stopping < CURRENT_COUNT
        /\ stopping' = stopping + 1
        /\ \/ Down({stopping}) /\ UNCHANGED faults
           \/ Fault /\ UNCHANGED phase
        /\ UNCHANGED script
     \/ /\ stopping = CURRENT_COUNT
        /\ script' = AfterStopping
        /\ UNCHANGED <<phase, stopping, faults>>
  /\ UNCHANGED <<coordinatorVars, attempt, ps_address_, serverVars, trainVars, worker_count,
                 argumentVars>>

\* terraform destroys the machines of the workers to be removed.
Removed == Workers \ First(NEW_COUNT)
Apply ==
  /\ script = "apply"
  /\ Down(Removed)
  /\ worker_count' = NEW_COUNT
  /\ script' = "kill_server"
  /\ UNCHANGED <<coordinatorVars, attempt, ps_address_, faults, serverVars, trainVars,
                 stopping, argumentVars>>

\* pkill ends the server.  That it finds none is no failure: it also finds the
\* sudo it is run by.
KillServer ==
  /\ script = "kill_server"
  /\ server_up' = FALSE
  /\ EmptyServer
  /\ completed' = [w \in Workers |-> {}]
  /\ script' = "start_server"
  /\ UNCHANGED <<total_workers_, iteration, retry_count, stage, discoveryVars, worker_count,
                 stopping, argumentVars>>

\* Mutant of ServerCount: WORKERS_TO_REMOVE.
ServerCountRemoved == CURRENT_COUNT - NEW_COUNT

ServerCount == NEW_COUNT

Start ==
  /\ server_up' = TRUE
  /\ total_workers_' = ServerCount

StartServer ==
  /\ script = "start_server"
  /\ Start
  /\ script' = "idle"
  /\ UNCHANGED <<received, updates, trainVars, discoveryVars, worker_count, stopping, argumentVars>>

\* A command fails and with it the script, when it has done nothing yet or some
\* of its work: terraform has destroyed machines, the server was started.
FailScript ==
  /\ Fault
  /\ script \in {"apply", "kill_server", "start_server"}
  /\ script' = "failed"
  /\ \/ UNCHANGED <<phase, server_up, total_workers_>>
     \/ /\ script = "apply"
        /\ \E ws \in SUBSET Removed : Down(ws)
        /\ UNCHANGED <<server_up, total_workers_>>
     \/ /\ script = "start_server"
        /\ Start
        /\ UNCHANGED phase
  /\ UNCHANGED <<coordinatorVars, attempt, ps_address_, received, updates, trainVars, worker_count,
                 stopping, argumentVars>>

ScriptStep == StopOldWorker \/ Apply \/ KillServer \/ StartServer

ScalingNext ==
  \/ DiscoveryNext /\ Elsewhere
  \/ \E w \in Workers : Train(w)
  \/ \E n \in 1..Cardinality(Workers) : ScaleUp(n) \/ ScaleDown(n)
  \/ ScriptStep
  \/ FailScript

ScalingSpec == ScalingInit /\ [][ScalingNext]_scalingVars

\* Processes of workers run.  Nobody has to run the script, or to start a
\* coordinator again.
FairScalingSpec ==
  /\ ScalingSpec
  /\ \A w \in Workers : WF_scalingVars(Initialize(w) /\ Elsewhere)

-----------------------------------------------------------------------------
\* Unless a scale-down ended half way, the server has gradients of the workers
\* that are meant to be there and of no others, although the processes of
\* removed workers may have gone on when the script tried to stop them.
RemovedStayOut ==
  script = "idle" => \A i \in Iterations : received[i] \subseteq First(total_workers_)

\* A worker that the running server has told that its iteration is complete has
\* its gradients in the update: only while a scale-down is at work, or after it
\* failed, can a worker more than the server counts on take its place.
DoneMeansContributed ==
  script = "idle" => \A w \in Workers : \A i \in completed[w] : w \in updates[i]

\* The queries and calls a worker has before it, at most: an attempt is a pull
\* and a push, and the last one polls besides.  From: in iterations n and up.
Pending == [pull |-> 3, push |-> 2, poll |-> 1]
From(n) == (iterations - n) * 3 * max_retries
Left(w) ==
  CASE phase[w] = "discover" -> 2 * max_attempts - attempt[w] + From(0)
    [] phase[w] = "register" -> max_attempts - attempt[w] + From(0)
    [] Training(w) -> From(iteration[w] + 1) + 3 * (max_retries - 1 - retry_count[w])
                      + Pending[stage[w]]
    [] OTHER -> 0

\* The locals of initialize and run_iteration that say how far w is.
Progress(w) == <<phase[w], attempt[w], iteration[w], retry_count[w], stage[w]>>

\* Whatever is lost, stopped, restarted or scaled around it, a process of a
\* worker gets closer to its end with every step and is not started over.  (A
\* call that never returns is no step: calls have no deadline.)
CallsRunOut ==
  [][\A w \in Workers :
       Progress(w)' # Progress(w) /\ phase[w] \in Initializing \cup {"running"}
         => phase'[w] = "down" \/ Left(w)' \in 0..(Left(w) - 1)]_scalingVars
=============================================================================
