------------------------------- MODULE Discovery -------------------------------
(***************************************************************************)
(* How a worker gets the address of the parameter server: initialize       *)
(* (src/worker.cpp) asks the coordinator for it, then registers, and takes *)
(* over the address in the answer to that.  The coordinator has both from  *)
(* its command line (src/coordinator_main.cpp), which it cuts into a host  *)
(* and a port.                                                             *)
(*                                                                         *)
(* A query is sent again, up to max_attempts times, when its call fails:   *)
(* the request or the answer is lost, or no coordinator runs.  A worker    *)
(* that runs out of attempts exits; who starts workers is not this         *)
(* module's business (module Scaling).                                     *)
(*                                                                         *)
(* Data: an address is the sequence of what stands between its colons, so  *)
(* "localhost:50051" is <<"localhost", "50051">>.  Left out: the back-off, *)
(* and the timeouts of the registry (module Coordinator).                  *)
(***************************************************************************)
EXTENDS Naturals, Sequences

CONSTANTS
  Workers,       \* worker ids
  argument,      \* the second argument of the coordinator, <<>> without one
  listening,     \* where the parameter server can be reached
  max_attempts,  \* attempts of query_with_retry (5 in the code)
  MaxFaults      \* bound: lost calls, stops of the coordinator, failed ssh

ASSUME DiscoveryAssumption ==
  /\ {argument, listening} \subseteq Seq(STRING)
  /\ max_attempts \in Nat \ {0}
  /\ MaxFaults \in Nat

VARIABLES
  workers_,        \* the ids in the registry of the coordinator
  coordinator_up,  \* the coordinator process runs
  phase,           \* phase[w]: what the process of w does
  attempt,         \* attempt[w]: local of query_with_retry
  ps_address_,     \* ps_address_[w]: member of the Worker
  faults           \* faults so far

coordinatorVars == <<workers_, coordinator_up>>
initializeVars == <<phase, attempt, ps_address_>>
discoveryVars == <<coordinatorVars, initializeVars, faults>>

Initializing == {"discover", "register"}

\* coordinator_main: the default is an address with a port in it, an argument
\* loses its port to ps_port.
main_address == IF argument = <<>> THEN <<"localhost", "50051">> ELSE <<Head(argument)>>
main_port == IF Len(argument) > 1 THEN argument[2] ELSE "50051"

DiscoveryTypeOK ==
  /\ workers_ \subseteq Workers
  /\ coordinator_up \in BOOLEAN
  /\ phase \in [Workers -> Initializing \cup {"down", "running", "failed"}]
  /\ attempt \in [Workers -> 0..(max_attempts - 1)]
  /\ ps_address_ \in [Workers -> {<<>>, main_address, Append(main_address, main_port)}]
  /\ faults \in 0..MaxFaults

\* The processes of these workers have been started.
DiscoveryInit(started) ==
  /\ workers_ = {}
  /\ coordinator_up = TRUE
  /\ phase = [w \in Workers |-> IF w \in started THEN "discover" ELSE "down"]
  /\ attempt = [w \in Workers |-> 0]
  /\ ps_address_ = [w \in Workers |-> <<>>]
  /\ faults = 0

MayFail == faults < MaxFaults
Fault == MayFail /\ faults' = faults + 1

\* A query has been answered: on to what comes next.
Proceed(w, p) ==
  /\ phase' = [phase EXCEPT ![w] = p]
  /\ attempt' = [attempt EXCEPT ![w] = 0]

\* Mutant of TryAgain: the attempts are not counted.
TryForever(w) == UNCHANGED <<phase, attempt, ps_address_>>

\* The call of a query has failed: another attempt, or initialize returns false
\* and with it main.
TryAgain(w) ==
  /\ \/ /\ attempt[w] + 1 < max_attempts
        /\ attempt' = [attempt EXCEPT ![w] = @ + 1]
        /\ UNCHANGED phase
     \/ /\ attempt[w] + 1 = max_attempts
        /\ Proceed(w, "failed")
  /\ UNCHANGED ps_address_

\* What the coordinator answers to GetParameterServerAddress, and does and
\* answers when it is asked to register a worker: that answer has no port.
GetParameterServerAddress == [address |-> main_address, port |-> main_port]
RegisterWorker(w) == workers_' = workers_ \cup {w}
RegisterResponse == [parameter_server_address |-> main_address]

\* discover_parameter_server: the worker joins address and port.
discover_parameter_server(w) ==
  /\ phase[w] = "discover"
  /\ coordinator_up
  /\ LET resp == GetParameterServerAddress
     IN  ps_address_' = [ps_address_ EXCEPT ![w] = Append(resp.address, resp.port)]
  /\ Proceed(w, "register")
  /\ UNCHANGED <<coordinatorVars, faults>>

\* Mutant of TakeOver: the address is kept once there is one.
KeepDiscovered(known, address) == IF known = <<>> THEN address ELSE known

\* The worker takes the address in the answer over if it has another one.
TakeOver(known, address) == IF known # <<>> /\ known # address THEN address ELSE known

\* register_with_coordinator: the registry enters the worker.
register_with_coordinator(w) ==
  /\ phase[w] = "register"
  /\ coordinator_up
  /\ RegisterWorker(w)
  /\ LET address == RegisterResponse.parameter_server_address
     IN  ps_address_' = [ps_address_ EXCEPT ![w] = TakeOver(@, address)]
  /\ Proceed(w, "running")
  /\ UNCHANGED <<coordinator_up, faults>>

\* A call is lost on its way, or its answer is after a registration was made.
LoseQuery(w) ==
  /\ Fault
  /\ phase[w] \in Initializing
  /\ coordinator_up
  /\ \/ UNCHANGED workers_
     \/ phase[w] = "register" /\ RegisterWorker(w)
  /\ TryAgain(w)
  /\ UNCHANGED coordinator_up

\* There is no coordinator to answer.
FailQuery(w) ==
  /\ phase[w] \in Initializing
  /\ ~coordinator_up
  /\ TryAgain(w)
  /\ UNCHANGED <<coordinatorVars, faults>>

\* The coordinator stops; started again it has the same arguments and an empty
\* registry.
StopCoordinator ==
  /\ Fault
  /\ coordinator_up
  /\ coordinator_up' = FALSE
  /\ workers_' = {}
  /\ UNCHANGED initializeVars

StartCoordinator ==
  /\ ~coordinator_up
  /\ coordinator_up' = TRUE
  /\ UNCHANGED <<workers_, initializeVars, faults>>

Initialize(w) ==
  discover_parameter_server(w) \/ register_with_coordinator(w) \/ FailQuery(w)

DiscoveryNext ==
  \/ \E w \in Workers : Initialize(w) \/ LoseQuery(w)
  \/ StopCoordinator
  \/ StartCoordinator

\* All workers started, none stopped: discovery on its own.
DiscoverySpec == DiscoveryInit(Workers) /\ [][DiscoveryNext]_discoveryVars

-----------------------------------------------------------------------------
\* "Coordinator handles worker discovery automatically"
\* (src/scripts/README.md:119): an initialized worker has the address at which
\* the parameter server can be reached.
WorkerReachesServer == \A w \in Workers : phase[w] = "running" => ps_address_[w] = listening

\* A worker that is initializing is initialized, exits or is stopped before
\* long, whatever the coordinator does in the meantime: restarts and lost
\* answers cost attempts, of which there are so many.  (A query is taken to
\* return, answered or not, although it has no deadline.)
InitializationEnds ==
  \A w \in Workers : phase[w] \in Initializing ~> phase[w] \notin Initializing
=============================================================================
