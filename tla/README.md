# Specifications of the parameter server

TLA+ modules, TLC configurations and TLAPS proofs for the distributed training
system in this repository: a parameter server that averages the gradients of its
workers synchronously, workers that train against it, and a coordinator that keeps
a registry of the workers. Paths below are relative to the repository.

## 1. The system

Three programs talk over gRPC. Every call is served on a thread of the server's
pool; calls have no deadline and workers do not retry a failed call as such.

| Component | State | Operations | Where |
|---|---|---|---|
| Parameter server, gradient exchange | `parameters_`, `iteration_states_` (gradients by worker and a flag `aggregated` for each iteration), `current_iteration_`, `total_workers_`, two mutexes | `ReceiveGradients`, `ServeParameters`, `CheckSyncStatus` | `src/parameter_server.cpp`, `src/parameter_server_service.cpp` |
| Parameter server, averaging | the lists of tensors in the above | the mean in `receive_gradients`, `aggregate_gradients` | `src/parameter_server.cpp:37-91` |
| Parameter server, checkpoints | files `checkpoint_epoch_<e>.ckpt`, `last_checkpointed_epoch` of the periodic thread | `SaveCheckpoint`, `LoadCheckpoint`, `periodic_checkpoint` | `src/parameter_server.cpp:112-188`, `src/parameter_server_service.cpp:97-169` |
| Worker, training loop | locals of `run_iteration`: attempt, poll, gradients | `run_iteration`, `pull_parameters`, `push_gradients`, `check_sync_ready` | `src/worker.cpp:240-406`, `src/worker_main.cpp` |
| Worker, registration and heartbeat | `initialized_`, `ps_address_`, heartbeat thread | `initialize` with `query_with_retry`, `heartbeat_loop`; `reconnect` and `discover_peer_workers` are never called | `src/worker.cpp:69-238` |
| Coordinator, registry | `workers_` with `last_heartbeat`, cleanup thread | `register_worker`, `update_heartbeat`, `remove_stale_workers` | `src/coordinator.cpp`, `src/coordinator_service.cpp` |
| Coordinator, server address | address and port from the command line | `GetParameterServerAddress`, the answer to `RegisterWorker` | `src/coordinator_main.cpp`, `src/coordinator.cpp`, `src/coordinator_service.cpp` |
| Multi-GPU averaging | NCCL communicators | `initialize`, `allreduce_float`, `cleanup` | `src/nccl_manager.cpp`, only with `HAVE_NCCL` |
| Scaling | the number of workers terraform keeps, the processes on its machines | `scale_workers.sh` up and down | `scripts/scale_workers.sh` |
| Deployment | machines and processes | `deploy.sh`, `start_*.sh`, systemd units with `Restart=always` | `scripts/`, `terraform/` |

**Interactions.** A worker asks the coordinator for the server's address, registers,
and sends a heartbeat every 5 s from a thread of its own. For each iteration it
pulls the model, computes gradients and pushes them under the iteration number. The
push that brings the `total_workers`-th sender averages the gradients and folds them
into the model; the others are told "not complete", try again, and in the third
attempt poll until the iteration is ready. On the server, pushes, pulls, polls,
saves and loads interleave; `state_mutex_` orders the iterations, `params_mutex_`
the model. The periodic thread reads `current_iteration_` without a lock.

**What is hard.** Handlers that make several critical sections, and two mutexes that
nest; pushes that are late, repeated or of unknown fate; workers that wait for each
other through the server; calls without a deadline, so that one over a connection that
broke silently never returns; restarts of either end, with answers of the old server
still under way, after which old iterations are pushed again; models that change under the gradients computed for
them; files that are read back without a check; timers of three threads that must
fit together for a registry entry to survive; a script that replaces the server by
one with another quorum under workers that are somewhere in their runs, and that may
end half-way. Each hazard is listed with its line
and the properties that cover it in `PROJECT.json`.

**What makes each component correct.**

* Exchange: an iteration gets into the model once, as a whole, from exactly
  `total_workers` gradients, and whoever is told so can rely on it.
* Averaging: the result is a function of the gradients, not of their order; every
  element is updated; the model keeps its form.
* Checkpoints: a file is one moment of the model and is named for it; loading never
  meets a file being written; the current epoch gets saved.
* Training: `done` is true of the model; an update is computed from one model;
  iterations come in order; nobody waits for ever.
* Registry: who is silent goes, who is not stays.
* Discovery: an initialized worker has the address at which the server can be
  reached, and `initialize` ends.
* Scaling: removed workers leave nothing behind, what a worker was told by the server
  that runs stays true, and no worker is started over or left with more to do.

## 2. Modules

```
 abstract                                concrete

 GradientBarrier      <--implements--  ParameterServer
    ^ extends                             ^ extends
 SynchronousTraining  <--implements--  Training
 CheckpointStore      <--implements--  Checkpointing

 GradientAveraging
 Coordinator
 Discovery <--extends-- Scaling

 MC modules:     MCParameterServer MCCheckpointing MCGradientAveraging
                 MCCoordinator MCDiscovery MCScaling
 proof modules:  GradientBarrierProofs ParameterServerProofs CheckpointingProofs
                 GradientAveragingProofs CoordinatorProofs ScalingProofs
                 TrainingProofs (extends Training and ParameterServerProofs)

 GradientBarrierProofs is about SynchronousTraining too.
```

Definitions have the names of the code where they stand for something that has one.
Each module keeps its deliberately broken definitions ("mutants") before the
definitions they could be mistaken for; none is part of a specification, and each
breaks the property it is listed with in `PROJECT.json`.

### GradientBarrier
What the server promises, without threads, locks or flags. `Contribute` is a stored
push, `Aggregate` closes a full iteration and appends one update to the model. It has
no run of its own: `ps_safety` checks that ParameterServer implements it, and what it
promises is proved.

### SynchronousTraining
The barrier with the workers' side of the promise. The server goes on (`Train`). A worker
is told that an iteration is in the model only when it is (`Tell`), and finishes an
iteration only when it was told so (`Complete`). The server may forget everything
(`Restart`), and what a worker was told before it still counts: between `Tell` and
`Complete` the answer is on its way, and the server that sent it may be gone when it
arrives. It may also not get through (`Miss`, `Forget`). There are no calls, attempts,
polls or lost requests: whatever Training adds of these must come down to one of these
actions or be unseen.

### CheckpointStore
The barrier with files that hold whole models: `Save` writes one down in a single step,
`Load` puts one back in a single step and leaves the contributions and the closed
iterations alone. `writing` is the file being written, at most one: it can be torn
(`Tear`, by a crash or a failed write), it cannot be loaded, and `Finish` and `Settle`
end the writing. No other file changes. The files, mutexes and pieces of Checkpointing
map to it by `Snapshots` and `Unfinished`: a file being written counts as written with
the model there is, which is sound only because nobody changes the model meanwhile.

### ParameterServer
The exchange, one action per stretch of a handler that no other thread can divide.
`EnterReceive` takes `state_mutex_` and compares the iteration with
`current_iteration_`; `RaiseIteration` writes it; `SkipAggregated` is the early
return; `StoreGradients` stores and counts, `AggregateGradients` is the section
under `params_mutex_`, `MarkAggregated` sets the flag and releases `state_mutex_`.
`ReplyReceive`, `ReplyServe` are the second critical sections in which the handlers
call `check_sync_status`. `CheckSyncStatus` is one section. A tensor list is the
sequence of updates folded into it, an update the iteration and the gradients
averaged; so "which gradients are in the model" can be asked of every state.
`current_iteration_` is written in a step of its own since the checkpoint code uses
it under another mutex, or none (a data race in C++: a reader may see the value
before or after each write).

### Training
Workers around that server. `OnPull`, `OnPush`, `OnPoll` are what `run_iteration`
does with an answer, including the last attempt's made-up tensor and the polls;
`Return` is what `main` does with `done`. `StartCall`, `RunHandler`, `SendAnswer`,
`TakeAnswer` carry a call to the server and back; an answer that was sent is in
`answered`, and arrives even when the server has stopped since. `LoseRequest`,
`LoseAnswer`, `StartLatePush` are the ways a call fails: before the server sees it, after
it has been handled, or with the push handled when its worker is already in another
attempt. `FailCall` is the worker's finding out. It need not: calls have no deadline,
so a worker whose connection broke silently, or whose server's machine went away, is in
`silent` and may wait for ever. `StopServer` and `StartServer` are the restart of the
server process, as `scripts/scale_workers.sh:181-186` does it: it comes back empty, if it
does. `RestartWorker` starts a worker again with iteration 0, and may leave a push on its
way. Gradients are the number of updates in the model they were computed from. Workers
have the server's address; how they get it is module Discovery.

### Checkpointing
Saving and loading next to the exchange, which waits for `params_mutex_` when it
needs the model. A file is what has been written so far: `OpenFile` truncates,
`WriteHeader`, `WriteFront` and `WriteBack` add the header and two halves of the
model. After a write that fails the stream takes nothing more, so the file is left with
some beginning of itself (`Beginnings`), and `save_checkpoint` returns true all the same:
nothing looks at the stream once it is open. `Return` takes the result back to the
handler or to the periodic thread, whose look at `current_iteration_` is `Look`. `LoadHeader` and `LoadTensors` read
what there is, with no check, as the code does; a model of which the last tensors
were missing ends with `Damaged`. `ReplyLoad` copies the model again, in another
critical section. `Crash` leaves only the files.

### GradientAveraging
The arithmetic on lists of tensors with names, shapes and data: `Mean` is the loop
nest of `receive_gradients`, `Update` is `aggregate_gradients`, `Push` applies both as
one step. Layouts differ because `Load` and `RestartServer` change the model between
the pulls of the workers, and because a worker without a model makes up a tensor
(`Dummy`). Numbers are integers in units of 1/`total_workers`, so the mean is the sum;
rounding is left out.

### Coordinator
The registry in time: a tick is a part of a second, a sleeping thread runs at most
`Delay` late. `remove_stale_workers` truncates ages to whole seconds before it compares
them, as `Stale` does, so an entry may outlive the timeout by almost a second.
`register_worker`, `update_heartbeat`, `Cleanup` (`remove_stale_workers`) on one side;
`StartWorker`, `Register`, `HeartbeatLoop`, `StopWorker` on the other. The heartbeat
thread starts before the worker is initialized, as in the constructor; a lost answer
to a registration makes the worker register again; a heartbeat's answer is ignored.

### Discovery
`initialize` as two queries, `discover_parameter_server` and
`register_with_coordinator`, each tried `max_attempts` times (`TryAgain`), against a
coordinator that may lose a call or its answer (`LoseQuery`), stop and start again
(`StopCoordinator`, `StartCoordinator`) or not be there (`FailQuery`). An address is the
sequence of what stands between its colons: `main_address` and `main_port` are what
`coordinator_main` makes of its argument, `GetParameterServerAddress` and
`RegisterResponse` what the coordinator answers, `TakeOver` what the worker does with
the second address. `DiscoveryInit` takes the workers that were started, so that Scaling
can start with fewer than there are machines for.

### Scaling
Workers that go through Discovery's `Initialize` and then `Train`, around a server with
`total_workers_` as a variable, and the script. It starts as `deploy.sh` leaves it, with
any number of workers (`Deployed`). `ScaleDown` is the branch of the script up to its
loop; `StopOldWorker` is the loop, with an `ssh` that fails unnoticed (`|| true`); `Apply`
is terraform destroying machines; `KillServer` and `StartServer` are the last two commands.
`KillServer` does not fail for lack of a server, since `sudo pkill -f parameter_server`
matches its own `sudo`. `FailScript` ends the script at any command where `set -e` does,
with nothing, some or all of the command's work done.

`ScaleUp` is all a scale-up ever does. `scripts/scale_workers.sh:116` has `jq` print the
new addresses as a JSON array; the first word of that is `[`, the loop at 118 waits for
`ssh` to answer on it, `wait_for_ssh` fails and `set -e` ends the script. So terraform has
the new number, and lines 122-148 (new workers, another server) are never reached.

`Pull`, `Push`, `PushFails`, `Poll` are the calls of `run_iteration`, each with its
handling as one step: what happens inside the server is the subject of ParameterServer
and Training. Any call may fail at any time, not only when something was lost: the workers
of `deploy.sh` are on machines of their own and are handed `localhost` (section 4).
`completed` keeps what a worker was told by the server that runs now.

## 3. What the runs check

| Run | Module, configuration | Shows |
|---|---|---|
| `ps_safety` | MCParameterServer, ParameterServer.cfg | `AppliedExactlyOnce`, `UpdateIsFinal`, `CompleteMeansApplied`, `NewModelIsMarkedReady`, `CountsMatchVerdict` in every interleaving of two handlers; `ImplementsBarrier`: refinement of GradientBarrier with its liveness. |
| `ps_ready` | MCParameterServer, ParameterServerReady.cfg | Finding: `ReadyMeansUpdated` is violated. |
| `training` | Training, Training.cfg | `DoneMeansContributed`, `OneBasis`, `InOrder`; `ImplementsSynchronous`: refinement of SynchronousTraining; `CallsRunOut`: with every step a worker has less left to do; `EveryRunEnds` (but for calls that never return), `EveryIterationApplied` under fairness. |
| `averaging` | MCGradientAveraging, GradientAveraging.cfg | `OrderIndependent`, `EveryElementUpdated`, `LayoutIsStable`. |
| `averaging_mixed` | MCGradientAveraging, GradientAveragingMixed.cfg | Finding: `CompleteMeansUpdated` is violated. |
| `coordinator` | MCCoordinator, Coordinator.cfg | `StaleIsEvicted`, `TimelyIsKept`. |
| `coordinator_listed` | MCCoordinator, CoordinatorListed.cfg | Finding: `LiveIsListed` is violated. |
| `checkpointing` | MCCheckpointing, Checkpointing.cfg | `FilesAreSnapshots`, `HeaderFits`, `OnlyFaultsDamage`, `NoneTwice`, and `ImplementsStore`: refinement of CheckpointStore, with two handlers and the periodic thread. |
| `checkpointing_crash` | MCCheckpointing, CheckpointingCrash.cfg | `EpochIsSaved`, and `ImplementsStore` again, with crashes, files that do not open and writes that fail, which harm only the file being written. |
| `checkpointing_torn` | MCCheckpointing, CheckpointingTorn.cfg | Finding: `LoadedMeansAvailable` is violated. |
| `discovery` | MCDiscovery, Discovery.cfg | Finding: `WorkerReachesServer` is violated with an address on the command line. |
| `scaling` | MCScaling, Scaling.cfg | `RemovedStayOut`, `DoneMeansContributed` through scale-downs, some of them cut short, and scale-ups that fail; `CallsRunOut`: no step starts a process over or leaves it more to do; `InitializationEnds` under fairness. |

One run of each component also checks its type invariant.

**Bounds, and why they are enough.**

* `ps_safety`: 2 threads, 3 workers, a quorum of 2, 2 iterations. There is a worker more
  than the quorum, so a push can come after the iteration is closed; two iterations can
  be open at once. Two threads give every pairwise interleaving. With one gradient value
  a worker repeats its push but does not change it: gradients that replace others of the
  same worker are in `training`, `averaging` and in the proofs, which cover any number of
  each.
* `training`: 2 workers and both needed, 2 iterations, 2 attempts instead of 3 and 2 polls
  instead of 200 (first and last), one fault of any kind at any point. It happens to the
  server or to worker `w1` (`Unlucky`): with one fault, and nothing that tells the workers
  apart, that it may happen to `w2` instead adds only mirror images. One fault is
  what tells a late push from an answered one; more only repeat it, at a cost: two
  faults are beyond the time a run should take. Two handler threads suffice for
  each worker's single call or one late push beside it; `StartCall` waits for a thread,
  as a call does in gRPC. The safety properties are proved for any number of everything.
* `averaging`: 2 workers, layouts of one and two tensors with 1 and 2 elements, the
  same name at different positions, values 1 and 2, two iterations.
* `averaging` compares orders of arrival, and the result with the pushed elements, only
  where all gradients of an iteration have one layout (`OrderIndependent`,
  `EveryElementUpdated`): with several layouts the last list pushed does decide, and
  `CompleteMeansUpdated` is the finding about that. `LayoutIsStable` is about any layouts.
* `coordinator`: two ticks to the second, heartbeats every 2 ticks, cleanup every 4, a
  timeout of 4 seconds, which is 8 ticks and with the truncation less than 10. With
  `Delay` 1 and two losses in a row the assumption on them is tight,
  (2 + 1) * (2 + 1) = 9 < 10, which is where an off-by-one would show. In the code
  (MaxLosses + 1) * (5 + Delay) < 31 allows four losses with a second's delay.
* `checkpointing`: two iterations in two epochs, two calls of SaveCheckpoint or
  LoadCheckpoint, so that a load can meet a save and a load another load. Iterations
  start with 1, which is a server that was restarted while its workers were past
  iteration 0; the periodic thread does nothing at 0. One worker and a quorum of 1 make
  every push change the model. `checkpointing_crash` has one handler and two faults,
  since it takes a second one to damage what was taken up again after the first.
  `OnlyFaultsDamage` is about the runs without faults only; what a crash leaves is in
  `ImplementsStore` and in the finding `LoadedMeansAvailable`.
* `scaling`: workers 0..2 of which any number is deployed, two scale-downs, so the second
  can start from one that went through or from one that failed, and scale-ups in between;
  1 iteration, 2 attempts of `run_iteration` and of a query (first and last), one fault
  of the script, of the coordinator or of a query. Two iterations with one attempt pass
  as well, in longer than a run should take. Safety is proved for any number of each.
  `discovery` keeps the code's 5 attempts.

Counters that only bound a model: `MaxFaults`, `MaxCalls`, `MaxRestarts`,
`MaxIteration`, `MaxScalings`, `Unlucky`. `MaxLosses` and `Delay` are assumptions on the environment.

**Fairness.**

* ParameterServer: weak fairness of each handler's own steps, that is of the
  operating system's scheduler. Calls need not arrive. Nothing is claimed for a
  thread that waits for a mutex others keep taking.
* Training: besides, workers run and a late push is taken up. Weak fairness is enough to
  get `state_mutex_` since each worker makes finitely many calls. No fairness of faults,
  none of a worker in `silent`, whose call nothing in the code ends, and none of
  `StartServer`: `deploy.sh` starts the programs with `nohup`, and the units
  `user_data.sh` writes are not enabled by it. `EveryRunEnds` holds all the same for
  the others, since calls to a server that is not there fail.
* Checkpointing: the periodic thread wakes up, savers and loaders run. None for the
  exchange, which may stop at any time.
* Scaling: the processes of the workers go on with `initialize`. Nobody has to run the
  script, to bring it to its end or to start a coordinator again; `InitializationEnds`
  holds because attempts are counted.
* Coordinator (only for the finding): time passes and due threads run.

## 4. Findings

Five statements of the repository that the code does not keep; each has a run that
ends in a counterexample.

* `ServeParameters` may answer `ready` with the model from before the update: copy and
  flag come from two critical sections (`src/parameter_server_service.cpp:62-65`
  against `proto/parameter_server.proto:43`). Workers do not use this flag. The
  converse, `NewModelIsMarkedReady`, is kept and proved.
* An iteration can be complete and ready though its average matched no tensor of the
  model and was dropped (`src/parameter_server.cpp:84` against the same comment).
* A live worker is never listed again after a restart of the coordinator: the refused
  heartbeat is ignored and `reconnect` is never called (`src/worker.cpp:228` against
  `scripts/README.md:100`).
* A file that a crash or a full disk left unfinished is loaded with success and leaves
  the server with part of a model or none (`src/parameter_server.cpp:154` against the
  comment in `src/worker.cpp:311`).
* With a server address on the coordinator's command line, as in
  `scripts/test_local.sh:34`, a worker ends with an address without a port: the
  coordinator cuts the port off (`src/coordinator_main.cpp:15-18`), `RegisterWorker`
  answers with the host alone, and the worker replaces the complete address it had by
  that answer (`src/worker.cpp:179-181` against `scripts/README.md:119`). Without an
  argument the default `localhost:50051` is never cut, but `deploy.sh` runs the coordinator
  so (`scripts/deploy.sh:131`, `scripts/start_coordinator.sh`) and puts the workers on other
  machines, where `localhost` is not the server. So `WorkerReachesServer` fails there too;
  Scaling therefore assumes of no call that it gets to the server.

Facts met on the way that limit properties rather than contradict a text:

* The retry after the polls (`src/worker.cpp:396`) is dead code: polls happen in the last
  attempt only.
* A checkpoint loaded into a running server leaves `last_checkpointed_epoch` where it was,
  so epochs trained again are not saved until they pass it; `EpochIsSaved` excuses
  everything after a load.
* It also leaves the flags: the iterations since the checkpoint was taken are out of the
  model and stay closed, so workers that train them again are told "complete" and
  nothing is averaged. `NoneTwice` is the other side of this; after a crash the flags
  are gone and a file can bring back what is then averaged again.
* No call has a deadline (`src/worker.cpp:267` and the others). `EveryRunEnds`,
  `CallsRunOut` and `InitializationEnds` bound attempts, queries and polls; of a call that
  never returns they say nothing, and nothing in the code ends it. `EveryRunEnds` excuses
  the workers such a call has caught.
* `run_iteration` may return true for an iteration of a server that is gone by then, when
  its answer was still on the way. The new server does not know the iteration, and the
  worker does not learn of it: `ImplementsSynchronous` promises the word of a server, and
  `DoneMeansContributed` the model only while no server was stopped.
* A failed write is not noticed: `save_checkpoint` checks that the file opened and returns
  true after the last write without a look at the stream.
* A scale-up never gets past `scripts/scale_workers.sh:118` (section 2), against "Scale
  Up" in `scripts/README.md`. It leaves machines without workers and terraform with the
  new count. This is read off the script rather than found by a run.
* Scaling down loses the model, as any restart of the server. Iterations that some
  workers have behind them and others have not when it is back are completed late, by
  other workers, or never.
* After a failure the script cannot simply be repeated: terraform may already have the
  new count, so the same number is refused.

## 5. Proofs

All theorems hold for every value of the constants that satisfies the modules'
assumptions. `tlapm` checks them without unproved steps. Every invariant, action
property and refinement that a passing run checks is proved; what is left to the runs is
liveness and the fairness half of `ImplementsBarrier`.

**GradientBarrierProofs**. `BarrierKept`: with `CountInv` (an iteration never has more
contributors than `total_workers`, and closes when it has as many) `BarrierSafe` is
inductive. `BarrierOutlivesServers` is the same for SynchronousTraining, where the
server forgets everything at any moment: each of its lives keeps the promise.

**ParameterServerProofs** (from `ParameterServerAssumption`: finitely many workers,
iterations are naturals, `total_workers` positive). `IInv` is inductive; `Invariant`,
then `TypeCorrect`, `AppliedOnce`, `UpdatesAreFinal`, `VerdictsAreTrue`,
`NewModelsAreMarked` and `CountsFit` follow. The safety properties alone are not
inductive: they say nothing of the states between storing the last gradients and
setting the flag. `LockInv` says who may be there (the holder of `state_mutex_`),
`QuorumInv` that sender count, flag and that thread agree, so a count never passes
`total_workers`, `FoldingInv` that the thread folds an iteration not folded before,
and `VerdictInv` that an answer under construction is backed by the flag. There is one
lemma per part of the invariant with one step per action. `RefinesBarrier` maps
`StoreGradients` to `Contribute`, `AggregateGradients` to `Aggregate` and every other
step to a stutter; the fairness half of `ImplementsBarrier` is model-checked only.

**TrainingProofs** (from `TrainingAssumption` besides). `TrainingTypeCorrect`,
`DoneIsContributed`, `AppliedInOrder`, `OneModelPerUpdate`. The server's `IInv` carries
over: a call is a step of ParameterServer or leaves it alone, and `StopServer` leads to
its initial state. `CallInv` ties an answer to the call its worker waits for, so a
worker that counts an iteration as completed finds its flag set (`DoneInv`). While no
call fails, a worker leaves an iteration only with its gradients stored or found too
late (`OrderInv`); so whoever is a sender of an iteration was one of all earlier ones,
a full iteration is preceded by full ones, and iterations enter the model in order.
`BasisInv` bounds the number of updates behind a worker's gradients, a copy of the model
or a stored push from both sides: at least as many as there are earlier iterations,
since the worker had completed them all, and, once stored in an open iteration, no more
than that, since order left nothing else to be in the model. That this type invariant
needs the exchange's proof is no accident: that a count of updates stays in its range
takes `AppliedExactlyOnce` and the pigeonhole principle.

`RefinesSynchronous` maps the steps of the server as in `RefinesBarrier`, `StopServer` to
`Restart`, the sending of an answer with a true verdict to `Tell`, its taking to
`Complete` and its loss to `Miss`; every other step of a worker or a call is a stutter. The
guard of `Tell` is what has to be shown: `VerdictInv` has the flag back every true answer a
server sends, and a flag that is set belongs to an update in that server's model.
`InboxInv` keeps an answer on its way tied to the call its worker waits for, so what the
worker completes is the iteration it was told of, and no handler serves it besides.

`StepsRunOut` is the safety core of `EveryRunEnds`. `Left(w)` weighs the iterations,
attempts and polls a worker has before it, and the theorem says that any step but the
worker's own restart makes it smaller, a natural number: an answer of any content, a
refused call, a lost one. Its proof has a lemma for each handler (`PullIsCloser`,
`PushIsCloser`, `PollIsCloser`) and shows that nothing else moves the worker. Since
restarts are bounded, no worker can go on for ever; that it goes on at all is fairness
and left to the run.

**CheckpointingProofs** (from `CheckpointingAssumption` and the server's).
`CheckpointTypeCorrect`, `SnapshotsAreTaken`, `HeadersFit`, `OnlyFaultsDamageModels`,
`NothingAppliedTwice`. `StateMutexInv` and `ParamsMutexInv` say which threads may be where
under the two mutexes; `ProgressInv` that a file being written is as far as its writer
and holds the present model; `DamageInv` that without faults an unfinished file has a
writer, hence no reader; `SettledInv` that every update in the model or in any file has
its flag set, or about to be; `RaiseInv` that without loads `current_iteration_` only
grows, which `HeaderInv` needs because epoch, header and model are read at three moments.
`RefinesStore` maps `OpenFile` to `Save`, `WriteBack` to `Finish`, or with `BeginningsAre` to
a torn file when it fails, `LoadTensors` to `Load`, `Crash` to a crash that settles the file
being written, and every other piece of a save or load to a stutter. `ProgressInv` makes
the stutters: what is still to be written is what the model was when the file was opened.
`QuorumInv` is there for the exchange, whose pushes must find their iteration not full
also after loads have changed the model under it.

**ScalingProofs** (from `ScalingAssumption`, `DiscoveryAssumption`). `ScalingTypeCorrect`,
`RemovedWorkersStayOut`, `CompletedMeansContributed`. `AliveInv`: while the script rests,
or once it has applied its change, only workers below the number it left run. `LossInv`:
nothing is left of a server that is down. From these, `ScopeInv`: what the server has when
the script rests it has from its `total_workers_` workers, so an average over that many is
one over all of them. `StepsRunOut`: `Left(w)` weighs the queries of initialize and the
calls of every iteration ahead; steps of other workers and of the script leave it alone
or stop the process. `FreshInv` has a worker that gets through initialize have all its
iterations ahead, and no more.

**GradientAveragingProofs** (from `AveragingAssumption`). `TypeCorrect`,
`OrderDoesNotMatter`, `LayoutStays`, `ElementsAreUpdated`. `MeanOfUniform` is the core of
the first ones: two lists of one layout give the same mean, whichever is last, because
only names, shapes and domains are taken from it. `MeanKeepsLayout` and
`UpdateKeepsLayout` say what the two operators preserve. `ElementsAreUpdated` compares
two sums over the workers, one of elements that are there and one that skips what is
not. Both are folds, that is, a CHOOSE of a function with a recursive equation; that
there is exactly one such function on the subsets of a finite set is proved by taking a
smallest subset on which it fails (`SmallestSubset`), which stands in for the induction
principle the prover cannot instantiate. `DataInv` has all data be integers.

**CoordinatorProofs** (from `CoordinatorAssumption`). `TypeCorrect`, `StaleEntriesGo`,
`TimelyWorkersStay`. `AgeInv`: an entry is at most as old as the timeout and the time
since the last cleanup. `FreshInv`: the entry of a known worker is as old as its lost
heartbeats, each a period, and the time since the last attempt. Lemma `Truncation` says
what the division by `second` does: whole seconds exceed the timeout exactly from
`Expiry`, (timeout + 1) * second, on. `TimelyIsKept` then needs
(MaxLosses + 1) * (heartbeat_interval + Delay) < `Expiry`, which is the assumption on
the constants.

Model-checked only: liveness, which takes fairness and ENABLED. That is `EveryRunEnds`,
`EveryIterationApplied`, `EpochIsSaved`, `InitializationEnds` and the fairness of the
barrier in `ImplementsBarrier`. The findings are counterexamples and nothing to prove.

## 6. Not modelled

* **Multi-GPU averaging.** `nccl_manager.cpp` is compiled only where CMake finds CUDA and
  NCCL, and one thread uses it. What there is to say about it is whether a collective
  blocks, fails or completes on a stream, and that is decided in libraries the
  repository does not specify.
* **Recovery as a whole.** Training with Checkpointing: what a worker that loads a
  checkpoint on every restart (`src/worker_main.cpp:28`) does to the training of the
  others. Both halves are modelled, and `NoneTwice` covers their meeting point; the product
  of the two state spaces is beyond a run of a few minutes, and no text of the
  repository promises more than `NoneTwice` says. Its abstract form
  would be SynchronousTraining with the `Load` of CheckpointStore; it is the next module to
  write, for the proof rather than for a run.
* **Deployment and infrastructure.** `deploy.sh`, `start_*.sh`, `test_local.sh` and the
  terraform files start processes or declare machines. What they leave behind is the
  initial state of Scaling and the configuration of the runs. The part of
  `scale_workers.sh` behind line 118 of a scale-up is never reached and not modelled.
* Serialisation of messages, byte layout of files, rounding, sleeps other than the
  registry's timers, and the build. `ListWorkers` reads without changing anything.

Hazards of `PROJECT.json` that no property covers, with their reasons:

* `total_workers` comes unchecked from the command line (`src/parameter_server.cpp:37`). It
  is assumed positive: other values are mistakes of configuration that involve no
  behaviour of the protocol.
* No call has a deadline (`src/worker.cpp:267`): modelled, and excused, see section 4.
* `initialized_` is shared without synchronization (`src/worker.cpp:217`). A heartbeat
  thread that sees it late is a delay, within `Delay` or not; one that never sees it
  loses the worker its entry, and no property of the program can hold against that.
* The answer of `LoadCheckpoint` is copied in a second critical section
  (`src/parameter_server_service.cpp:126`). It is modelled, and nothing depends on it:
  its only caller drops the parameters.
* `last_checkpointed_epoch` survives a load (`src/parameter_server_service.cpp:151`): see
  section 4; there is no promise to check.
