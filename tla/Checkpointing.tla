---------------------------- MODULE Checkpointing ----------------------------
(***************************************************************************)
(* Checkpoints of the parameter server: save_checkpoint, load_checkpoint,  *)
(* the handlers that call them and the thread that saves periodically      *)
(* (src/parameter_server.cpp, src/parameter_server_service.cpp), running   *)
(* beside the gradient exchange of module ParameterServer in a server that *)
(* may crash and be started again with nothing but its files.              *)
(*                                                                         *)
(* Saving and loading hold params_mutex_ and go through the file piece by  *)
(* piece, so params_mutex_ is a variable here, which the exchange waits    *)
(* for when it needs the model.  current_iteration_ is none of its         *)
(* business: it is read and written here without state_mutex_.             *)
(*                                                                         *)
(* Data: a file is named after its epoch.  Its pieces are the header, with *)
(* epoch and iteration, and two halves of the model, the tensors that are  *)
(* written first and those that are written last, of which a file holds a  *)
(* prefix.  A model is what it is in ParameterServer, the sequence of its  *)
(* updates, and ends with Damaged when half of its tensors are missing.    *)
(***************************************************************************)
EXTENDS ParameterServer, Integers

CONSTANTS
  Saver,                \* the thread of periodic_checkpoint
  checkpoint_interval,  \* iterations of an epoch (10 by default)
  MaxCalls,             \* bound: calls of SaveCheckpoint and LoadCheckpoint
  MaxFaults             \* bound: crashes, files not opened or not written

EpochOf(i) == i \div checkpoint_interval
Epochs == {EpochOf(i) : i \in Iterations \cup {0}}

ASSUME CheckpointingAssumption ==
  /\ Saver \notin Threads \cup {NoThread}
  /\ checkpoint_interval \in Nat \ {0}
  /\ {MaxCalls, MaxFaults} \subseteq Nat

VARIABLES
  params_mutex_,            \* the thread that saves or loads, or NoThread
  files,                    \* files[e]: checkpoint_epoch_<e>.ckpt
  saving,                   \* saving[p]: where p is in save_checkpoint
  epoch,                    \* epoch[p]: the epoch p saves, or t loads
  last_checkpointed_epoch,  \* local of periodic_checkpoint
  saves,                    \* calls of SaveCheckpoint so far
  loads,                    \* calls of LoadCheckpoint so far
  crashes,                  \* crashes so far
  open_errors,              \* files that could not be opened for writing
  write_errors              \* files that could not be written to the end

callVars == <<saves, loads>>
faultVars == <<crashes, open_errors, write_errors>>
fileVars == <<params_mutex_, files, saving, epoch, last_checkpointed_epoch>>
checkpointVars == <<vars, fileVars, callVars, faultVars>>

Savers == Threads \cup {Saver}
Damaged == [iteration |-> -1, contributions |-> [w \in Workers |-> NoGradient]]
Model == Seq(Update \cup {Damaged})

NoFile == [part |-> "none", iteration |-> 0, front |-> <<>>, back |-> <<>>]
Parts == {"none", "empty", "header", "front", "complete"}
File == [part : Parts, iteration : Nat, front : Model, back : Model]

\* Handlers of SaveCheckpoint, and of LoadCheckpoint before it has the mutex,
\* between header and tensors, and between loading and answering.
CheckpointStages == {"saving", "load", "loading", "loaded"}

CheckpointTypeOK ==
  /\ current_iteration_ \in Nat
  /\ parameters_ \in Model
  /\ worker_gradients \in [Iterations -> Contributions]
  /\ aggregated \in [Iterations -> BOOLEAN]
  /\ state_mutex_ \in Threads \cup {NoThread}
  /\ pc \in [Threads -> Stages \cup CheckpointStages]
  /\ params_mutex_ \in Savers \cup {NoThread}
  /\ files \in [Epochs -> File]
  /\ saving \in [Savers -> {"no", "open", "header", "front", "back"}]
  /\ epoch \in [Savers -> Epochs]
  /\ last_checkpointed_epoch \in Epochs \cup {-1}

CheckpointInit ==
  /\ Init
  /\ params_mutex_ = NoThread
  /\ files = [e \in Epochs |-> NoFile]
  /\ saving = [p \in Savers |-> "no"]
  /\ epoch = [p \in Savers |-> 0]
  /\ last_checkpointed_epoch = -1
  /\ saves = 0 /\ loads = 0
  /\ crashes = 0 /\ open_errors = 0 /\ write_errors = 0

Complete(e) == files[e].part = "complete"

ParamsFree == params_mutex_ = NoThread

MayFail == crashes + open_errors + write_errors < MaxFaults

-----------------------------------------------------------------------------
(* save_checkpoint *)

NextPiece(p, piece) == saving' = [saving EXCEPT ![p] = piece]

\* save_checkpoint returns to the thread that called it: the handler answers,
\* periodic_checkpoint notes the epoch if all went well.
Return(p, success) ==
  /\ NextPiece(p, "no")
  /\ \/ /\ p = Saver
        /\ last_checkpointed_epoch' = IF success THEN epoch[p] ELSE last_checkpointed_epoch
        /\ UNCHANGED <<pc, response>>
     \/ /\ p # Saver
        /\ response' = [response EXCEPT ![p] = Verdict(success, 0)]
        /\ Goto(p, "replied")
        /\ UNCHANGED last_checkpointed_epoch

\* The file is opened, which empties it, or cannot be opened.
OpenFile(p) ==
  /\ saving[p] = "open"
  /\ ParamsFree
  /\ \/ /\ params_mutex_' = p
        /\ files' = [files EXCEPT ![epoch[p]] = [NoFile EXCEPT !.part = "empty"]]
        /\ NextPiece(p, "header")
        /\ UNCHANGED <<pc, response, last_checkpointed_epoch, open_errors>>
     \/ /\ MayFail
        /\ open_errors' = open_errors + 1
        /\ Return(p, FALSE)
        /\ UNCHANGED <<params_mutex_, files>>
  /\ UNCHANGED <<coreVars, state_mutex_, request, epoch, callVars, crashes, write_errors>>

WriteHeader(p) ==
  /\ saving[p] = "header"
  /\ files' = [files EXCEPT ![epoch[p]].part = "header",
                            ![epoch[p]].iteration = current_iteration_]
  /\ NextPiece(p, "front")
  /\ UNCHANGED <<vars, params_mutex_, epoch, last_checkpointed_epoch, callVars, faultVars>>

\* Mutant of KeepParamsMutex: the model is not locked while it is written.
DropParamsMutex == params_mutex_' = NoThread

\* The lock_guard of save_checkpoint lasts until it returns.
KeepParamsMutex == UNCHANGED params_mutex_

WriteFront(p) ==
  /\ saving[p] = "front"
  /\ files' = [files EXCEPT ![epoch[p]].part = "front", ![epoch[p]].front = parameters_]
  /\ NextPiece(p, "back")
  /\ KeepParamsMutex
  /\ UNCHANGED <<vars, epoch, last_checkpointed_epoch, callVars, faultVars>>

\* What may be on the disk of a file whose front has been written.
Beginnings(f) ==
  LET empty == [NoFile EXCEPT !.part = "empty"]
  IN  {empty, [empty EXCEPT !.part = "header", !.iteration = f.iteration], f}

\* The rest is written.  Or a write has failed, this one or an earlier one: the
\* stream takes nothing more from then on, and save_checkpoint, which never
\* looks, returns true all the same.
WriteBack(p) ==
  /\ saving[p] = "back"
  /\ \/ /\ files' = [files EXCEPT ![epoch[p]].part = "complete", ![epoch[p]].back = parameters_]
        /\ UNCHANGED write_errors
     \/ /\ MayFail
        /\ write_errors' = write_errors + 1
        /\ \E f \in Beginnings(files[epoch[p]]) : files' = [files EXCEPT ![epoch[p]] = f]
  /\ params_mutex_' = NoThread
  /\ Return(p, TRUE)
  /\ UNCHANGED <<coreVars, state_mutex_, request, epoch, callVars, crashes, open_errors>>

Save(p) == OpenFile(p) \/ WriteHeader(p) \/ WriteFront(p) \/ WriteBack(p)

-----------------------------------------------------------------------------
(* Who saves *)

\* Mutant of CurrentEpoch: the division is forgotten.
CurrentIteration == current_iteration_

CurrentEpoch == EpochOf(current_iteration_)

\* Mutant of Due: epochs are counted from the last look.
DueLater(e) == e > last_checkpointed_epoch + 1 /\ current_iteration_ > 0

Due(e) == e > last_checkpointed_epoch /\ current_iteration_ > 0

\* periodic_checkpoint has slept and reads current_iteration_, with no lock.
Look ==
  /\ saving[Saver] = "no"
  /\ Due(CurrentEpoch)
  /\ epoch' = [epoch EXCEPT ![Saver] = CurrentEpoch]
  /\ NextPiece(Saver, "open")
  /\ UNCHANGED <<vars, params_mutex_, files, last_checkpointed_epoch, callVars, faultVars>>

SaveCheckpoint(t, e) ==
  /\ saves + loads < MaxCalls
  /\ saves' = saves + 1
  /\ pc[t] = "idle"
  /\ Goto(t, "saving")
  /\ epoch' = [epoch EXCEPT ![t] = e]
  /\ NextPiece(t, "open")
  /\ UNCHANGED <<coreVars, state_mutex_, request, response,
                 params_mutex_, files, last_checkpointed_epoch, loads, faultVars>>

-----------------------------------------------------------------------------
(* load_checkpoint *)

LoadCheckpoint(t, e) ==
  /\ saves + loads < MaxCalls
  /\ loads' = loads + 1
  /\ pc[t] = "idle"
  /\ Goto(t, "load")
  /\ epoch' = [epoch EXCEPT ![t] = e]
  /\ UNCHANGED <<coreVars, state_mutex_, request, response, params_mutex_, files, saving,
                 last_checkpointed_epoch, saves, faultVars>>

\* Mutant of MayLoad: load_checkpoint does not wait for the mutex.
MayLoadAnytime == TRUE

\* The lock_guard of load_checkpoint.
MayLoad == ParamsFree

\* There must be a file; what a read does not find keeps its value.
LoadHeader(t) ==
  LET f == files[epoch[t]]
  IN  /\ pc[t] = "load"
      /\ MayLoad
      /\ \/ /\ f.part = "none"
            /\ response' = [response EXCEPT ![t] = Verdict(FALSE, 0)]
            /\ Goto(t, "replied")
            /\ UNCHANGED <<current_iteration_, params_mutex_>>
         \/ /\ f.part # "none"
            /\ params_mutex_' = t
            /\ current_iteration_' = IF f.part = "empty" THEN current_iteration_ ELSE f.iteration
            /\ Goto(t, "loading")
            /\ UNCHANGED response
      /\ UNCHANGED <<parameters_, worker_gradients, aggregated, state_mutex_, request,
                     files, saving, epoch, last_checkpointed_epoch, callVars, faultVars>>

\* Mutant of KeepStates: the server starts over with the loaded model.
ForgetStates ==
  /\ worker_gradients' = [i \in Iterations |-> [w \in Workers |-> NoGradient]]
  /\ aggregated' = [i \in Iterations |-> FALSE]

\* load_checkpoint leaves the gradients and flags of the iterations alone.
KeepStates == UNCHANGED <<worker_gradients, aggregated>>

\* What there is of a model in file f.
Contents(f) ==
  CASE f.part \in {"empty", "header"} -> <<>>
    [] f.part = "front" -> IF f.front = <<>> THEN <<>> ELSE Append(f.front, Damaged)
    [] f.part = "complete" -> f.back

\* The model is replaced by what there is of one in the file.
LoadTensors(t) ==
  /\ pc[t] = "loading"
  /\ parameters_' = Contents(files[epoch[t]])
  /\ KeepStates
  /\ params_mutex_' = NoThread
  /\ Goto(t, "loaded")
  /\ UNCHANGED <<current_iteration_, state_mutex_, request, response, files,
                 saving, epoch, last_checkpointed_epoch, callVars, faultVars>>

\* The handler copies the model, in a second critical section, and answers.
ReplyLoad(t) ==
  /\ pc[t] = "loaded"
  /\ ParamsFree
  /\ response' = [response EXCEPT ![t] =
       [parameters |-> parameters_, ready |-> TRUE, workers_received |-> 0]]
  /\ Goto(t, "replied")
  /\ UNCHANGED <<coreVars, state_mutex_, request, fileVars, callVars, faultVars>>

Load(t) == LoadHeader(t) \/ LoadTensors(t) \/ ReplyLoad(t)

-----------------------------------------------------------------------------
\* A step of the exchange; the model cannot be had while it is saved or loaded.
Exchange(t) ==
  /\ NewCall(t) \/ HandlerStep(t) \/ FinishCall(t)
  /\ pc[t] = "averaging" \/ pc'[t] = "served" => ParamsFree
  /\ UNCHANGED <<fileVars, callVars, faultVars>>

\* The server crashes and is started again.
Crash ==
  /\ MayFail
  /\ crashes' = crashes + 1
  /\ current_iteration_' = 0
  /\ parameters_' = <<>>
  /\ worker_gradients' = [i \in Iterations |-> [w \in Workers |-> NoGradient]]
  /\ aggregated' = [i \in Iterations |-> FALSE]
  /\ state_mutex_' = NoThread
  /\ pc' = [t \in Threads |-> "idle"]
  /\ request' = [t \in Threads |-> NoRequest]
  /\ response' = [t \in Threads |-> NoResponse]
  /\ params_mutex_' = NoThread
  /\ saving' = [p \in Savers |-> "no"]
  /\ epoch' = [p \in Savers |-> 0]
  /\ last_checkpointed_epoch' = -1
  /\ UNCHANGED <<files, callVars, open_errors, write_errors>>

CheckpointNext ==
  \/ \E t \in Threads :
       \/ Exchange(t)
       \/ \E e \in Epochs : SaveCheckpoint(t, e) \/ LoadCheckpoint(t, e)
       \/ Load(t)
  \/ \E p \in Savers : Save(p)
  \/ Look
  \/ Crash

CheckpointSpec == CheckpointInit /\ [][CheckpointNext]_checkpointVars

\* Threads that can run do, and periodic_checkpoint wakes up.
FairCheckpointSpec ==
  /\ CheckpointSpec
  /\ WF_checkpointVars(Look)
  /\ \A p \in Savers : WF_checkpointVars(Save(p))
  /\ \A t \in Threads : WF_checkpointVars(Load(t))

-----------------------------------------------------------------------------
\* A file written to its end holds one model, as it was at one moment, though
\* pushes go on and are averaged while it is written.
FilesAreSnapshots == \A e \in Epochs : Complete(e) => files[e].front = files[e].back

\* Until a checkpoint is loaded, the iteration in a file is one of the epoch it
\* is named after or a later one, and no update in the file is of a later
\* iteration: the model, the iteration and the epoch, read at three moments
\* under three different locks or none, still fit together.
HeaderFits ==
  loads = 0 =>
    \A e \in Epochs : Complete(e) =>
      /\ saves = 0 => EpochOf(files[e].iteration) >= e
      /\ \A k \in 1..Len(files[e].back) : files[e].back[k].iteration <= files[e].iteration

\* What is in a model was averaged: a damaged model comes from a file that a
\* crash or an error left unfinished, never from reading a file while it is
\* written.
OnlyFaultsDamage ==
  crashes + write_errors = 0 => \A k \in 1..Len(parameters_) : parameters_[k] # Damaged

\* However often the model is saved and taken back by a load, a worker that is
\* restarted with a checkpoint and trains again (src/worker_main.cpp:28) gets
\* no iteration into the model twice: the flags survive a load.  After a crash
\* they do not, and a file can bring back what is then averaged again.
Distinct(model) ==
  \A j, k \in 1..Len(model) :
    model[j] # Damaged /\ model[j].iteration = model[k].iteration => j = k

NoneTwice == crashes = 0 => Distinct(parameters_)

\* The iterations whose flag is set, or about to be.
Done == {i \in Iterations : aggregated[i] \/ Marking(i)}

\* The models in the files, one that is being written as if it were written.
Writing == {"header", "front", "back"}
BeingWritten(e) == \E p \in Savers : saving[p] \in Writing /\ epoch[p] = e
Unfinished == {e \in Epochs : BeingWritten(e)}
Snapshots ==
  [e \in Epochs |-> IF BeingWritten(e) THEN <<parameters_>>
                    ELSE IF files[e].part = "none" THEN <<>> ELSE <<Contents(files[e])>>]

\* Piece by piece as they are, saves and loads are as good as single steps for
\* the exchange, for each other and for a server that takes up the files of
\* another: CheckpointStore.  A fault harms no file but the one that is being
\* written, and no load or save opens an iteration again or changes what
\* was pushed for it.
Store == INSTANCE CheckpointStore WITH
  contributed <- worker_gradients, model <- parameters_, closed <- Done,
  stored <- Snapshots, writing <- Unfinished
ImplementsStore == Store!StoreSpec

\* While a server runs and its writes succeed, the epoch it is in gets a
\* checkpoint, unless training goes on to another epoch first.  Loading an
\* earlier checkpoint puts an end to that: last_checkpointed_epoch stays.
EpochIsSaved ==
  \A e \in Epochs :
    (current_iteration_ > 0 /\ CurrentEpoch = e)
      ~> \/ Complete(e)
         \/ current_iteration_ = 0 \/ CurrentEpoch # e
         \/ write_errors > 0 \/ loads > 0

\* "Parameters are loaded into the parameter server, so they'll be available on
\* the next pull_parameters call" (src/worker.cpp:311): load_checkpoint has
\* succeeded only if there was a model to load.
LoadedMeansAvailable ==
  \A t \in Threads : pc[t] = "loaded" => Complete(epoch[t])
=============================================================================
