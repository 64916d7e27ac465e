---------------------------- MODULE CheckpointStore ----------------------------
(***************************************************************************)
(* What checkpoints promise, with no mutexes, pieces of files or threads:  *)
(* saving writes the whole model down at one moment, loading puts back at  *)
(* one moment what was written, and all the while the server is the        *)
(* barrier of GradientBarrier, which closes an iteration once until it     *)
(* crashes.  A crash loses everything but the files.                       *)
(*                                                                         *)
(* Writing takes time, though, and is not safe from faults: a disk that is *)
(* full, or a crash, may leave half of the file that is being written.  It *)
(* is not loaded before it is finished, and no other file is ever harmed.  *)
(***************************************************************************)
EXTENDS GradientBarrier

CONSTANTS
  Epochs,   \* names of the files
  Damaged   \* ends a model of which half is missing

VARIABLES
  closed,   \* iterations that are closed; loading does not open them again
  stored,   \* stored[e]: <<>> if there is no file, else <<its model>>
  writing   \* the file that is saved and not finished, if any

storeVars == <<vars, closed, stored, writing>>

StoreInit ==
  /\ Init
  /\ closed = {}
  /\ stored = [e \in Epochs |-> <<>>]
  /\ writing = {}

\* The exchange of gradients.
Push ==
  /\ \E i \in Iterations \ closed, w \in Workers, g \in Gradients : Contribute(w, i, g)
  /\ UNCHANGED <<closed, stored, writing>>

\* An iteration is folded into whatever model there is.
Close(i) ==
  /\ i \notin closed
  /\ Full(contributed[i])
  /\ model' = Append(model, [iteration |-> i, contributions |-> contributed[i]])
  /\ closed' = closed \cup {i}
  /\ UNCHANGED <<contributed, stored, writing>>

Write(e, m) == stored' = [stored EXCEPT ![e] = <<m>>]

\* One file is written at a time.
Save(e) ==
  /\ writing = {}
  /\ Write(e, model)
  /\ writing' = {e}
  /\ UNCHANGED <<vars, closed>>

\* Of a model that is being written there may be left nothing or a part.
Tear(e) == \E m \in {<<>>, Append(stored[e][1], Damaged)} : Write(e, m)

\* An end of the writing, good or bad.
Settle(e) ==
  /\ e \in writing
  /\ writing' = {}
  /\ UNCHANGED stored \/ Tear(e)

Finish(e) == Settle(e) /\ UNCHANGED <<vars, closed>>

Load(e) ==
  /\ stored[e] # <<>>
  /\ e \notin writing
  /\ model' = stored[e][1]
  /\ UNCHANGED <<contributed, closed, stored, writing>>

Crash ==
  /\ contributed' = [i \in Iterations |-> [w \in Workers |-> NoGradient]]
  /\ model' = <<>>
  /\ closed' = {}
  /\ \/ writing = {} /\ UNCHANGED <<stored, writing>>
     \/ \E e \in Epochs : Settle(e)

StoreNext ==
  \/ Push
  \/ \E i \in Iterations : Close(i)
  \/ \E e \in Epochs : Save(e) \/ Finish(e) \/ Load(e)
  \/ Crash

StoreSpec == StoreInit /\ [][StoreNext]_storeVars
=============================================================================
