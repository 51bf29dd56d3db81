------------------------------ MODULE MCPromises ------------------------------
(***************************************************************************)
(* Callback lists, deferreds, the ready list and the data of elements of   *)
(* jquery.js: `scene' says which of the four machines moves.               *)
(***************************************************************************)
EXTENDS Deferred, Ready, Data

VARIABLE scene
promisesVars == <<scene, callbackVars, deferredVars, readyVars, dataVars>>

\* Constructor flags of a list: none, those of a deferred, and the others.
SomeOptions == {{}, {"once"}, {"memory"}, {"once", "memory"}, {"unique", "memory"},
                {"stopOnFalse", "memory"}}

PromisesInit ==
  /\ scene \in {"callbacks", "deferred", "ready", "data"}
  /\ CallbacksInit /\ (scene # "callbacks" => list.options = {})
  /\ DeferredInit /\ ReadyInit /\ DataInit

CallbacksMove == scene = "callbacks" /\ CallbacksNext /\ UNCHANGED <<scene, deferredVars, readyVars, dataVars>>
DeferredMove == scene = "deferred" /\ DeferredNext /\ UNCHANGED <<scene, callbackVars, readyVars, dataVars>>
ReadyMove == scene = "ready" /\ ReadyNext /\ UNCHANGED <<scene, callbackVars, deferredVars, dataVars>>
DataMove == scene = "data" /\ DataNext /\ UNCHANGED <<scene, callbackVars, deferredVars, readyVars>>

PromisesSpec ==
  PromisesInit /\ [][CallbacksMove \/ DeferredMove \/ ReadyMove \/ DataMove]_promisesVars
=============================================================================
