------------------------------- MODULE Callbacks -------------------------------
(***************************************************************************)
(* jQuery.Callbacks: a list of functions that is fired with values.  The   *)
(* script is single-threaded, so what makes the list hard is re-entrance:  *)
(* a callback may add, remove, empty, disable, lock or fire the very list  *)
(* that is calling it, and it may throw.                                   *)
(*                                                                         *)
(* The first part are the operations on a list as functions of its closure *)
(* variables (Deferred uses them as well); the second part is one list and *)
(* arbitrary code that uses it, at the top level or inside a callback.     *)
(* index is firingIndex + 1, the number of the callback called last.       *)
(***************************************************************************)
EXTENDS Lists

CONSTANTS
  Fns,             \* functions that may be added
  ListOptions,     \* option sets a list is created with
  MaxOperations    \* bound on the calls that use the list

ASSUME ListOptionsAssumption ==
  \A o \in ListOptions : o \subseteq {"once", "memory", "unique", "stopOnFalse"}

\* undefined, "" and false: no memory.
NoValue == 0

NewList(o) ==
  [options |-> o, fns |-> << >>, queue |-> << >>, firing |-> FALSE, index |-> 0,
   memory |-> NoValue, locked |-> FALSE, alive |-> TRUE]

\* fire() up to its first callback; both its callers have queued a value.
Fire(l) ==
  [l EXCEPT !.locked = @ \/ "once" \in l.options, !.firing = TRUE,
            !.memory = Head(l.queue), !.queue = Tail(@)]

\* A fire inside a callback only queues its value.
FireWith(l, v) ==
  LET queued == [l EXCEPT !.queue = Append(@, v)]
  IN IF l.locked THEN l ELSE IF l.firing THEN queued ELSE Fire(queued)

Has(l, f) == \E i \in DOMAIN l.fns : l.fns[i].fn = f

\* A list with a memory calls the new function at once, with the last value.
AddTo(l, e) ==
  LET added == IF "unique" \in l.options /\ Has(l, e.fn)
               THEN l ELSE [l EXCEPT !.fns = Append(@, e)]
  IN IF ~ l.alive THEN l
     ELSE IF l.memory = NoValue \/ l.firing THEN added
     ELSE Fire([added EXCEPT !.index = Len(l.fns), !.queue = Append(@, l.memory)])

Others(l, f) == {i \in DOMAIN l.fns : l.fns[i].fn # f}

\* Mutant: the index of the running callback is left alone.
RemoveKeepingIndex(l, f) == [l EXCEPT !.fns = Kept(@, Others(l, f))]

\* Every occurrence goes; those up to the running callback move it back.
RemoveFrom(l, f) ==
  LET gone == {i \in DOMAIN l.fns : l.fns[i].fn = f /\ i <= l.index}
  IN [l EXCEPT !.fns = Kept(@, Others(l, f)), !.index = @ - Cardinality(gone)]

EmptyList(l) == [l EXCEPT !.fns = << >>]

\* Mutant: a disabled list can be fired.
DisableListOpen(l) ==
  [l EXCEPT !.queue = << >>, !.fns = << >>, !.memory = NoValue]

DisableList(l) ==
  [l EXCEPT !.locked = TRUE, !.queue = << >>, !.fns = << >>, !.memory = NoValue,
            !.alive = FALSE]

\* Without a memory to hand on, and not firing, the list is spent.
LockList(l) ==
  IF l.memory = NoValue /\ ~ l.firing THEN DisableList(l)
  ELSE [l EXCEPT !.locked = TRUE, !.queue = << >>]

AtEnd(l) == l.index >= Len(l.fns)

NextValueOf(l) == [l EXCEPT !.index = 0, !.memory = Head(l.queue), !.queue = Tail(@)]

\* stopOnFalse: the rest is skipped and the value is forgotten.
StopValue(l) == [l EXCEPT !.index = Len(l.fns), !.memory = NoValue]

\* The end of fire(): a locked list keeps nothing but its memory.
EndOfFire(l) ==
  LET kept == IF "memory" \in l.options THEN l.memory ELSE NoValue
  IN [l EXCEPT !.index = 0, !.firing = FALSE, !.memory = kept,
               !.fns = IF l.locked THEN << >> ELSE @,
               !.alive = @ /\ (l.locked => kept # NoValue)]

-----------------------------------------------------------------------------
VARIABLES
  list,        \* the closure variables of the list
  at,          \* "idle": no fire() on the stack, "loop": between two callbacks,
               \* "call": in a callback
  operations,  \* number of calls so far; it names functions added and values
  called,      \* history: the calls, <<value, number of the function>>
  owed,        \* history: functions the value being fired is still to reach
  emptied      \* history: the list was emptied since that value was taken

callbackVars == <<list, at, operations, called, owed, emptied>>

CallbacksInit ==
  /\ list \in {NewList(o) : o \in ListOptions}
  /\ at = "idle"
  /\ operations = 0
  /\ called = << >>
  /\ owed = {}
  /\ emptied = FALSE

Listed(l) == {l.fns[i].id : i \in DOMAIN l.fns}

\* Some code uses the list: at the top level, where it may enter fire(), or
\* in the callback that runs.  The value is owed to whoever is listed when
\* it is taken and to who is added later; not to who is removed, and not to
\* who is added to a list emptied meanwhile: empty() leaves firingIndex alone.
\* A late function is owed the last value, the others have had it.
Use(l) ==
  LET news == Listed(l) \ Listed(list)
  IN /\ at # "loop"
     /\ operations < MaxOperations
     /\ operations' = operations + 1
     /\ list' = l
     /\ at' = IF l.firing /\ ~ list.firing THEN "loop" ELSE at
     /\ owed' = IF l.memory # list.memory THEN Listed(l)
                ELSE (owed \cap Listed(l)) \cup (IF emptied THEN {} ELSE news)
     /\ UNCHANGED called

Add ==
  /\ \E f \in Fns : Use(AddTo(list, [fn |-> f, id |-> operations + 1]))
  /\ UNCHANGED emptied

Remove == (\E f \in Fns : Use(RemoveFrom(list, f))) /\ UNCHANGED emptied
Empty == Use(EmptyList(list)) /\ emptied' = (at = "call")
Disable == Use(DisableList(list)) /\ UNCHANGED emptied
Lock == Use(LockList(list)) /\ UNCHANGED emptied
FireList == Use(FireWith(list, operations + 1)) /\ UNCHANGED emptied

\* ++firingIndex < list.length: the next function is called.
CallNext ==
  /\ at = "loop" /\ ~ AtEnd(list)
  /\ list' = [list EXCEPT !.index = @ + 1]
  /\ called' = Append(called, <<list.memory, list.fns[list.index + 1].id>>)
  /\ owed' = owed \ {list.fns[list.index + 1].id}
  /\ at' = "call"
  /\ UNCHANGED <<operations, emptied>>

Return ==
  /\ at = "call"
  /\ at' = "loop"
  /\ UNCHANGED <<list, operations, called, owed, emptied>>

ReturnFalse ==
  /\ at = "call" /\ "stopOnFalse" \in list.options
  /\ list' = StopValue(list)
  /\ at' = "loop"
  /\ owed' = {}
  /\ UNCHANGED <<operations, called, emptied>>

\* fire() is left by the exception: firing stays set and nothing resets it.
Throw ==
  /\ at = "call"
  /\ at' = "idle"
  /\ owed' = {}
  /\ UNCHANGED <<list, operations, called, emptied>>

NextValue ==
  /\ at = "loop" /\ AtEnd(list) /\ list.queue # << >>
  /\ list' = NextValueOf(list)
  /\ owed' = Listed(list)
  /\ emptied' = FALSE
  /\ UNCHANGED <<at, operations, called>>

Finish ==
  /\ at = "loop" /\ AtEnd(list) /\ list.queue = << >>
  /\ list' = EndOfFire(list)
  /\ at' = "idle"
  /\ emptied' = FALSE
  /\ UNCHANGED <<operations, called, owed>>

CallbacksNext ==
  \/ Add \/ Remove \/ Empty \/ Disable \/ Lock \/ FireList
  \/ CallNext \/ Return \/ ReturnFalse \/ Throw \/ NextValue \/ Finish

CallbacksSpec == CallbacksInit /\ [][CallbacksNext]_callbackVars

-----------------------------------------------------------------------------
\* When a value has been fired, every function that was listed, or was added
\* while it was fired, has been called with it, whatever the callbacks added
\* to and removed from the list meanwhile (firingIndex is moved along).
NoneSkipped == at = "loop" /\ AtEnd(list) => owed = {}

\* Values reach the functions in the order of the fires, and one value
\* reaches them in the order they were added, each once: also when it is
\* fired inside a callback and when a late function hears the memory.
CalledInOrder ==
  \A i, j \in DOMAIN called :
    i < j => \/ called[i][1] < called[j][1]
             \/ called[i][1] = called[j][1] /\ called[i][2] < called[j][2]

\* Both: a fire reaches everybody it should, once, in order.
CalledAllInOrder == NoneSkipped /\ CalledInOrder

=============================================================================
