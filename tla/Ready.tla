------------------------------- MODULE Ready -------------------------------
(***************************************************************************)
(* $(document).ready of jquery.js: readyWait counts the document itself    *)
(* and every holdReady(true) of the page, and the list of ready functions  *)
(* is resolved by the one that brings it to zero.                          *)
(***************************************************************************)
EXTENDS Integers

CONSTANTS ReadyFns,     \* the functions that pages pass to ready()
          MaxHolds      \* bound: calls of holdReady(true)

VARIABLES
  isReady, readyWait,   \* jQuery.isReady and jQuery.readyWait
  readyList,            \* the deferred: NotYet, or how things stood when it was
                        \*   resolved: [dom, held]
  parsed,               \* the document has been parsed, so completed() has run
  holds, held,          \* calls of holdReady(true), and those not released
  waiting, ran          \* the ready functions that were passed and that ran
readyVars == <<isReady, readyWait, readyList, parsed, holds, held, waiting, ran>>

NotYet == [dom |-> FALSE, held |-> -1]

ReadyInit ==
  /\ isReady = FALSE /\ readyWait = 1 /\ readyList = NotYet
  /\ parsed = FALSE /\ holds = 0 /\ held = 0
  /\ waiting = {} /\ ran = {}

Resolve(dom, holders) ==
  readyList' = IF readyList = NotYet THEN [dom |-> dom, held |-> holders] ELSE readyList

\* Mutant: the holds are not looked at.
ParsedAtOnce ==
  /\ ~ parsed /\ parsed' = TRUE
  /\ IF isReady THEN UNCHANGED <<isReady, readyWait, readyList>>
     ELSE isReady' = TRUE /\ readyWait' = readyWait - 1 /\ Resolve(TRUE, held)
  /\ UNCHANGED <<holds, held, waiting, ran>>

\* The DOMContentLoaded or load event, or the timer when the script was late:
\* completed() unbinds itself, so jQuery.ready() is called once.
Parsed ==
  /\ ~ parsed /\ parsed' = TRUE
  /\ IF isReady THEN UNCHANGED <<isReady, readyWait, readyList>>
     ELSE /\ isReady' = TRUE /\ readyWait' = readyWait - 1
          /\ IF readyWait > 1 THEN UNCHANGED readyList ELSE Resolve(TRUE, held)
  /\ UNCHANGED <<holds, held, waiting, ran>>

\* holdReady(true).
Hold ==
  /\ holds < MaxHolds /\ holds' = holds + 1 /\ held' = held + 1
  /\ readyWait' = readyWait + 1
  /\ UNCHANGED <<isReady, readyList, parsed, waiting, ran>>

\* holdReady(false) for a hold: jQuery.ready(true).
Release ==
  /\ held > 0 /\ held' = held - 1
  /\ readyWait' = readyWait - 1
  /\ IF readyWait > 1 THEN UNCHANGED <<isReady, readyList>>
     ELSE isReady' = TRUE /\ Resolve(parsed, held - 1)
  /\ UNCHANGED <<parsed, holds, waiting, ran>>

\* ready(fn), which runs it in a timer once the list is resolved.
PassReady(fn) ==
  /\ waiting' = waiting \cup {fn}
  /\ UNCHANGED <<isReady, readyWait, readyList, parsed, holds, held, ran>>

RunReady(fn) ==
  /\ readyList # NotYet /\ fn \in waiting \ ran
  /\ ran' = ran \cup {fn}
  /\ UNCHANGED <<isReady, readyWait, readyList, parsed, holds, held, waiting>>

ReadyNext == \/ Parsed \/ Hold \/ Release
             \/ \E fn \in ReadyFns : PassReady(fn) \/ RunReady(fn)
ReadySpec == ReadyInit /\ [][ReadyNext]_readyVars

\* The ready functions run once the document is parsed and nobody holds them,
\* in whatever order these happen, and neither earlier nor never.
ReadyWhenFree ==
  /\ readyList # NotYet => readyList = [dom |-> TRUE, held |-> 0]
  /\ parsed /\ held = 0 => readyList # NotYet
=============================================================================
