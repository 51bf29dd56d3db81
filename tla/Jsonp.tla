------------------------------- MODULE Jsonp -------------------------------
(***************************************************************************)
(* JSONP requests of jquery.js: the answer is a script that calls a global *)
(* function, whose name is taken from a pool of old names, made up, or     *)
(* given by the page.  When the request is over, the global is put back as *)
(* it was and the name returns to the pool.  The script tag of an aborted  *)
(* request is removed, which does not stop a script that is on its way.    *)
(***************************************************************************)
EXTENDS Integers, Sequences, SequencesExt, FiniteSets

CONSTANT JsonpRequests      \* the requests that may be made

VARIABLES
  oldCallbacks, \* the pool of names, the last one is taken first
  nonce,        \* names made up so far
  name,         \* name[r]: s.jsonpCallback; 0 is the name the page gives
  pending,      \* the requests that are not over
  window,       \* window[n]: whose callback the global n is, or Nobody
  overwritten,  \* overwritten[r]: what window[n] was before
  container,    \* container[r]: whose answer r's callback was called with
  scripts,      \* the requests whose script can still run
  got,          \* got[r]: whose answer r succeeded with
  reused        \* history: requests that got a name whose old script can run
jsonpVars == <<oldCallbacks, nonce, name, pending, window, overwritten, container,
               scripts, got, reused>>

Nobody == "nobody"
Given == 0

\* There are only so many requests, and a global that is not there is not the
\* callback of one.
ASSUME JsonpAssumption == IsFiniteSet(JsonpRequests) /\ Nobody \notin JsonpRequests

JsonpNames == 0..Cardinality(JsonpRequests)

JsonpInit ==
  /\ oldCallbacks = <<>> /\ nonce = 0
  /\ name = [r \in JsonpRequests |-> -1]
  /\ pending = {} /\ scripts = {} /\ reused = {}
  /\ window = [n \in JsonpNames |-> Nobody]
  /\ overwritten = [r \in JsonpRequests |-> Nobody]
  /\ container = [r \in JsonpRequests |-> Nobody]
  /\ got = [r \in JsonpRequests |-> Nobody]

Named(r) == name[r] >= 0
Pooled(r) == name[r] > 0

\* Mutant: the name is taken and stays in the pool.
NamesKept == oldCallbacks

\* oldCallbacks.pop().
NamesLeft == Front(oldCallbacks)

\* The prefilter names the request and installs its callback, and the script
\* transport adds the script to the page.
SendJsonp(r, given) ==
  LET n == IF given THEN Given
           ELSE IF oldCallbacks # <<>> THEN Last(oldCallbacks) ELSE nonce + 1
      pops == ~ given /\ oldCallbacks # <<>>
  IN /\ ~ Named(r)
     /\ name' = [name EXCEPT ![r] = n]
     /\ oldCallbacks' = IF pops THEN NamesLeft ELSE oldCallbacks
     /\ nonce' = IF given \/ pops THEN nonce ELSE nonce + 1
     /\ overwritten' = [overwritten EXCEPT ![r] = window[n]]
     /\ window' = [window EXCEPT ![n] = r]
     /\ pending' = pending \cup {r} /\ scripts' = scripts \cup {r}
     /\ reused' = IF \E q \in scripts : name[q] = n THEN reused \cup {r} ELSE reused
     /\ UNCHANGED <<container, got>>

\* The clean-up of always(): the global is what it was before, the name is
\* free again, and a callback that was overwritten gets the answer too.
CleanUp(r, held) ==
  LET old == overwritten[r] IN
  /\ pending' = pending \ {r}
  /\ window' = [window EXCEPT ![name[r]] = old]
  /\ oldCallbacks' = IF Pooled(r) THEN Append(oldCallbacks, name[r]) ELSE oldCallbacks
  /\ container' = IF old # Nobody /\ held[r] # Nobody
                  THEN [held EXCEPT ![old] = held[r], ![r] = Nobody]
                  ELSE [held EXCEPT ![r] = Nobody]
  /\ overwritten' = [overwritten EXCEPT ![r] = Nobody]

\* The script of r arrives and calls the global, if that is there; the load
\* event ends a request that is still waiting, as an error if its callback was
\* not called.
ScriptRuns(r) ==
  LET callee == window[name[r]]
      held == IF callee = Nobody THEN container ELSE [container EXCEPT ![callee] = r]
  IN /\ r \in scripts /\ scripts' = scripts \ {r}
     /\ IF r \in pending
          THEN CleanUp(r, held) /\ got' = [got EXCEPT ![r] = held[r]]
          ELSE container' = held /\ UNCHANGED <<pending, window, oldCallbacks, overwritten, got>>
     /\ UNCHANGED <<nonce, name, reused>>

\* The script fails to load, or the request is aborted or times out; a script
\* on its way may come all the same.
GiveUpJsonp(r) ==
  /\ r \in pending
  /\ CleanUp(r, container)
  /\ scripts' \in {scripts, scripts \ {r}}
  /\ UNCHANGED <<nonce, name, got, reused>>

JsonpNext == \E r \in JsonpRequests : \/ \E given \in BOOLEAN : SendJsonp(r, given)
                                      \/ ScriptRuns(r) \/ GiveUpJsonp(r)

JsonpSpec == JsonpInit /\ [][JsonpNext]_jsonpVars

\* A request with a name of the pool holds the global of that name while it is
\* pending, and what it succeeds with is its own answer, unless the script of
\* an aborted request that had the name could still run.
JsonpAnswersItsOwn ==
  \A r \in JsonpRequests : Pooled(r) =>
    /\ r \in pending => window[name[r]] = r
    /\ r \notin reused => got[r] \in {Nobody, r}
=============================================================================
