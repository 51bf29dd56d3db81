-------------------------------- MODULE Promise --------------------------------
(***************************************************************************)
(* What a promise of jQuery.Deferred promises its users: it is settled at  *)
(* most once, and a callback is called at most once, after the promise was *)
(* settled, if it was registered for that outcome, and with that value.    *)
(***************************************************************************)
EXTENDS Integers, Sequences

CONSTANTS Promises

VARIABLES
  outcome,     \* per promise: <<"pending", 0>>, or a final state and its value
  registered,  \* callbacks, <<promise, the state it waits for, number>>
  answered     \* the calls, in order: a callback and the value it got

promiseVars == <<outcome, registered, answered>>

PromiseInit ==
  /\ outcome = [d \in Promises |-> <<"pending", 0>>]
  /\ registered = {}
  /\ answered = << >>

Settle(d) ==
  /\ outcome[d][1] = "pending"
  /\ outcome'[d][1] \in {"resolved", "rejected"}
  /\ outcome' = [outcome EXCEPT ![d] = outcome'[d]]
  /\ UNCHANGED <<registered, answered>>

Register ==
  /\ registered \subseteq registered'
  /\ UNCHANGED <<outcome, answered>>

Answer(c) ==
  /\ c[2] = outcome[c[1]][1]
  /\ \A i \in DOMAIN answered : answered[i][1] # c
  /\ answered' = Append(answered, <<c, outcome[c[1]][2]>>)
  /\ UNCHANGED <<outcome, registered>>

PromiseNext ==
  \/ \E d \in Promises : Settle(d)
  \/ Register
  \/ \E c \in registered : Answer(c)

PromiseSpec == PromiseInit /\ [][PromiseNext]_promiseVars

=============================================================================
