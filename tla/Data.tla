---------------------------------- MODULE Data ----------------------------------
(***************************************************************************)
(* data() and removeData() of jquery.js: an element's data lives in a      *)
(* cache object that hangs on it, is filled from the data- attributes the  *)
(* first time a key, or all of them, are read, is handed out to the page   *)
(* itself, and is let go with its last key or with the element.  clone()   *)
(* copies it.                                                              *)
(*                                                                         *)
(* A key stands for all its spellings (camelCase), a value for an          *)
(* attribute's text and what getData() makes of it.                        *)
(***************************************************************************)
EXTENDS Integers, Sequences

CONSTANTS Keys, Values,
          MaxDataCalls   \* bound: calls of the page

VARIABLES
  attributes,   \* per element: the data- attributes, by key
  userData,     \* per element: its cache object, or NoCache
  objects,      \* the cache objects made so far, by key
  hasDataAttrs, \* the elements whose attributes data() has read
  inPage,       \* the elements that exist: the first, and its clone
  heldObject,   \* the cache object that data() gave the page last
  dataCalls,    \* number of calls so far
  agreed        \* history: per element and key the value it was set to, or was
                \*   read as, since it was removed

dataVars == <<attributes, userData, objects, hasDataAttrs, inPage, heldObject, dataCalls, agreed>>

Owners == {"element", "clone"}
Undefined == 0
NoCache == 0
NoData == [k \in Keys |-> Undefined]
Whole(v) == v # Undefined

DataInit ==
  /\ attributes = [e \in Owners |-> NoData] /\ userData = [e \in Owners |-> NoCache]
  /\ objects = << >> /\ hasDataAttrs = {} /\ inPage = {"element"} /\ heldObject = NoCache
  /\ dataCalls = 0 /\ agreed = [e \in Owners |-> NoData]

PageCalls == dataCalls < MaxDataCalls /\ dataCalls' = dataCalls + 1

\* get(): what the cache object holds.
Stored(e) == IF userData[e] = NoCache THEN NoData ELSE objects[userData[e]]

\* cache(): the object of the element, made when it has none, now holding d.
Cache(e, d) ==
  IF userData[e] = NoCache
  THEN /\ objects' = Append(objects, d)
       /\ userData' = [userData EXCEPT ![e] = Len(objects')]
  ELSE objects' = [objects EXCEPT ![userData[e]] = d] /\ UNCHANGED userData

Agree(e, d) == agreed' = [agreed EXCEPT ![e] = d]

\* Mutant: the attribute is taken though there is data.
AttributeFirst(e, ks) ==
  [k \in Keys |-> IF k \in ks /\ Whole(attributes[e][k]) THEN attributes[e][k] ELSE Stored(e)[k]]

\* dataAttr(): a key without data takes its attribute's, and keeps it.
WithAttributes(e, ks) ==
  [k \in Keys |-> IF k \in ks /\ ~ Whole(Stored(e)[k]) THEN attributes[e][k] ELSE Stored(e)[k]]

\* The page, or a template, changes an attribute.
SetAttribute(e, k, v) ==
  /\ PageCalls
  /\ attributes' = [attributes EXCEPT ![e][k] = v]
  /\ UNCHANGED <<userData, objects, hasDataAttrs, inPage, heldObject, agreed>>

\* data(key, value).
SetData(e, k, v) ==
  /\ PageCalls
  /\ Cache(e, [Stored(e) EXCEPT ![k] = v])
  /\ Agree(e, [agreed[e] EXCEPT ![k] = v])
  /\ UNCHANGED <<attributes, hasDataAttrs, inPage, heldObject>>

\* data(key): only a value that comes from an attribute is stored.
GetData(e, k) ==
  LET read == WithAttributes(e, {k})
  IN /\ PageCalls
     /\ IF read = Stored(e) THEN UNCHANGED <<userData, objects>> ELSE Cache(e, read)
     /\ Agree(e, IF Whole(agreed[e][k]) THEN agreed[e] ELSE [agreed[e] EXCEPT ![k] = read[k]])
     /\ UNCHANGED <<attributes, hasDataAttrs, inPage, heldObject>>

\* data(): the object itself; the attributes are looked through once.
GetAllData(e) ==
  LET read == WithAttributes(e, IF e \in hasDataAttrs THEN {} ELSE Keys)
  IN /\ PageCalls
     /\ Cache(e, read)
     /\ heldObject' = userData'[e] /\ hasDataAttrs' = hasDataAttrs \cup {e}
     /\ Agree(e, [k \in Keys |-> IF Whole(agreed[e][k]) THEN agreed[e][k] ELSE read[k]])
     /\ UNCHANGED <<attributes, inPage>>

\* The page writes to the object that data() gave it.
WriteObject(k, v) ==
  /\ PageCalls /\ heldObject # NoCache
  /\ objects' = [objects EXCEPT ![heldObject][k] = v]
  /\ agreed' = [e \in Owners |-> IF userData[e] = heldObject
                                 THEN [agreed[e] EXCEPT ![k] = v] ELSE agreed[e]]
  /\ UNCHANGED <<attributes, userData, hasDataAttrs, inPage, heldObject>>

LetGo(e) == userData' = [userData EXCEPT ![e] = NoCache]

\* removeData(keys): an object without keys is let go.
RemoveData(e, ks) ==
  LET kept == [k \in Keys |-> IF k \in ks THEN Undefined ELSE Stored(e)[k]]
  IN /\ PageCalls
     /\ IF userData[e] = NoCache THEN UNCHANGED <<userData, objects>>
        ELSE /\ objects' = [objects EXCEPT ![userData[e]] = kept]
             /\ IF kept = NoData THEN LetGo(e) ELSE UNCHANGED userData
     /\ Agree(e, [k \in Keys |-> IF k \in ks THEN Undefined ELSE agreed[e][k]])
     /\ UNCHANGED <<attributes, hasDataAttrs, inPage, heldObject>>

\* removeData().
RemoveAllData(e) ==
  /\ PageCalls
  /\ LetGo(e) /\ Agree(e, NoData)
  /\ UNCHANGED <<attributes, objects, hasDataAttrs, inPage, heldObject>>

\* remove(), empty() and html(): cleanData() lets go of both caches.
CleanData(e) ==
  /\ PageCalls
  /\ LetGo(e) /\ hasDataAttrs' = hasDataAttrs \ {e} /\ Agree(e, NoData)
  /\ UNCHANGED <<attributes, objects, inPage, heldObject>>

\* clone(), with its data: the private data is copied, hasDataAttrs among it,
\* and of the user's data the keys of the object as it is now.
Clone(withData) ==
  /\ PageCalls /\ inPage = {"element"} /\ inPage' = Owners
  /\ attributes' = [attributes EXCEPT !["clone"] = attributes["element"]]
  /\ IF withData
     THEN /\ hasDataAttrs' = hasDataAttrs \cup {e \in {"clone"} : "element" \in hasDataAttrs}
          /\ IF Stored("element") = NoData THEN UNCHANGED <<userData, objects>>
             ELSE Cache("clone", Stored("element"))
          /\ Agree("clone", agreed["element"])
     ELSE UNCHANGED <<hasDataAttrs, userData, objects, agreed>>
  /\ UNCHANGED heldObject

DataNext ==
  \/ \E e \in inPage, k \in Keys :
       \/ \E v \in Values \cup {Undefined} : SetAttribute(e, k, v)
       \/ \E v \in Values : SetData(e, k, v)
       \/ GetData(e, k)
  \/ \E e \in inPage : \/ GetAllData(e) \/ RemoveAllData(e) \/ CleanData(e)
                       \/ \E ks \in (SUBSET Keys) \ {{}} : RemoveData(e, ks)
  \/ \E k \in Keys, v \in Values : WriteObject(k, v)
  \/ \E withData \in BOOLEAN : Clone(withData)

DataSpec == DataInit /\ [][DataNext]_dataVars

\* Data that was set, or was read once, keeps its value until it is removed or
\* set again: whatever becomes of the attribute it was read from, of the other
\* keys, of a clone, and of an object the page has from before; and data(key),
\* data() and the clone agree on it.
DataKept ==
  \A e \in inPage, k \in Keys :
    Whole(agreed[e][k]) => Stored(e)[k] = agreed[e][k]
=============================================================================
