------------------------------ MODULE MCRequests ------------------------------
(***************************************************************************)
(* Ajax requests, their conversions and scripts, and the table page that   *)
(* lives by them: `scene' says which of the four machines moves.           *)
(***************************************************************************)
EXTENDS Ajax, Convert, Jsonp, TaskPage

VARIABLE scene
requestsVars == <<scene, ajaxVars, convertVars, jsonpVars, pageVars>>

SomeSettings == {{"async", "global", "timed"}, {"global"}, {"async"}, {"async", "global", "bubbles"}}

AllConverters == {Converter(f, t, k) : f \in DataTypes \cup {Auto}, t \in DataTypes,
                                       k \in {"call", "same"}}
SomeConverters == {s \in SUBSET AllConverters :
                     /\ Cardinality(s) <= 2
                     /\ \A c, d \in s : c.from = d.from /\ c.to = d.to => c = d}

\* "0", "1" and "3"; ".5" and "1e-1", which pass the blur handler; "1.5".
SomePages == {PageNumber(0), PageNumber(1), PageNumber(3),
              [int |-> NaN, tenths |-> 5], [int |-> 1, tenths |-> 1],
              [int |-> 1, tenths |-> 15]}

\* A converter at rest, for the scenes of the other machines.
NoConversion == converters = {} /\ wanted = <<Auto>> /\ given = <<CHOOSE t \in DataTypes : TRUE>>

RequestsInit ==
  /\ scene \in {"ajax", "convert", "jsonp", "page"}
  /\ scene # "convert" => NoConversion
  /\ ConvertInit /\ AjaxInit /\ JsonpInit
  /\ scene # "page" => token = "none" /\ server = [version |-> 0, records |-> 0]
  /\ TaskPageInit

AjaxMove == scene = "ajax" /\ AjaxNext /\ UNCHANGED <<scene, convertVars, jsonpVars, pageVars>>
ConvertMove == scene = "convert" /\ ConvertNext /\ UNCHANGED <<scene, ajaxVars, jsonpVars, pageVars>>
JsonpMove == scene = "jsonp" /\ JsonpNext /\ UNCHANGED <<scene, ajaxVars, convertVars, pageVars>>
PageMove == scene = "page" /\ TaskPageNext /\ UNCHANGED <<scene, ajaxVars, convertVars, jsonpVars>>

RequestsSpec ==
  /\ RequestsInit
  /\ [][AjaxMove \/ ConvertMove \/ JsonpMove \/ PageMove]_requestsVars
  /\ AjaxFairness
=============================================================================
