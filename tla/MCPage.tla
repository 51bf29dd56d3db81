-------------------------------- MODULE MCPage --------------------------------
(***************************************************************************)
(* Events, animations, dialogs and selectors of the pages' scripts: `scene'*)
(* says which of the five machines moves.                                  *)
(***************************************************************************)
EXTENDS Events, Effects, Fade, Modal, Sizzle

VARIABLE scene
sceneVars == <<scene, eventVars, effectVars, fadeVars, modalVars, sizzleVars>>

Symmetric == Permutations(Animated) \cup Permutations(HandlerFns)

SomePages == {[parentNode |-> p, name |-> n] :
                p \in {<<0, 1, 2, 2>>, <<0, 1, 1, 3>>},
                n \in {<<"a", "a", "b", "b">>, <<"a", "b", "a", "b">>, <<"b", "a", "a", "a">>}}
C(left, x, not) == [left |-> left, name |-> x, not |-> not]
Threes == {<<C(l, "a", FALSE), C(m, "*", not), C(" ", "*", FALSE)>> :
             l \in {" ", ">", "+"}, m \in {" ", "~", "+"}, not \in BOOLEAN}
SomeQueries ==
  {[groups |-> <<s>>, negated |-> <<C(" ", "b", FALSE), C(" ", "a", FALSE)>>] : s \in Threes}
  \cup {[groups |-> <<s, <<C(" ", "a", FALSE), C(" ", "b", FALSE)>>>>, negated |-> << >>] :
          s \in {t \in Threes : ~ t[2].not}}
  \cup {[groups |-> <<<<C("~", "a", FALSE), C(" ", "b", FALSE), C("~", "*", FALSE)>>>>,
         negated |-> << >>]}

\* A page and a selector at rest, for the scenes of the other machines.
AnyPage == /\ [parentNode |-> parentNode, name |-> name] = CHOOSE p \in SomePages : TRUE
           /\ [groups |-> groups, negated |-> negated] = CHOOSE q \in SomeQueries : TRUE

SceneInit ==
  /\ scene \in {"events", "effects", "fade", "modal", "sizzle"}
  /\ EventsInit /\ EffectsInit
  /\ FadeInit /\ (scene # "fade" => opacity = "" /\ cascade = FALSE)
  /\ ModalInit /\ (scene # "modal" => fades = FALSE)
  /\ SizzleInit /\ (scene # "sizzle" => AnyPage)

EventsMove == scene = "events" /\ EventsNext /\ UNCHANGED <<scene, effectVars, fadeVars, modalVars, sizzleVars>>
EffectsMove == scene = "effects" /\ EffectsNext /\ UNCHANGED <<scene, eventVars, fadeVars, modalVars, sizzleVars>>
FadeMove == scene = "fade" /\ FadeNext /\ UNCHANGED <<scene, eventVars, effectVars, modalVars, sizzleVars>>
ModalMove == scene = "modal" /\ ModalNext /\ UNCHANGED <<scene, eventVars, effectVars, fadeVars, sizzleVars>>
SizzleMove == scene = "sizzle" /\ SizzleNext /\ UNCHANGED <<scene, eventVars, effectVars, fadeVars, modalVars>>

SceneSpec == SceneInit /\ [][EventsMove \/ EffectsMove \/ FadeMove \/ ModalMove \/ SizzleMove]_sceneVars
=============================================================================
