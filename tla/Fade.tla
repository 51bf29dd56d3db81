-------------------------------- MODULE Fade --------------------------------
(***************************************************************************)
(* fadeIn(), fadeOut() and fadeToggle() of an element beside show(),       *)
(* hide() and toggle(), as defaultPrefilter and showHide of jquery.js do   *)
(* them.  A fade that is stopped leaves its notes in the data "fxshow",    *)
(* which the next fade goes by, and the display that hide() overwrites is  *)
(* noted in the data "display".                                            *)
(*                                                                         *)
(* Opacity is one of a few levels; a style sheet may hide the element.     *)
(***************************************************************************)
EXTENDS Naturals

VARIABLES
  cascade,      \* the style sheet's display of the element is "none"
  display,      \* style.display: "", "none" or "block"
  oldDisplay,   \* the data "display": the same, or "absent"
  opacity,      \* style.opacity: "" or a level
  fxshow,       \* the data "fxshow": [opacity, hidden], or Absent
  fade,         \* the fade that runs: [way, hidden, orig, end, tweens], or Absent
  first,        \* history: the opacity that the page set
  ended,        \* history: the way of the last fade, when it ran to its end
  disturbed     \* history: a plain call in the middle of it, or a toggle stopped before it

fadeVars == <<cascade, display, oldDisplay, opacity, fxshow, fade, first, ended, disturbed>>

Absent == [absent |-> TRUE]
Ways == {"show", "hide", "toggle"}

-----------------------------------------------------------------------------
FadeInit ==
  /\ cascade \in BOOLEAN
  /\ display = "" /\ oldDisplay = "absent"
  /\ opacity \in {"", "half"} /\ first = opacity
  /\ fxshow = Absent /\ fade = Absent
  /\ ended = "none" /\ disturbed = FALSE

\* isHiddenWithinTree: the inline style trumps the style sheet.
IsHidden(d) == d = "none" \/ (d = "" /\ cascade)

\* showHide([elem], show): what it makes of the style, and of the old display.
Shown(d, old) ==
  LET freed == IF d /= "none" THEN d ELSE IF old = "block" THEN "block" ELSE ""
  IN IF IsHidden(freed) THEN "block" ELSE freed

ShowHide(show) ==
  /\ display' = IF show THEN Shown(display, oldDisplay) ELSE "none"
  /\ oldDisplay' = IF show \/ display = "none" THEN oldDisplay ELSE display

\* show(), hide() and toggle() without a duration.
Plain(way) ==
  /\ ShowHide(way = "show" \/ (way = "toggle" /\ IsHidden(display)))
  /\ disturbed' = (disturbed \/ fade /= Absent) /\ ended' = "none"
  /\ UNCHANGED <<cascade, opacity, fxshow, fade, first>>

\* The computed opacity, where a tween starts.
Level(o) == IF o = "" THEN "full" ELSE o

-----------------------------------------------------------------------------
(* defaultPrefilter for {opacity: way}. *)

Noted == fxshow /= Absent

\* A way that changes nothing, unless a stopped fade left its notes.
NoChange(way) == /\ way = (IF IsHidden(display) THEN "hide" ELSE "show")
                 /\ way = "show" => ~ Noted

\* Whether this fade shows: a note of a toggle decides.
Shows(way) ==
  LET hidden == IsHidden(display) \/ (way = "show" /\ Noted) IN
  IF Noted /\ fxshow.hidden # "unknown" THEN fxshow.hidden = "yes" ELSE hidden

YesNo(b) == IF b THEN "yes" ELSE "no"

\* Mutant: the opacity that a stopped fade left is taken for the page's.
OriginNow(full) == opacity

\* What the opacity goes back to: the note of a stopped fade knows better.
Origin(full) == IF Noted /\ full /= "zero" THEN full ELSE opacity

StartFade(way) ==
  /\ fade = Absent
  /\ disturbed' = (Noted /\ fxshow.hidden /= "unknown") /\ ended' = "none"
  /\ IF NoChange(way)
       THEN /\ fade' = [way |-> way, hidden |-> IsHidden(display), orig |-> opacity,
                        end |-> Level(opacity), tweens |-> FALSE]
            /\ UNCHANGED <<display, oldDisplay, fxshow>>
       ELSE LET hidden == Shows(way)
                from == Level(opacity)
                full == IF Noted THEN fxshow.opacity ELSE from
            IN /\ fade' = [way |-> way, hidden |-> hidden,
                           orig |-> Origin(full),
                           end |-> IF hidden THEN full ELSE "zero", tweens |-> TRUE]
               /\ fxshow' = [opacity |-> full,
                             hidden |-> IF way = "toggle" THEN YesNo(~ hidden)
                                        ELSE IF Noted THEN fxshow.hidden ELSE "unknown"]
               /\ IF hidden THEN ShowHide(TRUE) ELSE UNCHANGED <<display, oldDisplay>>
  /\ UNCHANGED <<cascade, opacity, first>>

-----------------------------------------------------------------------------
\* A tick on the way.
FadeTick ==
  /\ fade /= Absent /\ fade.tweens
  /\ opacity' \in {"zero", "mid", fade.end}
  /\ UNCHANGED <<cascade, display, oldDisplay, fxshow, fade, first, ended, disturbed>>

\* The last tick, or stop(.., true): a fade that hid the element hides it, and
\* the notes and the opacity go back.
FadeEnds ==
  /\ fade /= Absent
  /\ fade' = Absent /\ ended' = fade.way
  /\ IF fade.tweens
       THEN /\ IF fade.hidden THEN UNCHANGED <<display, oldDisplay>> ELSE ShowHide(FALSE)
            /\ fxshow' = Absent /\ opacity' = fade.orig
       ELSE UNCHANGED <<display, oldDisplay, fxshow, opacity>>
  /\ UNCHANGED <<cascade, first, disturbed>>

\* stop(): the notes stay.
FadeStopped ==
  /\ fade /= Absent
  /\ fade' = Absent /\ ended' = "none"
  /\ UNCHANGED <<cascade, display, oldDisplay, opacity, fxshow, first, disturbed>>

FadeNext == \/ \E way \in Ways : Plain(way) \/ StartFade(way)
            \/ FadeTick \/ FadeEnds \/ FadeStopped

FadeSpec == FadeInit /\ [][FadeNext]_fadeVars

-----------------------------------------------------------------------------
\* Once no fade runs and none left notes, the opacity is the page's again.
OpacityRestored ==
  fade = Absent /\ fxshow = Absent => Level(opacity) = Level(first)

\* A fade that ran to its end leaves the element as asked.
EndsAsAsked ==
  ended \in {"show", "hide"} /\ ~ disturbed => IsHidden(display) = (ended = "hide")

\* Both: fades leave the element as the page asked.
FadesAsAsked == OpacityRestored /\ EndsAsAsked
=============================================================================
