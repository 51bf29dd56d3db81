------------------------------- MODULE Modal -------------------------------
(***************************************************************************)
(* The dialogs of jquery.modal.js: a stack of modals over one page, each   *)
(* with an overlay (its blocker).  A link opens one before its content is  *)
(* there; the answer goes to whatever modal is the current one.  With      *)
(* fadeDuration, a modal is shown by a timer, and its overlay and its      *)
(* element fade out.  A link to an "#id" that not exactly one element has  *)
(* leaves a modal on the stack that opens nothing.  Each modal has an      *)
(* element of its own.                                                     *)
(***************************************************************************)
EXTENDS Integers, Sequences, SequencesExt, FiniteSetsExt

CONSTANT MaxModals      \* bound: modals made

VARIABLES
  fades,        \* options.doFade of all modals
  modals,       \* the open modals, by number, the current one last
  made,         \* how many modals were made
  blocker,      \* blocker[m]: "none", "up", "fading" or "gone"
  orphans,      \* overlays whose modal has got another one
  shown,        \* the modals whose element is displayed
  hiding,       \* the closed ones whose element still fades out
  spinning,     \* the modals whose spinner is on the page
  loading,      \* the modals whose $.get has not answered
  targetless,   \* the modals of a link to an "#id" without a target
  showTimers,   \* showTimers[m]: pending timers that will show m
  locked,       \* the body's overflow is hidden
  keys,         \* the keydown handler is bound
  early,        \* history: modals closed while a timer would still show them
  misled        \* history: an answer met another modal, a modal was closed before
                \*   it had an overlay, which throws, or failed on a locked page
modalVars == <<fades, modals, made, blocker, orphans, shown, hiding, spinning,
               loading, targetless, showTimers, locked, keys, early, misled>>

ASSUME ModalAssumption == MaxModals \in Nat

Modals == 1..MaxModals
Current == Last(modals)
IsActive == modals /= <<>>

ModalInit ==
  /\ fades \in BOOLEAN /\ modals = <<>> /\ made = 0
  /\ blocker = [m \in Modals |-> "none"] /\ orphans = 0
  /\ shown = {} /\ hiding = {} /\ spinning = {} /\ loading = {} /\ targetless = {}
  /\ showTimers = [m \in Modals |-> 0]
  /\ locked = FALSE /\ keys = FALSE /\ early = {} /\ misled = FALSE

-----------------------------------------------------------------------------
(* The parts of the calls. *)

\* The modals closed by n calls of close() from the current one; the last of
\* them throws when it has no overlay, the one error that a close can meet.
Top(n) == {modals[k] : k \in (Len(modals) - n + 1)..Len(modals)}
Throws(m) == blocker[m] = "none"

Below(n) == SubSeq(modals, 1, Len(modals) - n)

Closed(n) ==            \* what n closes make of the page
  LET done == {m \in Top(n) : ~ Throws(m)} IN
  [blocker |-> [m \in Modals |-> IF m \notin done THEN blocker[m]
                                 ELSE IF fades THEN "fading" ELSE "gone"],
   shown   |-> IF fades THEN shown ELSE shown \ done,
   hiding  |-> IF fades THEN hiding \cup (done \cap shown) ELSE hiding,
   locked  |-> locked /\ (fades \/ Below(n) /= <<>> \/ Top(n) /= done \/ done = {}),
   keys    |-> keys /\ (Below(n) /= <<>> \/ Top(n) /= done \/ done = {}),
   early   |-> early \cup {m \in done : showTimers[m] > 0},
   misled  |-> misled \/ Top(n) /= done]

\* open(m): a new overlay, and the element is shown now or by a timer.
Open(m, blockers, visible) ==
  /\ blocker' = [blockers EXCEPT ![m] = "up"]
  /\ shown' = IF fades THEN visible ELSE visible \cup {m}
  /\ showTimers' = IF fades THEN [showTimers EXCEPT ![m] = @ + 1] ELSE showTimers
  /\ locked' = TRUE /\ keys' = TRUE

-----------------------------------------------------------------------------
(* What the page and its user do. *)

\* close(), by the page, the close link, Escape or a click on an overlay.
CloseCurrent ==
  /\ IsActive
  /\ modals' = Below(1)
  /\ LET c == Closed(1) IN
     /\ blocker' = c.blocker /\ shown' = c.shown /\ locked' = c.locked
     /\ hiding' = c.hiding
     /\ keys' = c.keys /\ early' = c.early /\ misled' = c.misled
  /\ UNCHANGED <<fades, made, orphans, spinning, loading, targetless, showTimers>>

\* new $.modal(), of an element or a link to one, of a link whose content is
\* fetched, or of a link to an "#id" without exactly one element: that modal is
\* on the stack when the constructor gives up.  With closeExisting it first
\* closes the open ones; when a close throws, those below stay and the new one
\* is not opened.
Kinds == {"element", "fetched", "targetless"}

ToClose(closeExisting) ==
  LET stuck == {k \in 1..Len(modals) : Throws(modals[k])} IN
  IF ~ closeExisting THEN 0
  ELSE IF stuck = {} THEN Len(modals) ELSE Len(modals) - Max(stuck) + 1

NewModal(kind, closeExisting) ==
  LET m == made + 1
      n == ToClose(closeExisting)
      c == Closed(n)
      thrown == \E k \in Top(n) : Throws(k)
      only(k) == IF ~ thrown /\ kind = k THEN {m} ELSE {}
  IN /\ made < MaxModals /\ made' = m
     /\ early' = c.early /\ misled' = c.misled /\ hiding' = c.hiding
     /\ modals' = IF thrown THEN Below(n) ELSE Append(Below(n), m)
     /\ spinning' = spinning \cup only("fetched")
     /\ loading' = loading \cup only("fetched")
     /\ targetless' = targetless \cup only("targetless")
     /\ IF only("element") /= {}
          THEN Open(m, c.blocker, c.shown)
          ELSE /\ blocker' = c.blocker /\ shown' = c.shown /\ locked' = c.locked
               /\ keys' = c.keys /\ UNCHANGED showTimers
     /\ UNCHANGED <<fades, orphans>>

\* The content arrives: it goes to the current modal, which is opened.
Loaded(m) ==
  /\ m \in loading /\ loading' = loading \ {m}
  /\ IF IsActive
       THEN /\ spinning' = spinning \ {Current}
            /\ Open(Current, blocker, shown)
            /\ orphans' = IF blocker[Current] = "up" THEN orphans + 1 ELSE orphans
            /\ misled' = (misled \/ Current /= m)
       ELSE UNCHANGED <<spinning, blocker, shown, showTimers, locked, keys, orphans, misled>>
  /\ UNCHANGED <<fades, modals, made, hiding, targetless, early>>

\* The content does not arrive: the current modal leaves the stack.
LoadFailed(m) ==
  /\ m \in loading /\ loading' = loading \ {m}
  /\ IF IsActive
       THEN /\ spinning' = spinning \ {Current} /\ modals' = Below(1)
            /\ misled' = (misled \/ Current /= m \/ locked)
       ELSE UNCHANGED <<spinning, modals, misled>>      \* null.hideSpinner() throws
  /\ UNCHANGED <<fades, made, blocker, orphans, shown, hiding, targetless, showTimers,
                 locked, keys, early>>

\* The timer of open() shows the element, whatever happened since.
ShowTimer(m) ==
  /\ showTimers[m] > 0 /\ showTimers' = [showTimers EXCEPT ![m] = @ - 1]
  /\ shown' = shown \cup {m}
  /\ UNCHANGED <<fades, modals, made, blocker, orphans, hiding, spinning, loading,
                 targetless, locked, keys, early, misled>>

\* The element of a closed modal has faded.
Hidden(m) ==
  /\ m \in hiding /\ hiding' = hiding \ {m} /\ shown' = shown \ {m}
  /\ UNCHANGED <<fades, modals, made, blocker, orphans, spinning, loading, targetless,
                 showTimers, locked, keys, early, misled>>

\* Mutant: another dialog may have been opened while it faded.
FadedAnyway(m) ==
  /\ blocker[m] = "fading" /\ blocker' = [blocker EXCEPT ![m] = "gone"]
  /\ locked' = FALSE
  /\ UNCHANGED <<fades, modals, made, orphans, shown, hiding, spinning, loading,
                 targetless, showTimers, keys, early, misled>>

\* The overlay has faded: unblock(true).
Faded(m) ==
  /\ blocker[m] = "fading" /\ blocker' = [blocker EXCEPT ![m] = "gone"]
  /\ locked' = (locked /\ IsActive)
  /\ UNCHANGED <<fades, modals, made, orphans, shown, hiding, spinning, loading,
                 targetless, showTimers, keys, early, misled>>

ModalNext == \/ \E kind \in Kinds, closeExisting \in BOOLEAN : NewModal(kind, closeExisting)
             \/ CloseCurrent
             \/ \E m \in Modals : \/ Loaded(m) \/ LoadFailed(m)
                                 \/ ShowTimer(m) \/ Faded(m) \/ Hidden(m)

ModalSpec == ModalInit /\ [][ModalNext]_modalVars

-----------------------------------------------------------------------------
(* Properties. *)

\* The modals on the stack that should be on the page.
Opened == Range(modals) \ (loading \cup targetless)

\* The page is covered exactly as long as a dialog is open: the overlays that
\* are up are those of the modals on the stack, but for those that wait for
\* their content or have no target, and once the stack is empty the page
\* scrolls again and no key is listened for; but not after what `misled' notes.
CoveredWhileOpen ==
  ~ misled =>
    /\ orphans = 0
    /\ {m \in Modals : blocker[m] = "up"} = Opened
    /\ Opened /= {} => locked /\ keys
    /\ ~ IsActive => ~ keys
    /\ ~ IsActive /\ (\A m \in Modals : blocker[m] /= "fading") => ~ locked

\* An element that is displayed is that of a modal on the stack, or still fades
\* out, unless the modal was closed before the timer that shows it.
ShownIsOpen == ~ misled => shown \subseteq Range(modals) \cup hiding \cup early

\* Both: dialog, overlay and page belong together.
DialogsInPlace == CoveredWhileOpen /\ ShownIsOpen
=============================================================================
