---------------------------------- MODULE Ajax ----------------------------------
(***************************************************************************)
(* jQuery.ajax over its XMLHttpRequest transport.  The script has one      *)
(* thread; a request is a call of ajax() that sends it and a call of       *)
(* done(), from the answer, the timer or an abort(), and both call code of *)
(* the page at many points.  That code may start a request, abort any      *)
(* request, or throw out of jQuery.                                        *)
(*                                                                         *)
(* A frame of the stack is an ajax() or a done() that has called code of   *)
(* the page; its stage is the point it is at.  What jQuery does up to the  *)
(* next point is one step.                                                 *)
(***************************************************************************)
EXTENDS Integers, Sequences, FiniteSets

CONSTANTS
  Requests,     \* calls of ajax() that may be made
  AjaxSettings  \* sets of flags a request may be called with

ASSUME AjaxSettingsAssumption ==
  AjaxSettings \subseteq SUBSET {"async", "global", "timed", "bubbles"}

VARIABLES
  settings,   \* per request: its flags, NoSettings before the call
  completed,  \* per request: "null", "false" from send() on, "true"
  wire,       \* per request: "none", "open" or "closed", the transport's callback
  timeout,    \* per request: its timer runs
  counted,    \* per request: fireGlobals, it is counted in active
  installed,  \* per request: success, error and complete are installed
  outcome,    \* per request: "pending", "success" or "error"
  ajaxActive, \* jQuery.active
  frames,     \* calls of ajax() and done() in progress: [fn, r, stage, ok]
  signals,    \* history: the ajaxStart and ajaxStop events
  lost        \* history: requests an exception has left half done

ajaxVars == <<settings, completed, wire, timeout, counted, installed, outcome,
              ajaxActive, frames, signals, lost>>

NoSettings == {"not called"}

AjaxInit ==
  /\ settings = [r \in Requests |-> NoSettings]
  /\ completed = [r \in Requests |-> "null"]
  /\ wire = [r \in Requests |-> "none"]
  /\ timeout = [r \in Requests |-> FALSE]
  /\ counted = [r \in Requests |-> FALSE]
  /\ installed = [r \in Requests |-> FALSE]
  /\ outcome = [r \in Requests |-> "pending"]
  /\ ajaxActive = 0
  /\ frames = << >>
  /\ signals = << >>
  /\ lost = {}

Begun == {r \in Requests : settings[r] # NoSettings}

-----------------------------------------------------------------------------
Frame == frames[Len(frames)]
Under == SubSeq(frames, 1, Len(frames) - 1)
At(fn, stage) == frames # << >> /\ Frame.fn = fn /\ Frame.stage = stage

\* The frame on top goes on to the next point that calls the page.
GoTo(stage) == frames' = [frames EXCEPT ![Len(frames)].stage = stage]

\* ajax(): up to the prefilters, which are handed the jqXHR.
Ajax ==
  /\ \E r \in Requests \ Begun, s \in AjaxSettings :
       /\ settings' = [settings EXCEPT ![r] = s]
       /\ frames' = Append(frames, [fn |-> "ajax", r |-> r, stage |-> "prefilter", ok |-> FALSE])
  /\ UNCHANGED <<completed, wire, timeout, counted, installed, outcome, ajaxActive,
                 signals, lost>>

\* A request aborted in a prefilter is not counted; another one is, and the
\* first of a set of requests triggers ajaxStart.
AfterPrefilters ==
  /\ At("ajax", "prefilter")
  /\ IF completed[Frame.r] = "true"
     THEN frames' = Under /\ UNCHANGED <<counted, ajaxActive, signals>>
     ELSE LET global == "global" \in settings[Frame.r]
              first == global /\ ajaxActive = 0
          IN /\ counted' = [counted EXCEPT ![Frame.r] = global]
             /\ ajaxActive' = IF global THEN ajaxActive + 1 ELSE ajaxActive
             /\ signals' = IF first THEN Append(signals, "ajaxStart") ELSE signals
             /\ GoTo(IF first THEN "ajaxStart" ELSE "beforeSend")
  /\ UNCHANGED <<settings, completed, wire, timeout, installed, outcome, lost>>

AfterAjaxStart ==
  /\ At("ajax", "ajaxStart")
  /\ GoTo("beforeSend")
  /\ UNCHANGED <<settings, completed, wire, timeout, counted, installed, outcome,
                 ajaxActive, signals, lost>>

\* Mutant: done() does not look whether the request is completed.
DoneAgain(r, ok, below) ==
  /\ completed' = [completed EXCEPT ![r] = "true"]
  /\ timeout' = [timeout EXCEPT ![r] = FALSE]
  /\ frames' = Append(below, [fn |-> "done", r |-> r, stage |-> "convert", ok |-> ok])

\* done() up to the conversion of the answer: only its first call does
\* anything, it stops the timer and forgets the transport.
Done(r, ok, below) ==
  IF completed[r] = "true" THEN frames' = below /\ UNCHANGED <<completed, timeout>>
  ELSE /\ completed' = [completed EXCEPT ![r] = "true"]
       /\ timeout' = [timeout EXCEPT ![r] = FALSE]
       /\ frames' = Append(below, [fn |-> "done", r |-> r, stage |-> "convert", ok |-> ok])

\* beforeSend may refuse the request or have aborted it: success, error and
\* complete are not installed then.  (Without a beforeSend nobody looks at
\* completed here, and a request aborted in ajaxStart goes on to ajaxSend.)
AfterBeforeSend ==
  /\ At("ajax", "beforeSend")
  /\ \/ /\ installed' = [installed EXCEPT ![Frame.r] = TRUE]
        /\ GoTo("ajaxSend")
        /\ UNCHANGED <<completed, timeout>>
     \/ /\ Done(Frame.r, FALSE, Under)
        /\ UNCHANGED installed
  /\ UNCHANGED <<settings, wire, counted, outcome, ajaxActive, signals, lost>>

NoTransport ==
  /\ At("ajax", "ajaxSend")
  /\ Done(Frame.r, FALSE, Under)
  /\ UNCHANGED <<settings, wire, counted, installed, outcome, ajaxActive, signals, lost>>

\* The timer and transport.send(): it throws, answers at once when the
\* request is synchronous, or the answer is to come.
Send ==
  /\ At("ajax", "ajaxSend")
  /\ LET r == Frame.r
         s == settings[r]
     IN IF completed[r] = "true"
        THEN frames' = Under /\ UNCHANGED <<completed, timeout, wire>>
        ELSE \/ \E ok \in BOOLEAN :
                  /\ ok => "async" \notin s
                  /\ Done(r, ok, Under)
                  /\ wire' = [wire EXCEPT ![r] = "closed"]
             \/ /\ "async" \in s
                /\ completed' = [completed EXCEPT ![r] = "false"]
                /\ timeout' = [timeout EXCEPT ![r] = "timed" \in s]
                /\ wire' = [wire EXCEPT ![r] = "open"]
                /\ frames' = Under
  /\ UNCHANGED <<settings, counted, installed, outcome, ajaxActive, signals, lost>>

-----------------------------------------------------------------------------
\* The transport's callback is dropped before the native request is cancelled.
CancelTransport(r) == wire' = [wire EXCEPT ![r] = IF @ = "open" THEN "closed" ELSE @]

\* abort() by the page, wherever its code runs.
Abort ==
  /\ \E r \in Begun :
       /\ CancelTransport(r)
       /\ Done(r, FALSE, frames)
  /\ UNCHANGED <<settings, counted, installed, outcome, ajaxActive, signals, lost>>

\* Mutant: the native request is cancelled, and that is all.
TimedOutUntold ==
  /\ frames = << >>
  /\ \E r \in Requests :
       /\ timeout[r]
       /\ CancelTransport(r)
       /\ timeout' = [timeout EXCEPT ![r] = FALSE]
  /\ UNCHANGED <<settings, completed, counted, installed, outcome, ajaxActive, frames, signals, lost>>

\* The timer: abort("timeout").
TimedOut ==
  /\ frames = << >>
  /\ \E r \in Requests :
       /\ timeout[r]
       /\ CancelTransport(r)
       /\ Done(r, FALSE, frames)
  /\ UNCHANGED <<settings, counted, installed, outcome, ajaxActive, signals, lost>>

\* The transport's callback for load and error, called once.
Answer ==
  /\ frames = << >>
  /\ \E r \in Requests, ok \in BOOLEAN :
       /\ wire[r] = "open"
       /\ wire' = [wire EXCEPT ![r] = "closed"]
       /\ Done(r, ok, frames)
  /\ UNCHANGED <<settings, counted, installed, outcome, ajaxActive, signals, lost>>

\* The answer is converted (a parser error is an error) and the deferred is
\* settled; its callbacks run.
AfterConvert ==
  /\ At("done", "convert")
  /\ \E result \in {"success", "error"} :
       /\ result = "success" => Frame.ok
       /\ outcome' = [outcome EXCEPT ![Frame.r] = result]
  /\ GoTo("callbacks")
  /\ UNCHANGED <<settings, completed, wire, timeout, counted, installed, ajaxActive,
                 signals, lost>>

\* Where done() calls the page: the callbacks, those of the status code, the
\* global event for the result, complete and the global ajaxComplete.
Stages == <<"callbacks", "statusCode", "result", "complete", "ajaxComplete">>

\* Mutant: a request that beforeSend refused is not counted down.
CallsOfInstalled(r) ==
  {i \in DOMAIN Stages :
     /\ Stages[i] \in {"result", "ajaxComplete"} => counted[r]
     /\ Stages[i] \in {"complete", "ajaxComplete"} => installed[r]}

Calls(r) ==
  {i \in DOMAIN Stages :
     /\ Stages[i] \in {"result", "ajaxComplete"} => counted[r]
     /\ Stages[i] = "complete" => installed[r]}

StageDone ==
  /\ frames # << >> /\ Frame.fn = "done"
  /\ \E i \in DOMAIN Stages :
       /\ Frame.stage = Stages[i] /\ Stages[i] # "ajaxComplete"
       /\ LET later == {j \in Calls(Frame.r) : j > i}
          IN IF later = {} THEN frames' = Under
             ELSE GoTo(Stages[CHOOSE j \in later : \A k \in later : j <= k])
  /\ UNCHANGED <<settings, completed, wire, timeout, counted, installed, outcome,
                 ajaxActive, signals, lost>>

\* The counter goes down last; the last request triggers ajaxStop.
AfterAjaxComplete ==
  /\ At("done", "ajaxComplete")
  /\ ajaxActive' = ajaxActive - 1
  /\ IF ajaxActive = 1
     THEN signals' = Append(signals, "ajaxStop") /\ GoTo("ajaxStop")
     ELSE frames' = Under /\ UNCHANGED signals
  /\ UNCHANGED <<settings, completed, wire, timeout, counted, installed, outcome, lost>>

AfterAjaxStop ==
  /\ At("done", "ajaxStop")
  /\ frames' = Under
  /\ UNCHANGED <<settings, completed, wire, timeout, counted, installed, outcome,
                 ajaxActive, signals, lost>>

\* Code of the page throws: ajax() or done() is left where it is.  What a
\* converter throws is caught, unless the settings let it bubble (throws, or a
\* dataFilter that throws).
PageThrows ==
  /\ frames # << >>
  /\ Frame.stage = "convert" => "bubbles" \in settings[Frame.r]
  /\ frames' = Under
  /\ lost' = IF Frame.fn = "done" /\ Frame.stage # "ajaxStop" THEN lost \cup {Frame.r} ELSE lost
  /\ UNCHANGED <<settings, completed, wire, timeout, counted, installed, outcome,
                 ajaxActive, signals>>

PageReturns ==
  \/ AfterPrefilters \/ AfterAjaxStart \/ AfterBeforeSend \/ NoTransport \/ Send
  \/ AfterConvert \/ StageDone \/ AfterAjaxComplete \/ AfterAjaxStop

AjaxNext == Ajax \/ Abort \/ TimedOut \/ Answer \/ PageReturns \/ PageThrows

\* The page's code returns or throws, and the browser ends a request that was
\* sent with a load or an error.
AjaxFairness ==
  /\ WF_ajaxVars(PageReturns \/ PageThrows)
  /\ WF_ajaxVars(Answer \/ TimedOut)

AjaxSpec == AjaxInit /\ [][AjaxNext]_ajaxVars /\ AjaxFairness

-----------------------------------------------------------------------------
AjaxTypeOK ==
  /\ settings \in [Requests -> AjaxSettings \cup {NoSettings}]
  /\ completed \in [Requests -> {"null", "false", "true"}]
  /\ wire \in [Requests -> {"none", "open", "closed"}]
  /\ timeout \in [Requests -> BOOLEAN]
  /\ counted \in [Requests -> BOOLEAN]
  /\ installed \in [Requests -> BOOLEAN]
  /\ outcome \in [Requests -> {"pending", "success", "error"}]
  /\ ajaxActive \in Int
  /\ frames \in Seq([fn: {"ajax", "done"}, r: Requests, stage: STRING, ok: BOOLEAN])
  /\ lost \subseteq Requests

\* A request that active counts: not done, or its done() has not come to the
\* counter, because it still runs or because the page has thrown out of it.
Counted(r) ==
  /\ counted[r]
  /\ \/ completed[r] # "true"
     \/ r \in lost
     \/ \E i \in DOMAIN frames :
          frames[i].fn = "done" /\ frames[i].r = r /\ frames[i].stage # "ajaxStop"

\* jQuery.active is the number of requests under way (and of those an
\* exception has kept from being counted down), and ajaxStart and ajaxStop
\* alternate: the page's "loading" state is on while there are requests.
ActiveCounts ==
  /\ ajaxActive = Cardinality({r \in Requests : Counted(r)})
  /\ \A i \in DOMAIN signals : signals[i] = IF i % 2 = 1 THEN "ajaxStart" ELSE "ajaxStop"
  /\ ajaxActive > 0 <=> Len(signals) % 2 = 1

\* What a request ended with is final: an answer that comes after an abort or
\* the timeout, or the other way round, changes nothing.
OutcomeFinal ==
  [][\A r \in Requests : outcome[r] # "pending" => outcome'[r] = outcome[r]]_ajaxVars

\* A request that is done has nothing outstanding that could call back, even
\* if it was aborted while ajax() was still preparing it.
NothingOutstanding ==
  \A r \in Requests : completed[r] = "true" => ~ timeout[r] /\ wire[r] # "open"

\* Every request that was sent settles, unless the page throws out of its
\* done(): nobody who waits for it waits for ever.
RequestSettles ==
  \A r \in Requests :
    completed[r] = "false" ~> outcome[r] # "pending" \/ r \in lost

=============================================================================
