-------------------------------- MODULE TaskPage --------------------------------
(***************************************************************************)
(* The pages with a table (taskList.html, cacheList.html): frame.js lets a *)
(* visitor in, DataTable draws one page of the server's table, a button of *)
(* a row posts a change and draws the first page again.  Requests are      *)
(* independent: the server handles them, and the answers come, in any      *)
(* order, and each is answered or fails once (Ajax).                       *)
(*                                                                         *)
(* A version of the server's table stands for its contents.  A page is a   *)
(* number or, once read from the page bar's input, a string, which the     *)
(* blur handler's !== tells apart.  The code reads it two ways: parseInt   *)
(* stops at the first character that is no digit, and arithmetic takes     *)
(* the number as it was typed, a decimal fraction as well.                 *)
(***************************************************************************)
EXTENDS Integers, FiniteSets

CONSTANTS
  PageSize,    \* PAGE_SIZE
  Records,     \* rows the server's table may begin with
  TypedPages,  \* what the visitor may type into the page bar
  NaN,         \* what parseInt makes of no number
  MaxRequests  \* bound on the requests of one page

ASSUME PageSizeAssumption == PageSize \in Nat \ {0}

ASSUME NaNAssumption == NaN \notin Int

\* A page: what parseInt makes of it, and ten times its number.
Page == [int: Int \cup {NaN}, tenths: Int]

PageNumber(n) == [int |-> n, tenths |-> 10 * n]

\* The input is empty: parseInt gives NaN, and "" counts as 0.
EmptyField == [int |-> NaN, tenths |-> 0]

\* Nothing, or the digits of a whole number.
DigitsOnly(f) == f = EmptyField \/ (f.int # NaN /\ f.tenths = 10 * f.int)

ASSUME NumbersAssumption == Records \subseteq Nat /\ TypedPages \subseteq Page

NotDrawn == [version |-> -1, records |-> 0, page |-> PageNumber(1), asString |-> FALSE]

VARIABLES
  token,     \* the token in localStorage: "none", "valid" or "expired"
  place,     \* "start", "login" or "table"
  server,    \* version and number of rows of the server's table
  drawn,     \* what render() has put on the page: [version, records, page, asString]
  field,     \* what is in the page bar's input
  requests,  \* requests without an answer: [id, kind, page, asString, rows, seen], with
             \*   the rows of the table shown when it was sent and what the server had
  sent,      \* number of requests so far
  alerted,   \* history: a request has failed, the visitor was told
  overtaken, \* history: a draw was rendered after a draw of a newer table
  fraction   \* history: something other than a whole number was typed

pageVars == <<token, place, server, drawn, field, requests, sent, alerted, overtaken, fraction>>

TaskPageInit ==
  /\ token \in {"none", "valid", "expired"}
  /\ place = "start"
  /\ server \in [version: {0}, records: Records]
  /\ drawn = NotDrawn
  /\ field = PageNumber(1)
  /\ requests = {}
  /\ sent = 0
  /\ alerted = FALSE
  /\ overtaken = FALSE
  /\ fraction = FALSE

-----------------------------------------------------------------------------
TotalPage(records) ==
  records \div PageSize + (IF records % PageSize = 0 THEN 0 ELSE 1)

Unserved == [version |-> -1, records |-> 0]

AskInstead(old, kind, page, asString) ==
  /\ sent < MaxRequests
  /\ sent' = sent + 1
  /\ requests' = (requests \ old) \cup
       {[id |-> sent + 1, kind |-> kind, page |-> page, asString |-> asString,
         rows |-> drawn.records, seen |-> Unserved]}

Ask(kind, page, asString) == AskInstead({}, kind, page, asString)

\* fnDraw(1), and fnDraw() that reads the input.
DrawFirst == Ask("draw", PageNumber(1), FALSE)
DrawField(f) == Ask("draw", f, TRUE)

\* frame.js: without a token that has not expired the visitor goes to the
\* login page; else the page's onload() draws the table.
LoadPage ==
  /\ place = "start"
  /\ IF token = "valid"
     THEN place' = "table" /\ DrawFirst
     ELSE place' = "login" /\ UNCHANGED <<sent, requests>>
  /\ UNCHANGED <<token, server, drawn, field, alerted, overtaken, fraction>>

\* The login answer stores a token for 24 hours and goes to the start page.
LogIn ==
  /\ place = "login"
  /\ token' = "valid"
  /\ place' = "start"
  /\ UNCHANGED <<server, drawn, field, requests, sent, alerted, overtaken, fraction>>

Expire ==
  /\ token = "valid"
  /\ token' = "expired"
  /\ UNCHANGED <<place, server, drawn, field, requests, sent, alerted, overtaken, fraction>>

TypePage ==
  /\ drawn # NotDrawn
  /\ field' \in TypedPages \cup {EmptyField}
  /\ fraction' = (fraction \/ ~ DigitsOnly(field'))
  /\ UNCHANGED <<token, place, server, drawn, requests, sent, alerted, overtaken>>

Total == TotalPage(drawn.records)

\* What the blur handler leaves in the input: it changes only what parseInt
\* finds out of range, and does not see ".5" (no number) or "1e-1" (a 1).
Clamped(f) ==
  IF f.int = NaN THEN f
  ELSE IF f.int > Total THEN PageNumber(Total)
  ELSE IF f.int < 1 THEN PageNumber(1) ELSE f

\* A page read from the input is a string and differs from any number, so
\* that leaving the field draws again; fnDraw reads the input as it is.
Blur ==
  /\ drawn # NotDrawn
  /\ field' = Clamped(field)
  /\ IF drawn.asString \/ field'.int # drawn.page.int
     THEN DrawField(field') ELSE UNCHANGED <<sent, requests>>
  /\ UNCHANGED <<token, place, server, drawn, alerted, overtaken, fraction>>

\* parseInt(currentPage, 10) + d: NaN empties a number input.
Shifted(f, d) == IF f.int = NaN THEN EmptyField ELSE PageNumber(f.int + d)

ClickPrevious ==
  /\ drawn # NotDrawn /\ drawn.page.tenths > 10
  /\ field' = Shifted(drawn.page, -1)
  /\ DrawField(field')
  /\ UNCHANGED <<token, place, server, drawn, alerted, overtaken, fraction>>

ClickNext ==
  /\ drawn # NotDrawn /\ drawn.page.tenths < 10 * Total
  /\ field' = Shifted(drawn.page, 1)
  /\ DrawField(field')
  /\ UNCHANGED <<token, place, server, drawn, alerted, overtaken, fraction>>

\* changeState, execute and the delete button of a row that is shown.
ClickRow ==
  /\ drawn # NotDrawn /\ drawn.records > 0
  /\ \E kind \in {"change", "delete"} : Ask(kind, PageNumber(1), FALSE)
  /\ UNCHANGED <<token, place, server, drawn, field, alerted, overtaken, fraction>>

-----------------------------------------------------------------------------
\* The server handles a request: a draw sees its table, the others change it.
Serve ==
  /\ \E q \in requests :
       /\ q.seen = Unserved
       /\ server' = IF q.kind = "draw" THEN server
                    ELSE [version |-> server.version + 1,
                          records |-> IF q.kind = "delete" /\ server.records > 0
                                      THEN server.records - 1 ELSE server.records]
       /\ requests' = (requests \ {q}) \cup {[q EXCEPT !.seen = server']}
  /\ UNCHANGED <<token, place, drawn, field, sent, alerted, overtaken, fraction>>

\* Rows come from elsewhere: a cache fills.
Grow ==
  /\ \E n \in Records : server.records < n
  /\ server' = [server EXCEPT !.records = @ + 1]
  /\ UNCHANGED <<token, place, drawn, field, requests, sent, alerted, overtaken, fraction>>

\* A page before the first cannot be cut out of a list with rows, and a first
\* row that is no whole number is no parameter of the server.
Refused(q) ==
  /\ q.kind = "draw"
  /\ \/ q.seen.records > 0 /\ q.page.tenths < 10
     \/ ((q.page.tenths - 10) * PageSize) % 10 # 0

\* render(): the rows and a new page bar with the page that was asked for.
Render ==
  /\ \E q \in requests :
       /\ q.kind = "draw" /\ q.seen # Unserved /\ ~ Refused(q)
       /\ drawn' = [version |-> q.seen.version, records |-> q.seen.records,
                    page |-> q.page, asString |-> q.asString]
       /\ field' = q.page
       /\ overtaken' = (overtaken \/ q.seen.version < drawn.version)
       /\ requests' = requests \ {q}
  /\ UNCHANGED <<token, place, server, sent, alerted, fraction>>

\* Mutant: the table is not drawn again.
ChangedUnseen ==
  /\ \E q \in requests :
       q.kind # "draw" /\ q.seen # Unserved /\ requests' = requests \ {q}
  /\ UNCHANGED <<token, place, server, drawn, field, sent, alerted, overtaken, fraction>>

\* The success callback of a row's button draws the first page.
Changed ==
  /\ \E q \in requests :
       /\ q.kind # "draw" /\ q.seen # Unserved
       /\ AskInstead({q}, "draw", PageNumber(1), FALSE)
  /\ UNCHANGED <<token, place, server, drawn, field, alerted, overtaken, fraction>>

\* A request may fail before or after the server handled it.
Fail ==
  /\ \E q \in requests : requests' = requests \ {q}
  /\ alerted' = TRUE
  /\ UNCHANGED <<token, place, server, drawn, field, sent, overtaken, fraction>>

TaskPageNext ==
  \/ LoadPage \/ LogIn \/ Expire \/ TypePage \/ Blur \/ ClickPrevious \/ ClickNext
  \/ ClickRow \/ Grow \/ Serve \/ Render \/ Changed \/ Fail

TaskPageSpec == TaskPageInit /\ [][TaskPageNext]_pageVars

-----------------------------------------------------------------------------
\* Once every request is answered the page shows the server's table as it is
\* after all the changes made from here: a stale table is left only by an
\* answer that overtook a newer one, or by a failure the visitor was told of.
ShownIsFresh ==
  requests = {} /\ drawn # NotDrawn /\ ~ overtaken /\ ~ alerted =>
    drawn.version = server.version

\* As long as only whole numbers are typed, whatever they are and whatever
\* page is on its way when he clicks, the page bar never asks for a page before
\* the first, unless the input was left empty or the table shown then has no
\* rows.  A fraction passes the blur handler: ".5" asks for one.
AsksForAPage ==
  ~ fraction => \A q \in requests :
    q.page.tenths >= 10 \/ q.page = EmptyField \/ q.rows = 0

\* Both: the table follows the server, and the page bar the table.
TableInStep == ShownIsFresh /\ AsksForAPage

=============================================================================
