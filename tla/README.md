# stockmaster: verification project

stockmaster is a Spring Boot back end that follows Chinese stocks and trades them, with pages that run on jQuery and a
few scripts of their own. The back end's tasks are rows of a table; `POST /system/executeTask` runs them on the
request's thread. The modules here model the tasks that change state and the scripts of the pages, the copy of jQuery
in the repository included. TLC checks them on small instances, and TLAPS proves safety of sixteen of them for
every instance.

Paths below are under `src/src/main/java/com/stock/master/` or, for scripts, `src/src/main/resources/static/js/`
unless they say otherwise; `jquery.js` is `lib/jquery/3.2.1/jquery.js`.

## 1. The system

| part | state it keeps | operations | talks to |
|---|---|---|---|
| task requests (`controller/SystemController`, `service/impl/TaskServiceImpl`, `mapper/impl/ExecuteInfoDaoImpl`) | table `execute_info`: state, start and completion time, message | `changeTaskState`, `executeTask`, `taskList` | every task below; notices |
| trading robot (`trategy/handle/VolumeStrategyHandler`) | table `trade_order`; nothing else survives a tick | one tick: query deals and rows, plan, revoke, submit, save | broker, caches of rules |
| broker interface (`service/impl/TradeApiServiceImpl`, `client/TradeClient`) | per thread a login session; the broker's own book | queries, submit, revoke, authentication | the broker over HTTP |
| daily index update (`TaskServiceImpl.runUpdateOfDailyIndex`) | table `daily_index` | one run over all stocks | quote source |
| history import (`StockServiceImpl.saveDailyIndexFromFile`) | thread pool, a counter, `daily_index` | one call over all stock files | local files |
| stock list update (`TaskServiceImpl.runUpdateOfStock`, `runUpdateOfStockState`) | tables `stock_info`, `stock_log` | crawl, compare, one transaction | crawler |
| price ticker (`TaskServiceImpl.runTicker`, `BeginOfDay`) | the shared map `lastPriceMap` | one run over the selected stocks; clear | quote source, notices |
| trade configuration (`TradeServiceImpl`, `TradeStrategyServiceImpl`) | rule, user, method, strategy tables, and their Redis caches | lookups, `changeConfigState`, `update` | Redis |
| notices (`MessageServiceImpl`) | none | `send`, `sendMd` | DingDing |
| users (`UserController`, `AuthInterceptor`, `RedisClient`) | a token in Redis | login, check | Redis |
| holiday calendar (`HolidayCalendarServiceImpl`) | table of holidays | `updateCurrentYear` | crawler |
| id generators (`src/src/main/java/org/n3r/idworker`) | clock and sequence; code filters and lock files | `nextId`, `Sid.next`, `Code.next`, worker ids | file system |
| table pages (`util/frame.js`, `lib/datatable/datatable.js`, `util/common.js`, `modules/system.js`, templates) | token in `localStorage`, the page drawn, the page bar's field | draw a page, page bar, buttons of a row | the controllers, by `jQuery.ajax` |
| dialogs (`lib/jquery-modal/jquery.modal.js`) | a stack of dialogs, their overlays, the body's lock | open, close, load | ajax, effects |
| callback lists, deferreds, ready (`jquery.js`) | a list's functions, queue and firing index; a promise's state | `add`, `remove`, `fire`, `lock`; `then`, `when`; `ready`, `holdReady` | code of the page |
| element data (`jquery.js`) | a cache object per element | `data`, `removeData`, `cleanData`, `clone` | attributes |
| ajax (`jquery.js`) | per request its state, timer and transport; `jQuery.active`; the pool of JSONP names | `ajax`, `abort`, `done`; conversions; JSONP | deferreds, events |
| events (`jquery.js`) | handlers per element, the flag `triggered` | `on`, `one`, `off`, `trigger`, dispatch | the browser |
| queues and effects (`jquery.js`) | queues, `jQuery.timers`, notes of a stopped fade | `animate`, `delay`, `stop`, `finish`, fades, `show`, `hide` | frames of the browser |
| selectors (`jquery.js`) | caches on the nodes, run numbers | a query | the document |

There is no scheduler in the repository: something outside posts `executeTask`, and nothing keeps two posts apart.
That makes the hard behaviours of the back end:

- **Interleaving.** Two ticks, two daily updates or two runs of one row may overlap; the state `InProgress` of a row
  exists in the enum and is never written.
- **Read early, used late.** A tick works on deals and rows read before its first order; a daily update works on the
  rows read before its first quote; a request works on a list of rows read once.
- **Half-done work.** Every order, row and quote is a call of its own, outside any transaction, and any of them may
  throw, never return (no read timeout is in force) or be the last before a restart.
- **Answers that say little.** A revoke is always taken for a success; a submit whose answer is lost was accepted.
- **Completion.** A later tick or run has to finish what an earlier one left, without doing the rest twice.

A page has one thread, and what makes its scripts hard is:

- **Re-entrance.** jQuery calls code of the page in the middle of its loops, and that code uses the same list, queue,
  event, request or timer again, or throws out of it.
- **Order of answers.** Answers, timers, frames and clicks come in any order.
- **Caches and notes.** Data read once from an attribute, what a combinator found on a node, the style a stopped fade
  began with, a name returned to a pool: each is used later, when it may no longer be right.

What makes each part correct:

- *Robot*: each follow-up of a fully dealt order is placed, once, with that order's stock and volume, after the other
  leg of the pair was asked to be revoked; no more is sold than was bought; only own orders are revoked.
- *Task requests*: an enabled row stays enabled until the operator disables it; a row shows one finished run of its
  own with that run's result; requests are answered.
- *Daily index*: a row for each stock that traded that day, one, and for no other day or stock.
- *History import*: each file handled once; the call returns when the sub tasks are done.
- *Stock list*: a stock is inserted once unless runs overlap, the log tells each row's name, and the table comes to
  follow the exchanges' list.
- *Callback lists and promises*: everybody who registered is called, once, in order, with the right value; a promise
  settles once. *Ready*: not before the document and every hold, and not never. *Data*: keeps its value.
- *Ajax*: a request settles, once; requests are counted exactly; an answer is converted to a type that was expected;
  a JSONP request gets its own answer. *Table pages*: table, page bar and server agree when all is answered.
- *Events*: the right handlers run once per event. *Effects*: one item of a queue at a time, no timer forgotten, the
  element left as asked. *Dialogs*: the page is covered exactly while a dialog is open. *Selectors*: what is found is
  what the selector selects now.

`PROJECT.json` lists all parts with what is left out of each, and every hazard at its line.

## 2. Modules

| module | models | extended by |
|---|---|---|
| `VolumeStrategy` | one tick of the robot, the broker's book, `trade_order` | `MCVolumeStrategy`, `VolumeStrategyProofs` |
| `TaskBoard` | what the task list promises its operator (abstract) | instantiated by `TaskExecution` |
| `TaskExecution` | requests over `execute_info` | `MCTaskExecution`, `PageProofs` |
| `DailyIndexUpdate` | runs over `daily_index`, the calendar and the quote source | `DailyIndexUpdateProofs` |
| `BatchImport` | the import call and its pool | `BatchImportProofs` |
| `StockUpdate` | runs over `stock_info` and `stock_log`, the exchanges' list | `MCStockUpdate`, `StockUpdateProofs` |
| `Lists` | what `splice()` in a loop leaves of an array | `Callbacks`, `Events` |
| `Callbacks` | a callback list and code that uses it; its operations as functions | `Deferred`, `CallbacksProofs` |
| `Promise` | what a promise promises (abstract) | instantiated by `Deferred` |
| `Deferred` | deferreds, `then`, `when`, over the lists of `Callbacks` | `MCPromises`, `DeferredProofs` |
| `Ready` | `ready`, `holdReady` and the parsed document | `MCPromises`, `PageProofs` |
| `Data` | the data of an element and its clone | `MCPromises`, `PageProofs` |
| `Ajax` | requests that call code of the page | `MCRequests`, `PageProofs` |
| `Convert` | the choice and conversion of an answer | `MCRequests` |
| `Jsonp` | JSONP requests over the pool of names | `MCRequests`, `PageProofs` |
| `TaskPage` | a page with a table, over requests answered in any order | `MCRequests`, `PageProofs` |
| `Events` | handlers, dispatch, `trigger` on an element and its parent | `MCPage`, `CallbacksProofs` |
| `Effects` | queues, timers and frames | `MCPage`, `EffectsProofs` |
| `Fade` | fades beside `show` and `hide` | `MCPage`, `PageProofs` |
| `Modal` | dialogs | `MCPage`, `PageProofs` |
| `Sizzle` | compiled selectors and their caches | `MCPage` |

Definitions named `...Checked`, `...Missing`, `...Retry` and so on, each under a comment "Mutant:", are faulty variants
of a neighbouring definition. `Next` uses none of them; they show that the properties notice such a fault.

### VolumeStrategy

State: the broker's `order` (accepted orders, the index is `wtbh`), `deals` (index `cjbh`) and `asked` (codes it was
asked to revoke); `tradeOrder`; and for each request thread where its tick stands and the locals it still uses.
`placedBy` and `tradeCode` of an order are history that the properties use; no guard reads `placedBy` except that the
user's orders are bounded.

| action | code |
|---|---|
| `QueryDeals` | `queryInput`: `getDealData`, merged by `mergeDealList` |
| `Plan` | `queryInput`: `getTodayTradeOrderList`; then `handle(input)`: rule lookup, `setNeedSubmit`, `setNeedRevoke` |
| `Revoke` | one iteration over `revokeList`; the broker may or may not honour it |
| `SubmitAccepted`, `SubmitRejected` | one `trade` call, with its two answers |
| `SaveTradeOrder` | `tradeService.saveTradeOrder` of the accepted order |
| `EndTick`, `AbortTick`, `HangTick`, `Crash` | return; an exception caught in `runTradeTicker`; a call without answer; a restart |
| `PlaceManually`, `Fill` | the user and the exchange |

A lost answer is `SubmitAccepted` followed by `AbortTick`: the order is in the book, the row is not in the table.
`Ruled` are the stocks whose rule every lookup finds; for any other stock `Plan` chooses, which covers an absent,
closed or stale cached rule. `NewestFirst` is the order of the broker's list, which the code does not sort. Left out:
prices, funds, and the change of day (deals, rows and codes are those of one trading day).

### TaskBoard and TaskExecution

`TaskBoard` knows rows, runs and what each row shows: `Toggle`, `Start`, `Finish`, `Tell`. `TaskExecution` has the
columns `state` and `record`, the list `runs` as history, and threads: `Execute` (read the list), `StartRun`,
`BodyDone` or `BodyFails`, `SendNotice`, `Save`, `EndRequest`; `Escape` is an exception nobody catches (an unknown task
id, a failing notice, a failing update), `Hang` a call without answer. The number of a run stands for both times it
writes, which is the order of its start times. `beside` is history: the runs that were under way when a run started.
The message of a failed run may be `null` (an exception without text);
as it is not the empty one a run begins with, both are `"error"`. The `Board` instance maps the two columns to the
board: `enabled` are the rows in state `Pending`, `shown` is the run in the columns with the result its message tells.
`QuietTasks` are the tasks whose body cannot throw (`EndOfYear`, `EndOfDay`, `BeginOfDay`).

### DailyIndexUpdate

The code has two dates. Rows are asked for by the local date, GMT+8 (the database connection is set to it,
`application.properties:9`); a quote's date, which the parser reads in GMT too, is compared with what Apache's
`DateUtils` makes of the present time (`TaskServiceImpl:183`, `:193`), which is the date in GMT, before 08:00 the day
before. `Source` moves calendar, clock and quotes: `NextDay` is midnight, from which it is `early` until `Morning`,
08:00; the exchange opens later, and then a quote is dated today without a trade (`Open`) until it has one (`Trade`); a
suspended stock keeps its old quote. A run takes the list and both dates (`Start`; `GmtDate`), reads the rows of the
local one (`ReadDay`), and for each stock without one fetches the quote (`Fetch`, or `NoAnswer` when the source answers
nothing usable) and inserts what is `Wanted` by the other (`Insert`). `Abort` is any exception: the loop has no catch.
The table is a bag, as it may hold the same row twice. `trades`, and `by` and `early` of a row, are history. The step
at which a run hangs is a step it does not take, so the safety properties cover it without an action.

### BatchImport

`Submit` is `threadPoolTaskExecutor.execute` by the rules of `ThreadPoolExecutor`: a new thread below the core size,
else the queue, else a new thread up to the maximum, else a rejection, which `HandleRejected` handles in the call.
`CountIn`, `Handle`, `CountOut` are the sub task; `Poll` and `WakeUp` are the final loop. In this commit nothing calls
`saveDailyIndexFromFile`; it is public interface of `StockService`.

### StockUpdate

State: the exchanges' list (`source`), the two tables (the position of a row of `stockInfo` is its id), and for each
thread what its run has read (`db`) and crawled. `first` and `by` of a row are history.

| action | code |
|---|---|
| `Change` | a stock is listed, renamed or delisted, at any time |
| `Read` | `stockService.getAll()`, the indices filtered out, grouped by code; `get(0)` of a group is the row with the least id |
| `Crawl` | `stockCrawlerService.getStockList()` |
| `Update` | the comparison, then `StockServiceImpl.update`: insert, rename by id, write the log, link it (`setStockIdByCodeType`) |
| `Abort` | an exception anywhere, a restart, an empty crawled list |

`Update` is one action because it is one transaction: its statements lock the rows they touch until the commit, and an
exception rolls all of them back. The order of the crawled list is free (`ListsOf`), and so is which of several matching
rows the linking statement takes (`Picks`): it joins all of the log to the new codes by *name*. Names are two sorts, of
stocks and of indices, and `OriNames` are those `isOriName` accepts. The schema is not in the repository; where its keys
refuse a row the run ends as in `Abort`. A code is taken to be listed once. `runUpdateOfStockState` changes
nothing: the parser of a stock's state throws "Not yet implemented". Left out: abbreviation, exchange and type of a
row, and the eviction of the cached stocks.

### Callbacks, Deferred and Promise

`Callbacks` has two parts. The first are the operations of a list (`add`, `remove`, `fire`, `lock`, ...) as functions
of the variables of its closure; `index` is `firingIndex` + 1. The second is one list and arbitrary code that uses it,
at the top level or inside a callback: `Add`, `Remove`, `Empty`, `Disable`, `Lock` and `FireList` may be taken at any
time, `CallNext`, `Return`, `ReturnFalse`, `Throw`, `NextValue` and `Finish` are the loop of `fire()`. A callback that
throws leaves the list `firing` for good, as in the code; later fires then only queue their value.

`Deferred` uses the functions for the three lists of every deferred: `Roots` that scripts made, `Children` that
`then()` returned, the `Master` of `when()`. jQuery's own callbacks run no script and are one step with the fire. The
handlers of `then()` run from timers in their order (`DropTimer`, `PassOn`, `CallHandler`); a handler returns a value
or a thenable, or throws. A thenable is foreign code with the functions it was given (`CallHook`): it calls any of
them, late, and again. `maxDepth` makes all but its first word void. `Promise` says what a promise promises (`Settle`
once, `Register`, `Answer` once with the settled value); `Deferred` instantiates it with the state and memory of its
lists.

### Ready and Data

`Ready` counts as `readyWait` does: `Hold`, `Release`, `Parsed`. What `readyList` holds is how things stood when
it was resolved. `Data` has the attributes, the cache objects and who holds them: the element, its clone, and the page,
which may write into an object that `data()` gave it (`WriteObject`), also after the element let go of it.
`agreed` is history: what each key was set to or read as.

### Ajax, Convert, Jsonp

`Ajax` has a stack of frames: an `ajax()` or a `done()` that has called code of the page, at one of eleven points. At
each point that code may start a request, abort any request, return or throw; what jQuery does up to the next point is
one step. `settings` are the flags the code branches on. `wire` is the transport's callback: `Answer` is the browser's
load or error, which may come at any time while it is open. `Convert` runs `ajaxHandleResponses` and `ajaxConvert` on
types: `actual` is the type that the value really has, `prev` the one the loop takes it for. `Jsonp` has `window`'s
functions, the pool `oldCallbacks` and the scripts on their way; `GiveUpJsonp` removes the tag, which need not stop its
script.

### TaskPage

`frame.js`'s check of the token (`LoadPage`, `LogIn`, `Expire`), DataTable's page bar (`TypePage`, `Blur`,
`ClickPrevious`, `ClickNext`), a button of a row (`ClickRow`), the server (`Grow`, `Serve`) and the answers (`Render`,
`Changed`, `Fail`). A version of the server's table stands for its contents. That the page number is a string once it
was read from the field is kept, as `!==` compares it, and so are the two ways the code reads that string: `parseInt`
for the limits of the blur handler, and as a number where the first row asked for is computed. So `.5`, `1e-1` and
`1.5`, which a number input takes, pass the handler unchanged. `Refused` is `BaseController.subList` below the first
row, or a first row that is no integer. `fraction`, `overtaken` and `alerted` are history.

### Events

The stack `doing` holds what the browser and jQuery are in the middle of: a native event on its way up, a `trigger()`,
and the dispatch on one element with the handlers copied at its start. `On`, `Off`, `Trigger`, `Click` and `StopEvent`
may be taken inside a handler. `DefaultAction` is the method that `trigger()` calls, which fires the event natively
under the flag `triggered`.

### Effects and Fade

`Effects` has the queue of each element with its sentinel, `timers`, the pending `delays`, the requested frames
(`loops`), and `frames`, the calls interrupted by a complete callback: a tick at a position in the list, a `stop()` or
a `finish()` half way. The callback (`CompleteReturns`, `CompleteThrows`) may call `Ask...`, `Stop`, `Finish` and
`ClearQueue` in between. `Fade` is one element's `display` and `opacity` with the data `fxshow` and `display`; it
starts fades, ticks, ends or stops them, and calls `show`, `hide` and `toggle` at any time.

### Modal and Sizzle

`Modal` numbers dialogs as they are made: `NewModal` for an element, for a link whose content is fetched, or for a link
to an `#id` without exactly one element, which leaves a dialog on the stack that opens nothing (`targetless`);
`CloseCurrent`, the answer (`Loaded`, `LoadFailed`), the timer that shows a dialog, and the ends of the fades of an
overlay (`Faded`) and of a closed dialog's element, which is displayed until then (`hiding`, `Hidden`). Each dialog has
an element of its own. `Sizzle` runs a list of compiled selectors over the elements of a page from the last compound to
the first: `question` is what is being asked of a node, `Loop` is the walk of a combinator with its cache of `dirruns`
and `doneName`, and `Rename` changes the page between two queries. `Selected`, with the properties, is the reference:
what a selector means, without order or cache.

### Composition

The parts of a page share no state that the modules keep apart, so three MC modules put them side by side in one run
each: `scene` is chosen at the beginning and says which machine moves. Where they do interact, one module has it:
`Deferred` extends `Callbacks`; `TaskPage`'s requests are answered or fail once, as `Ajax` has it; `TaskPage`'s button
posts what `TaskExecution` receives.

## 3. Runs

| run | question | instance |
|---|---|---|
| `robot_two` | do orders match fills through every failure of two threads' ticks, and what is left when they interleave? | 2 threads (symmetric), 1 stock, 1 manual order of volume 1 or 2, 3 orders, ticks that hang |
| `robot_chain` | pairs of legs dealt and revoked in every order; does each tick end and each fill get its follow-ups? | 1 thread, 2 stocks, one without a certain rule, 1 manual order, 4 orders |
| `task_requests` | does the table implement the board; are requests answered? | 2 requests, 3 rows of 2 tasks, 2 runs |
| `task_latest_shown` | violated: see below | as `task_requests` |
| `task_button` | violated: see below | as `task_requests` |
| `daily_rows` | rows of traded days only, one for a thread and day from 08:00 on; do repeated runs complete the day? | 2 threads, 2 stocks, 2 days, 1 copy of a row before 08:00 |
| `import_files` | is each file handled once, and in the end? | 4 files, core 1, maximum 2, queue 1 |
| `import_waits` | violated: see below | as `import_files` |
| `stock_list` | do table and log stay consistent, and does the table come to follow the list? | 2 threads, 2 codes, 3 stock names (one with a prefix), 1 index, 2 changes |
| `promises` | does everybody who registered hear of it, once and in order; do promises implement the abstract one; does ready wait, and data stay? | a list of 6 sets of flags with 2 functions and 5 operations; 2 roots, 2 children, 1 master, 4 calls, 2 thenables; 3 holds; 2 keys, 2 values, 6 calls |
| `requests` | do requests settle once and in the end, are they counted, converted to what was expected, answered with their own answer, and does the table follow? | 2 requests of 4 sets of flags; 3 types, up to 2 converters; 3 JSONP requests; pages of 2 rows over 0 or 3 records, 6 pages typed of which 3 are fractions, 3 requests |
| `page` | do handlers run once and in order, queues advance, fades end as asked, dialogs cover the page, selectors find what they select? | 2 functions (symmetric), 3 uses; 2 elements (symmetric), 3 items, 2 stops, 2 frame loops; 3 dialogs; 6 pages of 4 elements, 28 queries, 2 of them on one page |

**Bounds.** In the robot a hazard needs at most a purchase, its two follow-ups and one follow-up of those: four orders
(`MaxOrders`), of which three reach a partial fill, a lost row and a second thread's duplicate. `SalesCovered` is about
the sales of one thread. Volumes 1 and 2 are the least with a partial deal. Two threads are the least with an
interleaving; every property compares at most two orders, rows, runs or threads. `MaxRuns` = 2 gives two overlapping
runs of one row, with two rows of one task whose id is the id of another row, and an unknown task; `QuietTasks` is
empty there, as such a task only does less. Two days are one midnight and one morning; `MaxCopies` only keeps a
thread's runs before 08:00 from inserting the same row for ever. In the import four files fill thread, queue and second
thread and leave one to be rejected. In the stock list, two changes after the first listing are a listing and a
renaming, a renaming and another back, or a delisting and a relisting, each between the reads and the saves of two
runs; with the index first in the table or not, a new stock becomes row 2 or row 1, which the linking statement leaves
out.

For the scripts: five operations are a list that is filled, fired, and changed and fired again by its second callback;
the flags are those of a deferred's lists, and each of the others. Four calls settle two roots and chain a `then()` to
each, or a `then()` to a `then()`, with a callback beside them; two thenables are one that resolves with another. Two
ajax requests nest once, abort each other, and race with their own answer and timer. Two converters are what the code
combines at most. Three JSONP requests are one whose name two later ones may reuse. Three page requests are a change
and two draws that overtake each other. Three uses bind two handlers, the second before or in a dispatch, and trigger
or click (the theorem below covers any number); two animated elements are a callback of one that stops the other's
timer, with three items: a running one, a waiting one and one asked for in the callback. Three dialogs are one below,
one current, one loading. Four elements in two shapes of tree give each combinator a node to skip; the selectors have
three compounds, `:not()` with two, or a list of two, so that each cache is met by another matcher, and the second
query finds the marks of the first. `MaxOrders`, `MaxManual`, `MaxRuns`, `LastDay`, `MaxCopies`, `MaxChanges`,
`MaxOperations`, `MaxCalls`, `MaxAdoptions`, `MaxHolds`, `MaxDataCalls`, `MaxExpected`, `MaxRequests`, `MaxUses`,
`MaxItems`, `MaxStops`, `MaxFrames`, `MaxModals` and `MaxQueries` are the only bounds; the code has none of them.

**Deadlock** is checked everywhere but in the import, which comes to rest when all is done, and in the three runs of the
scripts, which rest when the calls their bounds allow are made and answered.

**Fairness.** A step of a thread that may be taken is taken: threads run, and calls return unless they hang, which
`HangTick` and `Hang` choose. `TickFairness` and the `FairSpec`s say no more, with one exception each. `RetrySpec` also
lets the operator start ticks again and again, and the broker not decline for ever (strong fairness of
`SubmitAccepted`); `FairSpec` of `DailyIndexUpdate` and of `StockUpdate` lets runs be started again. Neither is in the
code: both are conditions on its surroundings. `EveryFillFollowedUp`, `TradesGetRows` and `TableFollowsSource` also
assume finitely many faults, where a fault is a tick or run cut short (or, for a quote, no answer about a stock that
should get a row). No fairness is assumed for faults, the user, the exchange, the calendar or the operator's buttons.
`AjaxFairness` says that code of the page which jQuery has called returns or throws, as there is one thread and nothing
else would run until then, and that the browser ends a request that was sent, with a load or an error, or its timer
does. Answers, frames and timers of the other machines need no fairness: their properties are safety.

## 4. What the runs show

Properties that hold:

- `RowsBacked`, `OncePerThread`, `FollowUpMirrorsFill`, `SalesCovered`, `RevokesOtherLegOnly`, `OtherLegAskedFirst`.
  A revoke is only ever asked for an own order whose other leg was dealt in full.
  The robot's only memory is `trade_order`, and for the ticks of one thread it suffices: whatever is cut short, a
  follow-up is placed a second time only if the first order's row was lost.
- `TickEnds`, `EveryFillFollowedUp`: no tick loops, and whatever was declined or cut is taken up by a later tick.
- `ImplementsBoard`, `SuccessShownIsReal`, `RequestEnds`. `OlderRunOverlapped`: a row shows an older run than one that
  was written only if the newer began while the older was under way; runs one after the other, of whichever request, are
  shown in order.
- `OneRowPerThread` (of runs begun at 08:00 or later), `RowsAreTraded`, `TradesGetRows`; `HandledOnce`,
  `EveryFileHandled`.
- `LogTellsName`, `RenamesFromAName`, `LogsNameTheirStock`: however runs overlap, `stock_log` explains the names in
  `stock_info`. `OneRowPerThread` (of `StockUpdate`): only overlapping runs insert a stock twice. `TableFollowsSource`:
  once the list rests, the row a run reads for a code gets the listed name, whatever stale runs saved before.
- `CalledAllInOrder`, `PromisesKept`, `ImplementsPromise`: whatever a callback does to the list that calls it, nobody
  is skipped or called twice, and every promise settles once, with what it was settled with, also with thenables that
  answer late or twice.
- `ReadyWhenFree`; `DataKept`: no attribute, clone, removal or object the page kept changes another's data.
- `ActiveCounts`, `OutcomeFinal`, `RequestSettles`, `ConvertsToExpected`, `JsonpAnswersItsOwn`, `TableInStep`.
- `HandlersRunRight`, `OneInProgress`, `TimersRun`, `FadesAsAsked`, `DialogsInPlace`, `FindsSelected`.

What the robot does **not** guarantee, and the properties therefore do not claim: two overlapping ticks, or a tick
after one that lost a row, place a follow-up twice; an order whose row was lost is never revoked as a sibling; an order
the broker did not revoke stays live, and when it is dealt in full it is followed up like any other; where both legs of
a pair are dealt between two ticks, the robot asks to revoke both; a revoked order that was dealt in part is not
followed up.

What ticks and requests do not guarantee is an end: a call without answer keeps its thread for good. `TickEnds` and
`RequestEnds` say that nothing else does.

What the daily index does not guarantee: overlapping runs insert a row twice, and so do runs between midnight and 08:00
even one after the other, as they find no rows of the new day and take the quotes of the old (`early`).

What the stock list does not guarantee: overlapping runs insert a stock twice, and later renames reach only the first
of its rows; a run may put back the name another run has replaced, until the next; the log row of a new stock is linked
by name, so that the log row of an older stock of that name is linked to the newer stock; the first row is never
linked.

What the scripts do not guarantee, each a history variable (or a part of a property) that says where a property ends:

- A callback that throws out of a list leaves it `firing`, and nothing fired later is called (`Stuck` in `Deferred`).
- A page that throws out of `done()` leaves its request counted and perhaps unsettled (`lost` in `Ajax`). A request that
  is aborted in an `ajaxStart` handler goes on to `ajaxSend` if it has no `beforeSend`, though it was aborted.
- The name of an aborted JSONP request goes back to the pool while its script may still come: the next request then gets
  that answer (`reused`).
- Answers of two draws may overtake each other, and the older table stays (`overtaken`). A fraction typed
  into the page bar asks for a page before the first, or for one and a half (`fraction`); an empty field, and the
  page bar of a table without rows, ask for page 0.
- An event triggered inside the default action of a `trigger()` ends the suppression of the second event too early
  (`nested`); a `one()` handler copied by an outer dispatch on the same element runs again (`overlap`).
- A complete callback that `stop()` runs in its loop may shorten the list: `stop()` then takes out the timer that has
  come to that index (`jquery.js:7315`), or throws where there is none; and forced to the end, it may leave the dequeue
  to a callback that does not come (`lost` in `Effects`). An animation whose timer was taken out like that stays
  started for ever, and a later `stop()` of its element starts the next beside it: `OneAtATime` counts those that will
  end. A page that clears or stops the queue of an animation whose callback still runs may start a second one; `cut`
  notes every clearing of a queue that is not empty.
- A plain `show()` or `hide()` in the middle of a fade, or a toggle that was stopped before it, decides where it ends
  (`disturbed`).
- The content of a dialog goes to whichever dialog is the current one; a dialog closed before it has an overlay throws,
  and one without a target never has one, but stays on the stack over an open page until that close; a failed load
  leaves the lock of the dialog below (`misled`). A dialog that is closed before its timer is shown without an overlay
  (`early`).

Three disagreements between the code and what the repository says of it, each a run that ends in a violation:

- `LatestRunShown`: the task list calls its columns "latest start time" and "latest end time"
  (`templates/system/taskList.html:75`, `:84`). `executeTask` writes both when a run ends (`TaskServiceImpl:103`), so
  that of two overlapping runs of a row the one that *ends* last is shown, though the other started later.
- `RunsTheRowPressed`: the button of a row posts the row's id (`taskList.html:101`, `:122`), and
  `ExecuteInfoDaoImpl:29` compares it with task ids. Where the ids of rows and tasks differ, other rows are run.
- `WaitsForSubTasks`: `StockServiceImpl:173` polls while the counter of sub tasks is *not* positive and logs that a
  sub task is not completed. It can do so for ever after all have finished, and returns while they run.

## 5. What is proved

TLAPS proves, with no assumption but those the modules state on their constants (named `...Assumption`):

| module | theorem | inductive invariant |
|---|---|---|
| `VolumeStrategyProofs` | `TypeCorrect`, `RowsBackedAlways`, `OncePerThreadAlways` | `IInv`: `TypeInv /\ RowsBacked /\ UniqueInv /\ HoldingInv /\ PendingInv /\ OneRowInv` |
| | `FollowUpMirrorsFillAlways`, `RevokesOtherLegOnlyAlways` | `FollowInv`: `IInv /\ HandInv /\ FollowUpMirrorsFill /\ RevokedInv` |
| | `SalesCoveredAlways` | `FollowInv`, and lemmas on sums over finite sets |
| | `OtherLegAskedFirstAlways` | `FollowInv /\ AskedInv` |
| `DailyIndexUpdateProofs` | `TypeCorrect`, `OneRowPerThreadAlways`, `RowsAreTradedAlways` | `TypeOK /\ RunInv /\ QuoteInv /\ OneRowPerThread /\ RowsAreTraded` |
| `StockUpdateProofs` | `TypeCorrect`, `OneRowPerThreadAlways`, `LogTellsNameAlways`, `RenamesFromANameAlways`, `LogsNameTheirStockAlways` | these, `IndexInv /\ NameInv /\ DbInv` |
| `BatchImportProofs` | `HandledOnceAlways` | `ImportTypes /\ CallInv /\ QueueInv /\ OnceInv` |
| `CallbacksProofs` | `CalledAllInOrderAlways` | `CallbackTypes /\ ListInOrder /\ ListRests /\ CallsBehind /\ OwedAhead /\ CallsInv` |
| | `HandlersRunRightAlways` | `EventTypes /\ HandlersFit /\ Numbered /\ ClimbsOnce /\ Suppressed /\ DispatchFits /\ NoneAhead /\ OneIsOver /\ RanOnce` |
| `DeferredProofs` | `PromisesAreKept`, `DeferredsImplementPromises` | `DeferredInv`: `FollowInv /\ AskedRight /\ AskedKept /\ MasterEntries /\ MasterWaits /\ MasterRight` |
| `EffectsProofs` | `QueuesAdvance` (`OneInProgress`), `TimersGoOn` (`TimersRun`) | `EffectsInv`: `EffectTypes /\ Sound /\ SentinelFirst /\ LoopRuns /\ TimersKept /\ SpareBelow /\ Busy /\ OneOf` |
| `PageProofs` | `ReadyWhenFreeAlways` | `Flags /\ WaitCounts /\ ResolvedFree` |
| | `DataKeptAlways` | `DataTypes /\ ObjectsInv /\ AgreedInv` |
| | `FadesAsAskedAlways` | `FadeTypes /\ OpacityKept /\ WillEndAsAsked /\ EndsAsAsked` |
| | `DialogsInPlaceAlways` | `ModalTypes /\ StackOfModals /\ NotOpenedYet /\ PageFits` |
| | `TypeCorrect`, `OlderRunOverlappedAlways`, `SuccessShownIsRealAlways`, `Implementation` | `TypeOK /\ RunsAreOwned /\ StageInv /\ ListInv /\ ShownInv /\ BesideInv /\ OlderRunOverlapped` |
| | `OutcomeFinalAlways` | `AjaxInv`: `RequestTypes /\ ConvertInv /\ SettledInv` |
| | `ActiveCountsAlways` | `AjaxInv`, `SentInv`, `ActiveInv`: `CountTypes /\ FramesInv /\ BegunInv /\ CountInv /\ SignalsInv` |
| | `JsonpAnswersItsOwnAlways` | `JsonpTypes /\ NamesEnough /\ PoolFree /\ HoldsGlobal /\ OverwrittenGiven /\ NotAskedYet /\ CalledByItsOwn` |
| | `TableInStepAlways` | `PageTypes /\ VersionsPast /\ NothingPressed /\ DrawnPage /\ AsksForAPage /\ FreshOrWillBe` |

Why the strengthenings are needed:

- *Robot.* That a thread's second order for a follow-up implies a lost row depends on what the tick still has to do.
  `UniqueInv`: a tick never holds two requests for one follow-up. `HoldingInv`: the code a thread holds is that of its
  own order for the request at hand, without a row. `PendingInv`: no request is pending whose row the thread saved.
  `OneRowInv` is the property for saved orders. `Plan` establishes `PendingInv` because rows are read after every
  earlier row of the thread was saved; that the rows grow afterwards by other threads does no harm, as the property
  compares orders of one thread. `TypeInv` adds that deals name orders of the book.
- *Robot's follow-ups.* `HandInv` says that what a tick has in hand mirrors an order dealt in full (`Mirrors`), and
  that what it is about to revoke is the other leg of one (`OtherLegDealt`); `RevokedInv` says the latter of what it
  has revoked, and with `RowsBacked` gives `RevokesOtherLegOnly`. All stay true however long the tick waits: an order
  dealt in full gets no more deals (`DealsStay`), so that the sum over its deals, a fold over the same set of the same
  volumes, stays what it is (`SumSame`, `FullStays`), and with it the first deal of the broker's list, whose code the
  merged deal has. `AskedInv`: for each request in hand, one of the other legs the tick's rows name was asked to be
  revoked or is still in hand; a submit needs that no revoke is.
- *Robot's sums.* `SalesCovered` compares the sum over a thread's sales with that over all purchases. `MapThenSumSet`
  is a recursion over picks from a set; that it defines a function, and that the order of the picks does not matter
  (`TotalTakes`), is proved by a set of least size for which it would not be so, as the library's induction theorems
  cannot be used. Each sale takes the volume of a purchase dealt in full (`FollowUpMirrorsFill`) and no two the same
  one (`OncePerThread`): a one-to-one mapping, under which a sum does not grow (`TotalInto`).
- *Task requests.* `RunsAreOwned`: no two requests work on one run. `BesideInv`: a run under way is beside every newer
  one, so that what it overwrites when it is saved began while it ran. `StageInv` ties the place of a request to the
  result of its run, `ListInv` the list to the id asked for, `ShownInv` the columns to a finished, written run. With
  them every step is a step of the board or a stutter: `ChangeTaskState` a `Toggle`, `StartRun` a `Start`, `BodyDone`
  and `BodyFails` a `Finish`, `Save` a `Tell`, all others stutter (`StepImplemented`).
- *Daily index.* `RunInv`: what a run still has to look at, or is about to insert, its thread has not inserted for that
  day, if its two dates agree (`DatesAgree`), as they do for a run begun at 08:00 or later; only those rows are
  counted. `QuoteInv`: a quote with a volume is of a day with a trade.
- *Stock list.* `DbInv`: what a run remembers of a code is a stock of that code under a name it had, or that its
  thread has inserted none, which only its own `Update` can change. `NameInv`: a row's name is one it was given.
  `IndexInv`: an index is told by its name and entered by hand, so linking by a stock's name meets no index.
  `UpdateEffect` says what `Update` does without its lists, by what the steps of the transaction keep and add; the
  preservation of the invariant rests on it alone.
- *History import.* A file is at one place: to be submitted, rejected, queued once, with a thread, or done
  (`CallInv`, `QueueInv`), and what is still at one of the first four was not handled (`OnceInv`).
- *Ajax.* `ConvertInv`: in the stack is at most one `done()` of a request that has its conversion before it, and that
  request is completed and pending; a settled one is completed (`SettledInv`), so that no later answer, timer or abort
  comes to a conversion. For the count, `FramesInv`: a call of `ajax()` or `done()` is in the stack once, a `done()` only
  of a completed request, and one at `ajaxComplete` of a request still counted; `SentInv`: a timer or an open transport
  is of a request that was begun, so that no event brings a `done()` for a request that never counted. Then each step
  moves at most one request in or out of the set that `jQuery.active` counts, and `SignalsInv` follows, as jQuery
  signals where the count leaves or reaches zero.
- *JSONP.* `PoolFree`: a name is in the pool once, and not while its request is pending; so a name that is handed out
  has no callback (`HoldsGlobal`), and the global is the new request's alone. `OverwrittenGiven`: only names that the
  page itself gave are ever put back to an older callback. `CalledByItsOwn` carries the answer from the call of the
  global to the success callback. `NamesEnough` bounds the counter of made-up names by the requests.
- *Table pages.* `FreshOrWillBe`: whenever the table drawn is not the server's, a request under way will show it. A
  change on the server is the handling of a button's request, whose answer draws again; that no button is pressed
  before there are rows is `NothingPressed`. `DrawnPage` gives the page bar a page to count from.
- *Data.* `ObjectsInv`: element and clone never share a cache object. The page may hold an object that is nobody's.
- *Ready.* `WaitCounts`: `readyWait` is the holds, and one more until the document is parsed.
- *Callback lists.* Functions and values are numbered by the use that added or fired them. `ListInOrder`: list and queue
  are in that order, and the queue behind the value at hand; `OwedAhead`: whoever is owed the value lies behind
  `firingIndex`; `CallsBehind`: every call made is before all that are to come. What any use does to the list that calls
  it is one lemma per operation, that it `Follows`: it keeps some functions in their order *and on their side of
  `firingIndex`*, and appends at most one. That is what the decrement in `remove()` is for. `ListRests` ties the
  variables of the closure together: idle, stopped, disabled.
- *Deferreds.* A pending promise's lists wait; of a settled one's, one has fired and the other is dead (`ListsFit`), so
  that no third outcome is possible whatever fires inside a fire. Frames, timers and functions handed to thenables have
  their reason in how a parent settled (`AllRight`), `KidsFit` makes `kids` and `parent` each other's inverse, and
  `FollowKept` says that a `then()` promise whose parent settled is settled too, waits for a thenable, or has its
  handler under way. `AskedKept`: a callback is called or ahead of the loop; `AskedRight`: never both, and never twice.
  For `when()`, `MasterWaits` counts `remaining` as the subordinates whose update is to come. A step of the stack is
  one of a few kinds (`StepKinds`), each of which `GoesOn`: it keeps what settled and what was registered. The
  refinement then maps each kind to a step of `Promise` or a stutter.
- *Events.* `Numbered`: a number tells a handler and its element for good, also when the handler is unbound but still in
  a copied queue. An event climbs once but for its repetition by a native method (`ClimbsOnce`), which is suppressed
  while it lasts (`Suppressed`). A dispatch is of the event below it in the stack, on an element that event has passed,
  and what ran there is the front of its queue (`DispatchFits`); where the event is still to come nothing ran
  (`NoneAhead`). Hence `RanOnce`. `OneIsOver`: a `one()` handler that ran is bound no more and queued nowhere. These hold
  until an event is triggered inside the default action of another (`nested`), or on the element of a dispatch
  (`overlap`); `HandlersFit`, that delegates come first and `delegateCount` counts them, holds always.
- *Effects.* `Sound` says how queues, hooks, timers, pending delays and the interrupted calls belong together: an item
  that waits is in one queue, or in what one `finish()` still has to start, once; a loop that was interrupted comes
  back to an item that is over. `Busy` is the second half of the property and `OneOf` the first, strengthened by where
  the hook of a pending delay is (`HookKnown`). A `stop()` that is to dequeue is never interrupted (`SpareBelow`), and
  whatever it has passed over in `timers` is not of its element (`StopsAll`), so that the item it starts is alone.
  `TimersKept` is inductive with the set of elements `stop()` cut short (`lost`). What a step does to the element it is
  about, and what to the others, are lemmas of their own: `InOrder` is the invariant with the elements that it is
  asserted of as parameters, so that one element can be taken out before a step and put back after it. TLC finds
  `EffectsInv` itself an invariant of the run's instance, too.
- *Fades.* `OpacityKept`: notes and running fade name the opacity that the page set, however often a fade is stopped and
  reversed. `WillEndAsAsked`: what a running fade will come to, unless something disturbs it.
- *Dialogs.* `StackOfModals`: a dialog is in the stack once. `NotOpenedYet`: without an overlay it has no timer and is
  not displayed. `Bare` are the dialogs that open nothing yet, or never. `PageFits` says for stack, overlays, timers
  and lock at once how they belong together, in the shape that each closing keeps, also when opening one dialog closes
  several.

The proofs about `Callbacks`, `Events`, `Effects`, `Ajax`, `Ready`, `Data` and `Fade` do not use their bounds on uses,
calls or frames at all; that of `Jsonp` needs finitely many requests (`JsonpAssumption`: its names are a finite range),
that of `TaskPage` that pages have a size, that `NaN` is no integer and what is typed is a page (`PageSizeAssumption`,
`NaNAssumption`, `NumbersAssumption`), that of `DailyIndexUpdate` that `NoStock` is no stock, that of `Modal` that
`MaxModals` is a number (`ModalAssumption`), that of `Deferred` that the roots are finitely many, for `when()` counts
them (`DeferredsAssumption`), and that its bounds are numbers (`CallsAssumption`). What two modules say with loops that
`splice()` an array, `Lists` says with the indexes that stay, and `KeptInOrder` is proved of it once.

Only model-checked: all liveness properties; and of the scripts, `ConvertsToExpected` and `FindsSelected`. `Convert`'s
loop takes its order from a filtered sequence, and what that holds would need induction. `Sizzle` is compared with a
recursive reference.

## 6. Not modelled

- *Price ticker*: it is all about prices and their change, which the models abstract away. Its hazards, a map shared and
  cleared without a lock, a price stored before its notice is sent, a division by a previous price of zero, are visible
  in a few lines of `TaskServiceImpl` (`:208` to `:212`).
- *Caches of the trade configuration*: their expiry is Redis configuration outside the repository. A tick may find a
  stale rule in `VolumeStrategy`.
- *Broker login*: `authentication` has no caller in this commit. *Id generators*: third-party code without a caller.
- *Users, holiday calendar, stock selection*: sequential lookups, or one crawl and one replacement that nothing reads.
- *Parsers of foreign pages, Spring configuration, value objects*: text, wiring and data.
- *jQuery*: CSS, attributes, manipulation, traversal, dimensions and offsets, whose state is the browser's; namespaces
  and special types of events; positional and attribute selectors and the tokenizer; `pipe`; headers and serialisation
  of requests; easing and slides; feature tests of old browsers.
- *Alert scripts* (`lib/alert`): no template loads them. Minified files are copies.
