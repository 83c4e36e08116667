# Verification of Morpho

Morpho (`src/module/site`) is a PHP framework for web sites: a library of
classes (`lib`), site modules (`module/localhost`, with a frontend in
TypeScript) and tests. This directory holds TLA+ models of the parts of it
that keep state, fail and share resources, the TLC configurations that check
them on small instances, and proofs for TLAPS of what matters most.

Paths below are relative to `src/module/site/lib` unless they begin with `src`,
and `base/` is the frontend's library,
`src/module/site/module/localhost/ui/frontend/module/localhost/lib/base`.

## How the system works

A web server runs a fixed number of PHP workers. Each request builds an `App`
with a `ServiceManager`, whose factory methods make the services of the site
on first use; a router chooses an action, the dispatcher runs it and renders
its result, and error handlers take what goes wrong. Workers share nothing but
files: the caches (module index, routes, templates), lock files, the session
and the database.

In the browser each page makes widgets: objects of `Form`, `PageMessenger`,
`Grid` and others of the site, whose constructors bind handlers to elements.
Handlers run one after the other, each to its end, but timers, animations and
the answers of the server come back in any order, the user clicks meanwhile,
and page scripts change the same elements. `rollup.config.mjs` bundles each
file of `base/` with what it imports; the bundles (`*.js`), which lie next to
the sources, are what the browser runs.

### Inventory

| component | state | operations | interacts with | hard parts | what makes it correct |
|---|---|---|---|---|---|
| File caches, `Caching/*FileCache.php` | entry files in shard directories, swap files | `set` `delete` `get` `has` `clear`, also for several keys | all workers, through the file system | every two system calls of two workers interleave, killed workers, failing calls, expiry | entries are whole, none is lost, `clear()` is complete, reads answer from one instant |
| In-memory cache, `Caching/ArrCache.php` | array, hit counters | the same | its caller | expiry | no stale answers |
| Error handler, `Tool/Php/ErrorHandler.php` | two flags; PHP's stacks of handlers and list of shutdown functions | `register` `unregister` `trackErrors` `handleFatalError` | PHP, `AppInitializer` | stacks that others push and pop, exceptions without `finally`, shutdown order | original handlers come back, a fatal error is reported once |
| Listeners, `Tool/Php/*Listener.php`, `App/Web/ErrorHandler.php` | lock files of `NoDupsListener` | one call | error handler, loggers | a listener that exits or throws, lock files shared by workers and collected by them | every exception is logged, or was, a short time ago |
| Service manager, `Base/ServiceManager.php` | services, aliases, `$loading` | `offsetGet` `offsetExists` `offsetUnset` | factory methods call it again | re-entrance, circles, exceptions half way, aliases | right answers, no half-made service, no trace of failures |
| Services of a site, `App/ServiceManager.php`, `App/Web/ServiceManager.php` | - | factories | service manager | the order of first use | no circle among the factories |
| Request cycle, `App/App.php`, `App/Dispatcher.php`, `App/Web/DispatchErrorHandler.php` | request, response, `$thrownExceptions` | routing, dispatch loop, rendering, error action | all of the above | exceptions from anywhere, also from what handles exceptions | it ends, nothing is lost, the client sees errors as errors |
| Module index and routes, `App/ModuleIndex*.php`, `App/Web/FastRouter.php` | index and modules of a worker, two caches of all | `index` `module` `rebuild` `rebuildRoutes` | file caches, files of the modules | reads overtaken by clears, deployment while serving | index and modules agree, cleared data stay away, routes are there |
| Users, session, messages, `App/UserManager.php`, `App/Web/View/Messenger*.php` | session, database | log in and out, register, add and render messages | session storage, database | check-then-save of two workers, messages across redirects | one account for a login, messages shown once |
| Templates, `App/Web/View/TemplateEngine.php` | compiled files | compile, render | file system | compile by two workers | a template is run whole |
| PEG parser, `Compiler/Frontend/Peg` | tokens, memo table, position | `peekToken` `nextToken` `memoize`, generator passes | generated parsers | backtracking, left recursion, fixpoints | same language as the grammar |
| Forms, `base/form.ts` | classes and messages in the page, disabled buttons, requests in flight | `submit` `validate` `showErrors` `send`, handlers of changes and answers | user, page scripts, server, other Forms of the element | late answers, fields added later, exceptions in handlers, names of classes that are undefined | what is marked is wrong, one valid request at a time, buttons come back |
| Messages of a page, `base/message.ts`, `base/app.ts` | elements, animations, a timer | close buttons, timeout | user, clock | several animations at once decide by what is still there | no message goes unasked, closed ones go |
| Widgets and helpers, `base/widget.ts`, `grid.ts`, `event-manager.ts`, `base.ts`, `jquery-ext.ts` | fields of objects, handlers, counters, timers, checkboxes | constructors, `on`, `trigger`, `delayedCallback`, `uniqId` | each other | hooks that run before the fields of the class, re-entrance, timers that are due | handlers are bound and told, one run per burst, unique ids |
| Pure functions, `base/bom.ts`, `http.ts`, `form.ts`, `message.ts` | - | `format` `trimLR` `e` `lname` `queryArgs` `formData` `renderMessage` ... | all of the above | inputs that look like syntax | inverse of what wrote them |
| Build, `rollup.config.mjs` | files | names of the outputs | Rollup | packages in packages | no output overwrites another |
| Autoloading, transactions | class map; connection | | | stale maps, nested failure | |
| Everything else | - | conversions, wrappers, text | | | not modelled, see below |

The hazards at their lines, with the properties that watch them, are in
`PROJECT.json`. Real, but without a property, are also these: `ArrCache` returns
an entry that has expired until somebody asks `has()` (`Caching/ArrCache.php:69`);
`clear()` ignores an `unlink()` that fails (`Caching/FileCache.php:151`);
`TemplateEngine` writes a compiled template in place, so that another worker may
run a part of it, and one killed there leaves a part that is never compiled
again (`App/Web/View/TemplateEngine.php:613`); `rollBack()` after a commit that
failed may hide its exception (`Tool/Sql/Client.php:171`); messages are cleared
before the page they are on is sent (`App/Web/View/MessengerPlugin.php:26`); the
memo table of the parser and the position of its tokenizer must agree
(`Compiler/Frontend/Peg/Parser.php:79`), and `Scc` relies on the order of its
vertices (`Compiler/Frontend/Peg/Scc.php:75`).

## The modules

| module | models | abstract state <-> code |
|---|---|---|
| `CacheEntries` | what a cache stores and how long it lives | `Lifetime`, `FreshForHas` and `FreshForGet` are the comparisons with `time()`, which differ by one second |
| `CacheStore` | the abstract promise of a shared cache (`ICache`) | `store`: a map of keys to entries; one atomic change for each call that succeeds |
| `FileCache` | `FileCache`, `TextFileCache`, `PhpFileCache`, `VarExportFileCache` | `entries` and `dirs` are the directory, `litter` the swap files nobody removes, `tmp` those in use; `pc` is the system call a worker makes next: one action each (`IsDir`, `MkDir`, `TempNam`, `PutContents`, `Rename`, `Unlink`, `Open`, ...); `Crash` kills a worker |
| `ErrorHandler` | `Tool/Php/ErrorHandler.php` | `errors`, `exceptions`, `shutdown` are PHP's stacks and list; `registered`, `fatal` the flags of the objects; `leaked` counts `trackErrors()` left by an exception |
| `NoDupsListener` | `Tool/Php/NoDupsListener.php` | `mtime` are the lock files, `dir` their directory; `pc` the system call or listener a worker is at; `gcExecuted` the field of its object; `told`, `touched` and `robbed` record what happened to each error |
| `ServiceManager` | `Base/ServiceManager.php` | `deps` and `aliases` are the program, any within the bounds; `stack` is the PHP call stack of factories, `want` the id that `offsetGet()` follows, `loading` is `$loading` |
| `AppServices` | the factories of a web site | the one value of `deps` that the two classes of factories define |
| `WebApp` | one request from `App::__invoke()` to its end | `pc` is the place in the code; `thrown` all exceptions so far with what they wrap, `thrownExceptions` the array of `DispatchErrorHandler`, `logged` and `shown` what loggers and the client got |
| `ModuleIndex` | `ModuleIndex`, `ModuleIndexer`, `FastRouter` | contents of files, caches and objects are represented by the version of the files they come from; `index`, `loaded`, `routes` are the objects of a worker, `indexCache` and `routesCache` are shared |
| `Form` | `base/form.ts`, `form.js` | `view` is what the page shows: fields and groups with the class "invalid", messages next to fields (`shown`) and on top (`alerts`); `requests` are in flight; `styled` says whether a script has given the undefined names of classes values; `bound`, `widgets` and `present` are handlers, Forms and fields |
| `MessageBar` | the abstract promise of the messages of a page | `shown`, `closed`, `expired` |
| `PageMessenger` | `base/message.ts` | `alerts` and `containers` are the elements, `fading` those whose animation runs, `fired` the timer |
| `DelayedCallback` | `delayedCallback()` of `base/base.ts` | `timer` is the variable of the closure, `timers` those the browser still has |
| `EventManager` | `base/event-manager.ts` | `handlers` is the field; `stack` the calls of `trigger()`, each with its `i` |
| `Widget` | the constructor of `base/widget.ts` with the hooks of `Widget`, `Form`, `Grid` and `PageMessenger` | `step` is the hook to run, `assigned` the fields of the class that have a value, `bound` how many handlers the element has |
| `Grid` | `base/grid.ts` | `boxes` and `checked` are the checkboxes |
| `UniqueIds` | `base/jquery-ext.ts` | `uuid` and `uniqId` are the two counters |
| `Helpers` `ErrorReports` | the parts of a page; the error handler with its listener | the variables of `DelayedCallback`, `EventManager`, `Grid`, `UniqueIds` and `Widget`; of `ErrorHandler` and `NoDupsListener` |
| `Texts` `Responses` `Http` `Fields` `Bundles` | the pure functions of `base/bom.ts` and `base.ts`; of `message.ts` and `widget.ts`; of `http.ts` and `app.ts`; of `form.ts`; of `rollup.config.mjs` | operators with the names of the functions, and the laws that relate them |
| `Laws` | which law is checked of which input | `input` is one input of one law and never changes |

In the modules of the frontend, operators are translated from the TypeScript
methods and actions from the handlers in the bundles, which are the same code
but for the fields of classes: the compiled class declares them again, which
sets them to undefined after the constructor of the base class has run.

`FileCache` implements `CacheStore` (`KeepsPromise`, checked and proved).
`ModuleIndex` builds on that promise: a call of its caches is one step there.
`AppServices` extends `ServiceManager` with one program. `WebApp` stands on
`ErrorHandler` and `AppServices` in the same way: that a service cannot be made
is a failure of a step there. `PageMessenger` implements `MessageBar`
(`KeepsPromise`, checked and proved). `Helpers` takes an instance of each small
part of a page and names their properties; `MCPage` puts them and
`PageMessenger` next to each other: its variable `part` says which of them takes
steps, or the `input` of `Laws` is one for the pure functions. They share no state,
so that their interleavings add nothing. `ErrorReports` and `MCErrorHandler` do
the same with `ErrorHandler` and `NoDupsListener`.

Each `MC*` module gives TLC the instances, `*Proofs` modules hold the theorems.
Definitions whose comment says "Mutant" or "A variant" are wrong variants of the definition
below them; no specification uses them. They record which bug in the code each
property would notice.

## Runs

Every run explores its state space completely.

| run (`.cfg`) | instance | shows |
|---|---|---|
| `MCFileCacheShared` | 2 workers, 2 keys in 1 shard, failing `mkdir`, writes, `rename` and `unlink`, workers killed, notices throw | `NoTornEntry`: no partial entry is ever visible; `ClearWipes`: a finished `clear()` has wiped what was there when it began, also when two workers clear at once; `KeepsPromise`: refinement of `CacheStore` |
| `MCFileCacheExpiry` | 2 workers, 1 key, entries that live for a second, clock to 2, two devices | `NothingLost`: a shard goes only when it is empty of entries and of temporary files; `CallsReturn` under weak fairness of each worker |
| `MCErrorHandler` | 3 handlers, 2 nested `trackErrors()`, 4 registrations | `RestoresOriginal`, `FatalReportedOnce` |
| the same run, part `noDups` | 2 workers, 2 errors, a period of 1 second and a clock to 4, constructors, throwing listeners, collections and killed workers at any step | `ToldOnce`: what is suppressed was reported, and within the period an error is reported again only if a collection took its file for an old one and removed it after it was touched |
| `MCServiceManager` | all programs of 3 ids with <= 2 dependencies and <= 2 aliases, factories may throw | `LoadingIsRunning`, `AnswersRight`, `ExistsIfReturned`, `MadeInOrder`, and `CallsReturn` under weak fairness of the manager's steps |
| `MCAppServices` | the site's own factories | `SiteIsMade` |
| `MCWebApp` | 4 throwing places, 3 turns, all 64 configurations | `TurnsAreOwed`, `ErrorsShow`, `NothingUnlogged`, `FailureIsKnown`, and `Ends` under weak fairness |
| `MCModuleIndex` | 2 workers, 2 modules, 2 deployments, cache directory may be emptied | `LoadedIsIndexed`, `OnlyLateSpoils`: only an indexing that a clear overtook brings old data back; `RoutesThere` |
| `MCForm` | two required fields in one group, a third and a required checkbox that scripts may add in another; 2 Forms of the element, 2 requests for each load of the page | `MarksAgree`, `ErrorsAreTrue`, `OneInFlight`, `LatestErrors`, `NothingInvalidSent`, and `ButtonsComeBack` under weak fairness of the answers |
| `MCPage`, state | 4 messages of 2 types; 3 delayed calls on a clock to 6; 4 handlers of 2 events, triggers 2 deep; a grid of 2 rows; 3 elements and counters to 3; 3 widgets | `HiddenIsEmpty`, `KeepsPromise` (refinement of `MessageBar`), `MessagesGo`; `RunsOnceQuiet`, `RunsForLast`; `AllAreTold`; `SelectsAll`; `IdsAreUnique`; `WidgetsAreReady` |
| `MCPage`, inputs | all sequences of up to 2 to 5 pieces, given in the module | `TextsAreRight`, `DataArrives`, `BuildsAreApart`: the laws of `Texts`, `Responses`, `Http`, `Fields` and `Bundles` |

Where a document, a comment or a test says more than the code does, a run
shows the disagreement (the details and quotations are the "findings" of
`PROJECT.json`):

| run | violated | what happens |
|---|---|---|
| `MCFileCacheVanishes` | `ReadsAnswer` | `is_file()` in one worker, `delete()` in another, `fopen()` in the first: an exception instead of a miss |
| `MCErrorHandlerTracked` | `RegisteredIsActive` | `register()` within `trackErrors()`, as `AppInitializer` calls it: the new handler is popped |
| `MCFormUnrendered` | `ErrorsDisplayed` | nothing in the repository defines `encodeHtml()`: showing the first error throws, and the browser submits the form that was found invalid |

More weaknesses are part of the models but have no run of their own:

* `TextFileCache::fetch()` closes the file of an expired entry twice
  (`Caching/TextFileCache.php:67`), a `TypeError` with one worker alone.
* Where `tempnam()` falls back to the system's temporary directory on another
  file system, `rename()` copies and readers see a part of the entry, unless
  the error handler of the site stops the call at the notice
  (`FileCache.php:208`, constants `SameDevice` and `ThrowOnNotice`).
* The shutdown function of an unregistered handler clears the last error, which
  the next, registered one then does not find (`HandleFatalError`).
* An indexing overtaken by a `clear()` stores what it read before; it stays
  until the next clear (`OnlyLateSpoils` says that only this can happen).
* Two workers that both find no directory for lock files: the `mkdir()` of the
  second one fails and its listener cannot be made (`NoDupsListener!MkDir`).
  The file that one worker collects may be the one whose `filemtime()` another
  one asks for, which ends the handling of its error with another error.
* Buttons of one radio group are all sent by `formData()`, and the last one wins
  (`ChoiceArrives`). Fields that scripts add keep their message when they
  change. `dispose()` unbinds nothing, so that a new widget of the element
  doubles its handlers.
* `isResponseError()` takes a result that succeeds with a falsy value for an
  error, a Form does not (`ResultIsJudged`). An `InfoMessage` is a warning
  (`TypeOf`). A message of several flags cannot be rendered.
* `once()` runs its function at every call (`IdsAreUnique`). A click on the box
  that selects all is not handled, so that only the constructor and two methods
  of a Grid bring the boxes in line (`SelectsAll`).
* Files of packages in different `node_modules` directories may have one output
  (`OutputsAreApart` compares those of one).

### Bounds, and why they are enough

* Workers: two. The races of the caches need one to act between two steps of
  the other; the proofs cover any number.
* Keys and shards: two keys in one shard show that a shard is pinned by another
  entry and that `clear()` goes through several files; one key shows the races
  on an entry. More shards are covered by the proofs.
* Clock: with a time to live of one second and `MaxClock = 2` an entry can be
  fresh, in the second where `has()` and `get()` differ, and expired.
  In `MCFileCacheShared` the clock stands still: entries have no time to live,
  or one of 0, which makes `set()` delete.
* `Faults` are the system calls that may fail. They do in the run that checks
  safety; `MCFileCacheExpiry` has none, because its state space is that of the
  clock. A failed call there would only end
  the operation sooner.
* `MaxTracks`, `MaxShutdown`: guards that end the program's calls. Three
  handlers give every order of unregistering; four registrations let one be
  registered again.
* `MaxDeps`, `MaxAliases`: three services make circles of length one to three
  and diamonds; two aliases make chains and circles of aliases.
* `NumOfIterations` is 3 where the code has 20: four places that throw can
  reach it, and a request that fails in fewer ends before.
* `MaxDeploys`: two changes of the files give an index of three ages.
* `NoDupsListener`: with a period of 1 and a clock to 4 a lock can hold, expire,
  be old enough to be collected, be made again and expire again.
* `MaxSends`, `MaxWidgets` of forms: a second request shows what a late answer
  to the first does, a second Form what two handlers of one submission do; the
  proofs cover any number.
* Texts and addresses are sequences of the few pieces that a function tells
  apart, long enough for a piece before, between and after two others.

Symmetry (of workers, handlers, errors, modules) is used by runs that check safety
only. Deadlock is checked, except where a program or a request really ends
(`MCErrorHandler*`, `MCWebApp`, `MCPage`, where the inputs take no step).

### Fairness

* `FileCache!FairSpec`: weak fairness of each worker's steps. The operating
  system schedules runnable processes and no call waits for another worker.
  The steps that kill workers or start calls are not fair.
* `ServiceManager!FairSpec` and `WebApp!FairSpec`: weak fairness of the steps
  of the one process that runs. In `WebApp` a call of an action is one step:
  that actions themselves return is assumed.
* `Form!Fairness`: each request is answered in the end, with an error if the
  server is not reached: `$.ajax()` promises one of its two callbacks. Users and
  scripts need not do anything.
* `PageMessenger!Fairness`, `DelayedCallback!Fairness`: timers that are due run,
  animations end, and the clock advances to its bound, as browsers do.

## Proofs

All theorems hold for every value of the constants that the named assumptions
of the modules allow. Each begins with a predicate that every step keeps, which
TLC checked on a run before it was proved, and what the run checks follows from
it. What the assumptions ask for:

* `PeriodAssumption` (`ErrorReports`): the period of `NoDupsListener` is a
  positive number of seconds (`DEFAULT_PERIOD` is 300; with 0 its collection
  would take a lock for an old one in the second it was made).
* `ElementsAssumption` (`Helpers`): a page has finitely many elements, and an id
  that the page gives to one is none of the numbers that `uniqId()` gives.
* `SiteMade` assumes `SiteIds \subseteq Ids`, that the ids of services include
  those of the site; `MCAppServices` takes the two to be equal.
* `NothingIsOverwritten` assumes of the names of directories that none is `..`,
  as in paths that `path.resolve()` returns, and `ArgumentsAreRead` of names and
  values that they are ones a writer of queries may leave as they are: names
  that are not empty, without `=`, `?` and `&`, and values without `&`.
* `TextsAreAsPromised` takes as many arguments at most as the model has
  placeholders (`Holes`) and names of the `Letters` that stand for all;
  `DataArrivesAlways` takes the fields of a result to be of the five `Kinds`
  that the code tells apart, and the attribute "action" to be absent or an
  address.
* `AtomicWrites` and `Refinement` of `FileCacheProofs` assume `SameDevice \/
  ThrowOnNotice`, `ClearIsComplete` that `unlink()` does not fail.

By module:

* `FileCacheProofs`. `Invariant`: `IInv /\ NothingLost`. `NothingLost` is
  inductive with `Control` (which temporary file and which call go with each
  step) and `TypeOK`: `rmdir` removes a shard only when nothing is in it.
  `AtomicWrites`: `NoTornEntry` follows from `Whole`, whose inductive step
  needs that a temporary file outside of the shard is on the same device, or
  that the notice of `tempnam()` is an exception; without it a copy from
  another device is visible in part. `ClearIsComplete`: the invariant
  `ClearOwes` says that what a running `clear()` owes is ahead of its
  iterator. `Refinement`: each step maps to a step of `CacheStore` or
  stutters; `entries` is the refinement mapping.
* `ErrorHandlerProofs`. `RestoresOriginal` is not inductive: it follows from
  `StackHeights`, that the stacks are as high as the number of what is
  installed (`Cardinality`, with the library's theorems on finite sets).
  `ReportedOnce` from `Unreported`. `ToldOnceAlways` is about the instance
  `NoDups`: `ReportedFirst` is inductive with `CallsHaveErrors` (who goes on to
  touch a file has had the error reported, or found a lock that was) and
  `FilesAreTouched`: a lock file has the time of the last touch unless it was
  collected long after it or by a worker that took an older time for it. The
  part of `ToldOnce` about repeated reports is an action property that follows
  from the latter, as the period is positive.
* `ServiceManagerProofs`. `IInv` describes the stack of frames: what each waits
  for (`Waits`), has got (`HasGot`), and that the ids on it are distinct and are
  `$loading` (`LoadingIsRunning`). `PartsBeforeWhole` is the action property
  `MadeInOrder` from it.
  `AnswersAreRight` compares with `Makeable`, a least fixed point. It is written
  as the intersection of the sets that are closed under the factories, so that
  no induction is needed: what a factory makes is in each closed set
  (`MakeableGrows`), and when a lookup fails, the set of all ids but those on the
  stack is closed, or the id itself has no factory (`Fails`); the frames lead
  from the id that was asked for to the one that fails. `CallIsRight` joins
  these, and that an alias chain has one end (`OneEnd`).
  `SiteMade` orders the ids of the site by `Rank`: each factory asks for ids of
  a lower rank only (`RanksFall`), so that the ranks fall along the stack
  (`SiteIsRight`) and what is looked up is on no frame.
* `WebAppProofs`. The types say of each exception that what it wraps is older
  than itself. `Turns` is `TurnsAreOwed` for all labels before the response is
  sent; `Honest` says that `$thrownExceptions` knows all exceptions but the one
  on its way, that they come from as many places, and that the error action,
  once it is the handler, began with the status of an error. `Recorded`: as long
  as loggers work, nothing is `Lost` but what is on its way to them.
  Steps are sorted by `ThrowsOrGoes`, so that each case is proved for all of the
  places that throw.
* `ModuleIndexProofs`. `OnlyLateSpoils` with `ReadsAreNew` and
  `ReadsForItself`; `RoutesAreGot` with `RoutesStay`: only the emptying of the
  cache directory (`robbed`) takes routes away between `has()` and `get()`.
* `FormProofs`. The five invariants of a form are proved together with
  `Support`: messages are at invalid fields only, and the fields there were at
  the start have handlers. Lemmas say what each method does to the parts of a
  view, so that the steps follow from set algebra.
* `PageProofs`. Messages: `FadesClosed`, that before the time is up only what the
  user closed fades out, makes `HiddenIsEmpty` inductive and gives the
  refinement of `MessageBar`. The rest is about the instances of `Helpers`. Delayed callbacks: at most
  one timer runs, that of the last call (`OneTimer`), which gives the action
  property `RunsOnceQuiet`. Events: the handlers of an event are registered in
  ascending order, and what each running `trigger()` has told is the part of
  them before its `i` (`PrefixesTold`), whatever nested calls append. Ids:
  an id that `uniqId()` gave is a number up to its counter (`IdsAreGiven`), and
  the numbers in classes of `once()` are below the other counter, so that a new
  one adds to the cardinality. Widgets: which handlers are bound at each
  hook (`HandlersAreBound`). The checkboxes of a grid need no more than
  `SelectsAll`.
* `LawProofs`, for inputs of every length. An induction over data is one over a
  set of numbers here (`Induct`, from the well-foundedness of `<`), since no
  prover takes an operator for the parameter of the library's theorems. In the
  same way `Recursion` shows that a function exists which a recursive definition
  describes, as long as each of its values depends on values of lower rank only:
  so the functions that TLA+ writes with a choice obey their equations
  (`MatchesAre`, `FlattenIs`). `NothingIsOverwritten` is `BuildsAreApart`;
  `DataArrivesAlways` is `DataArrives`, of which `LinksAreFound` and
  `ArgumentsAreRead` are two laws. The latter goes along the written query from its end: each argument lies in
  it at a known place (`Flattened`), and the match that begins there ends where
  the next argument begins (`MatchedAt`). What a server receives for a name is the value of the last
  pair that has it: the last control of a form (`LastKept`, as each control
  adds one pair or none), and of two lists put together that of the second
  (`AppendedCounts`). `TextsAreAsPromised` is
  `TextsAreRight`, one lemma for each function: what `e()` returns is read back
  from its end, entity by entity (`Escapes`); a class of characters without an
  inner "-" means its characters, and what is left between the first and the
  last one outside of it is the text without its ends (`Trims`); the one sign a
  name has decides which of the four replacements of `lname()` does anything
  (`Lowers`); and after `i` arguments `format()` has made of the text what the
  first `i` placeholders stand for, as each replacement exchanges one part and
  leaves the others where they were (`Replacing`, `FillingIs`), also in a text
  that was escaped before, where no placeholder comes from an entity
  (`HolesStaySingle`, `Shows`).

Types are proved and not checked again by runs: `TypeCorrect` of each of the
larger modules, and the types in `ReportInv`, `ManagerInv`, `IdInv`, `WidgetInv`
and `TimerInv` of the smaller ones; a grid has no need of them.

Only model-checked: liveness (`CallsReturn`, `Ends`, `ButtonsComeBack`,
`MessagesGo`, `RunsForLast`), as it involves fairness and ENABLED, which TLAPS
does not reason about.
`RegisteredIsActive`, `ReadsAnswer` and `ErrorsDisplayed` are what the
documents say and the runs refute.

## Abstractions

* The contents of entries, modules, services, exceptions and pages are model
  values. The export of a value by `var_export()` or `serialize()` is modelled
  by which values it accepts (`Exportable`); hashes of keys by the shard they
  choose (`dirOf`), without collisions.
* A system call is atomic, `rename()` across file systems excepted, and
  `clear()` sees a directory as it was when it opened it. Disk caches lost in
  a power failure, and PHP's opcode cache, which may serve an older version of
  a file for a while, are not modelled.
* `WebApp` lets site code throw at every step where the framework calls it.
  The handlers of `ErrorHandler` are reached through `App::__invoke()`; what
  happens outside of a request is in the module `ErrorHandler`.
* `file_exists()` and `filemtime()` of one call of `NoDupsListener` are one
  step, because PHP remembers what the first one saw; a worker that asks for the
  same file again in one request, after a listener that threw, is taken to see
  the file as it is.
* In the modules of the frontend a handler is one step: browsers run one at a
  time. jQuery, the browser's own validation (which `novalidate` turns off) and
  its parsing of markup are modelled by what the code uses of them and marked
  as external.
* `encodeHtml()` is defined nowhere in the repository. `Form` has a constant for
  whether the page defines it; `Responses` takes it for `e()`.

## Not modelled, and why

`ArrCache` keeps an array in one process. The operations of `Cache` on several
keys are loops over the ones that are modelled, and `stats()` counts calls. The
PEG package depends on parsers that it generates from each grammar: what could
be said of it is the semantics of parsing expressions on small inputs, which its
tests cover as well. Users and sessions are single reads and writes of stores
that PHP and the site provide. Templates, except for the file they are compiled
to, are text transformation, as are URIs, route metadata and requests; the
virtual file system serves tests. Of the frontend, the redirects, the arithmetic
with floating-point numbers, the predicates on types and the editor, which is
put together from vendored packages, are left out.

Command line helpers, systemd and XML tools, SQL text builders and schema
readers, HTTP header types, localisation: conversions and wrappers without
state of their own. The code generator of the PEG package is text output.
Vendored editors, style sheets, templates and the infrastructure modules
(`src/module/*` other than `site`) hold no program logic of Morpho.
`CacheController::cleanAll`, which asks for a service `site` that no factory
makes, appears as the environment's action `Wipe`.

What would come next: `ModuleIndex` over the steps of `FileCache` instead of its
promise, and compiled templates, once it is decided what the code is to promise
of them.
