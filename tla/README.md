# cortex-w: a verification development

cortex-w (`src/cortex-w`) shows a water utility its meters: a single-page application (`frontend/`), a
backend-for-frontend (`backend/`, Express, run as one server or as several serverless instances), and a Postgres
database. Two systems it depends on are not in this repository: the upstream API that signs users in and owns sites
and business data (*cog-core-api*), and the history scheduler that fills the daily tables. This directory holds TLA+
models of the parts in which timing, sharing and failure decide whether the program is right, the TLC runs that check
them on small instances, and TLAPS proofs that hold for every value of the constants.

Everything is read from the source; the docs are quoted only where they say something the code does not do.

Contents: 1 inventory, 2 modules, 3 runs, 4 what the models show, 5 theorems, 6 what is not modelled.

## 1. Inventory

| Part | State it keeps | Operations | Hard behaviour | Correct when |
|---|---|---|---|---|
| **Sessions** (`clientContext.ts`, `sessionStore.ts`, `inflight.ts`, `middleware/auth.ts`) | per process: `resolved` (token cache), `active`, `lastWritten`, `inflight`; shared: `client_sessions` | authenticate a request, log out, save / load / delete a stored session, `syncClients` | several processes write one row without waiting; upstream answers late, fails, times out; a process dies; logout while a shared call is under way | a withdrawn token stops working within a bound; logout sticks; a stored row is usable and never replaced by a worse one; every request is answered |
| **Dashboard server** (`dashboardService.ts`) | `snapshot`, `snapshotBuild`, `freshnessCache`, `rebuiltForUpdate` | rows of a node, freshness of the data, background build | many users share one build; builds overlap the scheduler's writes; queries fail; freshness queries overtake each other | numbers never go backwards; one build at a time; a failed build loses nothing; a page told of an update finds it |
| **Dashboard page** (`DataFreshness.tsx`, `useNodeChildren.ts`, `useNodeMeters.ts`) | `updatedAt`, `version`; rows, `loadedFor`, `isLoading`, `error`, `seq` | open, navigate, page, order, filter, retry, hear of an update, receive an answer, leave | answers in any order, silent reloads over first loads | rows belong to the address; numbers never go back; reloads by themselves are invisible |
| **Login limiter** (`pgRateLimitStore.ts`, `routes/auth.ts`) | `rate_limit_hits` | increment, decrement after success, window reset, sweep | shared by instances, fails open, decrement after the window | failures are counted; nobody is refused for what is not held against them |
| **Start and migrations** (`server.ts`) | schema | run 14 files in order | several instances, lock timeout, skipped files | a server without a table has said so; a server that starts comes to listen |
| **Network Explorer page, data** (`useNetworkData.ts`, `networkCache.ts`, `networkScope.ts`) | data of the selection, base of "ALL", saved copy in IndexedDB | select, reload, refresh, save, restore | selection changes during loads; refreshes overlap; copies of another account | what is shown belongs to the selection and the account |
| **Network Explorer page, screen** (`NetworkExplorerPage.tsx`, `meterCanvasLayer.ts`, `coverage.ts`, `MeterSearchBox.tsx`) | choice, open gateway and meter, what is drawn, the table, suggestions and the answers kept | choose, search, open, slide, page, zoom, pan | effects that each look at a part of the state; a map that loads late or never; frames, glides and zooms interrupted by new data | what is drawn, listed and suggested is what is there and what is asked for; the map moves only when it should |
| **Network Explorer server** (`networkService.ts`) | TTL caches, `coordCache`, `coordFailedAt` | `cached`, `getCoords`, the answers | overlapping loads, stale fallback | the bound is kept within the overlap; an old copy never replaces a newer one |
| **Site tree and scope** (`networkScope.ts`, `networkLogic.ts`, `getSiteOptions` and `subtreeSiteIds` of `dashboardService.ts`, `scopeSiteIds`) | the picker's options | build the options, walk down from a site, work out the view of a site from "ALL" | three walks over three trees; gaps in what the caller may see; circles; meters without a position | a site covers the same everywhere; the view in the browser is the server's answer |
| **Placement and relocation** (`coverageSpace.ts`, `gatewayPlacement.ts`, `gatewayRelocation.ts`, `routes/gis.ts`, `GatewayPlacementPage.tsx`) | the plan cache; the page's runs | greedy, local search, pair moves, pruning, ranking; moves and removals; generate, lock, switch | one incremental count through moves and their undoing; shortcuts; a plan cached under a key; late plans | the count is true; the shortcuts lose nothing; the report adds up; a plan is of what was asked |
| **Gateway connectivity** (`gatewayConnectivity.ts`, the three pages of `gateway-status/`) | bundles and ranges per key, the calendar, the window | work out a range, cut it out of a bundle, choose, type, zoom, page, download | midnight; outages that run over the ends of a range; late answers; half-made picks | the days on screen, drawn or in a file are told as they were |
| **Command Center** (`CommandCenterPage.tsx`, `GatewayFramesPanel.tsx`, `FleetMetersTable.tsx`, `telemetryDbService.ts`, `commandCenterDeep.ts`) | summary, selection, meters of a gateway, frames held back; `telemetry_aggregation_cache`; copies in the browser | choose window and site, refresh, select, search, page, load more | refreshes under the reader's hands; a cache shared by accounts | numbers are of the choice and the account; rows do not move under a reader |
| **Alarms, billing, households** (`routes/*.ts`, their pages and drawers) | list, page, drawer; the counts' copy | filter, page, open, resolve, pay, refresh | no order between answers; pages over filtered lists; drawers whose parts come late, about a household whose meters change meanwhile | lists are of the controls; a reader who pages sees every row; a drawer is of its row |
| **Meter drawer** (`MeterHistoryDrawer.tsx`) | parts of a meter | open, turn to a tab, retry | parts in any order, another meter meanwhile | parts are of the open meter |
| **Browser session** (`authTokenStore.ts`, `httpClient.ts`, `useAuth.ts`) | token, user, saved data | sign in, sign out, 401 | a late 401, data saved after sign-out | one account never sees another's data |
| **Other routes** (`waterReports`, `sites`) | none | validate, forward, reshape | upstream failures | stateless; not modelled |

How they meet: every route runs behind the *sessions* middleware; the *dashboard server* asks upstream which sites the
caller may see, then answers from its snapshot; the *page* polls the freshness and reloads when it changes. The planners
read what the Network Explorer server keeps and cache their plans under it. The Command Center's summary is computed
once for all accounts that cover the same sites. The scheduler is only seen through the database.

The hazards, each at its line and with the properties that would catch it, are listed in `PROJECT.json`.

## 2. Modules

Server side:

| Module | What it is | Its code |
|---|---|---|
| `ClientContext` | the specification of the sessions: the statements on `client_sessions`, processes, calls, `syncClients` | `clientContext.ts`, `sessionStore.ts`, `auth.ts`, `inflight.ts` |
| `AccessLease` | abstract: access is a lease that starts at the upstream's yes; theorem `LeaseSafe` | |
| `DashboardService` | abstract: what answers the dashboard server may give | `dashboardService.ts` |
| `DashboardSnapshot` | the server that implements it | `dashboardService.ts`, `routes/dashboard.ts` |
| `LoginLimiter` | the row of one key over windows | `pgRateLimitStore.ts`, `routes/auth.ts` |
| `Migrations` | instances that start over one database | `server.ts` |
| `NetworkCaches` | `cached()`, `getCoords()` and the cache of plans | `networkService.ts`, `routes/gis.ts` |
| `SiteTree`, `SiteView` | the walks over the sites; the server's answers for a set of sites and the view the page works out | `dashboardService.ts`, `networkService.ts`, `networkScope.ts`, `networkLogic.ts`, `clientContext.ts` |
| `CoverageSpace` | who is reached, and the count of it | `coverageSpace.ts` |
| `GatewayPlacement`, `GatewayRelocation` | the two planners | `gatewayPlacement.ts`, `gatewayRelocation.ts` |

Browser side:

| Module | What it is | Its code |
|---|---|---|
| `DashboardPage` | one tab on top of `DashboardService` | `DataFreshness.tsx`, `useNodeChildren.ts` |
| `NodeMeters` | the meters of a leaf, over the server's pages | `useNodeMeters.ts`, `dashboardService.ts` |
| `NetworkPage` | the data of the Network Explorer: loads, refreshes, saved copies, sign-in | `useNetworkData.ts`, `networkCache.ts`, `authTokenStore.ts`, `httpClient.ts` |
| `ExplorerPage` | what is chosen, open, drawn and looked at | `NetworkExplorerPage.tsx` |
| `MeterLayer` | the canvas of the meters: frames, glides, zooms | `meterCanvasLayer.ts` |
| `GatewayReach` | ranges, circles, the nearest gateway, the box of the map | `coverage.ts`, `networkModel.ts`, `GatewayCoveragePanel.tsx` |
| `ExplorerLists` | suggestions and the answers they keep; the table over the server's pages | `MeterSearchBox.tsx`, `NetworkExplorerPage.tsx`, `networkService.ts` |
| `PlacementPage` | runs, modes and locks of the placement page | `GatewayPlacementPage.tsx` |
| `GatewayStatusPage`, `StatusTable` | ranges, the bundle, reports and timelines as the server works them out; the status page over midnight, and its table | `gatewayConnectivity.ts`, `routes/gatewayStatus.ts`, `GatewayStatusPage.tsx`, `useGatewayLoad.ts`, `gatewayStatusModel.ts`, `GatewayStatusTable.tsx` |
| `UptimePage` | the uptime chart, its calendar and its files | `GatewayUptimePage.tsx`, `uptimeModel.ts`, `uptimeExport.ts`, `DateRangeCalendar.tsx` |
| `TimelinePage` | the page of one gateway; why it was offline | `GatewayTimelinePage.tsx`, `StateTimelineChart.tsx`, `offlineReasons.ts` |
| `CommandCenter` | summary, selection, meters of a gateway, search | `CommandCenterPage.tsx`, `telemetryDbService.ts`, `routes/commandCenter.ts`, `GatewayMetersTable.tsx`, `GatewayRail.tsx` |
| `GatewayFrames`, `FleetTable` | the latest frames of a gateway; the meters of the fleet | `GatewayFramesPanel.tsx`, `FleetMetersTable.tsx`, `commandCenterDeep.ts` |
| `PagedList` | pages that count from 0, shared by the lists | |
| `AlarmsPage`, `BillingPage`, `Households` | the lists with their drawers and routes | `AlarmsPage.tsx`, `BillingPage.tsx`, `HouseholdListPage.tsx`, their drawers and routes |
| `MeterDrawer` | the parts of a meter | `MeterHistoryDrawer.tsx` |

Instances and compositions: `MCClientContext`, `MCSiteView` and `MCFleetTable` give one component its
constants. `MCServers` holds the snapshot, the limiter and the migrations; `MCGatewayPlanning` the planners and the
caches around them; `MCGatewayPages` the connectivity pages; `MCBrowserPages` all other pages. The parts of the last
three share no state beyond a clock, so a behaviour follows one of them, named by `about`, and the others keep one first
state: the state space is the sum of theirs and not the product. `DashboardService` is where two components really
meet: the server is shown to implement it (`RefinesService`), and the page is built on it. What the page relies on is
therefore exactly what the server is shown to do.

Theorems are in `AccessLease`, `ClientContextProofs` (sessions), `ServersProofs` (snapshot, limiter, start),
`GatewayReachProofs` (lists in general, and the reach panel), `BrowserPagesProofs` (the pages, on top of it), `NetworkPageProofs`,
`SitesAndGatewaysProofs` (the site tree and what is worked out for a site; the connectivity pages) and
`GatewayPlanningProofs` (the planners, their caches and their composition).

### Sessions

One process is one Node event loop, so a step is one macrotask: what runs between two `await`s. `mem[p]` holds the
Maps of process `p` and the statements it sent without waiting (`saves`, `deletes`); `calls[p][t]` is the entry of
`inflight` for token `t`, with the upstream's answer on its way in `reply`; `waiting[p][t]` are the requests that
share it. `RequestHit / RequestMiss / RequestExpired` are `authMiddleware` with `resolveClient` up to its first
`await`; `Answer` and `CallFails` are upstream and the abort timer; `SettleClient / SettleRefused / SettleOutage` are
the continuation of the shared call together with the handlers that run behind it (`touchClient`, then the logout
route's `forgetToken`). `SaveLands / DeleteLands / SaveFails / DeleteFails` execute the statements in any order;
`Sync...` are the steps of a `syncClients` round; `Restart` kills a process.
`vouchedAt`, `ended` and `gone` are history variables for the properties and appear in no guard.

Abstractions: the stored token is the token (not its encryption); `CLIENT_SYNC_MAX_IDLE_HOURS` has its default 0;
database and processes share a clock; a token's client (`ClientOf`) stays the same, while `clientContext.ts:128-132` works out its key anew
from the sites of each answer, so sites that move between clients are left out; several identical pending statements are one set element whose execution may or
may not leave another one behind (`Ended`).

### Dashboard

The numbers are abstracted to the scheduler run they come from (`stats`), the freshness to an ordered time stamp: run
`k` stamps its rows at `2k-1` and notes its end at `2k`, so that the main query and its fallback can be told apart.
Time is abstracted away: `SnapshotAges` and `FreshnessAges` (a TTL has passed) may come at any moment.
`LoadServed / LoadServedOld / LoadWaits` are the three ways through `getSnapshot`; `LoadRefused` is upstream failing in
`getAllowedSiteIds`. `AskHit / AskMiss / AskReads / AskStores` are `getDataFreshness`, whose end (`Decide`) may start or
join a build and wait for it.

In the page, `page` is the state of the mounted `useNodeChildren`, `pending[l]` is what the closure of request `l`
holds, `page.latest` stands for the counter `seq`. A state update with the render and the effects it causes is one
step, so opening a page after the version has gone up sends two requests, as the two effects do.

### Network Explorer

`page` is the state of the mounted `useNetworkData`: `at` is the selection (`siteRef`), `derived` says that a single
site is worked out from `base` (`allBase`), `shown` holds gateways and meters, `snap` is the answer of `loadSnapshot`
that has not been delivered. `loads[Own]` is the load of the effect, which its cleanup aborts; `loads[q]` are the
refreshes of the interval, whose controller nobody aborts. `Settle...` is the continuation of `Promise.allSettled`: for
the page, for a page that must go to the login screen, or for a page that was left (only `saveSnapshot` is left then).
`token` and `copies` are the tab's sign-in and the object store; other tabs write the store too.

Abstractions: data is the selection it is of and the label of the copy it comes from, so nothing is said of which of two
fresh answers is newer; `getGateways` and `getMeterMap` get their results when the load ends, except that a 401 acts
at once; IndexedDB executes in order of the calls, so a get, a put and a delete are part of the step that makes them.

### Site tree and view

`SiteTree` holds the metadata (`tree`), what the upstream lets the caller see (`allowed`) and the picker. `Visit` is one
call of `visit` in `getSiteOptions`: its `parentOption` is kept in `picker.above`. `Ask / Skip / Take / Found` are the
one loop that `withDescendants`, `siteWithDescendants` and `subtreeSiteIds` share; they differ in what they are asked
for (`Asked`) and in the links they follow (`Links`): parents among the caller's sites, the options' `parentId`, or the
children in the mirror. `SiteView` adds the rows that the queries read, `Gateways` and `MeterMap` (the server's
answers for a set of sites) and `Derived` (`deriveSiteView`), which is given their answers for "ALL" and the page's
sites. The properties compare it with `Gateways` and `MeterMap` for those same sites; whether the server would have
been asked for those sites is `ScopesAgree`.

Abstractions: stacks, and the order of the names, are sets; one walk at a time (they are synchronous and share
nothing); upstream and mirror hold the same tree. `Load` comes after the walks, which do not depend on it, only to keep the
state space small. `rssi` stands for rssi and snr and every frame has one; averages are compared as sums, because the page's
rounding to one decimal cannot matter for two meters with whole values (see the hazard at `networkScope.ts:62`).

### Login limiter and start

`row` is the row of `rate_limit_hits`, `req[r]` an attempt: `Asking` from the increment to the verdict, `Landing` once a
success has been told and its decrement is still to come. Each statement is atomic in Postgres, so the increment with its
window (`Incremented`) is one step. `book` counts attempts by how they ended and appears in no guard.
A migration file is sent as one query and therefore is one transaction; `Blocked` says that another session or another
instance holds one of its tables, `TimeOut` is `lock_timeout`, `Break` any other error, after which `start()` only logs.
Modelled is the start that awaits its migrations. On Vercel (`server.ts:283-288`) they run beside the first requests, so
`MissingIsAlwaysTold` does not speak of it: a request may meet a missing table before anything has been logged.

### Planning

`GatewayPlacement` and `GatewayRelocation` are sequential: `phase` and `stage` walk through the functions of the planner, and
every loop iteration that changes `cover`, the count per meter, is a step, so an invariant sees the count between any two
moves. Where the code's choice depends on floating-point geometry (sliding, centring, rounding to six decimals) the model
takes any spot that keeps what the function promises. The heap of the greedy choice is kept as it is, with its stale
gains, and compared with the best of all candidates (`PickIsBest`); local search and relocation likewise. Gateways of equal worth are taken in the order of their spots' numbers, also free spots, which the
code takes in the order they were made in; no property depends on which of the two goes first.
`NetworkCaches` abstracts data to versions; a cache entry's expiry is an action.

### Connectivity and its pages

A gateway is its history, one state for each moment, and a moment is a fraction of a day. The upstream is a function of the
history and of the moment it is asked, so "the page tells what was" is an equation between what is on screen and the
history. The clock moves at any time, over midnights; nothing re-renders a page when it does. Loads have a key; what
arrives for another key is dropped, and answers for one key are shown as they arrive. Half-made picks of the calendar, typed
addresses outside the data, the window of the chart and the files are part of the state.

### Lists, drawers, the Explorer's screen and the Command Center

Each page module follows one pattern: a record of the controls, what is on its way (with what the request was asked for,
because a closure holds that), and what is on screen. A handler with the state updates, the render and the effects that
follow is one action; what differs from page to page, and decides what can be promised, is how the code relates an answer
to the controls: by a sequence number (`NodeMeters`, `CommandCenter`'s summary), by giving up the earlier request
(`Households`, the Explorer's table, `FleetTable`, the roster), by a key (the suggestions), or not at all (`AlarmsPage`,
`BillingPage`). The servers' side of a
list is the order, the filters and the cut of the page as the query makes them. A part of the household drawer has two steps:
`PartRead` is the server, which finds the household and its primary meter among the meters of that moment
(`withPrimary`; `/core` does the same), and `HousePartArrives` is the browser. In between `MeterChanges` may let a frame
arrive, switch a meter on or off, or link it elsewhere. `met`, the meters that were the primary one since the drawer was opened, is a
history variable and appears in no guard. The detail of a bill comes with or without its readings: when their query
fails the route draws days of zero (`billing.ts:253-258`). `ExplorerPage` runs the page's effects in
the order of the file, each only when a value it depends on changed. `MeterLayer` keeps groups as sets of indexes into the
list they were built from, as the code does, so that a group read with another list is another group.

Abstractions: the household and the meters of one part are read in one step, which only hides that a household may leave between
the two queries; the households are counted and the copy is written in one step (`CountsRead`), although the route awaits
the upstream between, so the model does not have the older copy of section 4; the browser of the Command Center has one
account from the opening of the page to the end. `commandCenterApi.ts:51-57` works out the key of the copy from the token that is
there when an answer *arrives*, so a request that outlives a sign-out and another sign-in would be filed under the new
account; `NumbersOfReader` says nothing of that.

## 3. Runs

Each run asks one question; eight pass, four are expected to find the property they check violated.

| Run | Question | Bounds |
|---|---|---|
| `sessions_shared` | racing statements, crashes, two tokens of one client: are rows usable and kept, does logout stick, is the cache bounded? | 1 process, 2 tokens (expiry 1 and 3), clock to 2, cache of 1, one token with a pending statement when a request comes |
| `sessions_processes` | a serving and a syncing process, revocation, outages, failing statements: is access bounded by the upstream's answers, is everyone answered? | 2 processes, 1 token with expiry 3, clock to 2, TTL and timeout 1 |
| `sessions_logout` *(violated)* | does logout delete the stored token? | no failure of any kind |
| `servers` | do builds never overlap, do answers never go back and is everyone answered; are failed logins bounded and refusals fair; is a missing table told and does a server that starts come up? | snapshot: 1 row request, 2 freshness requests at a time, 2 runs of the scheduler, every failure; limiter: 3 attempts at once, limit 2, window 2, row kept for 1, `MaxTime` 6, `MaxHits` 4; start: 2 instances over 2 files, `MaxStarts` 2 |
| `dashboard_loader` *(violated)* | is the loader off when nothing is on its way? | 1 node, 2 requests |
| `network_page` | is what is drawn of the selection and the reader, marked when old, and is a lost sign-in noticed? | 1 site and "ALL", 2 accounts (one also in another tab), the effect's load and one refresh |
| `network_saved_copy` *(violated)* | is a saved copy on screen marked, or its fresh data on the way? | 1 site, 1 account, no other tab |
| `site_view` | does a site cover the same for page, server and Command Center; is the view worked out in the browser the server's answer? | 3 sites with every parent relation in which no site is its own parent, every set of visible sites, 2 meters, 1 gateway, frames of a day or older than the limit |
| `gateway_planning` | is the count of who is reached true between any two moves, do the shortcuts find what trying everything would, do the reports add up, and are cached plans and answers the right ones? | 7 meters, 11 spots of which 6 are candidates, radius 4, 3 existing gateways; `MaxPasses` 2, `MaxRounds` 3, `MaxTries` 2, `CurveLimit` 4; 2 requests at once, 2 cache entries, 1 plan per pair of answers, `MaxChanges` 1, `MaxAsks` 1, `MaxTurns` 2 |
| `gateway_pages` | are the days on screen, drawn, zoomed to or downloaded told as they were; is the calendar's pick accepted, the table complete, a reason sound? | 2 moments a day, `LastMoment` 5 (two midnights), 6 histories, presets of 1 and 2 days, `MaxRangeDays` 2, 3 `Typed` pairs of days, `MaxTurns`, `MaxUptimeTurns` and `MaxLinePresses` 2, `MaxOut` 1; the page of one gateway is followed over one midnight |
| `browser_pages` | page by page: is what is at rest what is asked for, are drawers of their row, are paged lists complete, do rows stay under the reader? | below |
| `fleet_table` *(violated)* | does the list of the fleet stay when the page renders with nothing changed? | 4 meters, pages of 2, 1 press, 1 render, 1 frame |

`browser_pages` has a bound for each page: 2 nodes and 2 requests (dashboard); 2 sites, 2 gateways, `MaxRuns` 6
(placement); 2 scopes, pages of 2, `MaxHeard` 4 frames, `MaxAskings` 5 (frames); 2 leaves, 2 orders, `MaxSeq` 4, `MaxPage` 1
(meters of a leaf); 2 meters, `MaxOpens` 4 (drawer); 4 alerts and 4 bills, 2 presses (1 after an alert's link) and 2 loads, 1 resolve; 3 households
with 3 meters, `MaxHousePresses` 3 on the list, `MaxLeaving` 1, and in a behaviour of its own the drawer, opened twice, `MaxMeterChanges` 1; 2 meters and three views of the canvas; lists of at most 3 points around 2 gateways; 4
meters to search, `MaxTyped` 3, `MaxRetired` 1, 2 answers kept; 3 meters in the Explorer's table, 5 presses, 1 retirement; 2
areas with 2 gateways and 2 meters, 3 presses on the map page, `MaxArrivals` 2, `MaxLookups` 2; in the Command Center 3
frames, 3 windows, 2 choices of sites, `MaxCenterPresses` 2, `MaxCenterLoads` 2, `MaxOthers` 1, `MaxLeft` 1; in the fleet 4
meters, `MaxFleetPresses` 3, 1 render, 1 frame.

Why the bounds are enough. *Sessions*: clients share nothing but the capacity of the cache, so one client with a
short-lived and a long-lived token is the unit of contention; a cache of one entry makes every second token evict; the
clock passes an expiry, a TTL and a timeout. *Servers*: slots are reused, so the snapshot's histories are unbounded and
only the overlap is limited; two overlapping requests are what each race needs, and two scheduler runs give "older",
"newer" and "newest". Six moments hold three windows, so a decrement may land in the window after its own and one after
that; three attempts exceed the limit of two. Two instances over two files are one that holds a lock, one that meets it,
and a file before and after. *Network Explorer*: one site beside "ALL" gives each kind of selection and every
change between them, and no property compares two refreshes with each other. *Site view*: three sites make a branch with
a gap in the middle, siblings and circles of two and three; two meters give a gateway that hears one inside and one
outside the site, or one with and one without a position. The age "week" (connected, but too old for the gateway) is left
out of the run and covered by the proof. *Planning*: the town has a free spot that beats every candidate, two meters at one
position, a spot that rounding moves, gateways that cover for each other and two that stand at one place. *Connectivity*: two
midnights put an outage over the start of a range, over its end and over both; the histories have gateways watched from
the second day only and never. *Lists*: two presses and two loads give a change during a load, a change back, and answers
in either order; the rows are chosen so that some are on the second page, some belong to another client and some are
found by one filter and not by another. *The household drawer*: two active meters of one household, one of which has never
reported, so one frame makes it the primary one; another meter is off. The one change is among those that give the
household of the open drawer another primary meter - the others cannot be told from no change by it - and may come before, between
and after the reads of its parts, so two parts of one drawer do tell of two meters. Opening twice lets
an answer for the first drawer meet the second. That a household leaves is combined with the list and with the drawer, but not with
a change of the meters in the same behaviour; the proof has all of it, any number of times.

In `servers`, `gateway_planning`, `gateway_pages`, `browser_pages` and `fleet_table` the bounds stop clocks and users, so these
do not check for deadlock; all other runs do.

Fairness: only what the program itself guarantees. The abort timer of `proxyUpstream` ends every call, database
queries end or fail, and the event loop runs every continuation. `Migrations` has weak fairness of `Proceed`, the steps an
instance takes by itself: it sends the next file, is woken, times out after `lock_timeout`, and listens. Users, the
scheduler, restarts, other sessions' locks and the upstream's decisions have no fairness. `SignOutSeen` also needs the
environment: the tab stays visible (the interval refreshes only then), and of the refreshes sent without a sign-in not every
one is lost before the server refuses it.

## 4. What the models show

### The violated runs

* `sessions_logout`: the middleware sends an upsert for the token it has just accepted and the logout route then a
  delete for the same token; neither is awaited and they run on different connections, so the row may be left behind.
  `010_client_sessions.sql` says the token "is deleted on logout".
* `dashboard_loader`: a silent reload takes over the sequence number of the first load, so nobody turns the loader off.
  `useNodeMeters` does the same.
* `network_saved_copy`: a copy of "ALL" that has been shown serves as the base for single sites, so choosing a site
  aborts the load of the fresh data, takes the mark away and requests nothing.
* `fleet_table`: the page makes the object with the window anew at each render (`CommandCenterPage.tsx:167`), and the list of
  the fleet starts again for every new object; whoever has paged deeper loses the rows when anything renders the page.
  `MeterFramesView` depends on the same object.

### What the properties leave room for

The properties say what the code does keep. Where they spell out an exception, the code behaves as follows.

Servers.
* `syncClients` returns the sessions in memory without asking, though its comment promises tokens "upstream has just confirmed".
* `getDataFreshness` marks an update as rebuilt for before the rebuild has ended: a second user is told of the update at once
  and reloads the old snapshot (`OwnRebuildCurrent` speaks of the user who waited).
* The picker links a site to the nearest visible site above it, the server follows direct parents only. When the caller does
  not see a site in the middle of a branch, choosing the upper site draws meters that the server's table does not list.
* `DerivedGateways` and `DerivedStatus` are weaker than equality: the page cannot know which gateway a meter without a position
  uses, leaves out gateways without a position that hear none of the drawn meters, and takes staleness from the whole
  area. `getGateways` also lists as unplaced a gateway that hears no meter, although `networkService.ts:221` says "that meters
  report through".
* `lock_timeout` of a migration stays set on its pooled connection.
* The planner's view of the whole network counts only meters with a position (`gis.ts:351-355`).
* Of two computations of one summary the one stored last stays, also when it read older frames (`telemetryDbService.ts:332-546`).
* `routes/network.ts:91` names the statuses live, stale, silent and never; the code accepts connected, disconnected and never.

Gateway connectivity.
* A click on a quick range after midnight, when the address names it already, leaves yesterday's range
  (`GatewayStatusPage.tsx:26-28`, `RangeControls.tsx:21`). The map dialog keeps the status of the moment it was opened.
* On the first day there is data, the quick ranges of the uptime chart end before they begin and are refused.
* The status table loses its order and its page while a range picked by hand is loading.
* Two outages that ended within the last two minutes are both told as "Still offline".
* The refreshes of one load are not ordered (`useGatewayLoad.ts:30-44`): an older answer that arrives last may hold fewer offline
  periods than the page of their table needs, which then is empty (`GatewayTimelinePage.tsx:80-83` keeps the page number). So
  `PeriodsTold` says nothing of the page; all else of `RangesShown` holds with any number of requests on their way. The run has one
  (`MaxOut`), the theorem any number.

Network Explorer.
* A glide of the canvas ends on the groups it began with: meters hidden, or the map moved, within it are drawn by the next
  frame only, although `meterCanvasLayer.ts:423` says that "a regroup [...] will draw the final state itself". New meters
  during a zoom, followed by another step of it, are read with the indexes of the old list.
* The highlighted line of the suggestions stays where it was when the server's answer replaces the list; answers outlive a logout.
* A gateway or a search chosen before the map has loaded is not moved to afterwards, a meter opened then has no ring; a
  reload resets the slider of the radius; an empty answer followed by one with gateways makes a quiet refresh move the map.
* A page of the table past the end tells a total of 0 ("No meters match").

Command Center.
* `telemetryDbService.ts:279` tells a total of 0 for a page past the end, so "go to the last page that exists"
  (`CommandCenterPage.tsx:270`) never happens; only "Prev" leads back.
* The first paint shows the saved summary of 7 days under the label of 30, dimmed; if the load fails it stays, with the banner.
* The search depends on a callback that each new summary makes anew, so text left in the box is looked up again after
  every refresh and takes the user back to that gateway. Of two lookups the slower one wins.
* Giving up the selected gateway selects the first one again as soon as one is known. Another gateway leaves the frames of
  an earlier meter open.
* "Load more" of the frames asks by page number and repeats rows that new frames pushed down; a render's refresh aborts it.

Lists.
* Alarms and bills: the last answer to arrive is shown, whatever it was asked for, and the KPI cards do not reset the page.
  A total of 0 alerts is shown as 18 374. Resolving stores nothing upstream, the drawer shows an alert as resolved also
  when the request failed, and the reload uses the controls of the moment of the click. An address that names an alert opens
  its drawer again at every load.
* The city of a bill is read off its number and its address, in the list also off the name of its site, which the detail
  does not look at: for a site "Puri" with an address that names Cuttack the row says one city and the drawer the other, so
  the property about the drawer's city leaves such bills out.
* `households.ts:49` speaks of "the meter the 360 view is about", but each part of the drawer looks it up for itself (`households.ts:159`
  and `:184`), and the order of the lookup (`householdService.ts:119`: active first, then the latest frame) changes with every frame.
  A household with two active meters may be shown the overview of one and the bills of the other. So `DrawerOfHouse` does not say
  that all parts are about one meter; it says that each is about one that was the primary one since the drawer was opened.
* Only the newest 200 bills can be reached; a bill is paid in the drawer only; the reading table draws the first 7 of 10 rows.
* A consumer id made of digits is looked up as a number; a lookup reads the first 50 rows that contain the text; the typing
  pause resets the page also when the page has just been opened; an older computation of the counts may replace the server's
  newer copy.

## 5. Theorems

Proved by TLAPS for every value of the constants that satisfies the named assumptions of the modules.

| Theorem | States |
|---|---|
| `AccessLease!LeaseSafe` | whoever is let through was vouched for less than a lease and a timeout ago |
| `ClientContextProofs!TypeCorrect` | the types of the sessions |
| `ClientContextProofs!Refinement`, `Served` | the processes implement `AccessLease`, hence `ServedWhileVouched` |
| `ClientContextProofs!RowsMatch`, `LongestKept`, `Logout`, `CacheBounded` | stored rows are usable; the longer-lived session is kept; logout sticks; the cache keeps its limit |
| `ServersProofs!SnapshotTypes`, `OneBuildAlways` | types; builds never overlap |
| `ServersProofs!RebuildKept` | who waited for a rebuild of their own is told of no run the snapshot does not have |
| `ServersProofs!ServiceImplemented` | snapshot, builds and caches implement `DashboardService` |
| `BrowserPagesProofs!PageTypes`, `RowsBelong` | types; rows are those of the address |
| `BrowserPagesProofs!RowsNeverBack`, `ReloadsQuiet` | numbers never go back; a reload by itself is invisible |
| `NetworkPageProofs!NetworkTypes`, `SelectionDrawn`, `OldMarked`, `ReadersCopies`, `LoaderBacked` | types; the selection is drawn; old data is marked; copies are the reader's; the loader ends |
| `SitesAndGatewaysProofs!TreeTypes`, `WalksComplete` | types of the tree and its walks; every walk finds exactly what its links lead to |
| `SitesAndGatewaysProofs!ScopesRelated` | how the page's, the server's and the Command Center's sites relate, for any tree |
| `SitesAndGatewaysProofs!MetersServed`, `GatewaysServed`, `StatusesServed` | the page's meters and totals, its gateways and their status against the server's, for any tables |
| `SitesAndGatewaysProofs!RangesAreShown` | the connectivity pages: figures, tables, window, periods, reasons, files and days to pick are what the readings of their range say (the whole of `RangesShown`) |
| `ServersProofs!GuessesAreBounded`, `RefusalsAreFair` | the limiter bounds failures and refuses only for what stands in this window |
| `ServersProofs!MissingIsAlwaysTold` | a server that is up without a table has said so |
| `BrowserPagesProofs!PlanIsForAsked`, `RowsAreForAsked`, `DetailIsWhole` | the placement page, the meters of a leaf and the meter drawer show what is asked for (parts of `ShowsWhatIsAsked`) |
| `BrowserPagesProofs!DrawersAreOfTheirRow` | alarms, bills, households and the gateway card: an open drawer tells of the row it was opened for; each part of a household's drawer is about a meter that was its primary one while the drawer was open, whatever its meters do meanwhile |
| `BrowserPagesProofs!PagesShowWhatIsAsked` | a settled page shows what was asked for: lists, drawers, canvas, tables, map, numbers, the search box and the reach panel (the whole of `ShowsWhatIsAsked`) |
| `GatewayReachProofs!ReachIsTold` | the panel counts those in the circle, by gateway and status; nearest and farthest are right; the map leaves out no more than a part |
| `BrowserPagesProofs!PagesAreComplete` | whoever turns all pages of a list that stays as it is has seen every row of it, with the totals told on the way |
| `BrowserPagesProofs!RowsNeverMove` | a refresh of the frames never takes rows from under a reader who has loaded more |
| `GatewayPlanningProofs!CountIsOfThoseInPlace` | the running counts of a plan are those of its gateways |
| `GatewayPlanningProofs!ReportAddsUp` | the curve of a finished plan is true: each step adds what it says, none more than the one before |
| `GatewayPlanningProofs!PicksAreBest`, `SearchFindsBest` | the heap that is looked at only at its top picks what working out every candidate would; the walk that stops early leaves a gateway where none would reach more |
| `GatewayPlanningProofs!BooksAlwaysBalance`, `RemovalsAreCheap`, `MovesAreBest` | relocation: books of reached and lost meters balance; what was removed cost no more than allowed; a move is worth at least any other that is allowed |
| `GatewayPlanningProofs!PlansForWhatWasRead`, `AnswersNeverGoBack` | a kept plan is that of the data it was made of; answers never go back in time |
| `GatewayPlanningProofs!ShortcutsAreExact` | the three shortcuts together: heap, early end, search around a lifted gateway |
| `GatewayPlanningProofs!PlanningIsSound`, `AnswersForwardTogether` | counts, curve, books, removals and plans, and the order of answers, for planners and caches together |

The inductive invariants. *Access*: the lease is bounded by the vouching, and a call whose answer is yes carries an
answer given after the call began; without it, a step that caches an answer could not bound its age. *Rows*: every
token that may still be written (pending statements, active sessions, answers on their way) was vouched for.
*Cache* (`CachesOrderly`): the cache holds
at most its limit, whoever is before a cached token is cached too, and of every set of entries one is the oldest - so
`evictIfFull` always finds one to take. *Snapshot*: the one build under way is `snapshotBuild` and has read numbers between those of the snapshot and those of the
database; without it `BuildDone` could go back. *Page*: the newest request is for the address, and if it has been
answered its answer is at least as new as the rows on screen. *Network Explorer*: while the loader is on, the effect's
load is for the selection, and every copy taken or waited for bears the reader's label; the second is needed because a
selection or a restored copy carries labels on without looking at them again. *Site tree* (`TreeInv`): a site that has been
visited has its children visited or on the stack, every site lies below its kept `parentOption` in the
tree (`PickerOK`); a walk has found or has on its stack everything its links lead to (`WalkOK`). `ScopesAgree`
then follows by comparing three least sets: each is shown to be closed under the links of another.
*Limiter* (`LimiterInv`): what an attempt waits under is a window that has ended or the row's (`UnderPast`), so a new window
opens with nobody under it; and the hits, the attempts that stand, those under way and the strays balance (`Balance`),
which is what a late decrement could upset. *Start* (`MigrationsInv`): a file that was passed is there or was skipped
(`PassedIsTold`), a server that is up has passed them all or failed where it stands (`UpAtTheEnd`). *Placement page*: the
newest run, while its answer is on its way, is for the site, the mode and, unless the lock timer is set, the locks
(`NewestIsCurrent`). *Meters of a leaf*: likewise for the newest request (`NewestIsAsked`). *Drawer*: `WholeDetail` is
inductive beside the types.

*Placement* (`PlaceInv`): the counts are those of the gateways in place (`Booked`), and every place that may still be
chosen is in the heap under a gain that is at least its present one (`Heaped`) - gains only fall, so the top is best when
its gain is fresh; `Ranked` says that the gateways told so far bear what they added at their place, that this never rises, and
that no place left would add more than the last one. *Relocation* (`RelocInv`): `count` is that of the slots as they stand
(`Layout`), each step told follows from the one before by what its gateway newly reaches and loses, and
the last is what is covered now (`StepsAddUp`); a gateway that is kept or locked is at home with empty books (`Verdicts`). *Caches* (`CachesInv`): a kept plan is the one of its key (`KeptPlans`); what was answered last is no newer than the
tables and the positions at hand (`NewestBounded`), and a load under way brings nothing older than it (`LoadsForward`), for
positions too, of which there is one load at a time (`PlacesForward`). `PlanningInv` is the three for the composition, where one part moves and
the others stand. *Drawers* (`AlarmInv`, `BillInv`, `HouseInv`, `CardInv`): one conjunct per page. A household's key is found to be
of one household (`KeyIsOfOne`), which is what makes a late answer harmless; what the server has read for a part and what has arrived is about that
household and a meter met since the drawer was opened (`Rightful`), which a change of the meters keeps because it only adds to them; a part of the drawer is loading exactly while
its request is on its way, so an answer without a request cannot arrive; the effects that a render runs either keep the card's
gateway or close it. *Frames* (`FramesInv`): a request that would replace the rows is on its way only while there are none, or
none is held back; without it a late first page could replace rows the reader has extended.

*What the pages show* (`AskedInv`): one conjunct per page again. Of a list with requests on their way it is the *newest* one
that is for the controls as they stand, unless a later one has been answered already (`Newest`); that a page has settled
is what makes it the only one. A live request for the counts was told of what is no older than when it was asked (`CountsInv`).
The table has at most one request, for what it shows (`SheetInv`). The canvas (`LayerInv`): unless a frame is due, what is drawn is
what is there, and what is being waited for will end (`Tended`). The Command Center (`CenterInv`): a copy the server
keeps is filed under the window and the sites it was worked out for, so that another account's request cannot spoil it
(`NumbersInv`), and the newest
request for meters is for the selection (`RosterInv`). The map (`MapInv`): each effect looks at a part of the page only,
so what it last drew is what it would draw now as long as that part has not changed; a meter opened before there is a map
has no ring (`early`), and only then. The fleet's table (`FleetInv`): what is listed is of the query on screen and nothing is listed twice,
although "load more" overlaps (`NoneTwice`). The search box (`SearchInv`): every answer it remembers fits its key, and there is
one per key, so that forgetting the oldest never brings back another. The reach panel (`ReachInv`) is computed and keeps
no state of its own; the proof is about the computation. The sort is stable, so the places of the points are their ranks
(`NearestFirst`); the binary search ends where all before are within the radius and all after are not (`SearchEnds`, by
induction on the gap between its ends); the running counts of a prefix are those of the circle (`CircleTold`); the trimmed
box holds the values from the cut to the cut from the end (`BoxCut`).

*Gateway connectivity* (`GatewaysInv`): one conjunct per page. The clock shows a day of the data (`ClockInv`); what a page
holds and what is on its way is for a range that the server answers, and an answer is of the moment it was given at
(`StatusInv`, `LineInv`, `UptimeInv`), so that nothing on screen is of a moment to come. The rest is about what is worked out.
An upstream answer is a list of stretches, each with its moments, apart from each other and together all of the days asked
for (`Tiles`); cut at the ends of a range they still are (`LineTiles`), and counting an outage where it *began* makes the cut
list and the days' figures agree only because the answer has a day more in front (`DownsBegin`, `CutIs`) - the lead day.
A gateway's mean over its days lies between its worst and its best day although all are rounded down, by comparing two
sums part by part (`SumsCompare`, `MeanBetween`).
A table is the members of a set, each at the place of its rank: in an order in which any two differ that is a list without
repetition that holds them all (`InOrder`), and the tables are shown to order so (`SortedOrders`; gateways
without a figure are last both ways). The window on the chart stays within the range through zooms, drags and clamping, in
scaled whole numbers (`ClampInside`, `ZoomInside`). Every reason told of an offline period is one the period bears out
(`FoundIs`, `AllIs`), and cutting the list to the first few keeps the leading one (`PossibleIs`). What is in a file is of
one range at one moment (`FileFrom`), and a half-made pick is of a day from which the server would accept a
range (`PickLasts`).

*Lists turned page by page* (`PagesComplete`): what is on its way is a request for a page that exists; what has been seen of a list, as long as it and the
controls do not change, holds the rows of every page turned to; the total, and with it the last page, is that of
the last answer. That the pages together are the list is a fact about slices of a sequence (`Slice`, `RowsAt`).

The library's induction theorems take an operator as a parameter, so induction is stated here with a set instead: of all
subsets, or numbers, for which a claim fails there is a least one (`SmallestSubset`, `Counting`). Sums and cardinalities
of the planners and the totals of a site (`PartsSum`) are carried by such lemmas.

Sequences. Of `SelectSeq` and `SortSeq` the provers know nothing. A list cut to the rows that match is therefore `RowsAt`: the
rows at the n-th smallest of the matching places, a definition of which length, membership and order can be proved, and equal
to the filter of the code on every list. Where the code sorts (`ByDistance`, `SortedPlaces`) the model states the rank of an element, which is what
a stable sort makes of it. Recursive functions (`CountWithin`, the running totals) are shown to have a solution before
they are used, because a `CHOOSE`n function satisfies its equation only then.

Assumptions on the constants that the proofs need are in the modules' named assumptions, among them: positions are whole
numbers; the lists of points are sequences; less than half of the points is trimmed at each end (`TrimPart > 2`; the code
trims 1 %); page sizes are positive; the value that stands for "no request" is none of the requests.

Of the connectivity pages: the data begin before the last moment and nothing was watched before them; a preset is at most as long as the
longest range; ranks tell gateways apart; the service's reason codes are not the page's own words; a moment is a minute
at least (with shorter ones two periods may be "still" going on, section 4).

Only model-checked: liveness (`EveryRequestAnswered`, `SignOutSeen`, `StartEnds`), which is out of the prover's reach. Every
safety invariant that a run checks is stated by a theorem.

## 6. Not modelled

* *Numbers.* What summaries, trends, health figures and tariffs add up to is SQL or arithmetic without state. Distances are
  those of a line or of a plane of whole numbers: rounding, the earth's curvature and the centring of a gateway are taken by
  what they promise.
* *Presentation.* Layout, wording, colours, charts, printing and the bytes of an `.xlsx` file.
* *Stateless routes* (`waterReports`, `sites`, parts of `gis` and `commandCenter`), parameter parsing, configuration,
  lookups of names and the tenant condition of the queries, which is the same for all answers compared here.
* *Dashboard details*: `useNodeAncestors` and `useClientBrand` (breadcrumb and brand, one request each, without a guard;
  listed as hazards), the server's caches of trends and map boundaries.
* *Command Center details*: charts, the live feed, the frames of one meter and the comparison of gateways.
* *Sign-in*: roles and menus, the stored user, token encryption, demo data and the seed repositories.
* *The gateway-status caches* of the server, which only shorten the upstream's answers in time, and the map dialog.
* *Scripts and deployment*: one-off scripts, pool settings, the second limiter of `server.ts`, which counts in memory.
* *Outside this repository*: cog-core-api and the scheduler appear as what the code assumes of them.
