# Krot in TLA+

Krot (`krot.js`, `lib/`) is a library of parts that a node.js web application is built from: notifications over
RabbitMQ and their delivery to browser sockets, a cache and a session store over memcached or redis, temporary file
storage with uploads and downloads, login with token refresh, and proxies to back-end services. This directory has
TLA+ models of the parts that keep state and whose callbacks interleave, the TLC runs that check them, and TLAPS proofs
of most of what the runs show, for every value of the constants. `PROJECT.json` says which lines each definition translates,
which run checks what, which theorem proves it, and which hazard of the code each property is for.

node.js runs one callback at a time, so a step of a model is what happens from one callback's start to its end,
including every synchronous call. Everything that happens in between — answers of servers, timers, other requests, losses —
is a step of its own, in any order the code does not exclude.

## The system

| component | state | operations | hard about it | module |
|---|---|---|---|---|
| notification, link (`lib/notification/notification.js`) | `_connected`, `_connection`, `_channel` | `connect`, `close`, `connected` | attempts, losses and closing handshakes overlap; no field notices a loss | `Connection` |
| notification, subscriptions | `_tags`, `_buffer`, one subscription object per attempt, timers | `subscribe`, `unsubscribe` | chains of broker calls, a 500 ms timer and a table refer to one object without looking at each other | `Notification` |
| notification, deliveries | `_buffer.publications`; the broker's queue | `publish`, consumer callback, `ack` | acknowledgments and losses, order of buffered publications | `Delivery` |
| channel (`lib/notification/channel.js`) | sockets | start, stop, disconnect, receive, `send` | a socket leaves while its subscription is on the way | `Channel` (composes `Notification`) |
| session store (`lib/cache/sessionClientStore.js`), degradation of `clients/memcached.js`, void client | which client is in use, fail-over flags, two copies of each session | `get`, `set`, `destroy`, timeouts, fail-over, reconnect | two causes of fail-over share one flag; late answers | `SessionStore`, `SlowRequests` |
| cache (`lib/cache/cache.js`), redis and void clients | which client is in use, flags and counters, entries at both clients | `wrapWithCache`, `get`, `set`, `delete` | an answer, an error and a timer for each request; deletions that reach one client only | `Cache`, `SlowRequests` |
| memcached client (`lib/cache/clients/memcached.js`) | values and an index of keys at the server | `set`, `get`, `delete`, patterns | the index is read, changed and written without a lock; tree algorithms | `KeyStorage` |
| file storage (`lib/storage/file.js`, `fileServer.js`) | directories on disk, cleanup flag, stamp, timer | create, write, find, remove, cleanup | cleanups interleave with calls; restarts find old files | `FileStorage`, its promise in `Shelf` |
| archive storage (`lib/storage/archive.js`) | an archive and its output, per call | `compress`, `extract` | a parallel walk, one of whose steps fails; two emitters that answer one call | `ArchiveStorage` |
| incident report (`lib/components/incidentReport`) | none of its own; the help desk's records | `sendReport` | a chain of calls that ends at any of them | `IncidentReport`, with the former in `Reporting` |
| authentication (`lib/auth/authentication.js`, `passport-uaa`) | session copies per request, a global exchange lock | login callback, token refresh, CSRF, logout | every request has a copy of the session that it writes back | `UserSession` |
| service proxy (`lib/serviceProxy/serviceProxy.js`) | registry, routes, middlewares, cached answers | create, remove, request pipeline | routes outlive registrations; answers end in any order | `ServiceProxy` |
| unsecure URLs, socket authorization, mocks, services, validation, metrics | a list, a memo, or none | – | – | not modelled, see below |

They interact thus: a channel calls `subscribe`/`unsubscribe` of a notification component and is called back with notifications; the
session middleware reads and writes the session store around every request that authentication sees; the session store
and the cache call a cache client and listen to its 'issue' and 'connected'; the file server calls the file storage, as do archive
and incident report; the proxy uses the cache and the user that authentication put into the session.

## Modules

**Connection.** Each call of `connect()` that passes its guard starts a *link*: an amqplib connection `conn[g]` and a
channel `chan[g]` with a stage each. `connected`, `connection` and `channel` are the component's three fields, as the
link that each belongs to. One action per handler: the stages of the chain of `connect()` (`Connect`, `ConnectionOpened`, `ChannelOpened`,
`ExchangeDeclared`, `ConnectFailed`), the losses (`ChannelLost`, `ConnectionLost`), and `close()` with its handshake
(`Close`, `ChannelClosed`, `ConnectionClosed`). A loss changes no field, because the code changes none.

**Notification** extends Connection. All that is known about one name is a record `sub[n]`: its buffered request, its entry in
`_tags`, its subscription objects with the stage of their chain (`assert`, `bind`, `consume`, `active`, `cancelling`, ...), the calls
outstanding at the broker in order, and history. The handlers are functions from such a record to the next (`Subscribe`,
`Withdraw`, `Reply`, `Reject`, `Forget`, `Expire`, `ApplyBuffer`), which makes them usable in proofs; the actions apply them. Three
history variables say where the code's behaviour is not what a caller would expect, so that the properties can be sharp
everywhere else: `want` is what the application last asked for, `stray` that it withdrew something while a timer or buffered request
out of reach would bring it back, `crossed` that calls of an old link were rejected while a new one was in use.
The application is assumed to leave a `connect()` that is under way alone (`Open`); Connection itself does not assume it.

**Delivery** extends Connection with publications, the broker's queue, and the deliveries in the application's hand. Of the
subscription only that it consumes on a link is kept.

**Channel** extends Notification: names are sockets, callbacks are the targets a socket may start. `OnStart` is
`unsubscribe()` and `subscribe()` in one step, as in the code, and is cut short where amqplib throws. `asked` is what a socket started
last. The application's own 'connect' listeners know no identifier of a socket (`SocketsAssumption`).

**SlowRequests** is `requestTimeoutMixing` of `cache.js`: `slow` and `retry`, and the three operators that a user of it composes its
actions from (`CountAnswer`, `CountSlow`, `SlowOver`). SessionStore and Cache extend it, each as one instance of the mixing.

**SessionStore.** One session, two copies, several requests. `failOver` is the store's flag; `issue` and `tries` belong to the
memcached client. Versions number what the application writes. A callback may throw where the store catches it, and is then called
again with what it threw (`threw`); where nothing catches it the process ends, which is left out.

**Cache.** One key of the cache, over redis with a void client to fail over to. `pipe` are the commands under way at redis, in
order; `call` the calls of the wrapped function, which wait for the cache and then for their action. Behind them is `data`, whose
versions tell a stale entry from a fresh one; `floor` is what a `delete()` reported done. `delete(key, callback)` does not call the callback: such a
deletion reports nothing. `Break` is the connection that breaks, with every command in `pipe` unanswered or answered by an error.

**KeyStorage.** `stored` are the values and `index` the tree of keys, kept as the set of its keys (the nodes are
their prefixes). `Find` and `Drop` translate the two tree algorithms; the actions take one call to the server at a time.
`MCKeyStorage` gives the keys and patterns.

**FileStorage.** Directories with an age counted in cleanup stamps, the phases of initialization and cleanup, and calls under
way. `Init` allows for anything an earlier process left. A file is a `part` while it is written, and stays one when the write fails
(`WriteFails`: the upload is answered by the error, and then with the identifier all the same, as the stream also closes). `Failing` are
the directories in which writing fails and rimraf may fail.

**ArchiveStorage** and **IncidentReport** are written over `Shelf`, the promise of a storage, and not over one storage:
they may be used with any. A job of the archive storage has the walk in it (`lstat`, `readdir`: what is awaited), what was added, what
its callback was `told`, and of yazl which entries failed at their stat or reading (`bad`), which came after `archive.end()` (`late`), and whether the archive
was `finished`: one with a failed entry never is unless it was before, so its output stays open. The callback is called for each entry that fails, and again when
the output closes; a report has the attachment it is at, and `desk` is what the help desk got. **Reporting** puts both on one shelf,
with other users who fill, remove and clean up, and `MCReporting` gives the directory that is compressed.

**UserSession.** Requests of one browser session, each with its copy, through the middlewares in their order, with or without a user
in the session at first; `secure` is `isAllUrlsSecure`, `valid` are the refresh tokens the token server takes, and `rotates` says whether
it takes one twice. Time is the action `Expire`.

**ServiceProxy.** The registry `services`, the instances with their routes in order, and requests on their way through middlewares,
authorization, cache and service. A filter function may answer the request itself (`FilterHandles`): the request goes on to the service all
the same, and when the service answers, what then happens to a request that was answered ends the process (`up`).

### Promises and what keeps them

| abstract | says | implemented by | run |
|---|---|---|---|
| `Roster` | each name has one served callback, the wanted one, and none after its withdrawal | `Notification!ImplementsRoster`, until a name is stray or crossed | notification |
| `WorkQueue` | a notification in the queue ends by an acknowledgment only; a worker has one at a time | `Delivery!ImplementsWorkQueue`, until `mixed`, with acknowledgments | delivery |
| `Shelf` | what was given away is there in full until it may go | `FileStorage!ImplementsShelf` | file_storage |

Each is a module of its own with its own variables, and the detailed one has it as `Promise == INSTANCE ... WITH` and its specification
as a property. `Reporting` closes the circle: each of its steps is one of the shelf's (`ReportingUsesShelf`), so what it shows holds over any
implementation of it, as FileStorage is one (`StorageIsShelf`). The other two promises are proved as well
(`NamesAreRoster`, `QueueIsWorkQueue`).
The promises are small and their steps few; where nothing is promised of a name or of the queue (`excused`), the reason is one of the
history variables named above. `excused` never ends, so an implementation may not leave and come back.

In every module the operators that stand right before a definition of the code and are used nowhere (`DropEntry` before
`CancelLater`, `AllButLast` before `More`, ...) are variants of it with a plausible mistake. Each property is checked against one:
with the variant in place of the definition TLC must find the property violated ("mutants" in `PROJECT.json`).

## Runs

`tlc -workers 2 -config X.cfg M`, for each row. All but the last two find no error. The type invariants of Cache,
KeyStorage, FileStorage, Reporting, UserSession and ServiceProxy are in no run, but proved: the properties of these runs say more.

| run | module, cfg | bounds | question |
|---|---|---|---|
| notification | MCNotification, MCNotification.cfg | 2 links, 1 name, 2 callbacks, 3 objects, shared queues | do component and broker agree on who consumes, in every order of calls, answers, timers, losses, and is the roster kept? |
| delivery | Delivery, MCDelivery.cfg | 2 links, 3 notifications, acknowledgments | is the queue's promise kept, in order, and is the queue worked off? |
| channel | Channel, MCChannel.cfg | 1 link, 1 socket, 2 targets, 3 objects | is who consumes always a socket that is there, with what it started last; is no consumer left behind by a gone socket, and the last start served? |
| session_store | SessionStore, MCSessionStore.cfg | 2 requests, 2 versions, 2 writes under way, slow after 2 | one answer each and in time, copies that agree, a fail-over that ends? |
| cache | Cache, MCCache.cfg | 2 calls, 2 versions of the data, 2 commands under way, slow after 2 | is the action run once, the answer given, and nothing served that a deletion has reported gone? |
| key_storage | MCKeyStorage, MCKeyStorage.cfg | 2 clients, 4 keys, 4 patterns, 4 calls | does what was set stay, and do the tree algorithms do what a set would? |
| file_storage | FileStorage, MCFileStorage.cfg | 2 directories, 1 of them failing, 1 upload and 1 other call | is the shelf's promise kept, and does everything go in the end? |
| reporting | MCReporting, MCReporting.cfg | 2 directories, 1 report with up to 2 attachments, 1 job, a tree of 2 folders and 2 files | are attachments whole and in order, is a compressed archive whole, is every call answered? |
| user_session | UserSession, MCUserSession.cfg | 3 requests, 3 in all | is nobody logged out without cause, and what others wrote kept? |
| service_proxy | ServiceProxy, MCServiceProxy.cfg | 2 services, 2 requests, 4 registry calls | does the registered instance serve, and the cache answer with its own answers? |
| unsubscribe | MCNotification, MCUnsubscribe.cfg | 1 link, 1 callback | *violated*, see below |
| only_gets | ServiceProxy, MCOnlyGets.cfg | 1 service, 1 request | *violated* |

Bounds. Names share nothing but the link and the calls of one name go to the broker in order, so one name shows all
races of subscriptions; three objects are one in `_tags`, one whose timer still runs, and one to take. Two links are an old one
that is being closed and a new one; nothing refers to a third. Two callbacks tell a newer request from an older one. Three
notifications are one in hand, one behind it and one still to be published. Two versions make one copy older than another. Four
keys fork at the first and at the second part, and one extends another; four patterns are one of each kind. Two directories let one
task of a cleanup fail while the other goes on; in `Reporting` they are one that is attached and one that a job fills. A tree of two
folders and two files has a file beside a folder and one in it, so that a failure comes before, between and after what is added. Two
calls of the wrapped function are one that computes and one that finds, two versions what a deletion is about and what it is not. Three requests are one that exchanges, one that waits and one that logs out. Four
registry calls create, extend, remove and create again. Every bound is a constant named in its module; MC*.cfg switch off the
deadlock check because the counted calls run out, or because a process that is down stays down (FileStorage).

Fairness. Brokers and servers answer what they were asked, or the link breaks (weak fairness on `Answer`, `Arrive`, `Settle`; amqplib
pends calls until then); timers of node.js run out (`TimerFires`, `Expire`, `SlowEnds`, `Check`), and so the calls of `Cache` end
though redis says nothing, if the wrapped action answers (`ActionDone`); in `FileStorage` a call that looks
every 500 ms finds a moment between two cleanups, which lie a time to live apart (strong fairness on `AskedAgain`), and a folder is
not unreadable for ever; a directory that rimraf fails on is tried again and again (`Expires` says no more of it). In `Reporting` the file system and the help desk answer, yazl
finishes an archive that has no bad entry, and `unzip` closes. In `Delivery` the application answers what it is given; in `Channel` notifications keep coming
(`Notified`). Nothing makes an application call anything, a link come up or a link stay up. A session store's callback may never
come, as a request without a timer has no one to answer it. That the token server answers in the end is assumed in
`UserSession`: the request has no timeout of its own, and if it hangs all who wait go on waiting.

### What the code does not do

The two violated runs each check one sentence of the repository, and find a behaviour of the code against it.

* *unsubscribe.* `subscribe`, `unsubscribe`, `subscribe` again at once: the second `subscribe` sets a timer on the object that is being
  cancelled. When that object leaves `_tags`, `unsubscribe()` no longer reaches the timer, and half a second later it subscribes again.
  `Channel` limits the damage: `GoneIsLeft` holds, because the first notification for a gone socket ends the subscription.
* *only_gets.* The answer to a POST goes to the cache of a proxy without filter, and the next GET of that URL gets it.

The models have further behaviours that no sentence of the repository speaks against, and that a reader should know of. Most are marked by a
history variable, and the properties hold *up to* that mark: they do not catch these behaviours, they show that nothing else goes wrong. The
hazards in `PROJECT.json` that are of this kind have no property, or a note that names the variable.

| mark | what happened | excluded in |
|---|---|---|
| `stray` | a timer or buffered request that `unsubscribe()` could not reach brings back what was withdrawn | `Agreement`, `Roster`, `Hears`, `StartIsServed`; it is what *unsubscribe* finds |
| `crossed` (Notification) | calls of an old link were rejected while a new one was in use: two consumers, or one that cannot be found | all properties of a name |
| `early` | a 'connect' listener published ahead of the buffer | `InOrder` |
| `mixed` | `ack()` after a reconnection acknowledged another notification | `WorkQueue` |
| `ended` | the end of a slow fail-over ended an issue too | `FailOverHolds` |
| `missed` | a write did not reach the default client, or overtook another | `CopiesAgree`, its second part |
| `excused` (Cache) | a result computed before a deletion was written after it; a deletion reached one client, ran into its timer, or was a pattern for the void client, and said it was done | `Fresh` |
| `excused` (KeyStorage) | two calls at once lost a key of the index, or a value; a call was for a key that is part of another, a deletion for one that is not in the index, or a pattern of one item | `Kept` |
| `due` | an upload began before the first cleanup had listed the folder, or outlived the time to live (one whose write failed counts as not answered, and never gets into `uploaded`) | `UploadKept`, `Shelf` |
| `rotates` | the token server takes a refresh token once: two requests at once log the user out | `StaysLoggedIn` |
| `crossed` (UserSession) | a copy of the session was written over a newer one: it undoes a logout, a login, or a CSRF secret | `LogoutHolds`, `Usable`, `PageAccepted`, `StaysLoggedIn` in part |
| `dropped` | a service was removed, or described anew, and created again: its first instance still serves it | `RegisteredServes` |

Without a mark:

* After the link is lost a component goes on to call itself connected, and no call of it recovers. `close()` during an attempt does nothing, and the
  attempt connects the component afterwards. Publications on a dead channel are lost.
* `ack(true)` rejects nothing and blocks its worker (`Stuck`).
* A session `get()` whose timer runs out after a switch may never be answered, and is never answered by a lazy store. A callback of the
  store that throws is called twice.
* `delete('a:b')` from a memcached index that has only `a:c` removes `a:c` from it.
* An upload whose write fails is answered by an error and then with an identifier, whose file is not all there.
* An empty directory ends the process in `getFilePath()`, as do `compress()` and `extract()` if their file cannot be opened, and an entry that is written to an
  archive after its end (`Stop`). `compress()` calls back once for every entry that fails, and again if its output closes after a walk that failed.
* A filter that answers through `res` or `next` (its documentation, `lib/serviceProxy/serviceProxy.js:39` and `:276`, gives it both) has its request sent to the service
  nevertheless, and the service's answer ends the process. An answer that is broken off may be cached as if it were whole where node still emits 'end'.
* Two cached services share their answers where their URLs agree.

## Proofs

`tlapm M.tla` for each module below. Each is about the specification of the module it is named after, `MemcachedProofs` about
SessionStore and KeyStorage, which have nothing in common, and `NotificationProofs` about Channel as well; each for every value of
the constants, and of the safety part (`Spec` of a `FairSpec`), from the assumptions that are named where the constants are declared:
bounds are numbers (`MaxConnects`, `MaxCalls`, `Tries`, `SlowCount`, ...), values that stand for nothing (`None`, `NoId`, `NoCall`, `NoSession`,
...) are none of the others, a listener calls what the component offers (`ListenerAssumption`) and nothing for a socket (`SocketsAssumption`), keys
and patterns are sequences of names and only patterns have a `Star` (`KeysAssumption`), there is a URL to ask for
(`UrlsAssumption`); only the objects of Notification are assumed finite (`IdsAssumption`). Numbers that nothing in the code bounds are in `Nat`
in the types, so that a type holds without the bound of a run.

Nearly none of the invariants is inductive as it stands. What each had to be strengthened by is in the second column: the
conjuncts of its module's `Inv` beside the type. TLC checks each `Inv` as an invariant on the bounds of the component's run.

| module | inductive invariant | proved |
|---|---|---|
| `NotificationProofs` | `LinkInv`, `SubInv`; `WantedInv` | `OneConsumer`, `ConsumerIsReachable`, `NoDeadEntry`, `OneLink`, `Agreement`, `ImplementsRoster` |
| – of Channel | the same, and `AskedInv` | `Hears`, and the first four of these |
| `DeliveryProofs` | `LinkInv`, `WrittenInv`, `OrderInv`, `PlaceInv`, `TagsInv` | `InOrder`, `ImplementsWorkQueue` |
| `MemcachedProofs`, of SessionStore | `SlowInv`, `CallsInv`, `FailOverHolds`, `CopiesInv` | `AnsweredOnce`, `FailOverHolds`, `CopiesAgree` |
| – of KeyStorage | `StagesInv`, `IndexInv`, `RacesInv` (in `KeysInv`) | `Kept`, `TreeIsASet` |
| `CacheProofs` | `SlowInv`, `CallsInv`, `EntriesInv` | `DoneOnce`, `Fresh` |
| `FileStorageProofs` | `PhaseInv`, `StartInv`, `CleanupInv`, `CallsInv` | `ImplementsShelf`, and `UploadKept` through it |
| `ReportingProofs` | `UploadKept`, `NoParts`, `ReportsInv`, `JobsInv` | `UploadKept`, `Attached`, `SuccessIsWhole`, and that `Reporting` is a shelf |
| `UserSessionProofs` | `CopiesInv`, `GoneInv`, `OpenInv`, `TokensInv`, `RenewInv`, `PageInv`, `LoginInv` | `StaysLoggedIn`, `Usable`, `LogoutHolds`, `PageAccepted` |
| `ServiceProxyProofs` | `RegistryInv`, `RequestsInv`, `AnswersInv` | `RegisteredServes`, `PassedAll`, `OwnAnswers` |

Each module also has `TypeCorrect`, and KeyStorage `KeyTypeCorrect`: the variables keep their types.

**Notification.** "Never two consumers for a name" holds in a state with a consumer that is being cancelled and a chain about to
start another, whose call is *before* the cancel in the channel, and leads out of it. `Orderly` excludes such states. Its heart is
`ChainIsLast`: the only chain under way on the channel in use belongs to the entry of `_tags`, and its call is the last of those
outstanding. As the broker answers in order (`InLine`), a chain's end finds every cancel that was asked for before it answered.
`LinkInv` adds that connection, channel and flag belong to one link, which rests on `connect()` being left alone while it is
under way. Each handler has a lemma that it keeps `Orderly`; the step lemmas `SubInvLink`, `SubInvAttach`, `SubInvOver`,
`SubInvDetach` and `SubInvOne` collect them by what they do to the link.

`Agreement` speaks of names that have come to rest only. What leads there is `WantedInv`, where the last wish is kept on the way: an
entry has it as its callback; an entry that is marked to be cancelled has it in its timer, and no other timer runs; without
an entry the timers that are left have it; before `connect()` the buffer has it. For `ImplementsRoster` each step is one of the roster's
(`Follows`): a name that consumes before or after it is wanted as before, or not at all.

**Channel.** A start is two steps of the component at once, with nothing of the broker in between, so its invariant cannot come from that of
the component's steps. It comes from the handlers: `Fits` is the invariant of one name alone, which `Unrequest` and `Request` each
keep, and so one after the other (`StartedFits`). `AskedInv` ties the sockets to the component: what a socket asked for is what the component
wants for it, and a socket that is not there asks for nothing. That fails only where amqplib threw on a lost channel, between
`unsubscribe()` and `subscribe()`; such a channel is not used again. `Hears` follows from this and what
`WantedInv` and `Agreement` say of the component.

**Delivery.** That publications leave in order needs to know that the buffer is empty while the component is connected (`OrderInv`), and the
queue's promise that a notification is at one place and there once (`PlaceInv`): buffered, written, queued, or given to a link. A tag must
tell which delivery is meant (`TagsInv`): tags of a link differ, one of them is unacknowledged, and an acknowledgment
in the pipe is of a delivery that was acknowledged. Its sequence lemmas say what stays in order and unique when something is appended,
taken, or put in front of what waits.

**FileStorage and Reporting.** Each step of a storage is one of the shelf's, or none, if the first forced cleanup takes only what
is due (`StartInv`), as do those after it (`CleanupInv`), and a directory that is not
made yet belongs to one `create()` (`CallsInv`: identifiers are fresh). In `Reporting` a report's attachments are a beginning
of what was asked for, each whole if the shelf has it whole (`ReportsInv`). `SuccessIsWhole` is about a walk in parallel, without a
recursion in the model: the set D of folders that were read is kept in `WalkedInv`, with all files of D added or on their way, and all folders
in D read, being read, or looked at; when nothing is left D has the root and with each folder those in it, and is all of them
(`ReachAssumption`: every folder lies below the root). So the archive is whole for any tree.

**SessionStore and Cache.** Answers, errors and timers meet at one callback. `CallsInv` says for each call what may still come,
so that none comes twice. `CopiesInv` says that the fail-over client has what was written last, and that the default client has it or the
last write on its way there does, if none was lost or overtaken (`LastWrite`). `EntriesInv` compares the versions in the pipe with the
last deletion that was reported: what is to be set is not older than it (`SetsNew`), nor than the deletions in front
of it, which will have been reported by then (`SetsAfterDeletes`); no deletion is newer than the last that was asked for (`DeletesOld`).

**KeyStorage.** The tree algorithms go level by level, and what they do is shown for every finite index of keys of any
length: a walk has reached, at each level, the nodes of that length that match so far (`ReachedAre`). That is no induction by the
library's theorem, which takes the statement as a parameter; but a level at which it failed would be preceded by a
least one, as the order of numbers is well founded (`LeastNat`), and the level before that, where it holds, makes it hold there.
With it `FindIs` says what is found and `CutIs` what is cut. `Kept` needs `RacesInv`: as long as
no two calls cross, what a call read of the index is still the index when it acts; a value that is set stays until the index has its key; a `get()`
drops only what is not in the index; and what a deletion means is gone before it leaves the index.

**UserSession.** A request's copy is as old as its reading, and what counts is which copies are written back later. The heart is
`RenewInv`: when the stored refresh token was spent, some request owns its successor and will write it, and every copy that is
not outdated is as the session or owns such a token; no two copies have it (`Own`). `OpenInv` and `GoneInv` say what a copy that is not outdated
has of the session, `TokensInv` that no token is newer than the last grant, `PageInv` and `LoginInv` what the page that is shown, logins,
logouts and failed exchanges say of the session.

**ServiceProxy.** The first route of a name serves it, so `RegistryInv` must know that a service which is not registered and was never dropped
has no route: its next instance will be the first. Middlewares are added while requests are under way, and never lost (`RequestsInv`). Whatever
is in the cache, or was taken from it, was answered with status 200 by an instance that caches, to a method it lets pass (`AnswersInv`).

*Only model-checked.* `GoneIsLeft` and `StartIsServed` of `Channel`, and every other property with `<>` or `~>` in it: liveness, fairness and
ENABLED are out of the prover's reach. The two runs that end in a violation. Every other property of a run that passes is proved.

## Not modelled

*Parts left out.* `lib/authMock` and `lib/passwordAuthMock` stand in for a login in tests; `services.js` remembers what it reads from an environment
variable that does not change; `validation.js` and `unsecureUrl.js` are pure tests of one value but for a list that only grows;
`socketAuthorization.js` is one read of the session store; nothing depends on what `metrics.js` counts. None of them has two steps that could
interleave.

*Detail left out.* Anonymous subscriptions (in no table, nothing can act on them), `options.owner`, binary and confirm options; wording, logging and
events; times to live of sessions; the wording of HTTP, headers and redirects, the parameters of the
login, options per request; a cache without a client to fail over to, which its first slow fail-over leaves without any; the text of an incident; `send()` of a channel, and listeners that change its messages.
What was not modelled of an answer is how much of it there is; a middleware that calls `next()` twice is an application's error.
Of the libraries under `node_modules` the parts that `lib` depends on are mapped to their source: rimraf, yazl, node-uuid, express-session,
passport-oauth, and the connections of redis and memcached. External are what is not in the repository, the servers (RabbitMQ, redis, memcached, the token server), the node
process, express and the application.

## Plan

1. *Overlapping `connect()`s*: `Connection` has the step, `Notification` and `Delivery` leave it out (`Open`); `LinkInv` would
   have to speak of several links under way.
2. *A register that `SessionStore` implements* while no copy was missed.
