# WPEFrameworkPlugins in TLA+

This directory holds a formal model of the plugins of this repository whose
behaviour depends on the order in which threads, timers, sockets and callers
meet. Each module is translated from the C++ in `src/`. TLC checks the modules
on small instances, and TLAPS proves every safety property of the passing runs for
all values of the constants. `PROJECT.json` maps every definition to the lines it stands for, and
lists the runs, the findings and the hazards.

The framework itself (worker pool, timer, sockets, `ProxyType`, JSON-RPC) is not
in the repository. What a module needs of it is modelled from the way the plugins
use it, and is marked external in the map. Three assumptions recur:

- a socket calls `SendData`, `ReceiveData` and `StateChange` from one thread, one
  at a time, and `SendData` only after a `Trigger` or while it has more to ask for;
- the worker pool runs what is submitted, on any of its threads, and the timer
  submits what is scheduled;
- `Revoke` of the pool takes a job off the timer and the queue, and then waits for
  a thread that runs it (`Monitor.h:898` relies on this: "the thread that calls the
  Probe is blocked (paused)").

## 1. Inventory

The plugins do not call each other but for interfaces of the framework, so that
each is a system of its own. What is shared is the shape: a web or JSON-RPC
request on a worker, a job on the pool, a thread of a socket or of a vendor
library, and a lock that does not cover all of it.

| Component | State | Operations | What is hard | What makes it correct |
| --- | --- | --- | --- | --- |
| WifiControl, the channel (`Controller.h/.cpp`) | `_requests`, a list of pointers to requests, some of them on the stack of a caller; which of its own requests are settable | `Submit`, `Wait`, `Revoke`; `SendData`, `ReceiveData`; constructor with `Probe`, destructor | replies carry no identification; a caller that times out leaves its command unanswered; both socket callbacks look at the list without the lock | every command gets its own answer, no pointer outlives its frame, the list never sleeps |
| WifiControl, the networks (`Controller`, `WifiControl.cpp`) | `_networks`, `_enabled`, `_callback` | scan, detail, list, status; `Create`, `Connect`, `Enable`, ... | events that arrive between a question and its answer; iterators kept across a wait | what is listed exists; details complete; no callback after it is withdrawn |
| NetworkControl, DHCP (`NetworkControl.cpp/.h`, `DHCPClientImplementation`) | state of the client, its offers, the retries of the engine; `_dns` with use counts, the DNS file | `Initialize`; `Discover`, offer, `Request`, `Acknowledge`; the watchdog; `AddDNS`, `RemoveDNS`, `RefreshDNS` | watchdog against late answers; `Initialize` goes on without the lock when the first interface already discovers; a file written from a copy | an exchange ends; counts balance; the file follows the list |
| NetworkControl, adapters | `_interfaces`, `_dhcpInterfaces`, the observer | `Activity`, `Reload`, JSON-RPC | adapters that come and go under a reload | lists agree with the adapters |
| DHCPServer | `_leases`, markers of the pool, `_lastIssued`, `_responses` | `Discover`, `Request`, `SendData`, `Open`, `Close` | loss, repetition, delay; a restart forgets the leases; unsigned arithmetic at the ends of the pool | no address for two clients; leases unique; responses not forgotten |
| Streamer | `_streams`, `_controls`; counted frontends and decoders, `_slots`; the state of the player | create, load, attach, detach, destroy; speed, position, window; the reports of the tuner or the player | references taken on one thread and dropped on another; two locks; attaches that fail half way | slots and counts balance; nothing points at what is gone; requests end |
| TimeSync | `_state`, the server iterator, `_retryAttempts`, one job; the plan of the next synchronisation | `Synchronize`, `Cancel`, `SendData`, `ReceiveData`, `StateChange`, `Dispatch`; setting the time | one job for three purposes, revoked from three places, with and without the lock | a synchronisation ends and is reported; the answer is to the last request; it goes on periodically |
| Monitor | one object per observed plugin: slots, restart windows, the memory interface | `Probe`, `StateChange`, `Open`, `Close`, `Reset` | `Probe` takes no lock; counts over many activations | a plugin that fails is restarted as often as configured |
| OpenCDMi | the sessions and their counts, the pool of buffers, the decrypt threads | `CreateSession`, `Session`, `Release`, key status | a session handed out while it is destroyed; buffers given back early | one session per buffer; callbacks only to live sessions |
| Bluetooth, RemoteControl, LocationSync, Messenger | command queues, pairing, a probe with retries, rooms with callbacks | see `PROJECT.json` | as above | candidates once the cores are done |
| the other plugins | hardly any state of their own, or that of an engine or library outside of the repository | | I/O, graphics, parsing | not modelled; `PROJECT.json` has the reason for each |

The hazards of this code, each at its line with the properties that watch it, are
listed under `hazards` in `PROJECT.json`.

## 2. Plan

Order, most important behaviour first. Finished: 1 to 8.

1. `WpaChannel`: the request list of WifiControl, and its proofs.
2. `DhcpEngine`: exchange, watchdog and DNS list of NetworkControl, and its proofs.
3. `DhcpServer`: leases, queue and clients, and its proofs.
4. `Streamer`: streams, decoders and platforms, and its proofs.
5. `TimeSync`: the NTP client and its plugin, and its proofs.
6. `WpaMailbox`, what the channel promises, which `WpaChannel` implements, and
   `WpaNetworks`, the data of WifiControl, which is built on that promise, and its proofs.
7. `OcdmSessions`: sessions, counts, buffers, threads, reports to observers, and its
   proofs.
8. `Monitor`: a plugin with its process, its probe, its restarts, and its proofs.
9. Left: the adapters and static addresses of NetworkControl, the connection status of
   WifiControl, RemoteControl pairing, LocationSync, Messenger.

Abstract specifications still worth stating, each a PROPERTY of a run of the detailed
module: an allocator for the slots of `Streamer` and the buffers of `OcdmSessions`, a
table that assigns addresses for `DhcpServer`, and for `TimeSync` a synchronisation that
starts, ends and is reported.

Each safety invariant and action property of a passing run is stated by a theorem, and so are the
steps of the one refinement. What is left to prove comes with what is left to state: the
refinements above, and that `WpaNetworks` uses `WpaMailbox` as it may be used (`box` and
`answered` are taken over into the module, not instantiated from it).

All bounds are named `Max...` where they are the model's and not the code's.

## 3. Modules and how they correspond to the code

Every module has one action per step that other threads can see. What the code does
under its lock is one action; what it reads or writes without the lock, and what it
does between two locked parts, is a step of its own. Points of threads are values of a
variable (`pc`, `thread`, `call.at`). Where the code may leave the defined behaviour
(a reference that dangles, `front()` of an empty list, a thread that waits for
itself), a variable records it (`race`, `end`) and that behaviour stops.
`MC<Module>.tla` extends a module with the values the configuration cannot write and
the symmetry.

### WpaChannel
`requests` is `_requests`; a request is identified by its owner, a caller (a
`CustomRequest` on its stack) or one of the four members. `unsent` is what `Message()`
still holds, `settable` is `_settable`, `signaled` is the event `Wait` waits for.
`Submit`, `Trigger`, the wait that ends in `Answered` or `Expire`, and `Finish` (with
`Revoke`) are the exchange of a caller; `SendData` and `SendCopy`, `ReceiveReply`,
`ReceiveComplete` and `ReceiveEvent` are the socket thread. `wire` and `inbox` are the
supplicant and the datagrams, in order and without loss, as a local socket is. A
controller goes from its constructor (Probe, ATTACH) to its destructor once. What the
replies say is left to `WpaNetworks`.

`WpaMailbox` is the abstract specification: a list of requests, completed in order, each
with its own answer until somebody gives up waiting. `ImplementsMailbox` maps `box` to
the list as long as the object is there, `answering` to the point where `ReceiveData` has
seen the front request, `outcome` to `signaled` and `disturbed` to `timedOut`. `Withdraw`
takes a request out from wherever it is, as `Revoke` does, and `Abort` takes down the
mailbox with whatever is in it. The abstract `WF` on `Answer` and `Complete` is what keeps
the list from sleeping. TLC checks the refinement with its fairness; that each step of the
channel is a step of the mailbox or none is also proved (`ChannelIsMailbox`).

### WpaNetworks
The data behind the channel, which is taken at the word of `WpaMailbox`: `box` is the list
of requests, `answered` says that the answer for the oldest is among the datagrams of
`inbox`. `listed` is `_networks` by what is known of each BSS, `enabled` is `_enabled`
with the id of each entry, `scanning` is `_scanning`, `asked` the `_bssid` of the detail
request. `air`, `profiles` and `busy` are the supplicant. `Receive` is `ReceiveData` for
an event or an answer, with what `OnCompleted`, `Update`, `Add`, `Remove` and `Reevaluate`
then do in one locked part. `Create`, `Destroy`, `Use` (Enable, Disable, Connect,
Disconnect) and `Scan` are the methods, in the parts that other threads can see between.

Any of their waits may run out of time (`GiveUp`). `Revoke` takes the request out of the
list, but the supplicant does not know: a command that was sent is carried out, and
answered, all the same. It stays in `box` as `"late"`, with what it asked for in `overdue`,
until `AnswerLate` and `CompleteLate`. The profile that is made for a `Create` that gave up
is in no entry of `_enabled`: the entry stays there with the id `~0`, and the profile is one
of the `orphans`, the one exception of `ProfilesKnown`. The promise of the mailbox, each
request its own answer, ends with the first late answer that meets another request: there
`race = "misread"`, and this model ends. What the list itself does from there on is in
`WpaChannel`. One command is late at a time, which is a bound.

Some facts of this code show in the model: `NetworkRequest` takes over only the first of the
profiles it is given; `LIST_NETWORKS` is asked again and again as long as `_enabled` is
empty; `Enable` and `Disable` refuse the id 0; an iterator into `_enabled` is kept across a
wait, so that a caller that destroys an entry leaves another with a dangling one
(`race = "dangling"`); and what is dispatched after `Deinitialize` has taken out the
callback goes through null (`race = "null dispatch"`).

### DhcpEngine
One dynamic interface. `state` and `modus` are those of the client, `first` the first
of `_offers`, the only one `Update` looks at, `retries` and `watchdog` the engine and
the number of its dispatches under way. The history variable `surprises` records the
schedules the code does not expect; the properties say which of them may break what,
and nothing else may. `dns` has the use count of every server, `file` the section of
the DNS file, and `copied` the copy `RefreshDNS` writes after it released the lock.

The model begins inside `Initialize`, before the first interface is reloaded, and `setup`
is how far that thread has got: `FirstReload`, then `AppendDNS` for each server of the
configuration (`pending`), then `CopyDNS` and `WriteDNS`, its own `RefreshDNS` with its own
copy (`prepared`). From the reload on the socket thread may be anywhere in the exchange.
Three things follow. The append takes no lock and may meet the socket thread at the list,
which is undefined (`AppendRaces`, `end = "list raced"`). It does not look whether an offer
has already brought the server: then `_dns` has two entries for it, of which only the first
is ever counted up and down (`again`; `dns` is the sum of both, and `Doubled` and `Update`
are what `RemoveDNSEntry` makes of it). And two threads write the file from copies:
`overtaken` has the writers whose copy is no longer the list, and `stale` says that the last
one to write was one of them. Requests, and the observer of the adapters, are there only
when `Initialize` is over.

A write of the section is one step, so that the last writer wins; how the bytes of two
writers at once would mix is not modelled. Nor is that `Initialize` still adds interfaces
to the maps `Update` searches, which takes a second interface.

### DhcpServer
Leases are pairs of client and address. `Tried`, `FreeTries` and `FirstFree` are the
loop of `Discover`, with its unsigned wraps. Polite clients follow the protocol; rude
clients ask for any address at any time. Datagrams of clients arrive lost, late or
twice: an action receives any message a client may have sent. Responses wait in
`responses` for the socket, and may be lost. A restart of the plugin forgets the
leases; `restarted` records it, because then nothing keeps addresses apart.

### Streamer
An object `s` is the memory of a frontend. `count`, `decoder` and `slots` are what
`Frontend.h` counts; `streams` and `controls` are the maps of the plugin; `call` is the
request in progress, one at a time, step by step; `player` is the thread of the
platform of each stream. The tuner of QAM may report any state once it is tuned. Both
`Callback(nullptr)` and the end of the scheduler of Aamp wait for a report that is
under way. Attaching a second decoder to a stream (the proxy is thrown away and its
sink with it) is recorded in `twice`. The code does not foresee it: `Frontend.h:253` asserts
that there is no callback yet, and `StreamerJsonRpc.cpp:229` documents
`ERROR_INPROGRESS` for it, which `endpoint_attach` returns only once the stream plays; the
model says what a build without assertions does.

### TimeSync
`queued`, `timed`, `picked` and `scheduling` count where `_activity` is: in the queue,
on the timer, with a worker that has not yet taken the lock, with one that has released
it and will schedule. `owner` is who holds the lock inside a `Revoke`. `server` is the
iterator, past the last server as `Sources + 1`. `thread` and `taken` are the socket
thread and the answer it carries; whether that is to the last request is what
`AnswersTheLatest` is about. `phase`, `registered`, `periodic` and `subsystem` are the
plugin, which is one object per activation. `FireRequest` finds the socket impossible
to close while its thread waits for the lock that `Dispatch` holds.

### Monitor
One plugin that runs out of process, its job queue, and what Monitor knows of it. `state`
and `reason` are those of the shell; `Take`, `Tell`, `Initialize`, `Configure` and
`Deinitialize` are a worker in a job of activation or deactivation (`WebKitBrowser.cpp`,
and the plugins that do the same), with the point `at` between its parts. `Initialize`
starts the process, or fails to; the rest of the method, with its remote call, is
`Configure`, and the plugin is in ACTIVATION as long as that takes. `Crash` ends the
process at any time from then on, and `Deactivated` reports the end of its connection with
a job to deactivate the plugin. The host drops that job while the plugin is not yet active
(`ComesEarly`), and when `Configure` then succeeds the plugin is active, its process gone
and nothing to come: `missed` remembers it. `Probe` reads `_source`, the memory interface,
and `Evaluate` uses it later, as `Probe` takes no lock: the comment at `Monitor.h:897` is
about the list of observed plugins, and does not cover `_source`. What it finds in an
interface that was released meanwhile may be anything. `StateChange` takes or drops
`_source` and decides on a restart; `limit`, `count` and `window` are the restart
settings, `granted` and `givenUp` are history. `Update` changes the limits, `Open` and
`Close` are the activation of Monitor itself. What the model shows besides: one loss may
be reported twice, by the connection and by `Probe`, and the second job then stops the
plugin that was restarted; and an `Initialize` that fails ends the restarts, as its reason
is none that is counted.

### OcdmSessions
A session is known by its identity: `CreateSessionExt` gives every session an empty id, by
which none could be told from another. `life`, `count` and `buffer` are a
`SessionImplementation` from its constructor to the end of its destructor, `occupied` the
bits of the pool, `sessionList` the list. Each client has one call at a time:
`CreateSession` and `Enlist` are the two parts of CreateSession, outside and inside the
lock; `Session` hands out references; `Release` drops one and, if it was the last, goes on
with `Remove` (locked), `Stop` and `Destroyed`, the destructor. `worker` and `produced`
are the decrypting thread and the signal it sleeps for. `UpdateKeyStatus`,
`ReportKeyChange` and `OnKeyStatusUpdate` are one callback of the CDM, of which only the
middle is locked. `view` is what each observer was last told. A client may `Die` with a
sample in the buffer; the framework then releases what it held. Five ways out of the
defined behaviour are recorded: a session handed out whose destructor has begun (the
comment at `FrameworkRPC.cpp:415` leaves it to the parent "to lock handing out new
entries", and nothing does); the session of the CDM destroyed while the thread uses it,
which is stopped only afterwards, or inside its callback, which may wait for the lock
`Remove` holds; a buffer given to the next session before the last has closed it; and a
callback released between the test and its use. Without a free buffer the session of the
CDM is left behind ("TODO" in the code).

## 4. Runs

| Run | Bounds | What it shows |
| --- | --- | --- |
| `WpaChannel_safety` | 2 callers, status and scan events, 1 abandoned command | the request list is sound; the front is served; commands do not overtake each other; until the first time out each command gets its own reply |
| `WpaChannel_liveness` | 1 caller, scan and BSS events | `ImplementsMailbox`: the channel implements `WpaMailbox`, with its order and its liveness |
| `WpaChannel_submit` (violation) | | two status events put one request in the list twice: the assertion in `Submit` fails |
| `DhcpEngine` | 2 servers that share a DNS server with each other, one also the configuration's, `Initialize` under way, 2 exchanges, 1 resend | types, `NeverStuck`, `DnsBalance`, `FileInSync`, `AcceptedIsRequested`, `ExchangeEnds` |
| `DhcpServer` | 2 polite and 1 rude client, addresses of 5 values, 2 responses | leases unique, addresses exclusive and leased, the queue served |
| `DhcpServer_pool` (violation) | 3 polite clients, a pool of 3 | an address beyond the end of the pool is issued |
| `Streamer` | 2 streams, 1 decoder, either platform, 2 references, 1 platform thread at work | slots, references (`RefsBalance`), proxies and sinks (`NothingIsLeft`) stay in balance; with a tuner each request ends |
| `TimeSync` | 2 servers, 1 retry, 3 synchronisations, 1 time set by hand, 2 workers | nothing is forgotten, no stale answer counts, the plan goes on, each synchronisation ends |
| `TimeSync_refused` (violation) | 2 servers | after a cancel, every synchronisation is refused as misconfigured |
| `WpaNetworks` | 2 access points of one network, 1 profile, 2 callers, 2 datagrams, a `Create` that may give up | the lists follow the supplicant; details and scans that were begun go on; every profile is known, but those of a `Create` that gave up |
| `Monitor` | 2 workers, 2 processes, a limit of 1 or none, 1 job that was asked for | Monitor looks at the current process; restarts stay within the limit; each loss of the process is handled, but for one reported during ACTIVATION |
| `OcdmSessions` | 2 clients, 3 sessions, 2 buffers, 1 observer, 1 key status | counts, buffers and sessions agree; an observer knows the keys; the destructor does not wait in vain |

Why the bounds are enough to meet the cases that matter:

- WpaChannel: two callers are needed for one request to wait behind another, one
  abandoned command for replies to shift, one member request for `Set` to matter. A
  second abandoned command repeats the shift.
- DhcpEngine: two servers, for a second offer to come in; two exchanges, for a
  leftover of the first (an offer, a watchdog) to meet the second; a DNS server in both
  the configuration and an offer, for a count of 2 and for two entries. `Initialize` ends
  once, within the first exchange, after it or before it. One resend is both a retry and the
  last one.
- DhcpServer: two polite clients for a conflict, a rude one for a lease that is made
  over. Widths are cyclic in the code, and 5 values hold a pool, its ends, the wrap,
  and one address outside. Two responses: one in front, one behind.
- Streamer: two streams compete for the one decoder and both slots. Threads of the
  platforms of two streams share nothing, so that one at work at a time loses little;
  the safety properties were also run with two. 2 references to a decoder are its owner
  and one request.
- TimeSync: 2 servers make a first, a next and a past-the-last; 1 retry is used up by
  the first sleep, after which the counter wraps. `RetryWord` is 2^32 in the code, and 4
  here, which only shortens the way round. A third synchronisation meets what the first
  two left behind.

- WpaNetworks: two access points make a detail that waits for another, and a number of a
  BSS that is the number of a profile; one name is enough for callers to meet in
  `_enabled`; two datagrams are an answer and the event that overtook it. In the run only
  `Create` gives up (`Impatient`), as that is the command whose lateness leaves something
  behind; the same instance with all of them impatient has 21.6 million states, too many
  to keep as a run, and was checked once. The proofs are for any set.
- Monitor: two workers for two transitions at once, one of which still has to tell its
  state; a process and its successor. A limit of 1 is reached by the second loss, and the
  other value stands for no limit. The causes are counted apart, so one is enough.
- OcdmSessions: two buffers are exhausted by two sessions, and a third session meets the
  buffer of one that is still being destroyed. `Width` is 16 in the code. Two clients hold
  one session together and each their own. More observers would be told the same.

Deadlock is checked in the runs of `WpaChannel`, `DhcpServer`, `WpaNetworks`, `Monitor`
and `OcdmSessions` (an action `Stopped` stands for a controller that is gone or for
behaviour the code no longer defines), and not in the other three modules' runs:
`DhcpEngine` because it stops where the code frees what a thread still uses, or where its
bounds are reached; `Streamer` because on Aamp a request and `TimeUpdate` may each hold
the lock the other waits for, and because requests need not come; `TimeSync` because
`Revoke` with the lock held can block both threads for good, and because a plugin may be
stopped.

### Fairness
- `WpaChannel_liveness`: the socket thread serves reading and writing again and again
  (strong, as each is disabled while it does the other), callers go on with what they
  began, the supplicant answers (strong only because `MaxInbox` is ours). Nothing forces
  an exchange, an event or a time out.
- `DhcpEngine`: a watchdog that is scheduled is dispatched; the socket is served; a
  thread goes on. No offer and no reload is forced, so `ExchangeEnds` holds on a dead
  network as well. Of `Initialize` only the `Schedule` within its reload is forced.
- `Streamer`: threads that can go on do. Reports of the tuner that have not begun are
  not forced.
- `Monitor`: a worker goes on with its job and takes the next, and the end of a connection
  is reported. Nothing forces a crash, a probe or a request; `CrashIsHandled` allows for a
  limit that is reached, a new process that does not start, a report that was dropped in
  ACTIVATION, and a plugin or a Monitor that somebody stops.
- `TimeSync`: the timer fires and workers run what is queued. Nothing is assumed of the
  network or of the clients.

### Findings
1. `ReceiveData` of the WifiControl channel submits the status request without the
   `Set` that guards the others (`Controller.cpp:198`): the `ASSERT` in `Submit` fails.
2. The search for a free address in the DHCP server runs past `_maxAddress` and never
   returns to `_minAddress` (`DHCPServerImplementation.h:760`).
3. A cancelled synchronisation leaves the NTP client refusing every other one
   (`NTPClient.cpp:77`), reported as a configuration error.

The passing runs reach more that a reviewer of the code may want to look at. `Detach` of a
stream ignores that the platform did not detach (`Frontend.h:520`), so that the tuner goes on
feeding a decoder that is free. A second attach is against an assertion and a documented
return code (see Streamer). A process lost during ACTIVATION leaves an active plugin
without one (see Monitor). The DNS servers of the configuration are appended without the lock
(see DhcpEngine). And there are the races that `WpaNetworks`, `Monitor` and `OcdmSessions`
record, described with those modules.

## 5. Proofs

Each theorem is `Spec => []P`, an action property, or the steps of a refinement, for every
value of the constants that satisfies the module's named ASSUME, without the bounds of the
runs being small. Each follows from an inductive invariant, in three facts: it holds
initially, every step keeps it, and it implies P. Steps are proved per action. The
assumptions say that bounds are natural numbers, positive where zero would leave nothing
to do, that what is configured has its type, and that the values that stand for nothing
are no members of the sets they are added to; `OcdmSessions` also needs its clients to be
finite, because its counts are those of the holders of a session.

- `WpaChannelProofs`: types, `NoLostTrigger`, `QueueHoldsLiveRequests`,
  `SetGuardsTheList`. The list can only be kept sound with the knowledge of who is
  in which point of its exchange, that a request being set is set by one thread, and
  that whoever finds the list empty triggers: the invariant `IInv` is the conjunction
  of the types, the three properties and `SettingAlone`. `OneCommandAtATime` and
  `AnswersMatchUntilTimeout` are proved together, from `IInv` and `LineInv`: a command on
  its way has been sent, what waits behind the front has not, the socket thread works for
  the front request, and nobody leaves before its answer as long as no `Wait` has run out
  of time. The second needs the first, as a reply carries no identification: it is the
  right one because it is the only one. From both follows `ChannelIsMailbox`, the safety
  half of `ImplementsMailbox`, action by action.
- `WpaNetworksProofs`: types, `WorkGoesOn`, `ListFollowsAir`, `ProfilesKnown`. The types
  (`TypeInv`) need that a request is in the list once, that its caller waits, and that the
  one answer in the inbox is that to the oldest request. `ListInv` adds, for the list,
  what a datagram means when it is behind others: what it says of a BSS is so, or a later
  event takes it back (`AirInOrder`). `WorkInv` needs only that the SCAN that was answered
  has its end to come. `ProfileInv` says for every profile who knows it "for sure": an
  entry, unless a `Destroy` of it was already answered with OK, or the caller of `Create`,
  or nobody since that one gave up (`orphans`); and that a caller of `Create` is the only
  one for its entry. The plain property is not inductive, as the answer to
  `REMOVE_NETWORK` and the erasing of the entry are two steps.
- `DhcpEngineProofs`: types, `NeverStuck`, `DnsBalance`, `FileInSync`,
  `AcceptedIsRequested`. For the second, the states in which a watchdog is needed are tied
  to the points of the threads (`ExchangeInv`); for the balance, a count is written as the
  sum of the shares of its users (`BalanceInv`), so that each action moves one share; for
  the file, a copy in progress is the list, unless its writer was overtaken
  (`CopyIsTheList`, with a lemma for what a change of the list does to both writers). For
  the address (`OfferInv`): while the client discovers, the interface has what an earlier
  exchange asked for, and from the acknowledge on no watchdog is under way, and what is
  being written to the interface is the first offer.
- `DhcpServerProofs`: types, `LeasesUnique`, `QueueServed`, `ExclusiveAddress`,
  `BoundIsLeased`. The last two need `ClaimsInv`: an offer or acknowledgement in the
  queue, or a choice of a client, is a claim to an address, and a claim is backed by a
  lease.
- `StreamerProofs`: types, `SlotsBalance`, `RefsBalance`, `NothingIsLeft`, all from one
  invariant, as the counts do not balance without the slots and the reverse. It says what
  the request in progress relies on at each of its points (`CallInOrder`: the platform
  threads change neither the maps nor the counts), how a decoder is referenced until its
  destructor runs (`DecodersInUse`), and that a frontend is in its slot as long as it is
  counted (`SlotsCounted`).
- `TimeSyncProofs`: types, `Watched`, `AnswersTheLatest`, `PeriodicContinues`. `Watched`
  is inductive with the types. `AnswersTheLatest` needs `SocketInv`, that a socket is
  not closed while its thread is in a callback; `PeriodicContinues` needs `PlanInv`, that
  before anybody sets the time an active TIME subsystem means a registered plugin and a
  time that was received.
- `OcdmSessionsProofs`: types, `SessionsBalance`, `ObserversKnowKeys`, `ThreadIsStopped`.
  A count is the cardinality of a set of holders, so that each `AddRef` and `Release` moves
  one client in or out of it (`CountsBalance`); a session that is held lives
  (`HeldIsAlive`), and the buffers and the points of the clients agree with that
  (`BuffersBalance`, `PointsAgree`). `Informed` says what an observer knows of a session
  that is not yet in the list, which `Enlist` then puts there (`ListedSoon`), and of whom
  the CDM may still be reporting (`ReportsOfBuilt`).
- `MonitorProofs`: types, `SourceIsCurrent`, `RestartsLimited` (an action property), and
  `CrashIsReported`, that the process which crashed under a plugin that is active, or in
  `Configure`, has a report or a job to come, unless that job was dropped (`missed`),
  which no run checks by itself. The reference of Monitor is current although each worker
  tells the state the plugin has by then, because only one worker is between two states
  (`OneTransition`) and Monitor lets go first (`LetGoInTime`); what was granted is at most
  one above the count (`GrantsAreCounted`).

Only model-checked: the liveness properties (`ExchangeEnds`, `RequestsEnd`, `SyncEnds`,
`CrashIsHandled`, and the fairness that `ImplementsMailbox` promises), as fairness and
ENABLED are out of the prover's reach. The three runs that expect a violation show states
that are reached, which is not a matter of proof. Statements about a recursive computation
for every input would need induction over data, which the prover cannot instantiate; the
modules therefore contain no RECURSIVE operator.

## 6. What is not modelled, and why

- Contents: names, addresses as text, frequencies, options of datagrams, timestamps,
  positions and speeds. They are abstracted to what the control flow tells apart.
- The parsers (`CENCParser`, DSG and RTSP) and the packet formats: functions of their
  input.
- Of WifiControl the connection status (`StatusRequest`), the reading of configuration data
  (`GetKey`, `Configs`), the stored configuration file and the WifiHAL variant.
  `CTRL_EVENT_SCAN_RESULTS` does not reach the plugin, so that its event of scan results is
  not in the model either.
- Of NetworkControl `Deinitialize`, the static addresses, and more than one interface.
- Of Monitor the statistics of the memory and their reset: no decision depends on them.
- Of OpenCDMi the calls that only pass on to the CDM, the loading of the factories, and the
  end of the accessor while clients still hold sessions, which keep an uncounted reference
  to it: what the framework releases by then is not in this repository.
- Two requests of the Streamer plugin at once, its deactivation, and the main loop
  thread of Aamp; the destruction of the NTP client, whose job may be scheduled again by
  a worker that is past its lock.
- A second activation of the DHCP server while the first is active: the framework does
  not do it.
- Plugins that wrap a browser engine, a graphics library or a vendor library: their behaviour
  is not in this repository.
