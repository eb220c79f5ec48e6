# A TLA+ model of routeros-fletsv6-companion

The program runs beside a MikroTik RouterBoard on a Flet's line, where the provider gives a
single /64 by router advertisement. It listens for that advertisement, configures the
RouterBoard through its API (default route, addresses, a prefix pool), and answers neighbor
solicitations from outside on behalf of the hosts inside (ND proxy).

These modules model the program's own logic: its goroutines, what they share, what fails
around them. `PROJECT.json` maps each definition to the lines it stands for.

## The system

| Component | State | Operations | Used by |
|---|---|---|---|
| ROS connection pool (`ros.go` 35-161) | `cs`, a slice under `mutex`; the keepalive goroutine's locals | `Get`, `Put`, `makeConnection`, keepalive loop | `RunArgs` |
| `ROSClient.RunArgs` (`ros.go` 187-211) | none; a goroutine and an unbuffered channel per call | one API command, five seconds | all API operations |
| Reconciliation calls (`ros.go` 253-357, 405-459) | the tables of the RouterOS device | print, compare, set or add | `RAClient.reconcile` |
| `LookupNeighbor`, `GetInterfaceMAC` (`ros.go` 236-251, 359-403) | the neighbor table of the device | ping, neighbor print, another ping | ND goroutines in the proxy-ros modes |
| `RAClient` (`ra.go`) | `extSock`, `routerInfo` under `infomu` | `initSock`, `soilicit`, `receive`, `reconcile`, `Work` | started by `main`; `routerInfo` read by ND |
| Flexible addresses (`ra.go` 279-309, `util.go`, `config.go` 313-336) | none | `ParseFlexibleIP`, `ResolveFIP`, `maskedIPAssign` | reconcile, ND filter |
| ND worker (`nd.go` 208-296) | `extSocks`, `intSocks` (maps) | `initSockGroup`, receive loop, filter, `Work` | started by `main` |
| ND goroutines (`nd.go` 145-206, 298-362) | none of their own that outlives them; they share `intSocks` | `processNd`, `solicitInternal` | one per solicitation |
| Sockets (`sock.go`) | kernel buffer, pending error, `isValid` | `NewSocket`, `ApplyBPF`, `ReadOnce`, `ReadMultiSocksOnce`, `FlushAll`, `WriteOnce` | RA, ND |
| Filter programs (`sock.go` 258-327, `util.go` 26-62) | none | `bpfRA`, `bpfND`, `bpfICMPv6`, `bpfMulticast`, `bpfWithDot1Q` | sockets |
| Packets (`packet.go`) | none | `parseICMPv6`, `makeICMPv6` | RA, ND |
| VLAN devices (`link.go`) | kernel devices, `vlanmutex` | `Exists`, `PrepareVLAN`, `Index`, `findFirstInterface`, `collectInterfaces` | RA, ND |
| Configuration and `main` (`config.go`, `main.go`) | what was read so far | `loadRAConfig`, `loadNDConfig`, `loadROSConfig`, `NewROSClient` | once |
| Logger, cgo wrappers, manual helpers | none | | |

Interactions: `main` starts the RA and ND workers as goroutines; ND reads `routerInfo` through
`ResolveFIP`; both call `RunArgs`, and so meet at the pool; both prepare VLAN devices, and
meet at `vlanmutex` and in the kernel; ND goroutines meet at the internal sockets or in the
RouterBoard's neighbor table. Everything else is sequential within a worker.

Hard behaviours: the handshake of `RunArgs` and its timeout, with command goroutines left
behind; a pool shared with a keepalive that takes from the other end; commands whose effect
and whose reply are separate; restarts at any point, with only the device remembering;
goroutines that read and flush one another's answers; lookups that touch the table they read;
checks that read `routerInfo` again and again while it changes; sockets that fail, and a worker
that starts over with half of them; interfaces that vanish or change their name between two
netlink calls; settings of one worker that only make sense with the other one.

What makes each component correct:

- pool: one user per connection; a pooled connection is usable by whoever takes it; bounded
  size; dead connections go away; calls return;
- reconciliation: one entry per configured item; others' entries untouched; what is wanted is
  there or was warned about; eventually the device follows the router;
- RA worker: `routerInfo` follows the router through stale packets, errors and restarts;
- filters: the packets the readers behind them can parse, exactly the addresses the
  configuration selects;
- ND goroutine: advertise only what answered; notice every answer; end;
- neighbor lookup: direct neighbors only, if asked so; forget who left; answer for who is there;
- socket group: listen on each configured interface, again after failures, with its own MAC;
- VLAN devices: the workers do not get into each other's way, and a call that failed half way
  does not spoil the next one;
- configuration: what is accepted does not make a worker panic and refers to nothing missing.

## Modules

| Module | Models | How state and actions correspond |
|---|---|---|
| `ROSPool` | `NewROSConnectionPool`, `Get`, `Put`, `RunArgs` | `cs` is `pool.cs`; `pc` and `held` are where a goroutine is and its `conn` or `c`; `executing` the command goroutines inside `conn.RunArgs`; each critical section is an action |
| `ConnLease` | what a pool of exclusive connections promises | abstract; `ROSPool` implements it with `free <- Pooled`, `lease <- held` |
| `RouterOS` | what the three reconciliation calls decide from a table, and the device's set and add | operators |
| `RAClient` | `RAClient.Work` and all below it; EXTENDS `RouterOS` | `pc` the line; `sock` is `extSock` and its `isValid`, `iface`, `failed`, `rxq` the kernel's side of it; `item`, `cmd` the locals of `reconcile` and of the call it is in; `device`, `router` outside |
| `InfoSource` | what ND may count on of `routerInfo` | abstract; `RAClient` implements it, `NDFilter` takes it as its environment |
| `FlexIP` | `ResolveFIP`, `maskedIPAssign`, `Contains` | operators, an address being `Width` bits |
| `Filters` | the filter programs, the machine that runs them, what `parseICMPv6` takes | operators; a program is the sequence of its instructions, a frame its length and the fields they load |
| `NDFilter` | a frame's way through the filter, the parser and the checks of the ND receive loop; EXTENDS `FlexIP`, `Filters` | `at` where the frame is; each check reads `routerInfo`, `Advertised` changes it in between; `unfiltered` while packets from before `ApplyBPF` are in the buffer |
| `NDProxy` | `processNd` and `solicitInternal` in proxy mode | one slot per goroutine; `rxq`, `err` the shared sockets; `current` the socket that was just flushed, or that `epollOnce` returned; `expired` that `remain` is used up |
| `NDLookup` | `processNd` in the other modes, `LookupNeighbor`, `GetInterfaceMAC` | one slot per goroutine; `pinged` is `pingSuccess`; `echoes` the pings left behind; `table` the RouterBoard's |
| `SockGroup` | `initSockGroup`, the receive loop, `epollOnce` | `made`, `extSocks` the map; `attached`, `failed`, `packets` the kernel's side of the sockets; `intMade`, `intSocks` the map of internal sockets of proxy mode, of which only the keys matter here |
| `VLANLink` | `DecodedInterface`, `findFirstInterface`, `collectInterfaces`, `checkVlanDev`, `createVlanDev` | `holder` is `vlanmutex`; `pos`, `found` the loop of a scan; `seen` the parent index between two netlink calls; `alive`, `up`, `named`, `dev` the kernel's devices |
| `Startup` | the three load functions, `main`, the preflight check, the first use of the result | `pc` what is read next; `ra`, `nd` the configurations, `ros` the client |
| `MC...` | values of the constants for TLC | |
| `...Proofs` | theorems | |

The modules meet where the code does. `NDFilter`'s "served" is the `Solicited` of `NDProxy` and
`NDLookup`. `SockGroup`'s `Read` is where `NDFilter` begins. The API calls of `RAClient` and
`NDLookup` are calls of `ROSPool`, and they see of them what `RunArgs` shows: a reply, or an
error after which the command may have been executed. `RAClient` and `NDFilter` meet at
`routerInfo`, through `InfoSource`. `SockGroup` and `RAClient` take an interface for present
when `VLANLink`'s `Index` finds it. What `Startup` accepts is where all of them begin;
`SockGroup` assumes the one to one list of MAC addresses that `CrashesAreKnown` is about.

Abstractions. Commands, packets and addresses are model values or small records; what a table
row or a packet says is kept, its format is not. Opening a group of sockets is one step,
because a link that changes in between only decides which opens fail. In `RAClient` a write
that fails has taken effect at once or never does. Time is the order of events: a timeout may
come at any moment at which its timer runs. `VLANLink` has one interface name and one VLAN:
others neither share devices nor state with them, only the mutex. Each pending second ping of
`NDLookup` is kept once per target, as further ones change nothing more. Settings in `Startup`
are the kinds of values the code tells apart. An address of `RAClient`'s plan reads back from the
device as it was written, which is not so for one with `eui-64`; nobody edits an entry between
the print and the write of one call. The kernel takes an 802.1Q tag off before a filter or a
reader sees the frame, so a socket on `eth0` also gets what is tagged (`src/README.md` 184).

`heard` (`NDProxy`), `inForce` (`NDFilter`), `warned` and `raced` (`SockGroup`), `by` and
`refused` (in `VLANLink`'s `dev`) are history variables: no guard reads them. Definitions that precede one of
similar shape (`PutOnTimeout` before `Timeout`) are its mutated forms; the specifications do
not use them.

## Runs

Bounds are in the `.cfg` files. All runs check for deadlock but three: `Startup` ends, and in
`RAClientSafety` and `RAClientLive` a worker whose socket lost its interface may wait for ever
while nothing else goes on.

| Run | Shows | Bounds and why they are enough |
|---|---|---|
| `ROSPool` | `ExclusiveUse`, `PooledIdle`, `BoundedConns`, `SleepDefined`; `ROSPool` implements `ConnLease`; a call that has a connection returns, replies lost or not (`HeldCallReturns`); dead connections leave the pool when calls stop (`BrokenPurged`) | 2 callers and the keepalive, 3 connections: all of them at work or pooled, or one abandoned beside a shared one; more connections are covered by the proofs |
| `RAClientSafety` | `OneOwnEntry`, `AppliedOrWarned`, `ForeignUntouched`; `RAClient` implements `InfoSource` | one item of each kind, a prefix and none, 2 gateways (each item changes its value), a foreign route that may coincide with ours, 1 buffered packet; more are covered by the proofs |
| `RAClientLive` | `FollowsRouter`, `AppliedForGood` | a prefix and none, 2 gateways, 2 buffered packets: one stale before one current |
| `NDFilterSafety` | `VerdictRight`, `EachCheckMeant`, `NestedInPrefix`, `FiltersRight` | 3 bits, prefixes of 1 and 2 bits and none; all flexible addresses; an address in each part the networks cut out; frames that are whole and cut on both sides of the ICMPv6 type, of every type, tagged and not |
| `NDProxy` | `FreshEvidence`, `AnswerNotMissed`, `SolicitEnds` | 2 goroutines, 2 targets, 1 socket with 2 packets: an answer meets a flush, a foreign reader, a full buffer; more sockets are covered by the proofs of the first two |
| `NDLookup` | `StrictMeansDirect`, `GoneIsForgotten`, `PresentIsAnswered` | 2 goroutines, a neighbor and a host behind another router: the second lookup may touch the table between the ping and the print of the first |
| `SockGroup` | `DeafIsNoticed`, `ServesAgain`, `RestartHeals` | 2 external interfaces: one can fail while the other works; proxy mode with 1 internal interface, there or not |
| `Startup` | `CrashesAreKnown`, `NothingDangling` | all modes and kinds of items; up to 2 interfaces and MAC addresses, a timeout of 0, one in and one out of range |
| `VLANLink` | `CollidesWithOthersOnly`, `CreatedIsUp`, `CalmCallsSucceed` | both callers, a list with a malformed, a tagged and a plain name, two interfaces that take turns at the name |

The remaining runs each show a place where the code does not do what it, or its README, says:

| Run | What happens |
|---|---|
| `ROSPoolTimeout` | a command that is done before `RunArgs` selects has its reply dropped; the call times out (`ros.go` 197) |
| `RAClientApplied` | a call that failed once is not repeated until the router changes (`ra.go` 206) |
| `SockGroupCrash` | index -1 when every socket has an error (`nd.go` 239) |

Other departures are exceptions the properties above name rather than runs of their own:

- `FreshEvidence`: a flush cut off by a socket error lets an old advertisement count
  ("unflushed"); between its flush and its write a goroutine takes in the answer to another
  one's solicitation ("early", `nd.go` 318-320).
- `AnswerNotMissed`: another goroutine may take an answer, and a socket error or one of
  `epollOnce` makes the goroutine give up although its answer is in the buffer.
- `EachCheckMeant`: prefixes and excludes may be resolved under different router infos.
- `FollowsRouter`, `AppliedForGood` (`Stranded`): the interface was removed and nobody marks the
  socket invalid, because `WriteOnce` fails before any `epollOnce` (`ra.go` 103) or the error came
  between `epollOnce` and the read. The socket is kept for ever, also when an interface of that
  name is back. They also leave out a router that advertises no prefix, which the listen loop
  adopts (`InfoSource`).
- `ServesAgain`: the first try decides what is ever opened. An external interface it left out is
  never heard; in proxy mode, when it found no internal interface or opened no socket on one, the
  worker never serves at all (`nd.go` 217-222).
- `RestartHeals` begins where the worker starts over: an interface that flapped is not heard
  until something makes it.
- `HeldCallReturns` begins after dial and login, which are outside the timeout of `RunArgs`.
- `PresentIsAnswered` begins where calls succeed: an advertisement goes out without its Ethernet
  header when the MAC address cannot be fetched.
- `CrashesAreKnown`: `proxy-ros:strict` where nothing else needs the RouterOS client panics, and
  so does `NDP_TIMEOUT=0` in the mode `proxy`, at the first advertisement for another target. It
  supposes a MAC address per external interface, as `src/README.md` 174 asks; nothing checks that,
  and too few panic as well.
- `CreatedIsUp` (`refused`): a VLAN device whose `LinkSetUp` failed although its parent was up
  (`link.go` 132) stays down, and `checkVlanDev` takes it for ready, until the parent is down and up.
- `FiltersRight`: `bpfND` drops solicitations that are sent to a neighbor itself, as its comment
  says. The same comment in `bpfICMPv6` (`sock.go` 316) is a copy: that program checks neither the
  destination nor for a fixed type.

The hazards in `PROJECT.json` list each at its line, with those no property rules out.

Three more were met while `Startup` was translated and are in the model without a property:
`ROS_PORT` counts only when it is no number (`config.go` 79 has the condition the wrong way
round), the default of `ROS_USER` is never applied (84 asks for the host), and the range of
`NDP_TIMEOUT` is checked for `proxy-ros` only (266).

## Fairness

- `ROSPool!FairSpec`: every goroutine that can run runs, and timers fire. No reply and no
  dial is fair, so the device may be silent for ever; `BrokenPurged` says in its premise that
  the keepalive's own dials, as unlimited as a caller's, end.
- `RAClient!FairSpec`: the worker runs, its API calls return (`RunArgs` gives up after five
  seconds), the environment eventually stops failing, and the router keeps advertising. The
  action `Settle` is the moment from which nothing fails and an interface of the configured name
  is up; it is what "eventually" is about. An interface that was removed before stays so: another
  one that has its name does not help a socket that is bound to the first.
- `NDProxy!FairSpec`: goroutines run and their clocks advance; no answer has to come.
- `NDLookup!FairSpec`: goroutines run and API calls return, the ping left behind included; the
  RouterBoard's timers end its probes and age its entries. `Settle`, from which hosts stay
  and calls succeed, need not come.
- `SockGroup!FairSpec`: the worker runs; `epoll_wait` need not be interrupted, but fails when
  there is no socket to wait for.
- `VLANLink!FairSpec`: goroutines run and netlink answers. `Lock` is strongly fair: a
  `sync.Mutex` is handed over to a goroutine that waited for a millisecond, so that the other
  worker cannot take it for ever. `Settle` need not come; it is the moment from which the
  interface keeps its name and is up, nobody else touches the device, netlink refuses nothing it
  can do, and no device lies, or is about to be added, over an interface that has lost the name.
  Without that last part the name would stay taken: `checkVlanDev` then refuses the device for good.

The Go scheduler is preemptive and each of these steps blocks on nothing else, which justifies
weak fairness everywhere but at the mutex.

## Proofs

TLAPS proves, for every value of the constants allowed by the `ASSUME`s (a finite set of
callers, any plan, any number of targets and interfaces, any buffer size, any width of
addresses, any frames that are whole Ethernet headers), every invariant of the passing runs, all
of their action and refinement properties, and the part of their liveness properties that does
not depend on fairness.

- `ROSPoolProofs`: `TypeCorrect`, `SleepIsDefined`, `Exclusive`, `PooledIsIdle`, `Bounded`,
  `ImplementsLease`. The inductive invariant relates the three places a connection can be: the
  pool, `held`, `executing`. A connection in the pool is in neither of the others; nobody holds
  what another one holds; a command goroutine is on the connection of the goroutine that
  started it or on one that is closed and abandoned. `ExclusiveUse` and `PooledIdle` are not
  inductive without that last part, which is why a timeout may forget a connection safely.
  `ImplementsLease` shows for each action which abstract step it is. For `Bounded` a step
  changes the pool and the busy goroutines in one of four ways: a connection goes from one to
  the other, a goroutine starts to dial while the pool is empty, one stops being busy, or
  neither changes; the library's facts on cardinality do the rest.
- `RAClientProofs`: `TypeCorrect`, `OwnsOneEntry`, `AppliesOrWarns`, `SparesForeign`,
  `ImplementsSource`. Lemmas `Decided`, `WantedHolds` and `Executed` say what one reconciliation
  call does to a table with at most one entry of its own; `Idempotent` says that a second one
  does nothing. The invariant adds that between print and write the command still fits the table
  (so that a write never lands on somebody else's entry), and that the items before the current
  one are as wanted or are warned about. `ImplementsSource` needs that the listen loop is
  reached with a `routerInfo`.
- `NDFilterProofs`: `TypeCorrect`, `RightVerdict`, `MeantChecks`, `LiteralVerdict`, `Nested`,
  `FilterPrograms`, `TagsAnyProgram`. The invariant `Meant` says of each prefix and
  exclude the loops are past under which router info it was looked at: one of those in force since
  the solicitation was read. `RightVerdict` is the case of a single one, `LiteralVerdict` that of
  a configuration to which it makes no difference. `Nested` is about the operators only. The
  filter programs are proved for every frame: `RunExists` shows, by induction from the end of a
  program (jumps go forward), that the recursive function `Run` is what its definition says;
  `RunFollows` then steps through the programs. `Embedded` compares two runs, that of a program
  inside a longer one on the tagged frame and that of the program alone on the frame without its
  tag, which gives `bpfWithDot1Q` for any program whose loads do not cross the end of the
  addresses. That is a fact about the function alone: it takes instructions while the programs
  of `sock.go` come assembled, nothing calls it, and on the sockets there is no tag left to see.
- `NDProxyProofs`: `TypeCorrect`, `AcceptsFreshAnswers`, `NotMissed`. The invariant is about
  buffers: once a goroutine flushed a socket, an advertisement for its target in that buffer
  has come in since, or the flush was cut off (`FreshBuffers`). `NotMissed` goes through the
  steps that take something out of a buffer and those that end a goroutine.
- `NDLookupProofs`: `TypeCorrect`, `StrictSafe`. A target behind another router never is in the
  table, so that in the strict mode no goroutine gets past the lookup with it (`Direct`).
- `SockGroupProofs`: `TypeCorrect`, `DeafNoticed`, `InterfacesFixed`, `MACsMixOnlyWhenReplaced`.
  Between `epollOnce` and the read a socket with an error is known to be invalid or has got its
  error just then (`Warned`). That an index lies within the configured list, whatever order the
  map is enumerated in, rests on there being no more names than entries. `InterfacesFixed` and
  `MACsMixOnlyWhenReplaced` say what the first try of the worker settles for good, the internal
  interfaces included, and what the order of the map may change later.
- `VLANLinkProofs`: `TypeCorrect`, `NoCollision`, `LeftUp` (up, or `refused`). `TypeOK` says that exactly the
  holder of the mutex is inside `PrepareVLAN`; `Alone` and `Prepared` say what it can count on
  between check and add, and between add and set up.
- `StartupProofs`: `TypeCorrect`, `CrashesKnown`, `DependenciesHold`. What a crash depends on
  is decided several variables earlier: `NeedKnown`, `ClientKnown` and `Provided` carry it.

### What liveness rests on

A liveness property follows from facts about steps and from fairness. The facts about steps are
proved for every value of the constants: that what has to move is not stuck, that what has been
reached is not lost again, and that a rank goes down with each step of the one who makes
progress and with no step of anybody else goes up.

| Property | Theorems | What is left to TLC |
|---|---|---|
| `SolicitEnds` | `NeverStuck`, `EndsInTime` | that a goroutine that can go on does |
| `PresentIsAnswered` | `StaysOnTrack` | that the API calls return |
| `GoneIsForgotten` | `GoneOnlyAges`, `ForgottenForGood` | that timers of the RouterBoard run out |
| `RestartHeals` | `HealsOrWarns` | that the worker runs |
| `ServesAgain` | `InterfacesFixed`, which is what its exceptions rest on | the way back to the loop |
| `CalmCallsSucceed` | `CalmCallsBegin`, `CallsEnd`, `CalmCallsSucceedOnly` | that goroutines run and the mutex is handed over |
| `FollowsRouter` | `StaleDrainsAway`, `FollowsForGood`, and `StrandedOrNot` for its exception | that the worker reads and the router advertises |
| `AppliedForGood` | `ListensConfigured`, `RestsForGood` | that the worker comes to its loop |
| `BrokenPurged` | `OnlyPutsPostpone`, `DeadNotKept` | that the keepalive runs and its sleeps end |

The ranks (`Left` in `NDProxyProofs` and `VLANLinkProofs`, `Stage` and `Level` in
`NDLookupProofs`, the place in the pool in `Waits`) are bounds on the number of steps that are
left. For `CalmCallsSucceed` the invariant `GoodCall` says what a call that begins while it is
calm knows: which interfaces it has found, and that what it has seen in `PrepareVLAN` is still
so.

### Assumptions

Each `ASSUME` is named and stands in the module that declares the constants. They say that the
nil values are no values, that sets a cardinality is taken of are finite, that lists name each
interface once, and, for `NDFilter`, that `SomeFrames` are frames: the Ethernet header is there,
with its tag if there is one.

### What is not proved

Liveness under fairness, and with it `HeldCallReturns` (each step of which is one a timer or the
scheduler takes on its own), and ENABLED are out of the prover's reach and stay with TLC, as does
what the three runs show that expect a violation. Induction is done where it is needed by way of
the least counterexample (`Least`, `Induction` in `NDFilterProofs`), as the library's induction
theorems cannot be applied.

## Not modelled

- `NDP_TIMEOUT=0` in `NDProxy`, which has a time limit: the panic it leads to is in `Startup`.
- The map of internal sockets being rewritten under running goroutines, and descriptor leaks.
- Commands of a timed-out call that the device executes later.
- `bpf.Assemble`, which encodes a program one instruction at a time.
- What is inside a packet beyond its fields named above: gopacket serializes and parses it. An
  advertisement is complete or lacks its header, a router advertisement is a prefix and a
  gateway; options that are cut short are not looked at.
- Strings of the configuration, beyond the kinds of values they stand for; `loadConfig` and the
  three functions it calls, `deleteVlanDev`, `ClearBuf` and `misctest.go`, which nothing calls.
- The cgo wrappers (one system call each), the logger.

## Plan

Done: every component that keeps state or decides something; two abstract specifications with
their refinements; proofs about all modules with a behaviour of their own, down to the fairness
step of the liveness properties.

Left, in this order:

1. Internal sockets that are replaced while goroutines use them: `SockGroup`'s map and
   `NDProxy`'s goroutines in one specification, Go's map accesses as steps.
2. Delayed execution: commands of abandoned connections that reach the device after the next
   print, for `OneOwnEntry`.
3. An abstract lookup (a target that is there is advertised, one that left is not) implemented
   by both `NDProxy` and `NDLookup`.
