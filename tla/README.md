# TLA+ models of LegacyClonk

LegacyClonk is a multiplayer game.  Every computer runs the whole simulation;
the only thing the computers exchange while they play is *control*, the input
of the players, and the game works only as long as everybody executes the same
control in the same tick.  The code that sees to this is what these modules
model: the lock-step control engine, the status protocol that pauses, starts
and synchronizes the game and copes with lost clients, the return of a client that
lost the host, the connections between computers with their handshakes and post
mortems, the emulated connections over UDP below, the exchange of resources (scenarios, player files) beside it, and
the event queue and scheduler that join the two threads of a computer.  Of the
game world, which the control drives, the effects of objects are modelled: a
list whose callbacks change the list.

- [The system](#the-system)
- [Modules](#modules)
- [Runs](#runs)
- [Fairness](#fairness)
- [Proofs](#proofs)
- [Findings](#findings)
- [What is not modelled](#what-is-not-modelled)
- [Plan](#plan)

## The system

Paths are relative to `src/src/`.

| Part | Source | State | Operations | Talks to |
|---|---|---|---|---|
| Lock-step control engine | `C4GameControlNetwork`, `C4GameControl` | stack of control packets, tick sent / ready / executed, target tick, running | make and send own input, receive control, pack the complete control of a tick, request what is missing, execute a tick | status protocol (starts and stops it), resources (a joining player needs a file), connections |
| Network status | `C4Network2`, sync control of `C4GameControlNetwork`, `C4ControlClientUpdate/Remove` | status, target, reached / acknowledged, clients not yet reached, queue of sync control | pause, start, `Sync`, status and acknowledgement, activation, removal after a disconnection | control engine, client list |
| Resources | `C4Network2Res` | chunks present, what others have, loads under way, removed | discover, status, request, chunk, timeouts, give up, forget | connections; asked for by `PreExecute` |
| UDP connections | `C4NetIOUDP` in `C4NetIO` | numbers of fragments sent, received, acknowledged, packets kept | open, send, check, acknowledge, close, timeouts | sockets below, `C4Network2IO` above |
| Connection handling | `C4Network2IO`, `C4Network2Client`, `OnConn`, `OnDisconn`, `HandleConn`, `HandleConnRe` of `C4Network2` | connections by client with their status, packet numbers, packet log, the connections for messages and data | handshake, choice of a connection, pings that acknowledge, timeouts, post mortem of a broken connection | UDP / TCP, the three parts above; events to the main thread |
| Event queue, scheduler | `C4InteractiveThread`, `StdScheduler`, the pipe of `StdAppUnix` | list of events, two locks, pipe, set of processes, thread running or not | push, wake up, process, add and remove a process (stops and starts the thread) | everything that runs on the network thread |
| Rollback | `C4Rollback` | ring of snapshots | take, go back | control engine |
| Reconnect | `C4Reconnect`, `TryReconnectToHost`, `SendReconnIfConnected`, `HandleReconnectJoinData` of `C4Network2` | token, dormant clients, deadlines on both sides, request sent or not | become dormant, call again, ask, come back, catch up, expire, give up | status protocol, client list, UDP (Close is repeated) |
| Effects | `C4Effect` | list of effects by priority, active, stopped temporarily or dead | add (others may deny it or take it in), remove, stop and start those above, timers, clear | scripts call these functions and are called by them |
| Voting | `C4Network2` | votes, "paused for a vote" | vote, end | status protocol |
| Players and player infos | `C4PlayerInfo*`, `C4Network2Players` | infos by client, attributes | join, resolve conflicts | control |
| Records and replays | `C4Record`, `C4Replay` | list of chunks | record, play back | control engine |
| Lobby, league, references | `C4GameLobby`, `C4League`, ... | countdown, HTTP queries | | status protocol |
| Game world, script, landscape, files, user interface | the rest | | | executed *by* control |

**What makes it hard.**  Each computer has a main thread and a network thread;
both call `CheckCompleteCtrl`.  Packets arrive from several computers in any
relative order, early, late, or twice (a request is answered by several).
The host gives up on slow clients in async mode while their input is arriving.
Clients come and go, which changes *whose* input a tick needs, so activation
has to be executed by everybody in the same tick.  Connections break, clients
crash with their last packets delivered to some only, timeouts race with late
answers.  What goes from one thread to the other goes through a queue that two
threads change under two different locks.  And scripts change the very list of
effects the engine is walking.  `PROJECT.json` lists these hazards at the lines where they bite, with
the properties that cover them or the reason why none does yet.

**What makes each part correct.**

- Control engine: nobody executes different control for the same tick; what is
  executed is what was put in; no tick is skipped; what somebody still lacks
  is still kept by somebody; the game goes on.
- Status: control that must be synchronous is executed by all in one tick and
  is never too late; "frozen" means that all stand in the same tick; every
  synchronization ends, whoever crashes; starting, stopping and activating changes
  for all alike what a tick consists of (violated, see [Findings](#findings)).
- Connection handling: what was sent on a connection that broke is still kept until
  it came to the other side, and handled there at most once and in order (a post
  mortem may come in vain, see [Findings](#findings)); both sides agree on whether a
  connection is used.
- Reconnect: of a client that was taken back nothing is left that removes it later
  (its entry never is, a removal may be, see [Findings](#findings)), and it runs with
  the others again; a reconnection ends, in the game or out of it.
- Event queue: events are processed once, in order, with their contents, and
  nobody sleeps while there are some; a removed process is not executed any more.
- Effects: each effect is started and stopped in turn, with those above it out
  of the way; afterwards the list is sorted and everything is active again.
- UDP connections: packets once, in order and in the end, and the connection
  is not closed because one side threw away what the other still needs.
- Resources: what counts as complete is the right file; nobody is asked for
  what he lacks; nobody waits for ever or gives up while the file is there.

## Modules

    ControlLog  <---- refines ----  GameControlNetwork      NetStatus
                                      ^        ^            (the engine reduced to
        GameControlNetwork_proofs ----+        |             who waits for whom, with
                                            MCControl        changing clients)
                                                                 ^
                                                             MCNetStatus

    ResChunkData <- NetRes <- MCNetRes    NetIOUDP <- MCNetIOUDP       Effects
                      ^                      ^                            ^
                NetRes_proofs          NetIOUDP_proofs           Effects_proofs
                      |                      |                            |
                      +-----------> BoundedRecursion <--------------------+

    NetConnection_proofs -> NetConnection <- MCNetConnection

    Reconnect_proofs -> Reconnect

    EventQueue  <---- refines ----  InteractiveThread <- MCInteractiveThread
                                          ^
                               InteractiveThread_proofs

### GameControlNetwork — the lock-step engine

One variable per field of `C4GameControlNetwork` and `C4GameControl`, indexed
by client: `ControlTick`, `frame` (`FrameCounter % ControlRate`),
`iControlSent`, `iControlReady`, `pCtrlStack`, `fRunning`, `iTargetTick`; the
loaded player files `resLoaded`; messages on their way, `net` and `req`; and two
history variables, `executed` and `given`.

| Action | Code |
|---|---|
| `DoInput` | `C4GameControlNetwork::DoInput` when `CtrlNeeded` |
| `Prepare` | `C4GameControl::Prepare` at a control tick (`CtrlReady` → `CheckCompleteCtrl`) |
| `ExecFrame` | `C4GameControl::Execute` and `Ticks` |
| `HandleControl`, `HandleControlReq` | the packet handlers on the network thread |
| `SetRunning` | what the status protocol may do to the engine, any setting in `Settings` |
| `OnResComplete` | a player file was loaded |
| `Lose` | a connection breaks with a message on it |

Every action but `ExecFrame` and the answer to a request ends in
`CheckCompleteCtrl`, as in the code: the loop that finds or packs complete
control tick by tick, broadcasts it (central and async mode), clears the
backlog and requests what is missing.  A packet carries a partial function
from clients to input instead of a concatenation: the code appends inputs in
the order of the sorted client list, so the domain determines the order.
`Setups` are the games a run looks at, one of which (`setup`) is played: the settings
and inputs that occur, whether old requests are still on their way and whether
messages get lost.
`net` and `req` are sets from which nothing is taken by being received: a
message may arrive late, in any order and more than once, which includes the
repeated answers the code really produces.

The three modes differ in `CanPack`, in the destination of own control and of
requests, and in the timeout.  Central mode is async mode without the timeout,
apart from the request that goes to the host only.

Left out: performance statistics and the adaption of PreSend (it takes any
value up to `PreSend`; the constant is the largest), synchronous control (in
NetStatus), the rollback branch of `HandleControl`.

### ControlLog — what the engine promises

One log of control with at most one entry per tick, never changed once
decided; each client executes its entries one after the other from tick 0.
The mapping is in GameControlNetwork (`Log`): the log is all complete control
known anywhere, `done` is `executed` with the packet's sender dropped.

### NetStatus — pause, go, synchronous control, activation

`node[n]` is what a computer knows: its status (`state`, `goal`, `reached`,
`ack`, and `unready` at the host), its engine (`tick`, `sent`, `ready`, `stack`,
`pClients`, `running`, `target`), the queue of synchronous control and what it
has executed.  Handlers are operators on this record, since they call each
other (`HandleStatus` → `CheckStatusReached` → `CheckStatusAck` → `OnStatusAck`
→ `ExecSyncControl` → `SetRunning` → `CheckCompleteCtrl`); an action is one
message, one round of the main loop, or something a user or a client does.
Messages of one computer to another stay in order.  `checking` shows the network
thread between two steps of the main thread.  `Games` are the games a run looks at, one
of which (`game`) is played: who is activated at first, the reconnect feature, whether the
network thread is seen there (`netThread`), and how many pauses, changes and crashes there
are.

`Crash` takes a computer away, with some of what it sent delivered to some only.
`OnClientDisconnect` is what the host does about it: without the reconnect
feature the client is removed by control (`CtrlRemove`), the acknowledgements
are checked again and a status only the lost one had not reached is set again;
with the feature (`game.reconnect`, on by default) the client becomes `dormant`
(`EnterDormancy`), stays activated and is waited for, and `TickDormancy` removes
it when its time is up.  How it comes back is in Reconnect.

### NetIOUDP — connections over UDP

Two computers, one `Peer` each.  `net` is the datagrams on their way; they can
be lost or repeated within `MaxFaults`, and overtake each other if `Reorder`.
`OnRecv` has one operator per packet type (`RecvConn`, `RecvConnOK`, `RecvData`,
`RecvCheck`), and `GiveFirst` is one round of the loop that gives complete packets to the
user (`CheckCompleteIPackets`); `OnTimeout`, `DoCheck`, `Connect`, `UserClose` and `Send` are the
other entry points.  `got` and `reason` are history: what the user was given
on the present connection and why it ended.

### NetConnection — connections of two computers

`node[i]` is a computer: for each connection the status, the socket and what is
under way on it (`wire`), the numbers of packets sent and received, the packet
log; the connections in the list of `C4Network2IO`, the two the client list uses
(`msg`, `data`), and the events between its threads.  The network thread handles
packets (`Receive` → `OnPacket` → `HandlePacket`), new and broken connections,
timeouts; the main thread takes its events (`ProcessEvent` → `OnThreadEvent`),
answers Conn and ConnRe and sends post mortems.  A connection below delivers in
order until one side closes or loses it; the other notices later.
The packets of a post mortem are handled one by one (`GoOn`, from `todo`), as no lock
keeps the main thread away meanwhile; the second half of `ClearPacketLog` (`CutLog`) is
a step of `GoOn`, too.  The network thread does nothing else before it is done (`Idle`).
`sent`, `handled` and `dropped` are history: what was sent on each connection, and what
became of it at the other side.
Below `HandlePacket` the handlers are named for the packets (`HandleConnNet`,
`HandleConnReNet`, `HandlePostMortem` on the network thread, `HandleConn`,
`HandleConnRe` on the main thread).

### Reconnect — a client that comes back

The round is running, the host knows one client, and each side has its view of
their connections (`net.at`, `node`), which deliver in order until they break.
`host` is what the host keeps of the client, its dormant entries and its chase
target timer; `client` has `fReconnectInProgress` (`armed`), `fReconnectSent`
(`sent`), whether its time is over (`late`), and what is left of the status
protocol: `reached`, `runs`, `target`.

| Action | Code |
|---|---|
| `OnDisconn`, `DialFails` → `Disconnected` | `OnDisconn` / `OnConnectFail`, then `OnClientDisconnect`: `EnterDormancy` at the host, `TryReconnectToHost` or `Clear` at the client |
| `Dial`, `HandleConnRe` | `DoConnectAttempt` on either side, and the acceptance of the connection |
| `SendReconnIfConnected`, `HandleReconn` | the request, and `PID_Reconn` at the host: refused, or `Reassociate` (the new connection is kept, the others are closed), `Back`, and the snapshot or the removal |
| `HandleReconnectJoinData`, `HandleStatus`, `CheckStatusReached`, `HostStatusAck`, `ClientStatusAck`, `UpdateChaseTarget` | the state of the game and the chase that follows |
| `TickDormancy`, `ClientRemove`, `HandleRemove` | the end of the grace time, the removal, and the same control at the client |
| `Break`, `TimePasses` | the network; the client's deadline |

Both sides may call each other at the same time, so there can be two connections,
and the two sides may use different ones.  History variables say with which
connection the client was taken back (`backLink`), whether that is the only one
of both sides (`only`), and on which the state of the game came (`restored`).
Chase targets are told apart and no more.  When an entry of the host is left
after its client was deleted (`Undefined`), the code would follow a pointer to
nothing, and the model stops.

Left out: post mortems (on a last connection they have no way to go, and a side
that is closed drops their packets, see `conn_lost`), tokens that do not match,
the snapshot of the rollback ring, a snapshot that cannot be loaded (the game
ends), kicking, and the control itself.

### InteractiveThread, EventQueue — threads, events, processes

The queue of events is modelled store by store: `PushEvent` takes the lock,
`Store` makes its stores visible one at a time (in program order, if `InOrder`),
`PushUnlock` releases it, `SignalNetworkEvent` writes to the pipe; `PopEvent`
and `ProcessEvents` work on the same nodes under the other lock.  `AddProc` and
`RemoveProc` stop the network thread (`StopThread`, `UnBlock`, `Join`), change
the set (`Change`) and start it again (`Start`), since `StdSchedulerThread` does
so; `NetLoop`, `Poll`, `Choose` and `Executed` are the thread.  EventQueue is the promise: a
sequence to which is appended and from whose front is taken.

### Effects — priority lists and their callbacks

`list`, `prio` (0: dead or not yet valid, negative: stopped temporarily) and `on`,
whether the effect has been told to start.  The functions of `C4Effect` call
scripts in the middle of their loops, and scripts call them again; `todo` is
what all the functions in progress still have to do, the innermost first.
`Step` does the next piece, one operator for each; a script that is called
stays at the front of `todo` until `Return`, and in the meantime `AddEffect`,
`RemoveEffect` and `RemoveSilently` may put more in front of it.  `Meddling`
names the callbacks in which they do.

### ResChunkData, NetRes — resources

ResChunkData is the list of chunk ranges as the code keeps it: the ranges in
order, and beside them the two counts `iPresentChunkCnt` and `iChunkRangeCnt`
that are changed incrementally when ranges are added and merged.  Every
loop over it is a recursive function.  NetRes models one resource on
several computers: discovering it, telling others what is there, the loads and
their timeouts (`OnTimer`), chunks that arrive (`OnChunk`), giving up and
forgetting (`OnShareFree`), what is `Learned` from a status, removal of the client that brought it, and
connections that break.  Which client is asked first and which chunk is taken
are random in the code and nondeterministic here.  Messages and chunks use
different connections and are not ordered against each other.

## Runs

| Run | Configuration | Question |
|---|---|---|
| `decentral` | 2 clients, 2 inputs, PreSend 0, backlog 1, ticks 0–1, with old requests or stopped at any time; or any number of lost messages, target tick 1 | Does everybody execute the same, faithful control, for every order and repetition of messages? How far do clients drift apart, and is what they lack still kept? Also the inductive invariant `IInv` of the proofs. With losses: do clients that were told to run to a tick get there? |
| `async` | host packs, ControlRate 2, timeouts, an input that needs a file, ticks 0–1 | Is there still one log (`ImplementsLog`) with late clients left out, and does the game go on (`Progress`)? |
| `status` | 3 computers: one not activated, one pause and one change at any time; or two crash, one with reconnection, also with a pause, and the network thread visible; ticks 0–1 | Is synchronous control in time and the same for all? Do synchronizations end, and are the lost clients removed, also when a lost client was the one that had not reached the tick of the pause? |
| `conn` | 2 computers with a UDP and a TCP connection and a third being tried; two breaks, two messages or pings | Does everything that was sent come to the other side, or is it in a log for a post mortem still to be made? Is it handled at most once and in order? Do handshakes end with both sides agreeing? |
| `events` | network and main thread, 2 events, 2 processes, 3 calls of AddProc or RemoveProc | Is it a queue (`ImplementsQueue`), is everything processed, do calls return? Also the inductive invariant of the proofs |
| `effects` | 3 effects of priorities 1–3, 3 removals, 2 executions | Do starts and stops match, and is the list restored, whatever the callbacks do? |
| `udp` | one connection, packets of 1–2 fragments, two losses or one repetition | Once, in order, in the end? |
| `res` | 2 loaders and a source, 2 chunks, one break, removal, or answer that is taken for lost and comes | Right counts, right file, answerable requests, nobody stuck or giving up? |
| `reconnect` | 3 connections, two of which break at any time; one further attempt on each side | Does a reconnection end, is no entry left of a client that was taken back, and does it run with the others again? |
| `conn_lost`, `reconnect_removed`, `sync_race` | as small as shows the violation | see [Findings](#findings) |

**Why the bounds are enough.**  The interesting steps of the engine concern
one tick and its successor: a packet that is early, late or repeated for this
tick, a tick that is packed while the one before is not executed.  Two ticks
contain both, and with `PreSend` 0 the backlog of 1 runs over while a client
lags by one tick; these are the smallest values with the relation the code
demands (`C4MaxPreSend` 15 < `C4ControlBacklog` 100).  Control rate 2 is the smallest at which a frame is not a tick.  The safety
properties of the engine are proved for all values below, so these runs check
the invariant and the model, not the theorem.  The game with losses has one input:
which one is lost does not matter to `ReachTarget`.

NetStatus: one pause and one change are enough to have a status on its way
while control is queued; three computers are needed for control that one has
and another lacks.  With control of two ticks on its way there is a pause or an activation
(with both, and a deactivation, `TypeOK`, `NeverTooLate` and `SameSyncs` hold in all of
1102236 states, which leaves no time for liveness).  A crash comes with a pause where only the host
is activated, so that the lost client may be the one that has not reached the
pause.  The bounds also *stop short* of known
violations.  With two changes, an old acknowledgement counts for a new status.  With two
changes, or a change and a crash, a client executes synchronous control before older control that is
still queued for the same tick (`C4GameControlNetwork.cpp:288`), and `SameSyncs` fails.  It also fails with three activated clients, one pause and one change,
or two, one pause and one crash with reconnection: the host overshoots the target tick of its own pause when it has the control
of this tick (`C4Network2.cpp:2325`) and takes acknowledgements of clients that
stopped there, so that `isFrozen` holds with clients in different ticks, and what
is put in then is executed in different ticks.
The control itself (`SameControl`) is not the same for all when the network thread looks at it while
the main thread starts the control (`sync_race`), nor with two changes.  `LostRemoved` is
about the host: a client may lack control of the tick the host has executed
while it synchronized, and waits for ever.  When two dormant clients are given
up one after the other, nobody sets a status again that they did not reach;
`GivenUp` names this exception in `LostRemoved` and `StatusAcknowledged`, and one client is lost
in the games with reconnection.
Each is a hazard in `PROJECT.json` with the constants that show it.  A change in
the code that fixes one should be followed by raising these bounds.

NetConnection: two breaks are a break and the loss of its post mortem.  Each
connection is tried once: numbers start again with a new one.  `SameAddress` is
the case that connections are accepted automatically, `AtomicClear` leaves out
the race of `ClearPacketLog` with `Send`; both are hazards.

Reconnect: a second break comes during the reconnection, or after it, when it
starts a second one; the third connection is that of the second attempt or of
the other side.  With one attempt of each side (4 per address in the code) it may
be used up; `HostAttempts` 1 with `ClientAttempts` 2 (392000 states) passes as
well.  `Heals` and `BackRunsAgain` name what is excepted; each exception is a
violation (`reconnect_removed`: a removal that was on its way takes place) or a hazard in `PROJECT.json`: a request that was refused or lost with its connection is
never sent again, a client without attempts never looks at its deadline, and
with a second connection a chase target may overtake the state of the game,
after which the client stands still for ever.

InteractiveThread: two events are a node that is filled while another is
popped; three calls are adding, adding another and removing one, each with a
stop and a start of the thread.  The pipe takes all events; a pipe that is full
blocks for ever (a hazard).

Effects: three effects are one in the middle of two, with 1 as the priority
that is out of the order; four effects pass as well, with one removal.  `Meddling`
has all callbacks of a start, a stop, a timer and a taken-in effect but the
temporary stop, the question about a new effect and the start before a removal;
`Stubborn` = FALSE means that an effect refuses to stop only when it was active
and added nothing.  Each of these four exceptions violates a property (TLC finds
`Balanced`, `Layered`, `Balanced` and `Restored` violated, in this order) and is in the notes
of the hazards.  They are also the only assumptions of the proofs: nothing
else a callback does to the list matters.  TLC checked the inductive invariant
of Effects_proofs on this instance (1193338 states).

NetIOUDP: `ConnectRetries` is 1 (5 in the code), `MaxAsk` 1 (10), `MaxBacklog`
5 (10000).  The first two are used up within the run.  The backlog never is full with
three fragments: a full one is where `NoStarvation` fails (with `MaxBacklog` 1 or 2, see
[Proofs](#proofs)).  Three fragments are a packet of
two and one of one in either order.  `MaxFlight` 2 bounds what timers and users
add to datagrams on their way (3 passes as well, with 111460 states).  The run
has datagrams in order and one connection at a time; what happens otherwise is
listed as hazards.  `MaxFaults` 2 means two losses or one repetition.

NetRes: `MaxLoadPerPeer` 1 (3) and `MaxLoad` 3 (20) are reached with two chunks.
`MaxFaults` 1 is one break, the removal of the client, or one load that times out although its request or
its answer is under way, so that its chunk comes twice and is merged with a range it is already part of; two
such timeouts without a break pass as well (574979 states).  Otherwise a load times out only when it was lost.
One discovery
per computer by the timer suffices, as a discovery is answered unless the
connection breaks, and then `OnClientConnect` discovers again.

`CHECK_DEADLOCK FALSE` stands where a system may stop: the bounded NetStatus
when its users have nothing left to do and its last tick was reached, a UDP
connection that is closed, a resource everybody has, connections and threads
with nothing to do, a client that is back or out, effects when the bounds are used up.  The engine never stops:
`Prepare` is repeated for ever.

Each passing property was also tried against a plausible bug in a definition
(operators such as `CanPack_Partial`, placed before the definition they change
and marked as mutants); `PROJECT.json` names the pairs.  A property that no
such bug can violate is not kept.

## Fairness

- Engine: the main loop of a client calls `Prepare`, `DoInput` and `ExecFrame`
  again and again: weak fairness.  A message that is sent again and again
  arrives in the end, although each single one may be lost: strong fairness
  of receiving (per receiver) and of answering a request (per pair).  A file
  is loaded in the end: weak fairness, justified by `NobodyStuck` of NetRes.
  Nothing is assumed of users: an input is always due by time, and *which* one
  is free.  Nothing is assumed of `SetRunning`, since it is the status protocol.
- NetStatus: weak fairness of `Progress`, the disjunction of the main loop's
  rounds that change something and of the reception of messages.  Users,
  pauses, changes and crashes have no fairness.  The time of a dormant client
  runs out in the end (`C4Reconnect::Tick`).
- NetConnection: weak fairness of the main thread's next event and of what the
  network thread does next (going on with a post mortem, a packet, a notice of a break),
  on each computer.  Nothing
  is assumed of users, pings and timeouts.
- Reconnect: weak fairness of four groups: the main loops with their attempts,
  notices of broken connections (a dormant client is sent Close again and again,
  `RetransmitCloses`), the request and the end of the times; the host's packets;
  chase targets and the client's packets; the client's way to its target while it is
  connected, since the others send it the control it lacks (`ReachTarget`).  Nothing is
  assumed of breaks.  What a group can do in a row is bounded, so none of its
  members waits for ever.
- InteractiveThread: weak fairness of every step of a thread that is in a
  function: it goes on unless it waits for a lock, the pipe or the other thread.
  Nothing is assumed of those who push and of input.
- Effects: no fairness and no temporal property; what is left to do is finite
  unless scripts go on for ever.
- NetIOUDP: weak fairness of receiving, strong fairness of the timers, since a
  deadline that has passed stays passed, but the bound `MaxFlight` disables a
  timer now and then.  Losses are bounded instead of fair.
- NetRes: no temporal property.  `NobodyStuck` is an invariant: as long as
  somebody lacks the resource, there is something to do.  Since discoveries,
  breaks and early timeouts are bounded and each load ends, there is no
  infinite run without progress, so this implies that all get it.  It was
  cross-checked once as a temporal property on a smaller instance.

Fairness formulas of NetStatus and NetIOUDP state their enabling conditions
explicitly (`Busy` and the `May...` operators), which is much faster in TLC.

## Proofs

Those of the engine hold for every set of clients, mode, input,
control rate, PreSend, backlog and bound on ticks, with or without losses, and
for every way the status protocol may start and stop the clients.
Assumptions: `ClientAssumption`, `ModeAssumption`, `TickAssumption` in
GameControlNetwork (types of the constants; the host is a client, `All` is not)
and, where named, `RunAhead < Backlog`.

Those of the event queue hold for every set of threads, events and processes and
every bound, and assume `InOrder`: that the main thread sees the stores of others
in program order, as x86 guarantees.

Those of Reconnect hold for every number of connections, breaks and attempts
(`BoundsAssumption`: types, and there is a first connection).

Those of NetRes and ResChunkData hold for every finite set of computers, every number of chunks,
all limits of loads and every number of breaks, discoveries and early timeouts (`ChunkCount`: there
is a chunk; `Limits`: types, and the sources are computers).  Which chunk is
taken and which of the others is asked first is free.  Those of NetIOUDP hold for any number of
packets, losses, repetitions, timeouts and calls of Close, and whatever either user sends
(`TwoComputers`: there are two; `Limits`: types).  `GaplessHolds` also holds for any number of connections
and whether or not datagrams overtake each other.  The other two assume that they do not (`~Reorder`) and
speak of behaviours in which no computer opens a second Peer (`OnePeerEach`); `NoStarvationHolds` also
assumes that the backlog never is full (`RoomLeft`; it holds 10000 packets).  Each is needed: TLC finds

- `InOrder` violated when two connections are opened one after the other, since a new Peer
  may meet datagrams, or a Peer, of the old one;
- `InOrder` violated when both users send and a repeated Conn is overtaken: one side starts again and
  tells its user so, the other one goes on, and its user gets packets of both as one connection;
- `NoStarvation` violated when `MaxBacklog` is 1 or 2: `Send` throws away a packet that was lost.

Those of Effects hold for any number of effects, priorities, removals and rounds of
`Execute` (`PriorityAssumption`, `CallAssumption`, `BoundAssumption`: types).  They assume that
no script changes the list in the three callbacks of `Silent`, the temporary stop, the
question about a new effect and the start before a removal, and that an effect refuses to
stop only while it is active and has added nothing (`~Stubborn`).  Each of the four is
needed: without it TLC finds one of the three properties violated.

Those of NetConnection hold for any set of connections of both protocols, whoever
calls and whichever are there at first, any number of messages, pings, breaks and timeouts,
for every choice of `SameAddress` and `AtomicClear` (`TwoComputers`, `ConnAssumption`,
`BoundAssumption`: types); `NothingLost` assumes `AtomicClear` and `NeverEarly` assumes
`SameAddress`, without which they are false (see [Findings](#findings)).

**The invariant of the engine** (`GameControlNetwork_proofs`, `Invariance`).  Agreement is not
inductive: it says nothing of control on its way or of control that was packed
but not executed.  `IInv` adds

- `GivenInv`: a client makes at most one packet per tick, none for a tick after
  `iControlSent`;
- `PacketInv`: every packet anywhere is what its client made, or was packed
  out of such packets, with everybody's unless the mode is async;
- `HostInv`: outside of decentral mode a complete packet is at most one tick
  past what the host has ready, the one that is past is still in the host's
  stack (it was packed but its file is not loaded), and there is one per tick.
  The second clause is why a tick is not packed a second time in another way;
- `ReadyInv`: nobody is ahead of the control that is ready, and control that is
  ready stays in the stack until it was executed.  This is where `ClearCtrl`
  has to be right.

`CheckedLemma` says what `CheckCompleteCtrl` may add to the stack and to the
network; `CheckPreserves` shows once that such an addition preserves the
invariant, and the steps of the actions that call it refer to it.  TLC checks
`IInv` in the run `decentral`.

| Theorem | Property | Argument |
|---|---|---|
| `Invariance`, `TypeCorrect` | `IInv`, `TypeOK` | induction, one step per action |
| `AgreementHolds` | `Agreement` | `UniqueComplete`: in decentral mode the content of complete control is determined by `PacketInv` and `GivenInv`, otherwise by `HostInv` |
| `InputFaithfulHolds` | `InputFaithful` | `PacketInv` |
| `NoControlMissingHolds` | `NoControlMissing` | `ReadyInv`: the packet is there when its tick comes |
| `Refinement` | `ImplementsLog` | `LogEntry`, `LogGrows`, `LogType`, `FrameExecutes`: every step maps to `Decide`, `Execute` or a stutter.  The log never loses an entry because complete control that is cleared somewhere was executed there (`SentInv` and `ReadyInv`) |
| `NoRunawayHolds` | `NoRunaway` | `AheadInv`: own control is sent at most `RunAhead` ticks ahead; a tick needs everybody's control |
| `RequestCanBeAnsweredHolds` | `RequestCanBeAnswered` | `KeptInv` (executed control leaves the stack only by the backlog) with `NoRunaway` and `RunAhead < Backlog`, which is the comment at `C4GameControlNetwork.h:29`, "must be smaller than C4ControlBacklog!" |
| `QueueInvariance` | `IInv` of InteractiveThread | `QueueInv`: the list leads from the popped node through all linked ones, no node in it is deleted, and everything behind the first is filled.  `pLastEvent` is right whenever the lock is free, which is why the lock has to cover all three stores |
| `QueueRefinement` | `ImplementsQueue` | linking a node is `Push`, popping is `Process`, all else is a stutter; `Queued` does not change when a node is filled, since it is not linked yet |
| `OnlyMembersExecutedHolds` | `OnlyMembersExecuted` | the set changes only while the thread is stopped: between `Join` and `Start` it is not running |
| `NoEntryLeftHolds` | `NoEntryLeft` | `BackInv` below; the entry is erased when the client is taken back, and a new one is made only after its last connection is lost |
| `NoSecondReconnHolds` | `NoSecondReconn` | `WireInv` and `BackInv` below |
| `CompleteExactly` | | a well-formed list has `ChunkCnt` chunks by its count if and only if it has every chunk |
| `ChunkToRetrieve` | | `GetChunkToRetrieve`, which walks over merged lists, chooses exactly among the chunks that are there, not present and not loaded |
| `TypeCorrect` of NetRes | `TypeOK` | `Types` and `Sound` below: ranges in order and apart, `iPresentChunkCnt` right, `iChunkRangeCnt` right but in the list `SetComplete` makes, packed lists whole; `PresentIs` says that the sum of the lengths is the number of chunks |
| `LoadsStayApart` | `LoadsApart` | `Separate` below and `ChunkToRetrieve` |
| `NobodyGivesUp` | `NotGivenUp` | `DiscoveryInv` below, if a Discover holds every resource (`Announced`) |
| `FilesAreRight`, `RequestsFound` | `FileComplete`, `RequestsAnswerable` | `AnswerInv` below, as long as `NobodyForgets` |
| `OnceAndInOrder` | `HandledOnceInOrder` | `Pair` below |
| `NothingLost` | `NothingVanishes` | `Sure` below, if `AtomicClear`; what came in a post mortem counts as come, also when it was thrown away then |
| `NeverEarly` | `NeverTooEarly` | `Meet` below, if `SameAddress` |
| `BalancedHolds`, `LayeredHolds` | `Balanced`, `Layered` | `Good` below: what the running callback was told was right when it was called |
| `RestoredHolds` | `Restored` | `Exact`, `Covered` and `Sorted` below, with nothing left to do |
| `GaplessHolds` | `Gapless` | `PeerInv` below; the part of `InOrder` that does not depend on the network |
| `InOrderHolds` | `InOrder` | `OneConnection` below, if `~Reorder` and `OnePeerEach` |
| `NoStarvationHolds` | `NoStarvation` | `Streams` below, if also `RoomLeft` |

**The invariant of the reconnection** (`Reconnect_proofs`, `Invariance`).  That no
request comes on the connection the client was taken back with is not inductive:
it depends on what the client may send next.  `IInv` adds

- `WireInv`: there is one request or one answer in all, never both, on the
  connection the client remembers (`fReconnectSent`), and none while it has not
  asked or has been taken back; a client that has given up has no connection;
- `BackInv`: a client that is about to ask (again) no longer uses the connection
  it was taken back with.  It has lost it before: it starts asking again only
  when it has no connection at all, and a new one is never the same;
- `ConnInv`: a client has a connection for messages if and only if it has one
  for data, and one that has given up is not reconnecting.

Most handlers add neither a request nor an answer (`Quiet`, which what is sent,
handled, closed or lost together still is); `QuietStep` shows once that such a
step preserves the invariant.  TLC found no violation of `IInv` with three
connections, two breaks, one attempt of the host and two of the client.

**Lists of chunks** (`BoundedRecursion`, `NetRes_proofs`).  The loops over the list are
recursive functions `f[k \in 0 .. limit]`, each step from `f[k - 1]`.  The provers have
no induction over data, but every such function ends, so BoundedRecursion derives what is
needed from the library's facts on finite sets: a set of numbers that is not empty has
a least one (`LeastNat`); what holds at 0 and is kept by each step holds up to the limit
(`Induction`, `Loop`); a recursive function with a limit exists and meets its equation
(`Recursion`).  On these rest the facts about `AddChunkRange` with its merges
(`AddRange`: the list stays sorted without touching ranges, both counts stay right, and
its chunks are the union), `MergeRanges`, negation and `GetChunkToRetrieve`.

**The invariants of the resources** (`NetRes_proofs`).  `IInv` is `Types` with, for each computer,
`Sound` (only what is in the list is loaded, dirty or removed; the counts of a loader are
right) and `Separate` (loads ask for different chunks that are not present, and their numbers
are within both limits).  `Effect` states what a step may do as far as the other properties
depend on it: which messages and chunks it may send, what it may learn of others, how
files change, which messages it may take, and who may be given up.  It is shown once for every action
(`StepEffect`), and the other invariants are shown from `Effect` alone:

- `DiscoveryInv`: who discovers waits for every source it is connected to, that is, the
  Discover or the answer is on its way.  `MayGiveUp` then contradicts it;
- `AnswerInv`: what anybody believes of, is told by, or asks from another computer is what this
  one can offer.  This is false when a computer forgets the resource and loads it again,
  as its peers are not told: the two runs of the code that violate `FileComplete` and
  `RequestsAnswerable` this way are a hazard in `PROJECT.json`.  `FilesAreRight` therefore
  assumes of a behaviour that nobody loses what he has of the resource before he has removed
  the client that brought it (`NobodyForgets`).  TLC finds this true of the run `res`, which does not assume it.

**The invariant of a UDP connection** (`NetIOUDP_proofs`).  `PeerInv` is about one Peer, for any
datagram that may arrive: while the connection works, `iI` follows the last packet given to the
user.  It is kept by each round of `CheckCompleteIPackets` and each handler, and a Conn on
a connection that works closes it, so that what was given on the old one is no longer
continued.  Nothing is needed about what is on the network.

For the two other theorems it is what counts.  `OneConnection` has, besides types, a relation `Flow` of a Peer, the
datagrams under way from it and the Peer that gets them: while the sender may still send Conn,
or one is under way, the receiver has no fragment and has given nothing to its user, and no
fragment is in front of that Conn.  So a Conn, which makes a Peer forget what it received,
never comes after a fragment, and the first packet given is the first one sent.

`Streams` has the relation `Stream` of the same three and the datagrams that go back.  A number is
`Marked` when it cuts no packet the sender keeps, and `Kept` when the sender keeps everything from
it on.  Everything a Check acknowledges is both, and so is what the receiver expects
next; acknowledgements under way do not decrease and are not above that; what a Check asks for is
not before what it acknowledges and was sent.  So `ClearPackets` drops whole packets
that are asked for by no Check behind it.  TLC found no violation of it in the complete instance of the
run with at most one Peer each, nor in the first 9.8 million states of one in which both users send.

A step of a Peer is described once, in `Effect`: what it may change and send, given the Peer
and the datagram it handles, if any.  There is a lemma for each handler (`RecvConnEffect` to `RecvCheckEffect`,
`ClosedEffect`, `DoConnEffect`, `ConnectPeerEffect`, `AskingEffect`), and both invariants are
kept by every step that has such an effect (`StepKeepsOne`, `HandlesStreams`); only `Send`, `Lose` and
`ReCheckAllowed` are dealt with by themselves.

**The invariant of the connections** (`NetConnection_proofs`).  `Pair` relates two computers.
Each by itself (`Local`): a socket is open exactly as long as its connection is (`SocketOf`),
the log is the end of what was sent (`Logs`), and what was sent are messages with growing
numbers and at most one post mortem of a connection, which holds a piece of what was sent
on it (`Sendings`).  Both together, in either direction (`Link`):

- `Wires`: what is under way on a connection is what the receiver has not counted yet, in
  order, and all of it while both ends are open;
- `Seen`: what a thread has handled, or the network thread has put before the main
  thread, was sent and is `Taken`: it will not come again.  The count of packets tells this as long as
  packets may come off the wire.  While a post mortem is gone through, what is still in `todo` tells it;
  after that the connection is neither listed nor fresh, and nothing comes on it any more;
- `Orderly`: what was handled, and then what waits, is in the order it was sent;
- `Recovery`: what is left of post mortems is in order, each followed by the removal of its
  connection, and nothing brings another post mortem of that connection.  The removal is what makes this
  inductive: without it (the mutant `HandlePostMortem_Stays`) a packet under way comes a second time.

`SendsIs` and `CalmIs` show once what a step of the sender and of the receiver leaves alone;
each handler has a lemma that it preserves `Pair`, and the handlers that call others refer to those.
TLC found no violation of `IInv` on the instance of `conn`, nor in simulations of four connections
with six messages, pings and removals.

That no message vanishes needs more: every packet is somewhere until the other side has it, and what
removes it from one place has put it in another before.  `VInv` says of two computers that they are
`Sure` of each other:

- `Whole`: a connection of which there is a post mortem is closed and used for nothing any more, and
  the main thread learns only of connections that are closed.  So nothing is added to a log after its post
  mortem was made;
- `Counts` and `Pings`: the log reaches back to what the other side has counted, as a ping says no more
  than the count.  With `Made`, the same is true of a post mortem;
- `Covered`: what was counted came, or waits in `todo`.  A post mortem that was counted is done with when its
  packets are, but these may contain other post mortems, so `Covered` passes from a packet to what is `Inside`
  it.  That this ends is what `Ages` is for: post mortems can be numbered in the order they were made, and
  one contains only older ones;
- `Safe`: whatever was sent came, waits in `todo`, or is in a log without post mortem behind what was counted.

When a post mortem is made, its packets leave one log and are in another one, inside it (`PostMortemSure`); when
it is received, what `PacketsFrom` leaves out was counted, so it is covered (`HandlePostMortemSure`); and what
the network thread has in its hand is handled, dropped with a record, put in the queue or in `todo` before
the step ends (`HandlePacketSure`).  Steps that move no packet are `Plain`.  TLC found no violation of `VInv` in
the same runs.

**Whether the peer is ready** (`NeverEarly`) depends on what is under way: one side uses a connection as soon
as it has taken the Conn, the other one has to accept it before the first message comes.  `HInv` says that any two
computers `Meet`:

- `Ready`: an open connection has sent its Conn, one that is accepted by halves is in `auto`, so that the network
  thread accepts it when the ConnRe comes, and messages and data only go by connections that are accepted or closed;
- `Known`: a Conn or ConnRe that waits for the main thread is no news to the network thread.  This is why the main
  thread never answers or accepts something a second time;
- `Greets`: on the wire nothing but pings comes before the Conn and nothing that is numbered before the ConnRe, there
  is one Conn, and it is gone from the wire when the other side has accepted by halves; who is open has said Conn,
  who has accepted by halves has said ConnRe, and the other side has taken it or still has it before it.

Most steps take neither Conn nor ConnRe (`Mild`: they send what they may, open, or close); the two that do are
`ConnMeet` and `ConnReMeet`.  `SameAddress` is used in one place, that the network thread accepts the Conn by itself
(`HandleConnNetIsAnswer`).  TLC found no violation of `HInv` in the run of this module and in simulations with
other callers and connections.

**The invariant of the effects** (`Effects_proofs`).  `IInv` relates the list to everything
the functions in progress still have to do, `todo`.  Its parts are

- `Good`: what a step of `todo` refers to is in the list, where the step says it is, and what a
  callback was told (whether the effect was on, which active ones are above it) is right;
- `Exact`: an effect was told to start last exactly if it is active, but for one that was started
  again only to be removed;
- `Covered`: whatever is stopped temporarily is in the range of a reactivation that is
  still to do.  This is why `Restored` holds however deep the calls are nested;
- `Sorted`: the list is in order when each effect weighs (`Weighs`) what it has or will have: a
  new one the priority it gets when it has started, one that was asked to stop the one it
  would get back.  An effect that adds others in its Stop callback and then refuses breaks
  this, as the others were placed as if it were gone;
- `Phase`: where in `AddEffect` or `RemoveEffect` the engine is (`Resting`, `Asking`, `Placing`,
  `Reviving`, `Stopping`): a function that has changed the list only by half is the innermost,
  and the others are between two of their steps.  The three callbacks of `Silent` are those
  that come in the middle of such a function;
- `Bottom`: `Execute` and the clearing of the list are outermost, called from nowhere else.

`Bracket` is what a function has to do around a change of an effect: stop what is above it, change it, and start
those again.  `BracketIs` and `UpperIs` say what the recursive functions that compute it return; one lemma for
each step of a function says that `IInv` is kept, with those on what a call adds in front of `todo`
(`PushStops`, `KillIs`) shared by all.

**Only model-checked:** liveness (`Progress`, `ReachTarget`, `LostRemoved`,
`StatusAcknowledged`, `Delivered`, `AttemptSettles`, `Heals`, `BackRunsAgain`,
`EveryEventProcessed`, `CallReturns`), which is out of reach of the prover with its
`ENABLED`.  The others are false in general, and hold within the bounds of their run only:
`NobodyStuck` of NetRes (when a loader may be removed, or a computer that gave up has used all its
discoveries, nothing is left that could happen), `FileComplete` and `RequestsAnswerable` without
`NobodyForgets`; of NetIOUDP, `InOrder` and `NoStarvation` when a stray Conn opens a second Peer after a Close, which
the run `udp` reaches and the theorems exclude; `NeverTooLate` and `SameSyncs` of NetStatus (see [Runs](#runs)).
The type invariant of NetStatus is checked, too, and not proved; no theorem rests on it.

## Findings

Three runs must be violated:

- `conn_lost` (`C4Network2IO.cpp:821`): a post mortem is sent for what a broken
  connection left undelivered, but the receiver passes its packets to
  `HandlePacket` with that connection, and `HandlePacket` refuses game packets
  on a connection that is not half accepted.  When the receiver has noticed the
  break, too, all of them are dropped, although `OnDisconn` keeps the
  connection for the sake of the post mortem.  Control that is lost this way is
  requested again only while there is a target tick (`C4GameControlNetwork.cpp:746`),
  that is, during a synchronization, and in central mode the host asks nobody but
  itself; other packets are not.
- `reconnect_removed` (`C4Reconnect.cpp:79`): the time of a dormant client runs out and its
  removal is queued (`C4Network2.cpp:714`).  Before it is executed the client has called,
  and this connection ends as well: `EnterDormancy` makes it dormant again, over
  `NCS_Remove`.  It calls once more, is taken back, and then the removal is executed.  It
  is the "freshly reassociated client" the comment above is about: the entries are
  never the reason (`NoEntryLeft`), the removal can be (`BackForGood`).
- `sync_race` (`C4GameControlNetwork.cpp:335`): `SetRunning` sets `fRunning` before it
  refreshes the list of clients.  The network thread may pack control for the old list
  in between, when a client was deactivated, while the other computers pack it for the new one.

Other violations met while modelling are hazards in `PROJECT.json` with the
constants that show them: a host that has run past the tick of its own pause while
`isFrozen` holds, an acknowledgement of an earlier synchronization that
counts for the next one, synchronous control that overtakes older control in the queue,
a client that is activated again and sends other control for a tick it has sent already (NetStatus);
the race of `ClearPacketLog` with `Send`, control dropped before the main thread
has accepted a connection (NetConnection); a reconnection whose request is refused or
lost and never sent again, a deadline nobody looks at, a chase target that overtakes
the state of the game (Reconnect); a full pipe, stores out of order
(InteractiveThread); an effect that is told to stop or to start twice, a list
that is not sorted (Effects); reordered datagrams, a lost Close before a reconnection, a connection timeout
that races with the answer (NetIOUDP); a sixteenth resource that is never
discovered, a load that was given up and is waited for nevertheless, a chunk
request whose failure nobody notices (NetRes).

Two remarks without a property.  In central mode a host that lacks input of a
client requests it from itself (`C4GameControlNetwork.cpp:755`), so `ReachTarget`
fails there under loss; the code relies on reliable connections.  And
`docs/contributors/network.md` says that `Prepare` waits until all inputs have
arrived, which is not so in async mode.

## What is not modelled

- In the modelled parts: joining and chasing clients, the lobby, changes of
  the control mode, control rates above 1 (NetStatus); the control a client
  that returned lacks or executes twice, more than one client (Reconnect);
  multicast, second addresses, the puncher, statistics, TCP (NetIOUDP);
  clients that are not known yet, exclusive mode, forwarding through the host,
  TCP simultaneous open, more than two computers (NetConnection); the
  destructors, the Windows variant of waiting (InteractiveThread); damage
  callbacks, exceptions in a callback, deletion of the object by a callback,
  saving (Effects);
  several resources at once, standalone and derived files, what complete
  computers learn of others (NetRes).
- Rollback, voting, player info conflicts and
  records: planned, see below.
- Lobby dialogs, league and reference server: requests to a server outside of
  the repository.
- The game world, the script engine, the landscape, file formats, user
  interface: sequential code over large data whose properties are not about
  the order of steps, or display.

## Plan

Done, in this order, the most important first: the engine with its
abstraction and proofs, the status protocol with dormancy, UDP connections,
resources, connection handling, the event queue with its abstraction and
proofs, effects with proofs, reconnection with proofs.

Next:

1. NetStatus: joining and chasing clients (join data in one tick, catching up),
   and what Reconnect leaves out of the return of a client: its control, and
   synchronous control given before its snapshot (`C4Network2.cpp:1078`).
2. Rollback: snapshots labelled by tick against the control in the stack, with
   the executed control as game state; whether a late input yields the state
   of an execution in time (`C4Rollback.cpp:65`).
3. Voting with its pause; player attribute conflicts; records with a round trip.
4. NetConnection on top of NetIOUDP: the connection that delivers in order until
   it breaks as the abstraction NetIOUDP implements.
5. NetRes: more than fifteen resources, two resources.

Proofs to come: type correctness of NetStatus; `InOrder` of NetIOUDP with a second connection
whose Conn comes after everything of the first one was delivered or lost.
