------------------------------ MODULE NetStatus ------------------------------
(***************************************************************************)
(* The network status (pause, go and the synchronization points in         *)
(* between) of C4Network2, together with the synchronous control that is   *)
(* executed there: the host announces a status with a target control tick, *)
(* everybody runs to this tick, stops and tells the host, and when all are *)
(* there the host executes the control that has piled up (SyncControl) and *)
(* acknowledges the status.  The control is the activation of clients,     *)
(* which changes whose input the control engine waits for.                 *)
(*                                                                         *)
(* The control engine is the one of GameControlNetwork in decentral mode   *)
(* with ControlRate 1, reduced to which packets go into a tick.  All       *)
(* clients have joined already; those that lose their connections do not   *)
(* come back.  Handlers are written as operators on the record s of        *)
(* everything one computer knows, s.out being what the handler sends,      *)
(* because they call each other.                                           *)
(***************************************************************************)
EXTENDS Integers, Sequences, FiniteSets, Functions

CONSTANTS
    Client,          \* all computers, all joined
    Host,
    PreSend,         \* iControlPreSend
    Games            \* the games that are looked at, one of which is played

\* A game, with what happens in it at most:
\*   activated   the clients activated when the game starts
\*   reconnect   the reconnect feature is on and the token is minted
\*   netThread   the network thread is seen between two steps of SetRunning
\*   maxTick     bound: no control is sent for a later tick
\*   maxPauses   bound: how often the user pauses or starts the game
\*   maxChanges  bound: how often clients are deactivated or want to be activated
\*   maxCrashes  bound: how many clients crash
Game == [activated : SUBSET Client, reconnect : BOOLEAN, netThread : BOOLEAN,
         maxTick : Nat, maxPauses : Nat, maxChanges : Nat, maxCrashes : Nat]

ASSUME ClientAssumption == Host \in Client /\ PreSend \in Nat
ASSUME GameAssumption   == Games \subseteq Game /\ \A g \in Games : Host \in g.activated

NoTick == -1

VARIABLES
    node,      \* what every computer knows
    chan,      \* chan[m][n]: the messages on their way from m to n, in order
    checking,  \* the network thread has added control but not yet checked it
    crashed,   \* the clients that have crashed, or lost their connections for good
    game,      \* the game that is played
    pauses, changes  \* how often the user and the clients did something

vars == <<node, chan, checking, crashed, game, pauses, changes>>

Others(n) == Client \ {n}
Live == Client \ crashed

Send(s, dest, m) == [s EXCEPT !.out = [d \in Client |-> IF d \in dest THEN Append(@[d], m) ELSE @[d]]]

-----------------------------------------------------------------------------
\* The control engine.

\* A packet at the front of the list hides an older one of the same tick.
AddCtrl(S, p) == {q \in S : q.id # p.id \/ q.tick # p.tick} \cup {p}

getCtrl(S, c, t) == {p \in S : p.id = c /\ p.tick = t}

\* Control of tick t can be packed.  stop: the tick not to pack.
CanPack(n, s, t) ==
    /\ n \in s.active => s.sent >= t
    /\ s.pClients = {} => s.tick >= t
    /\ s.target >= 0 => t < s.target
    /\ s.queue # <<>> => t < Head(s.queue).tick
    /\ \A c \in s.pClients : getCtrl(s.stack, c, t) # {}

CheckCompleteCtrl(n, s) ==
    IF ~s.running THEN s
    ELSE LET r == CHOOSE r \in s.ready .. (game.maxTick + 1) :
                    /\ \A t \in (s.ready + 1) .. r : CanPack(n, s, t)
                    /\ ~CanPack(n, s, r + 1)
         IN  [s EXCEPT
                !.ready  = r,
                !.packed = @ \cup {[tick |-> t, ctrl |-> {p \in s.stack : p.tick = t /\ p.id \in s.pClients}] :
                                     t \in (s.ready + 1) .. r}]

\* fRunning is set before the list of clients is refreshed; in between the
\* network thread may check for complete control (race).
SetRunning(n, s, run, target, race) ==
    IF s.running = run /\ s.target = target THEN s
    ELSE LET s1 == [s EXCEPT !.running = run, !.target = target]
             s2 == IF race THEN CheckCompleteCtrl(n, s1) ELSE s1
         IN  IF run THEN CheckCompleteCtrl(n, [s2 EXCEPT !.pClients = s.active]) ELSE s1

CtrlNeeded(n, s) ==
    /\ n \in s.active
    /\ s.target >= 0 => s.sent < s.target
    /\ s.tick + PreSend > s.sent
    /\ s.sent < game.maxTick

\* Control is sent one tick after the other; the input of a packet is unlike that
\* of every other packet the client has made.
DoInput(n, s) ==
    IF ~CtrlNeeded(n, s) THEN s
    ELSE LET p == [id |-> n, tick |-> s.sent + 1, input |-> s.made]
         IN  CheckCompleteCtrl(n,
                Send([s EXCEPT !.stack = AddCtrl(@, p), !.sent = @ + 1, !.made = @ + 1],
                     Others(n), [type |-> "Control", pkt |-> p]))

\* Mutant: one tick too early.
ExecControl_TickBefore(n, s, u) ==
    LET local == u.on /\ u.client = n /\ n \notin s.active
    IN  [s EXCEPT
           !.active = IF u.on THEN @ \cup {u.client} ELSE @ \ {u.client},
           !.sent   = IF local THEN s.tick - 2 ELSE @,
           !.syncs  = Append(@, [tick |-> s.tick, ctrl |-> u])]

\* Execute of C4ControlClientUpdate (CUT_Activate) and C4ControlClientRemove.  A
\* client that is activated sends control from the next tick on (SetActivated).
ExecControl(n, s, u) ==
    LET local == u.on /\ u.client = n /\ n \notin s.active
    IN  [s EXCEPT
           !.active = IF u.on THEN @ \cup {u.client} ELSE @ \ {u.client},
           !.sent   = IF local THEN s.tick - 1 ELSE @,
           !.syncs  = Append(@, [tick |-> s.tick, ctrl |-> u])]

ExecControls(n, s, us) ==
    LET run[i \in 0 .. Len(us)] == IF i = 0 THEN s ELSE ExecControl(n, run[i - 1], us[i])
    IN  run[Len(us)]

isFrozen(s) == s.state = "Pause" /\ s.ack

\* Control for earlier ticks is dropped (this is logged as fatal), control for
\* this tick is executed.
ExecQueuedSyncCtrl(n, s) ==
    LET late == {i \in 1 .. Len(s.queue) : s.queue[i].tick < s.tick}
        due  == SelectSeq(s.queue, LAMBDA e : e.tick = s.tick)
        rest == SelectSeq(s.queue, LAMBDA e : e.tick > s.tick)
        ctrl == [i \in 1 .. Len(due) |-> due[i].ctrl]
        s1   == [s EXCEPT !.queue = rest, !.fatal = @ \/ late # {}]
    IN  IF due = <<>> THEN s1
        ELSE LET s2 == ExecControls(n, s1, ctrl) IN [s2 EXCEPT !.pClients = s2.active]

\* The queue is ordered by tick; later controls come behind those of their tick.
AddSyncCtrlToQueue(s, us, t) ==
    LET new == [i \in 1 .. Len(us) |-> [tick |-> t, ctrl |-> us[i]]]
    IN  [s EXCEPT !.queue = SelectSeq(@, LAMBDA e : e.tick <= t) \o new
                            \o SelectSeq(@, LAMBDA e : e.tick > t)]

\* ExecSyncControl(t): what has piled up is executed, dropped or queued.
ExecSyncControl(n, s, t) ==
    LET s1 == [s EXCEPT !.sync = <<>>]
    IN  CASE s.sync = <<>> -> s
          [] s.sync # <<>> /\ s.tick = t -> ExecControls(n, s1, s.sync)
          [] s.sync # <<>> /\ s.tick > t -> [s1 EXCEPT !.fatal = TRUE]
          [] s.sync # <<>> /\ s.tick < t -> AddSyncCtrlToQueue(s1, s.sync, t)
-----------------------------------------------------------------------------
\* The network status.

OnStatusAck(n, s, race) ==
    IF s.state = "Go" THEN SetRunning(n, s, TRUE, NoTick, race) ELSE s

\* Mutant: the host does not wait for the clients.
CheckStatusAck_NoWait(n, s, race) ==
    IF ~s.reached \/ s.ack THEN s
    ELSE LET s1 == IF s.sync = <<>> THEN [s EXCEPT !.ack = TRUE]
                   ELSE ExecSyncControl(n,
                          Send([s EXCEPT !.ack = TRUE], Others(n), [type |-> "ExecSyncCtrl", tick |-> s.tick]), s.tick)
             s2 == Send(s1, Others(n), [type |-> "StatusAck", state |-> s.state, tick |-> s.goal])
         IN  OnStatusAck(n, s2, race)

CheckStatusAck(n, s, race) ==
    IF ~s.reached \/ s.ack \/ s.unready # {} THEN s
    ELSE LET s1 == IF s.sync = <<>> THEN [s EXCEPT !.ack = TRUE]
                   ELSE ExecSyncControl(n,
                          Send([s EXCEPT !.ack = TRUE], Others(n), [type |-> "ExecSyncCtrl", tick |-> s.tick]), s.tick)
             s2 == Send(s1, Others(n), [type |-> "StatusAck", state |-> s.state, tick |-> s.goal])
         IN  OnStatusAck(n, s2, race)

\* The tick is reached when no control is left that could be executed.
CheckStatusReached(n, s, race) ==
    LET s0 == CheckCompleteCtrl(n, s)
        s1 == [SetRunning(n, s0, FALSE, NoTick, FALSE) EXCEPT !.reached = TRUE]
        s2 == [s1 EXCEPT !.goal = s1.tick]
    IN  IF s.reached THEN s
        ELSE IF s.tick < s.goal THEN SetRunning(n, s, TRUE, s.goal, race)
        ELSE IF s0.ready >= s0.tick THEN SetRunning(n, s0, TRUE, s.goal, race)
        ELSE IF n = Host THEN CheckStatusAck(n, s1, race)
        ELSE Send(s2, {Host}, [type |-> "StatusAck", state |-> s2.state, tick |-> s2.goal])

\* ChangeGameStatus, by the host.
ChangeGameStatus(s, state, t, race) ==
    CheckStatusReached(Host,
        Send([s EXCEPT !.state = state, !.goal = t, !.reached = FALSE, !.ack = FALSE,
                       !.unready = Others(Host) \ (s.removed \cup Range(s.dormant))],
             Others(Host), [type |-> "Status", state |-> state, tick |-> t]),
        race)

Sync(s, race) ==
    IF ~s.ack THEN (IF s.reached THEN CheckStatusAck(Host, s, race) ELSE s)
    ELSE IF isFrozen(s) THEN s
    ELSE ChangeGameStatus(s, s.state, s.tick, race)

\* Synchronous control is put in at the host.
DoSyncInput(s, u, race) ==
    LET s1 == Send(s, Others(Host), [type |-> "ControlPkt", ctrl |-> u])
    IN  IF isFrozen(s)
        THEN Send(ExecControl(Host, s1, u), Others(Host), [type |-> "ExecSyncCtrl", tick |-> s.tick])
        ELSE Sync([s1 EXCEPT !.sync = Append(@, u)], race)

\* Mutant: synchronous control is executed when it comes in.
HandleControlPkt_AtOnce(n, s, u) == ExecControl(n, ExecQueuedSyncCtrl(n, s), u)

HandleControlPkt(n, s, u) ==
    LET s1 == ExecQueuedSyncCtrl(n, s)
    IN  IF isFrozen(s1) THEN ExecControl(n, s1, u) ELSE [s1 EXCEPT !.sync = Append(@, u)]

HandleStatus(n, s, m, race) ==
    CheckStatusReached(n, [s EXCEPT !.state = m.state, !.goal = m.tick, !.reached = FALSE, !.ack = FALSE], race)

HandleStatusAck(n, s, m, from, race) ==
    IF m.state # s.state \/ m.tick < s.goal \/ from \in s.removed THEN s
    ELSE IF n = Host
    THEN LET s1 == IF ~s.ack /\ m.tick > s.goal THEN ChangeGameStatus(s, m.state, m.tick, race) ELSE s
             s2 == IF s1.ack THEN Send(s1, {from}, m) ELSE s1
         IN  CheckStatusAck(Host, [s2 EXCEPT !.unready = @ \ {from}], race)
    ELSE IF m.tick = s.goal /\ s.reached
    THEN OnStatusAck(n, [s EXCEPT !.ack = TRUE], race)
    ELSE s

HandleActivateReq(s, from, race) ==
    IF from \in s.active \cup s.removed THEN s
    ELSE DoSyncInput(s, [client |-> from, on |-> TRUE], race)

\* The client is removed with synchronous control (C4ClientList::CtrlRemove); it
\* is no longer waited for.
CtrlRemove(s, c, race) ==
    DoSyncInput([s EXCEPT !.removed = @ \cup {c}, !.unready = @ \ {c}], [client |-> c, on |-> FALSE], race)

\* The client is no longer waited for when a status is acknowledged, but stays
\* activated: its control is still missing.
EnterDormancy(s, c) == [s EXCEPT !.dormant = Append(@, c), !.unready = @ \ {c}]

\* Mutant: the status is not set again.
OnClientDisconnect_NoRetry(s, c, race) ==
    IF game.reconnect THEN EnterDormancy(s, c)
    ELSE CheckStatusAck(Host, CtrlRemove(s, c, race), race)

\* With the reconnect feature a client becomes dormant first, without it the
\* client is removed at once.
OnClientDisconnect(s, c, race) ==
    IF game.reconnect THEN EnterDormancy(s, c)
    ELSE LET s1 == CheckStatusAck(Host, CtrlRemove(s, c, race), race)
         IN  IF s1.reached THEN s1 ELSE ChangeGameStatus(s1, s1.state, s1.tick, race)

\* Mutant: clients whose time is up are only forgotten.
TickDormancy_NoRemoval(s, expired, race) ==
    [s EXCEPT !.dormant = SelectSeq(@, LAMBDA c : c \notin expired)]

\* The dormant clients whose time is up are forgotten, then removed one by one.
TickDormancy(s, expired, race) ==
    LET cs == SelectSeq(s.dormant, LAMBDA c : c \in expired)
        s1 == [s EXCEPT !.dormant = SelectSeq(@, LAMBDA c : c \notin expired)]
        run[i \in 0 .. Len(cs)] == IF i = 0 THEN s1 ELSE CtrlRemove(run[i - 1], cs[i], race)
    IN  run[Len(cs)]
-----------------------------------------------------------------------------
\* The game was just started: everybody has acknowledged "Go" in tick 0.
Init ==
    /\ game \in Games
    /\ node = [n \in Client |->
         [tick |-> 0, sent |-> -1, ready |-> -1, made |-> 0,
          stack |-> {}, packed |-> {}, done |-> {}, syncs |-> <<>>, fatal |-> FALSE,
          active |-> game.activated, pClients |-> game.activated,
          running |-> TRUE, target |-> NoTick,
          state |-> "Go", goal |-> 0, reached |-> TRUE, ack |-> TRUE, unready |-> {}, removed |-> {}, dormant |-> <<>>,
          sync |-> <<>>, queue |-> <<>>, out |-> [d \in Client |-> <<>>]]]
    /\ chan = [m \in Client |-> [n \in Client |-> <<>>]]
    /\ checking = [n \in Client |-> FALSE]
    /\ crashed = {}
    /\ pauses = 0
    /\ changes = 0

\* The computer n ends up in state s; its messages are sent, C being the
\* channels without the message it has handled.
Put(n, s, C) ==
    /\ node' = [node EXCEPT ![n] = [s EXCEPT !.out = [d \in Client |-> <<>>]]]
    /\ chan' = [C EXCEPT ![n] = [d \in Client |-> IF d \in crashed THEN <<>> ELSE @[d] \o s.out[d]]]

\* The main thread runs handler h, perhaps with the check of the network thread
\* in the middle of SetRunning.
Main(n, h(_), C) ==
    /\ n \notin crashed
    /\ \E race \in {FALSE, checking[n]} :
          /\ Put(n, h(race), C)
          /\ checking' = [checking EXCEPT ![n] = @ /\ ~race]
    /\ UNCHANGED <<crashed, game>>

\* One round of C4Game::Execute: the status is checked, dormant clients whose time
\* is up are removed, synchronous control is executed, own control is sent, and a
\* tick is executed when it is ready.
Round(n, s, expired, race) ==
    LET s1 == TickDormancy(CheckStatusReached(n, s, race), expired, race)
        s2 == ExecQueuedSyncCtrl(n, s1)
        s3 == CheckCompleteCtrl(n, DoInput(n, s2))
    IN  IF s3.running /\ s3.ready >= s3.tick
        THEN [s3 EXCEPT !.done = @ \cup {e \in s3.packed : e.tick = s3.tick}, !.tick = @ + 1]
        ELSE s3

Execute(n) ==
    /\ \E expired \in SUBSET Range(node[n].dormant) :
          Main(n, LAMBDA race : Round(n, node[n], expired, race), chan)
    /\ UNCHANGED <<pauses, changes>>

\* The network thread gets a control packet: the first one in the channel, which
\* may have overtaken messages that wait for the main thread.
HandleControl(n, from) ==
    \E i \in DOMAIN chan[from][n] :
      LET q == chan[from][n]
          s == node[n]
          p == q[i].pkt
          C == [chan EXCEPT ![from][n] = SubSeq(q, 1, i - 1) \o SubSeq(q, i + 1, Len(q))]
          new == getCtrl(s.stack, p.id, p.tick) = {}
          s1 == IF new THEN [s EXCEPT !.stack = AddCtrl(@, p)] ELSE s
      IN  /\ q[i].type = "Control"
          /\ \A j \in 1 .. (i - 1) : q[j].type # "Control"
          /\ Put(n, IF game.netThread \/ ~new THEN s1 ELSE CheckCompleteCtrl(n, s1), C)
          /\ checking' = [checking EXCEPT ![n] = @ \/ (game.netThread /\ new)]
          /\ UNCHANGED <<crashed, game, pauses, changes>>

\* ... and checks for complete control.
NetCheck(n) ==
    /\ checking[n]
    /\ Put(n, CheckCompleteCtrl(n, node[n]), chan)
    /\ checking' = [checking EXCEPT ![n] = FALSE]
    /\ UNCHANGED <<crashed, game, pauses, changes>>

\* A client that has to get to a target tick and lacks control asks m for it and
\* is answered (CheckCompleteCtrl and HandleControlReq).
Missing(n, m) ==
    LET t == node[n].ready + 1
    IN  {p \in node[m].stack : /\ p.tick = t /\ node[n].running /\ t < node[n].target
                               /\ getCtrl(node[n].stack, p.id, t) = {}}

Request(n, m) ==
    /\ {n, m} \cap crashed = {}
    /\ \A i \in DOMAIN chan[m][n] : chan[m][n][i].type # "Control"
    /\ \E p \in Missing(n, m) : chan' = [chan EXCEPT ![m][n] = Append(@, [type |-> "Control", pkt |-> p])]
    /\ UNCHANGED <<node, checking, crashed, game, pauses, changes>>

\* The main thread handles the next message.
HandlePacket(n, s, m, from, race) ==
    CASE m.type = "Status"       -> HandleStatus(n, s, m, race)
      [] m.type = "StatusAck"    -> HandleStatusAck(n, s, m, from, race)
      [] m.type = "ControlPkt"   -> HandleControlPkt(n, s, m.ctrl)
      [] m.type = "ExecSyncCtrl" -> ExecSyncControl(n, s, m.tick)
      [] m.type = "ActivateReq"  -> HandleActivateReq(s, from, race)

HandleMessage(n, from) ==
    /\ chan[from][n] # <<>>
    /\ Head(chan[from][n]).type # "Control"
    /\ Main(n, LAMBDA race : HandlePacket(n, node[n], Head(chan[from][n]), from, race),
            [chan EXCEPT ![from][n] = Tail(@)])
    /\ UNCHANGED <<pauses, changes>>

\* The user of the host pauses the game or lets it go on.
PauseOrStart ==
    /\ pauses < game.maxPauses
    /\ Main(Host, LAMBDA race :
              ChangeGameStatus(node[Host], IF node[Host].state = "Go" THEN "Pause" ELSE "Go", node[Host].tick, race),
            chan)
    /\ pauses' = pauses + 1
    /\ UNCHANGED changes

\* The host deactivates a client, because nothing has come from it for long
\* (DeactivateInactiveClients) or because its user wants it.
Deactivate(c) ==
    /\ changes < game.maxChanges
    /\ c \in node[Host].active \ {Host}
    /\ Main(Host, LAMBDA race : DoSyncInput(node[Host], [client |-> c, on |-> FALSE], race), chan)
    /\ changes' = changes + 1
    /\ UNCHANGED pauses

\* The user of a deactivated client does something: RequestActivate.
RequestActivate(c) ==
    /\ changes < game.maxChanges
    /\ c \in Live \ {Host} /\ c \notin node[c].active /\ node[c].reached
    /\ Put(c, Send(node[c], {Host}, [type |-> "ActivateReq"]), chan)
    /\ changes' = changes + 1
    /\ UNCHANGED <<checking, crashed, game, pauses>>

\* A client crashes; what it has sent still arrives at some and is lost on the
\* way to others.
Crash(c) ==
    /\ c # Host /\ c \notin crashed /\ Cardinality(crashed) < game.maxCrashes
    /\ crashed' = crashed \cup {c}
    /\ \E lost \in SUBSET {n \in Live : chan[c][n] # <<>>} :
         chan' = [m \in Client |-> [n \in Client |->
                    IF n = c \/ (m = c /\ n \in lost) THEN <<>> ELSE chan[m][n]]]
    /\ UNCHANGED <<node, checking, game, pauses, changes>>

\* The host notices when everything the client has sent is handled.
Disconnect(c) ==
    /\ c \in crashed \ (node[Host].removed \cup Range(node[Host].dormant))
    /\ chan[c][Host] = <<>>
    /\ Main(Host, LAMBDA race : OnClientDisconnect(node[Host], c, race), chan)
    /\ UNCHANGED <<pauses, changes>>

\* What the program does of its own accord.
Progress ==
    \/ \E n \in Client : Execute(n) \/ NetCheck(n) \/ Disconnect(n)
    \/ \E n, m \in Client : HandleControl(n, m) \/ HandleMessage(n, m) \/ Request(n, m)

Next ==
    \/ Progress
    \/ PauseOrStart
    \/ \E c \in Client : Deactivate(c) \/ RequestActivate(c) \/ Crash(c)

Spec == Init /\ [][Next]_vars

\* Progress can do something (ENABLED <<Progress>>_vars, written out because TLC
\* is slow at it).
Busy ==
    \E n \in Live :
       \/ Round(n, node[n], {}, FALSE) # node[n] \/ checking[n]
       \/ \E m \in Client : chan[m][n] # <<>> \/ (m \in Live /\ Missing(n, m) # {})
       \/ crashed \ node[Host].removed # {}

\* As long as there is something left to do, some computer goes on with its
\* rounds, its packets or its requests.  The users need not do anything.  The
\* steps of Progress are those that count no user and no crash (which TLC sees
\* faster than that they are steps of Progress).
FairSpec == Spec /\ ([]<>(~Busy) \/ []<><<UNCHANGED <<crashed, pauses, changes>>>>_vars)
-----------------------------------------------------------------------------
Ticks == -1 .. (game.maxTick + 1)

\* Types, with the order of the queue (AddSyncCtrlToQueue) and what the flags
\* exclude: a client that has reached the target tick does not run before the
\* acknowledgement, and only the host waits for others.
TypeOK ==
    /\ \A n \in Client :
         /\ node[n].tick \in Nat \cap Ticks /\ {node[n].sent, node[n].ready, node[n].goal, node[n].target} \subseteq Ticks
         /\ node[n].active \subseteq Client /\ node[n].pClients \subseteq Client
         /\ node[n].state \in {"Go", "Pause"}
         /\ node[n].ack => node[n].reached
         /\ node[n].reached /\ ~node[n].ack => ~node[n].running
         /\ node[n].unready # {} => n = Host /\ ~node[n].ack
         /\ node[n].queue # <<>> => \A i \in 2 .. Len(node[n].queue) : node[n].queue[i - 1].tick <= node[n].queue[i].tick
    /\ crashed \subseteq Others(Host) /\ checking \in [Client -> BOOLEAN]

\* Synchronous control never comes too late ("The host should make sure this
\* doesn't happen").
NeverTooLate == \A n \in Live : ~node[n].fatal

\* Everybody executes the same synchronous control in the same order and ticks.
SameSyncs ==
    \A n, m \in Live :
        \A i \in DOMAIN node[n].syncs \cap DOMAIN node[m].syncs :
            node[n].syncs[i] = node[m].syncs[i]

\* Everybody waits for the same clients and executes the same control ("each client
\* runs the same frame", docs/contributors/network.md).  Violated when the network
\* thread packs control with the list of clients of before (SetRunning), and when a
\* client that is activated again sends control for a tick once more (ExecControl).
SameControl ==
    \A n, m \in Live : \A d \in node[n].done, e \in node[m].done :
        d.tick = e.tick => d = e

\* A computer is gone, or it is a host whose clients all got lost one after the
\* other while they could have come back: when their time is up nobody sets a
\* status again that only they could have reached (C4Network2.cpp:1951 does so
\* only when the feature is off).
GivenUp(n) == n \in crashed \/ (game.reconnect /\ Cardinality(crashed) > 1)

\* Synchronous control is executed in the end ("garantueed that the control is
\* actually executed within a fixed time"): the removal of a lost client, at once
\* or when its time to come back is up, by the host.
LostRemoved ==
    \A c \in Client \ {Host} : c \in crashed ~> (c \notin node[Host].active \/ GivenUp(Host))

\* Every status is acknowledged, though clients get lost.
StatusAcknowledged ==
    \A n \in Client : ~node[n].ack ~> (node[n].ack \/ GivenUp(n))
=============================================================================
