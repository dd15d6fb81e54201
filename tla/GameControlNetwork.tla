-------------------------- MODULE GameControlNetwork --------------------------
(***************************************************************************)
(* The lock-step control engine of a network game (C4GameControlNetwork)   *)
(* as it is driven by C4GameControl::Prepare/Execute/Ticks.                *)
(*                                                                         *)
(* Every client collects the input of its user in one packet per control   *)
(* tick and sends it ahead of time (PreSend).  A control tick is executed  *)
(* when the complete control of that tick, one packet that holds the input *)
(* of all activated clients, has been packed or received.  In decentral    *)
(* mode everybody packs it himself, in central and async mode only the     *)
(* host does and broadcasts it; in async mode the host gives up on clients *)
(* that are too late.                                                      *)
(*                                                                         *)
(* A packet carries a partial function from clients to their input: the    *)
(* code appends the inputs in the order of the client IDs (the list        *)
(* pClients is kept sorted), so who contributed what determines the        *)
(* concatenation.  The set of activated clients is fixed here; activation  *)
(* and the status protocol that changes it are in module NetStatus.        *)
(***************************************************************************)
EXTENDS Integers, FiniteSets

CONSTANTS
    Client,       \* all computers in the network, the host among them
    Host,
    Activated,    \* the clients in pClients: those that send control
    All,          \* C4ClientIDAll, the sender of a complete control
    Mode,         \* eMode: "Decentral", "Central" or "Async"
    Input,        \* what a user can put into the control of one tick
    ResInput,     \* the inputs that need a network resource (JoinPlayer by resource)
    ControlRate,  \* frames per control tick
    PreSend,      \* the largest iControlPreSend, in frames
    Backlog,      \* C4ControlBacklog
    Settings,     \* what the status protocol may set: <<running, target tick or -1>>
    MaxTick,      \* bound: no control is sent for a later tick
    Setups        \* the games that are looked at, one of which is played

NoTick == -1

\* What a game is played with:
\*   settings  those of Settings that the status protocol uses
\*   input     those of Input that the users choose from
\*   asked     the requests everybody sends in Init are still on their way
\*   lossy     the network may lose messages
Setup == [settings : SUBSET Settings, input : SUBSET Input, asked : BOOLEAN, lossy : BOOLEAN]

ASSUME ClientAssumption ==
    /\ Host \in Client
    /\ Activated \subseteq Client
    /\ All \notin Client
    /\ ResInput \subseteq Input
ASSUME ModeAssumption == Mode \in {"Decentral", "Central", "Async"}
ASSUME TickAssumption ==
    /\ ControlRate \in Nat \ {0}
    /\ PreSend \in Nat
    /\ Backlog \in Nat \ {0}
    /\ Settings \subseteq BOOLEAN \X (Nat \cup {NoTick})
    /\ MaxTick \in Nat
ASSUME SetupAssumption == Setups \subseteq Setup

\* What a control packet holds: the inputs of some clients.
Ctrl == UNION {[S -> Input] : S \in SUBSET Client}

Packet == [id : Client \cup {All}, tick : Nat, ctrl : Ctrl]

VARIABLES
    ControlTick,    \* next tick to execute (or, within a tick, the current one)
    frame,          \* FrameCounter % ControlRate
    iControlSent,   \* last tick own control was sent for
    iControlReady,  \* last tick the complete control is ready for
    pCtrlStack,     \* control packets known
    fRunning,
    iTargetTick,
    resLoaded,      \* the resources a client has finished loading
    net,            \* control packets on their way
    req,            \* control requests on their way
    executed,       \* history: the complete control packets executed
    given,          \* history: the packets a client made out of its user's input
    setup           \* what the game is played with

tickVars == <<ControlTick, frame>>
history  == <<executed, given>>
vars == <<ControlTick, frame, iControlSent, iControlReady, pCtrlStack, fRunning,
          iTargetTick, resLoaded, net, req, executed, given, setup>>

-----------------------------------------------------------------------------
\* C4GameControl::getCtrlTick: the control tick of the frame that is d frames
\* ahead.  Whole multiples of ControlRate in FrameCounter cancel out.
getCtrlTick(n, d) == ControlTick[n] + (frame[n] + d) \div ControlRate

\* Mutant: control is sent as early as possible.
CtrlNeeded_NoPreSend(n) ==
    /\ n \in Activated
    /\ iTargetTick[n] >= 0 => iControlSent[n] < iTargetTick[n]

CtrlNeeded(n) ==
    /\ n \in Activated
    /\ iTargetTick[n] >= 0 => iControlSent[n] < iTargetTick[n]
    /\ getCtrlTick(n, PreSend) > iControlSent[n]

\* Mutant: the tick is not compared.
getCtrl_AnyTick(S, id, t) == {p \in S : p.id = id}

\* The packets getCtrl(id, t) may return.
getCtrl(S, id, t) == {p \in S : p.id = id /\ p.tick = t}

\* Everything before a tick is removed; -1 removes everything.
ClearCtrl(S, iBeforeTick) ==
    IF iBeforeTick = -1 THEN {} ELSE {p \in S : p.tick >= iBeforeTick}

\* Mutants: the first ticks are not treated apart; one tick less is kept.
ClearBacklog_Always(n, S) == ClearCtrl(S, ControlTick[n] - Backlog)
ClearBacklog_OneMore(n, S) ==
    IF ControlTick[n] >= Backlog THEN ClearCtrl(S, ControlTick[n] - Backlog + 1) ELSE S

ClearBacklog(n, S) ==
    IF ControlTick[n] >= Backlog THEN ClearCtrl(S, ControlTick[n] - Backlog) ELSE S

\* A JoinPlayer control can be executed when its resource was loaded; the
\* client that joins the player has it.
PreExecute(n, ctrl) ==
    \A c \in DOMAIN ctrl \ {n} : ctrl[c] \in ResInput => ctrl[c] \in resLoaded'[n]

Contributors(S, t) == {c \in Activated : getCtrl(S, c, t) # {}}

Packed(S, t) ==
    [id |-> All, tick |-> t,
     ctrl |-> [c \in Contributors(S, t) |-> (CHOOSE p \in getCtrl(S, c, t) : TRUE).ctrl[c]]]

\* Mutants: control is packed without waiting for everybody; clients of the host
\* pack, too; own control has to be a tick ahead.
CanPack_Partial(n, S, t, late) ==
    /\ n \in Activated => iControlSent'[n] >= t
    /\ Activated = {} => ControlTick[n] >= t
    /\ iTargetTick'[n] >= 0 => t < iTargetTick'[n]
    /\ Mode = "Decentral" \/ n = Host
CanPack_Everybody(n, S, t, late) ==
    /\ n \in Activated => iControlSent'[n] >= t
    /\ Activated = {} => ControlTick[n] >= t
    /\ iTargetTick'[n] >= 0 => t < iTargetTick'[n]
    /\ Contributors(S, t) = Activated \/ late
CanPack_SentLater(n, S, t, late) ==
    /\ n \in Activated => iControlSent'[n] > t
    /\ Activated = {} => ControlTick[n] >= t
    /\ iTargetTick'[n] >= 0 => t < iTargetTick'[n]
    /\ Mode = "Decentral" \/ n = Host
    /\ Contributors(S, t) = Activated \/ late

\* The control of tick t can be packed by n out of the packets S.  All earlier
\* ticks are ready then, so iControlReady is t-1.
CanPack(n, S, t, late) ==
    /\ n \in Activated => iControlSent'[n] >= t
    /\ Activated = {} => ControlTick[n] >= t
    /\ iTargetTick'[n] >= 0 => t < iTargetTick'[n]
    /\ Mode = "Decentral" \/ n = Host
    /\ Contributors(S, t) = Activated \/ late

\* The complete control of a tick: found, or else packed.
Complete(n, S, t, late) ==
    IF getCtrl(S, All, t) # {} THEN getCtrl(S, All, t)
    ELSE IF CanPack(n, S, t, late) THEN {Packed(S, t)} ELSE {}

TickReady(n, S, t, late) == \E p \in Complete(n, S, t, late) : PreExecute(n, p.ctrl)

To(dest, P) == [to : dest, pkt : P]

\* CheckCompleteCtrl, called with the packets S in the stack after the caller
\* has sent "out".  The loop makes tick after tick ready and stops at the first
\* one that is not complete or cannot be executed yet; a control that is packed
\* but not yet executable stays in the stack.  "late" is the timeout of async
\* mode, which runs from the time a control tick is reached (iWaitStart) until
\* it is executed, "elapsed" the timer of the control requests (which packing
\* resets).
CheckCompleteCtrl(n, S, out) ==
    IF ~fRunning'[n]
    THEN /\ pCtrlStack' = [pCtrlStack EXCEPT ![n] = S]
         /\ net' = net \cup out
         /\ UNCHANGED <<iControlReady, req>>
    ELSE \E late \in IF Mode = "Async" /\ frame[n] = 0 THEN BOOLEAN ELSE {FALSE},
            elapsed \in BOOLEAN,
            r \in iControlReady[n] .. (MaxTick + 1) :
         LET new == (iControlReady[n] + 1) .. (r + 1)
             packed == (UNION {Complete(n, S, t, late) : t \in new}) \ S
             others == Client \ {n}
         IN  /\ \A t \in new \ {r + 1} : TickReady(n, S, t, late)
             /\ ~TickReady(n, S, r + 1, late)
             /\ iControlReady' = [iControlReady EXCEPT ![n] = r]
             /\ pCtrlStack' = [pCtrlStack EXCEPT ![n] = ClearBacklog(n, S \cup packed)]
             /\ net' = net \cup out \cup
                       (IF Mode = "Decentral" THEN {} ELSE To(others, packed))
             /\ req' = IF /\ elapsed /\ packed = {}
                          /\ r < iTargetTick'[n]
                          /\ n \in Activated => iControlSent'[n] > r
                       THEN req \cup [to : IF Mode = "Central" THEN {Host} \ {n} ELSE others,
                                      from : {n}, tick : {r + 1}]
                       ELSE req

-----------------------------------------------------------------------------
\* All clients have just called Init at control tick 0 and asked everybody for
\* control that might have been lost.
Init ==
    /\ setup \in Setups
    /\ ControlTick = [n \in Client |-> 0]
    /\ frame = [n \in Client |-> 0]
    /\ iControlSent = [n \in Client |-> -1]
    /\ iControlReady = [n \in Client |-> -1]
    /\ pCtrlStack = [n \in Client |-> {}]
    /\ fRunning = [n \in Client |-> FALSE]
    /\ iTargetTick = [n \in Client |-> NoTick]
    /\ resLoaded = [n \in Client |-> {}]
    /\ net = {}
    /\ req = {m \in [to : Client, from : Client, tick : {0}] : setup.asked /\ m.to # m.from}
    /\ executed = [n \in Client |-> {}]
    /\ given = [n \in Client |-> {}]

\* Own control is due: it is sent to the host or to everybody.
DoInput(n, i) ==
    /\ CtrlNeeded(n)
    /\ iControlSent[n] < MaxTick
    /\ LET p == [id |-> n, tick |-> iControlSent[n] + 1, ctrl |-> [c \in {n} |-> i]]
           dest == IF Mode = "Decentral" THEN Client \ {n} ELSE {Host} \ {n}
       IN  /\ iControlSent' = [iControlSent EXCEPT ![n] = @ + 1]
           /\ given' = [given EXCEPT ![n] = @ \cup {p}]
           /\ UNCHANGED <<tickVars, fRunning, iTargetTick, resLoaded, executed, setup>>
           /\ CheckCompleteCtrl(n, pCtrlStack[n] \cup {p}, To(dest, {p}))

\* C4GameControl::Prepare at a control tick: CtrlReady checks for complete
\* control, again and again until it is there.
Prepare(n) ==
    /\ frame[n] = 0
    /\ UNCHANGED <<tickVars, iControlSent, fRunning, iTargetTick, resLoaded, history, setup>>
    /\ CheckCompleteCtrl(n, pCtrlStack[n], {})

\* C4GameControl::Execute and Ticks: a frame is executed, at a control tick with
\* the control of that tick.  GetControl can fail; the tick passes all the same.
ExecFrame(n) ==
    /\ fRunning[n]
    /\ ControlTick[n] <= MaxTick
    /\ frame[n] = 0 => iControlReady[n] >= ControlTick[n]
    /\ LET next == (frame[n] + 1) % ControlRate
           ctrl == getCtrl(pCtrlStack[n], All, ControlTick[n])
       IN  /\ frame' = [frame EXCEPT ![n] = next]
           /\ ControlTick' = [ControlTick EXCEPT ![n] = IF next = 0 THEN @ + 1 ELSE @]
           /\ executed' = [executed EXCEPT ![n] = IF frame[n] = 0 THEN @ \cup ctrl ELSE @]
    /\ UNCHANGED <<iControlSent, iControlReady, pCtrlStack, fRunning, iTargetTick,
                   resLoaded, net, req, given, setup>>

HandleControl(n, p) ==
    /\ [to |-> n, pkt |-> p] \in net
    /\ getCtrl(pCtrlStack[n], p.id, p.tick) = {}
    /\ UNCHANGED <<tickVars, iControlSent, fRunning, iTargetTick, resLoaded, history, setup>>
    /\ CheckCompleteCtrl(n, pCtrlStack[n] \cup {p}, {})

\* Mutant: only complete control is sent again.
HandleControlReq_OnlyComplete(m) ==
    /\ m \in req
    /\ net' = net \cup To({m.from}, {p \in pCtrlStack[m.to] : p.id = All /\ p.tick >= m.tick})
    /\ req' = req \ {m}
    /\ UNCHANGED <<tickVars, iControlSent, iControlReady, pCtrlStack, fRunning,
                   iTargetTick, resLoaded, history, setup>>

\* From the requested tick on, the complete control is sent, or else whatever
\* is known of the tick, up to the first tick of which nothing is known.
HandleControlReq(m) ==
    /\ m \in req
    /\ LET S == pCtrlStack[m.to]
           known(t) == \E p \in S : p.tick = t
           answer == {p \in S : /\ p.tick >= m.tick
                                /\ \A t \in m.tick .. p.tick : known(t)
                                /\ p.id = All \/ getCtrl(S, All, p.tick) = {}}
       IN  net' = net \cup To({m.from}, answer)
    /\ req' = req \ {m}
    /\ UNCHANGED <<tickVars, iControlSent, iControlReady, pCtrlStack, fRunning,
                   iTargetTick, resLoaded, history, setup>>

\* The status protocol starts the control, maybe up to a target tick, or stops it.
SetRunning(n, run, target) ==
    /\ fRunning[n] # run \/ iTargetTick[n] # target
    /\ fRunning' = [fRunning EXCEPT ![n] = run]
    /\ iTargetTick' = [iTargetTick EXCEPT ![n] = target]
    /\ UNCHANGED <<tickVars, iControlSent, resLoaded, history, setup>>
    /\ CheckCompleteCtrl(n, pCtrlStack[n], {})

\* A player file was loaded.
OnResComplete(n, i) ==
    /\ i \in ResInput \ resLoaded[n]
    /\ resLoaded' = [resLoaded EXCEPT ![n] = @ \cup {i}]
    /\ UNCHANGED <<tickVars, iControlSent, fRunning, iTargetTick, history, setup>>
    /\ CheckCompleteCtrl(n, pCtrlStack[n], {})

\* A connection breaks down and takes a message with it.
Lose ==
    /\ setup.lossy
    /\ \/ \E m \in net : net' = net \ {m} /\ UNCHANGED req
       \/ \E m \in req : req' = req \ {m} /\ UNCHANGED net
    /\ UNCHANGED <<tickVars, iControlSent, iControlReady, pCtrlStack, fRunning,
                   iTargetTick, resLoaded, history, setup>>

Next ==
    \/ \E n \in Client :
         \/ \E i \in Input : i \in setup.input /\ DoInput(n, i)
         \/ Prepare(n)
         \/ ExecFrame(n)
         \/ \E s \in Settings : s \in setup.settings /\ SetRunning(n, s[1], s[2])
         \/ \E i \in ResInput : OnResComplete(n, i)
    \/ \E m \in net : HandleControl(m.to, m.pkt)
    \/ \E m \in req : HandleControlReq(m)
    \/ Lose

Spec == Init /\ [][Next]_vars
-----------------------------------------------------------------------------
TypeOK ==
    /\ ControlTick \in [Client -> Nat]
    /\ frame \in [Client -> 0 .. (ControlRate - 1)]
    /\ iControlSent \in [Client -> Int]
    /\ iControlReady \in [Client -> Int]
    /\ \A n \in Client : iControlSent[n] >= -1 /\ iControlReady[n] >= -1
    /\ pCtrlStack \in [Client -> SUBSET Packet]
    /\ fRunning \in [Client -> BOOLEAN]
    /\ iTargetTick \in [Client -> Nat \cup {NoTick}]
    /\ resLoaded \in [Client -> SUBSET ResInput]
    /\ net \subseteq [to : Client, pkt : Packet]
    /\ req \subseteq [to : Client, from : Client, tick : Nat]
    /\ executed \in [Client -> SUBSET Packet]
    /\ given \in [Client -> SUBSET Packet]

\* No two clients ever execute different control for the same tick: nobody
\* loses synchronization because of the control (the point of the engine:
\* PackCompleteCtrl, HandleControl, HandleControlReq, ClearCtrl).
Agreement ==
    \A n, m \in Client : \A p \in executed[n], q \in executed[m] :
        p.tick = q.tick => p.ctrl = q.ctrl

\* What is executed for a client is what that client put into its packet for
\* exactly this tick, and outside of async mode nobody is left out: no input is
\* lost, moved to another tick or executed twice (DoInput, PackCompleteCtrl).
InputFaithful ==
    \A n \in Client : \A p \in executed[n] :
        /\ \A c \in DOMAIN p.ctrl :
              [id |-> c, tick |-> p.tick, ctrl |-> [d \in {c} |-> p.ctrl[c]]] \in given[c]
        /\ Mode # "Async" => DOMAIN p.ctrl = Activated

\* Control is executed tick by tick without a gap; C4GameControl::Execute never
\* reports that it "could not retrieve control": neither ClearCtrl nor a late
\* packet takes away the control of a tick that was found ready.
NoControlMissing ==
    \A n \in Client :
        {p.tick : p \in executed[n]} =
            {t \in 0 .. ControlTick[n] : t < ControlTick[n] \/ frame[n] > 0}

\* Nobody runs away: a client is at most the PreSend of the slowest activated
\* client ahead of it (CtrlNeeded, PackCompleteCtrl).  Async mode gives this up.
RunAhead == (ControlRate - 1 + PreSend) \div ControlRate
NoRunaway ==
    Mode # "Async" =>
        \A n \in Client, c \in Activated : ControlTick[n] <= ControlTick[c] + RunAhead + 1

\* Control that an activated client still lacks for a tick somebody else has
\* executed was not yet cleared there: a request can be answered.  This is why
\* C4MaxPreSend "must be smaller than C4ControlBacklog".
RequestCanBeAnswered ==
    Mode # "Async" =>
        \A n \in Client, c \in Activated : \A p \in executed[n] :
            p.tick > iControlReady[c] => p \in pCtrlStack[n]

-----------------------------------------------------------------------------
\* Refinement: all complete control that is known anywhere is the log.
Entries(P) == {[tick |-> p.tick, ctrl |-> p.ctrl] : p \in P}

Known ==
    (UNION {pCtrlStack[n] \cup executed[n] : n \in Client}) \cup {m.pkt : m \in net}

Log == INSTANCE ControlLog WITH
    log  <- Entries({p \in Known : p.id = All}),
    done <- [n \in Client |-> Entries(executed[n])]

\* The clients execute one log of control that never changes once an entry was
\* packed somewhere, whatever is sent again, comes late or is cleared.
ImplementsLog == Log!Spec
-----------------------------------------------------------------------------
\* Why the engine keeps this promise: the inductive invariant of the proofs.

\* The packet of client c that the part of c in the complete control p was
\* taken from.
Part(p, c) == [id |-> c, tick |-> p.tick, ctrl |-> [d \in {c} |-> p.ctrl[c]]]

\* A client never makes two packets for one tick.
GivenInv ==
    \A c \in Client : \A p \in given[c] :
        /\ p.id = c /\ p.tick <= iControlSent[c]
        /\ DOMAIN p.ctrl = {c}
        /\ \A q \in given[c] : p.tick = q.tick => p = q

\* A packet is what its client made, or was packed out of such packets.
PacketInv ==
    \A p \in Known :
        IF p.id = All
        THEN /\ \A c \in DOMAIN p.ctrl : Part(p, c) \in given[c]
             /\ Mode # "Async" => DOMAIN p.ctrl = Activated
        ELSE p \in given[p.id]

\* When only the host packs, there is one complete control of a tick, and the
\* host still has one that it packed but could not execute yet.
HostInv ==
    Mode # "Decentral" =>
        \A p \in Known : p.id = All =>
            /\ p.tick <= iControlReady[Host] + 1
            /\ p.tick = iControlReady[Host] + 1 => p \in pCtrlStack[Host]
            /\ \A q \in Known : q.id = All /\ q.tick = p.tick => p = q

\* Nobody gets ahead of the control that is ready, and what is ready is there
\* until it was executed.
ReadyInv ==
    \A n \in Client :
        /\ ControlTick[n] <= iControlReady[n] + 1
        /\ frame[n] > 0 => ControlTick[n] <= iControlReady[n]
        /\ \A t \in ControlTick[n] .. iControlReady[n] : getCtrl(pCtrlStack[n], All, t) # {}
        /\ \A p \in executed[n] : p.id = All

IInv == TypeOK /\ GivenInv /\ PacketInv /\ HostInv /\ ReadyInv

-----------------------------------------------------------------------------
\* What the main loop and the network do for a client sooner or later.  A
\* message that is sent again and again gets through in the end.
Fairness ==
    /\ \A n \in Client :
         /\ WF_vars(\E i \in Input : i \in setup.input /\ DoInput(n, i))
         /\ WF_vars(Prepare(n))
         /\ WF_vars(ExecFrame(n))
         /\ \A i \in ResInput : WF_vars(OnResComplete(n, i))
         /\ SF_vars(\E m \in net : m.to = n /\ HandleControl(n, m.pkt))
         /\ \A m \in Client : SF_vars(\E q \in req : q.to = m /\ q.from = n /\ HandleControlReq(q))

FairSpec == Spec /\ Fairness

\* Without losses the game goes on for all clients that were started, at the
\* latest when all players' resources were loaded (CheckCompleteCtrl, OnResComplete).
Progress ==
    (\A n \in Client : fRunning[n]) ~> (\A n \in Client : ControlTick[n] > MaxTick)

\* However many messages get lost, clients that were all told to run to a target
\* tick get there: what is missing is asked for again (CheckCompleteCtrl) by
\* somebody and answered by somebody (HandleControlReq).
ReachTarget ==
    \A s \in Settings \cap ({TRUE} \X Nat) :
        (\A n \in Client : <<fRunning[n], iTargetTick[n]>> = s)
            ~> (\A n \in Client : ControlTick[n] >= s[2])
=============================================================================
