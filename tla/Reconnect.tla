------------------------------ MODULE Reconnect ------------------------------
(***************************************************************************)
(* A client that loses the host and comes back (src/src/C4Reconnect.cpp,   *)
(* and the parts of C4Network2.cpp and C4Network2Client.cpp that use it):  *)
(* the host keeps a dormant entry for a while, both sides call each other  *)
(* again, the client asks to be taken back, gets the state of the game and *)
(* catches up with the others.                                             *)
(*                                                                         *)
(* The round is running; its status "Go" is acknowledged all the time.     *)
(* There is one protocol for messages, so a client has one connection, or  *)
(* two when both sides called.  A connection delivers in order until it    *)
(* breaks or is closed; NetConnection has the details.  Control itself is  *)
(* left out: a client "runs" when nothing stops its control any more.      *)
(***************************************************************************)
EXTENDS Integers, Sequences, SequencesExt

CONSTANTS MaxLinks,     \* bound: connections that come about, the first included
          MaxBreaks,    \* bound: connections that break
          HostAttempts, ClientAttempts   \* C4NetClientConnectAttempts + 1 for each address

ASSUME BoundsAssumption ==
    MaxLinks \in Nat \ {0} /\ MaxBreaks \in Nat /\ HostAttempts \in Nat /\ ClientAttempts \in Nat

Side == {"host", "client"}
MaxAttempts(s) == IF s = "host" THEN HostAttempts ELSE ClientAttempts
Link == 1..MaxLinks
NoLink == 0

VARIABLES
    net,     \* phys[l]: "Free", "Up", "Broken" or "Shut" (by one side); at[s][l]: what s
             \* holds of it, "None", "Half" accepted, "Open", "Closing" until the main
             \* thread knows, "Closed"; wire[s][l]: what comes to s, in order
    node,    \* node[s]: the connections s uses for messages and data, attempts made
    host,    \* status of the client, number of its dormant entries, its removal is on its
             \* way, iLastChaseTargetUpdate is set; history: the connection the client was
             \* taken back with (backLink), as long as neither side has another one (only)
    client,  \* fReconnectInProgress, fReconnectSent and on which connection, its time is
             \* over, the network is cleared; the status is reached, its control runs, the
             \* target; history: the connection the state of the game came on (restored)
    breaks   \* connections that broke so far
vars == <<net, node, host, client, breaks>>

\* Chase targets are told apart, no more: a new one is unlike any that is around.
Target == 0..2
Simple(t)     == [type |-> t]
Status(x)     == [type |-> "Status", target |-> x]
StatusAck(x)  == [type |-> "StatusAck", target |-> x]

-----------------------------------------------------------------------------
(* Connections *)

isOpen(n, s, l)   == n.at[s][l] = "Open"
isConnected(d)    == d.msg # NoLink

\* To side s.  What is sent on a connection that is no more gets lost.
Push(n, s, l, p) == IF l # NoLink /\ n.phys[l] = "Up" THEN [n EXCEPT !.wire[s][l] = Append(@, p)] ELSE n

Close(n, s, l) ==
    IF n.at[s][l] \in {"Half", "Open"}
    THEN [n EXCEPT !.at[s][l] = "Closing", !.phys[l] = IF @ = "Up" THEN "Shut" ELSE @] ELSE n

SetMsgConn(d, l) == [d EXCEPT !.msg = l, !.data = IF @ = NoLink THEN l ELSE @]

RemoveConn(d, l) ==
    LET m == IF d.msg = l THEN NoLink ELSE d.msg
        t == IF d.data = l THEN NoLink ELSE d.data
    IN  [d EXCEPT !.msg = IF m = NoLink THEN t ELSE m, !.data = IF t = NoLink THEN m ELSE t]

\* The connections a side uses are closed; it uses none then.
CloseConns(n, s, d) ==
    LET shut(k, l) == IF l = NoLink THEN k ELSE Close(k, s, l)
    IN  shut(shut(n, d.msg), d.data)
NoConns(d) == [d EXCEPT !.msg = NoLink, !.data = NoLink]

\* The network of the client is cleared: nothing is left on its side.
ClearNet(n) ==
    [n EXCEPT !.at["client"]   = [l \in Link |-> IF @[l] = "None" THEN "None" ELSE "Closed"],
              !.wire["client"] = [l \in Link |-> <<>>],
              !.phys = [l \in Link |-> IF @[l] = "Up" THEN "Shut" ELSE @[l]]]

-----------------------------------------------------------------------------
(* What a side does when it has lost its last connection to the other *)

\* Mutant: a second disconnection stacks another entry.
EnterDormancy_Stacks(h) == [h EXCEPT !.status = "Dormant", !.entries = @ + 1, !.backLink = NoLink, !.only = NoLink]

\* C4Reconnect::EnterDormancy.  A second call puts off the end of the entry only.
EnterDormancy(h) ==
    IF h.entries > 0 THEN [h EXCEPT !.backLink = NoLink, !.only = NoLink]
    ELSE [h EXCEPT !.status = "Dormant", !.entries = 1, !.backLink = NoLink, !.only = NoLink]

\* C4Network2::Clear.
Clear(c) == [armed |-> FALSE, sent |-> FALSE, sentLink |-> NoLink, late |-> FALSE, gone |-> TRUE,
             reached |-> TRUE, runs |-> FALSE, target |-> c.target, restored |-> NoLink]

\* C4Network2::TryReconnectToHost, and what OnClientDisconnect does when it fails.
TryReconnectToHost(c) ==
    IF ~c.armed THEN [c EXCEPT !.armed = TRUE, !.sent = FALSE, !.late = FALSE]
    ELSE IF c.late THEN Clear(c)
    ELSE c

\* C4Network2::OnClientDisconnect for side s, if it is not connected with d.
Disconnected(s, n, d) ==
    IF isConnected(d)
    THEN /\ net' = n /\ node' = [node EXCEPT ![s] = d]
         /\ UNCHANGED <<host, client>>
    ELSE IF s = "host"
    THEN /\ net' = n /\ node' = [node EXCEPT ![s] = d]
         /\ host' = IF host.status = "Deleted" THEN host ELSE EnterDormancy(host)
         /\ UNCHANGED client
    ELSE /\ client' = IF client.gone THEN client ELSE TryReconnectToHost(client)
         /\ net' = IF client'.gone THEN ClearNet(n) ELSE n
         /\ node' = [node EXCEPT ![s] = d]
         /\ UNCHANGED host

-----------------------------------------------------------------------------
(* Connections come and go *)

Break(l) ==
    /\ breaks < MaxBreaks /\ net.phys[l] = "Up"
    /\ net' = [net EXCEPT !.phys[l] = "Broken"]
    /\ breaks' = breaks + 1
    /\ UNCHANGED <<node, host, client>>

\* C4Network2Client::DoConnectAttempt: as long as there is no connection.  The
\* attempts of an address are never counted from zero again.
MayDial(s) ==
    /\ ~isConnected(node[s]) /\ node[s].attempts < MaxAttempts(s)
    /\ IF s = "host" THEN host.status \notin {"Remove", "Deleted"} ELSE ~client.gone

\* A client that was deleted is not accepted any more (C4Network2::Join), nor
\* does a client answer that has cleared its network.
Dial(s, l) ==
    /\ MayDial(s) /\ net.phys[l] = "Free" /\ \A k \in 1..l - 1 : net.phys[k] # "Free"
    /\ host.status # "Deleted" /\ ~client.gone
    /\ net' = [phys |-> [net.phys EXCEPT ![l] = "Up"],
               at   |-> [t \in Side |-> [net.at[t] EXCEPT ![l] = "Half"]],
               wire |-> [t \in Side |-> [net.wire[t] EXCEPT ![l] = <<Simple("ConnRe")>>]]]
    /\ node' = [node EXCEPT ![s].attempts = @ + 1]
    /\ UNCHANGED <<host, client, breaks>>

\* An attempt fails; so it did not last until there is another connection.
DialFails(s) ==
    /\ MayDial(s)
    /\ Disconnected(s, net, [node[s] EXCEPT !.attempts = @ + 1])
    /\ UNCHANGED breaks

\* C4Network2::OnDisconn: the main thread learns that a connection has gone.
\* What came on it and was not handled is lost.
OnDisconn(s, l) ==
    /\ \/ net.at[s][l] = "Closing"
       \/ net.at[s][l] \in {"Half", "Open"} /\ net.phys[l] # "Up"
    /\ Disconnected(s, [net EXCEPT !.at[s][l] = "Closed", !.wire[s][l] = <<>>], RemoveConn(node[s], l))
    /\ UNCHANGED breaks

-----------------------------------------------------------------------------
(* Packets *)

Comes(s, l, t) ==
    net.at[s][l] \in {"Half", "Open", "Closing"} /\ net.wire[s][l] # <<>> /\ Head(net.wire[s][l]).type = t
Rest(s, l) == [net EXCEPT !.wire[s][l] = Tail(@)]

\* C4Network2::HandleConnRe.
HandleConnRe(s, l) ==
    /\ Comes(s, l, "ConnRe")
    /\ IF s = "host" /\ host.status = "Deleted"
       THEN net' = Close(Rest(s, l), s, l) /\ UNCHANGED node
       ELSE IF net.at[s][l] = "Half"
       THEN net' = [Rest(s, l) EXCEPT !.at[s][l] = "Open"] /\ node' = [node EXCEPT ![s] = SetMsgConn(@, l)]
       ELSE net' = Rest(s, l) /\ UNCHANGED node
    /\ host' = IF node' = node THEN host ELSE [host EXCEPT !.only = NoLink]
    /\ UNCHANGED <<client, breaks>>

\* Mutant: sends again in each round until the answer has come.
SendReconnIfConnected_Always ==
    /\ client.armed /\ node["client"].msg # NoLink /\ isOpen(net, "client", node["client"].msg)
    /\ \A l \in Link : Len(net.wire["host"][l]) < 2
    /\ net' = Push(net, "host", node["client"].msg, Simple("Reconn"))
    /\ client' = [client EXCEPT !.sent = TRUE, !.sentLink = node["client"].msg]
    /\ UNCHANGED <<node, host, breaks>>

\* C4Network2::Execute: once, on the first connection to the host that is open.
SendReconnIfConnected ==
    /\ client.armed /\ ~client.sent
    /\ node["client"].msg # NoLink /\ isOpen(net, "client", node["client"].msg)
    /\ net' = Push(net, "host", node["client"].msg, Simple("Reconn"))
    /\ client' = [client EXCEPT !.sent = TRUE, !.sentLink = node["client"].msg]
    /\ UNCHANGED <<node, host, breaks>>

\* C4ClientList::CtrlRemove: the removal is executed later.
CtrlRemove(h) == [h EXCEPT !.status = "Remove", !.removing = TRUE, !.backLink = NoLink, !.only = NoLink]

\* The new connection is taken off before the old ones are closed.
Reassociate(l) ==
    LET others == RemoveConn(node["host"], l)
    IN  [net |-> CloseConns(Rest("host", l), "host", others), conns |-> SetMsgConn(NoConns(others), l)]

\* Mutant: UpdateChaseTarget is not primed.
Back_NotPrimed(h, l) ==
    [h EXCEPT !.status = "Chasing", !.entries = @ - 1, !.backLink = l,
              !.only = IF node["client"].msg = l THEN l ELSE NoLink]

Back(h, l) ==
    [h EXCEPT !.status = "Chasing", !.entries = @ - 1, !.chase = TRUE, !.backLink = l,
              !.only = IF node["client"].msg = l THEN l ELSE NoLink]

\* Mutant: a request that is refused leaves the connection open.
HandleReconn_KeepsOpen(l) ==
    /\ Comes("host", l, "Reconn")
    /\ IF ~isOpen(net, "host", l)
       THEN net' = Rest("host", l) /\ UNCHANGED <<node, host>>
       ELSE IF host.entries = 0
       THEN net' = Rest("host", l) /\ UNCHANGED <<node, host>>
       ELSE LET r == Reassociate(l)
            IN  /\ node' = [node EXCEPT !["host"] = r.conns]
                /\ \/ net' = Push(r.net, "client", l, Simple("JoinData")) /\ host' = Back(host, l)
                   \/ net' = r.net /\ host' = CtrlRemove(Back(host, l))
    /\ UNCHANGED <<client, breaks>>

\* PID_Reconn: C4Reconnect::HandleReconn and what C4Network2::HandlePacket does
\* with the answer.  The snapshot may fail.
HandleReconn(l) ==
    /\ Comes("host", l, "Reconn")
    /\ IF ~isOpen(net, "host", l)
       THEN net' = Rest("host", l) /\ UNCHANGED <<node, host>>
       ELSE IF host.entries = 0
       THEN net' = Close(Rest("host", l), "host", l) /\ UNCHANGED <<node, host>>
       ELSE LET r == Reassociate(l)
            IN  /\ node' = [node EXCEPT !["host"] = r.conns]
                /\ \/ net' = Push(r.net, "client", l, Simple("JoinData")) /\ host' = Back(host, l)
                   \/ net' = r.net /\ host' = CtrlRemove(Back(host, l))
    /\ UNCHANGED <<client, breaks>>

\* C4Network2::HandleReconnectJoinData: the control starts anew and stands, the
\* status stays what it was.
HandleReconnectJoinData(l) ==
    /\ Comes("client", l, "JoinData")
    /\ net' = Rest("client", l)
    /\ client' = IF ~isOpen(net, "client", l) THEN client
                 ELSE [client EXCEPT !.armed = FALSE, !.sent = FALSE, !.sentLink = NoLink, !.late = FALSE,
                                !.runs = FALSE, !.restored = l]
    /\ UNCHANGED <<node, host, breaks>>

\* C4Network2::HandleStatus.
HandleStatus(l) ==
    /\ Comes("client", l, "Status")
    /\ net' = Rest("client", l)
    /\ client' = IF ~isOpen(net, "client", l) THEN client
                 ELSE [client EXCEPT !.reached = FALSE, !.runs = FALSE, !.target = Head(net.wire["client"][l]).target]
    /\ UNCHANGED <<node, host, breaks>>

\* C4Network2::CheckStatusReached: the client has run to the target.
CheckStatusReached ==
    /\ ~client.reached /\ ~client.gone
    /\ client' = [client EXCEPT !.reached = TRUE, !.runs = FALSE]
    /\ net' = Push(net, "host", node["client"].msg, StatusAck(client.target))
    /\ UNCHANGED <<node, host, breaks>>

\* C4Network2::HandleStatusAck at the host; the status itself is acknowledged.
HostStatusAck(l) ==
    /\ Comes("host", l, "StatusAck")
    /\ IF host.status \in {"Remove", "Deleted"}
       THEN net' = Rest("host", l) /\ UNCHANGED host
       ELSE /\ net' = Push(Rest("host", l), "client", node["host"].msg, Head(net.wire["host"][l]))
            /\ host' = [host EXCEPT !.status = "Ready"]
    /\ UNCHANGED <<node, client, breaks>>

\* C4Network2::HandleStatusAck at the client.
ClientStatusAck(l) ==
    /\ Comes("client", l, "StatusAck")
    /\ net' = Rest("client", l)
    /\ client' = [client EXCEPT !.runs = @ \/ (client.reached /\ Head(net.wire["client"][l]).target = client.target)]
    /\ UNCHANGED <<node, host, breaks>>

\* The control that removes the client comes to itself: C4GameControl::ChangeToLocal.
HandleRemove(l) ==
    /\ Comes("client", l, "Remove")
    /\ net' = ClearNet(net)
    /\ node' = [node EXCEPT !["client"] = NoConns(@)]
    /\ client' = Clear(client)
    /\ UNCHANGED <<host, breaks>>

-----------------------------------------------------------------------------
(* C4Network2::Execute at the host, and time *)

\* Targets that are neither under way nor the client's.
Fresh == {x \in Target : /\ x # client.target
                         /\ \A s \in Side, l \in Link : {Status(x), StatusAck(x)} \cap ToSet(net.wire[s][l]) = {}}

\* A chase target now and then (one at a time is under way).
UpdateChaseTarget ==
    /\ host.status # "Deleted" /\ host.chase
    /\ IF host.status # "Chasing" THEN host' = [host EXCEPT !.chase = FALSE] /\ UNCHANGED net
       ELSE /\ \A l \in Link : \A x \in Target : Status(x) \notin ToSet(net.wire["client"][l])
            /\ \E x \in Fresh : /\ \A y \in Fresh : x <= y
                                /\ net' = Push(net, "client", node["host"].msg, Status(x))
            /\ UNCHANGED host
    /\ UNCHANGED <<node, client, breaks>>

\* C4Reconnect::TickDormancy: the time of an entry has run out.
TickDormancy ==
    /\ host.entries > 0
    /\ host' = CtrlRemove([host EXCEPT !.entries = @ - 1])
    /\ UNCHANGED <<net, node, client, breaks>>

\* C4ControlClientRemove::Execute at the host; the control goes to the client first.
ClientRemove ==
    /\ host.removing /\ host.status # "Deleted"
    /\ host' = [host EXCEPT !.status = "Deleted", !.backLink = NoLink, !.only = NoLink]
    /\ net' = CloseConns(Push(net, "client", node["host"].msg, Simple("Remove")), "host", node["host"])
    /\ node' = [node EXCEPT !["host"] = NoConns(@)]
    /\ UNCHANGED <<client, breaks>>

\* The time the client has for the reconnection runs out; nobody looks at it then.
TimePasses ==
    /\ client.armed /\ ~client.late
    /\ client' = [client EXCEPT !.late = TRUE]
    /\ UNCHANGED <<net, node, host, breaks>>

-----------------------------------------------------------------------------
Init ==
    /\ net = [phys |-> [l \in Link |-> IF l = 1 THEN "Up" ELSE "Free"],
              at   |-> [s \in Side |-> [l \in Link |-> IF l = 1 THEN "Open" ELSE "None"]],
              wire |-> [s \in Side |-> [l \in Link |-> <<>>]]]
    /\ node = [s \in Side |-> [msg |-> 1, data |-> 1, attempts |-> 0]]
    /\ host = [status |-> "Ready", entries |-> 0, removing |-> FALSE, chase |-> FALSE, backLink |-> NoLink,
               only |-> NoLink]
    /\ client = [armed |-> FALSE, sent |-> FALSE, sentLink |-> NoLink, late |-> FALSE, gone |-> FALSE,
                 reached |-> TRUE, runs |-> TRUE, target |-> 0, restored |-> NoLink]
    /\ breaks = 0

\* An entry that is left when its client is deleted points to nothing; from then
\* on anything may happen (EnterDormancy after CtrlRemove).
Undefined == host.status = "Deleted" /\ host.entries > 0

Handle(s, l) ==
    \/ HandleConnRe(s, l)
    \/ s = "host" /\ (HandleReconn(l) \/ HostStatusAck(l))
    \/ s = "client" /\ (HandleReconnectJoinData(l) \/ HandleStatus(l) \/ ClientStatusAck(l) \/ HandleRemove(l))

Reconnecting(s) == (\E l \in Link : Dial(s, l)) \/ DialFails(s)

Next ==
    /\ ~Undefined
    /\ \/ \E l \in Link : Break(l)
       \/ \E s \in Side : Reconnecting(s) \/ \E l \in Link : OnDisconn(s, l) \/ Handle(s, l)
       \/ SendReconnIfConnected \/ CheckStatusReached \/ UpdateChaseTarget
       \/ TickDormancy \/ ClientRemove \/ TimePasses

Spec == Init /\ [][Next]_vars

\* The main loops go on, time passes and the network reports what has gone.  A
\* client gets the control it lacks while it is connected.
Fairness ==
    /\ WF_vars(/\ ~Undefined
               /\ \/ \E s \in Side : Reconnecting(s) \/ \E l \in Link : OnDisconn(s, l)
                  \/ SendReconnIfConnected \/ TimePasses \/ TickDormancy \/ ClientRemove)
    /\ WF_vars(~Undefined /\ \E l \in Link : Handle("host", l))
    /\ WF_vars(~Undefined /\ (UpdateChaseTarget \/ \E l \in Link : Handle("client", l)))
    /\ WF_vars(~Undefined /\ isConnected(node["client"]) /\ CheckStatusReached)

FairSpec == Spec /\ Fairness

-----------------------------------------------------------------------------
\* No dormant entry is left of a client that was taken back, which would end later
\* and remove it, however often it was lost: EnterDormancy keeps one entry, and
\* the others wait for the client again or it catches up with them.
NoEntryLeft == host.backLink # NoLink => host.entries = 0 /\ host.status \in {"Chasing", "Ready"}

\* A client that was taken back stays: nothing is left of the time it was away
\* that removes it ("stale duplicates would later expire and CtrlRemove a freshly
\* reassociated client", EnterDormancy).  Violated: the removal of an entry that
\* ended may be on its way when the client is lost and made dormant again.
BackForGood == host.backLink # NoLink => host.entries = 0 /\ ~host.removing

\* No second request is under way on the connection the client was taken back
\* with: the host would refuse it and close the connection (SendReconnIfConnected).
NoSecondReconn == host.backLink # NoLink => Simple("Reconn") \notin ToSet(net.wire["host"][host.backLink])

\* A reconnection comes to an end, back in the game or out of it, unless the
\* client has made all its attempts, or the connection its request went with is
\* no more: TryReconnectToHost then neither gives up nor asks again.
Heals ==
    client.armed ~> \/ ~client.armed
                    \/ /\ ~isConnected(node["client"]) /\ node["client"].attempts = ClientAttempts
                       /\ \A l \in Link : net.at["client"][l] # "Half"
                    \/ client.sent /\ net.at["client"][client.sentLink] = "Closed"
                    \/ Undefined

\* A client that was taken back gets the state of the game and runs again with the
\* others ("without this the client never learns a chase target and its catch-up
\* stalls", HandlePacket), unless the connection breaks, one side goes on with
\* another one (chase targets may then overtake the state of the game), or a
\* removal that was on its way already takes place.
BackRunsAgain ==
    host.only # NoLink ~> \/ host.only = NoLink
                          \/ net.phys[host.only] = "Broken"
                          \/ client.restored = host.only /\ client.runs
=============================================================================
