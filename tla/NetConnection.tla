--------------------------- MODULE NetConnection ---------------------------
(***************************************************************************)
(* The connections of two computers that know each other as clients        *)
(* (src/src/C4Network2IO.cpp, C4Network2Client.cpp and the part of         *)
(* C4Network2.cpp that answers them): connecting, the exchange of Conn and *)
(* ConnRe between two threads on either side, numbering and keeping what   *)
(* was sent, pings that acknowledge it, and the post mortem that takes     *)
(* what a broken connection left undelivered over another one.             *)
(*                                                                         *)
(* A connection below (C4NetIOTCP, C4NetIOUDP) delivers in order until one *)
(* side closes or loses it; what is under way then may get lost, and the   *)
(* other side notices later.  Each handler is one step of its thread, but  *)
(* the packets of a post mortem are handled one by one, as no lock keeps   *)
(* the main thread away.                                                   *)
(* Exclusive mode, the puncher, forwarding through the host and refused    *)
(* clients are left out; an accepted core is that of the peer.             *)
(***************************************************************************)
EXTENDS Integers, Sequences, FiniteSets, SequencesExt

CONSTANTS Computer,     \* two of them
          Udp, Tcp,     \* connections, by protocol; each is tried at most once
          Caller,       \* Caller[c]: the computer that connects
          Established,  \* connections that are accepted at first
          Speaker,      \* the computer that sends messages
          NoConn,
          SameAddress,  \* all connections come from one address of the peer
          AtomicClear,  \* no Send runs between the two steps of ClearPacketLog
          MaxTraffic, MaxBreak   \* bounds: messages, pings and removals; breaks

Conn == Udp \cup Tcp

ASSUME TwoComputers    == IsFiniteSet(Computer) /\ Cardinality(Computer) = 2 /\ Speaker \in Computer
ASSUME ConnAssumption  == Caller \in [Conn -> Computer] /\ Established \subseteq Conn /\ NoConn \notin Conn
ASSUME BoundAssumption == {MaxTraffic, MaxBreak} \subseteq Nat /\ {SameAddress, AtomicClear} \subseteq BOOLEAN

Other(i) == CHOOSE j \in Computer : j # i

VARIABLES node,     \* node[i]: for each connection status, socket and wire, numbers of packets
                    \* sent and received, the log, what a post mortem was sent through (or -1);
                    \* connections listed, used for messages and data; events between its
                    \* threads; what the network thread has to do before it goes on (clearing,
                    \* todo); history: what was sent, handled by each thread, dropped
          budget    \* what may still happen
vars == <<node, budget>>

-----------------------------------------------------------------------------
\* Packets.  Those from PID_PacketLogStart on are numbered and kept.
Message(i, n, t, c) == [type |-> "Message", from |-> i, id |-> n, thread |-> t, conn |-> c]
Simple(t)           == [type |-> t]
Ping(n)             == [type |-> "Ping", counter |-> n]

Logged(p) == p.type \in {"Message", "PostMortem"}

\* The messages in a packet.
Ids(p) == CASE p.type = "Message" -> {p.id} [] p.type = "PostMortem" -> p.ids [] OTHER -> {}
IdsOf(entries) == UNION {Ids(e.pkt) : e \in entries}

isOpen(m, c)         == m.status[c] \notin {"None", "Connect", "Closed", "ConnectFail"}
isHalfAccepted(m, c) == m.status[c] \in {"HalfAccepted", "Accepted"}
isAccepted(m, c)     == m.status[c] = "Accepted"
isClosed(m, c)       == m.status[c] \in {"Closed", "ConnectFail"}
isConnected(m)       == m.msg # NoConn

SetStatus(m, c, s)   == [m EXCEPT !.status[c] = s]
PushEvent(m, e)      == [m EXCEPT !.events = Append(@, e)]
Disconn(c)           == [type |-> "Disconn", conn |-> c]
Packet(c, p)         == [type |-> "Packet", conn |-> c, pkt |-> p]

\* What becomes of a message that comes to a connection that is not ready.
Drop(m, p, way) == [m EXCEPT !.dropped = @ \cup {<<id, way>> : id \in Ids(p)}]

-----------------------------------------------------------------------------
(* C4Network2IOConnection *)

Transmit(m, c, p) == IF m.sock[c] = "Open" THEN [m EXCEPT !.wire[c] = Append(@, p)] ELSE m

Send(m, c, p) ==
    IF ~Logged(p) THEN Transmit(m, c, p)
    ELSE LET kept == [m EXCEPT !.log[c] = Append(@, [num |-> m.out[c], pkt |-> p]), !.out[c] = @ + 1,
                               !.sent[c] = Append(@, p)]
         IN  IF isOpen(m, c) THEN Transmit(kept, c, p) ELSE kept

\* Mutant: the packet the peer waits for is removed, too.
ClearPacketLog_Through(m, c, until) ==
    LET old == {k \in 1..Len(m.log[c]) : m.log[c][k].num <= until}
    IN  [m EXCEPT !.log[c] = SubSeq(@, Cardinality(old) + 1, Len(@))]

\* The log is in the order of the numbers, so the list is cut once.
ClearPacketLog(m, c, until) ==
    LET old == {k \in 1..Len(m.log[c]) : m.log[c][k].num < until}
    IN  [m EXCEPT !.log[c] = SubSeq(@, Cardinality(old) + 1, Len(@))]

\* ClearPacketLog takes no lock: it looks for the newest packet to remove and
\* cuts the list there.  When that was the first one, a packet that Send has put
\* in front meanwhile goes, too.
SearchLog(m, c, until) ==
    IF AtomicClear THEN ClearPacketLog(m, c, until)
    ELSE [m EXCEPT !.clearing = {[conn |-> c, until |-> until,
                                  all |-> \A k \in 1..Len(m.log[c]) : m.log[c][k].num < until]}]
CutLog(m) ==
    LET q == CHOOSE q \in m.clearing : TRUE
        done == [m EXCEPT !.clearing = {}]
    IN  IF q.all /\ m.log[q.conn] # <<>> THEN [done EXCEPT !.log[q.conn] = <<>>]
        ELSE ClearPacketLog(done, q.conn, q.until)

\* C4Network2IO::OnDisconn.
OnDisconn(m, c) ==
    IF c \notin m.listed THEN m
    ELSE PushEvent(IF isClosed(m, c) THEN m
                   ELSE SetStatus(m, c, IF isHalfAccepted(m, c) THEN "Closed" ELSE "ConnectFail"),
                   Disconn(c))

\* The connection below goes; the callback says so.
CloseSocket(m, c) ==
    IF m.sock[c] \in {"Calling", "Open"} THEN OnDisconn([m EXCEPT !.sock[c] = "Closed"], c) ELSE m

Close(m, c) == IF isClosed(m, c) THEN m ELSE CloseSocket(SetStatus(m, c, "Closed"), c)

RemoveConnection(m, c) == [m EXCEPT !.listed = @ \ {c}]

\* The first packets, oldest first, and how many there were in all.
PostMortem(m, c) ==
    [type |-> "PostMortem", conn |-> c, counter |-> m.out[c],
     pkts |-> [k \in 1..Len(m.log[c]) |-> m.log[c][k].pkt],
     ids |-> IdsOf({m.log[c][k] : k \in 1..Len(m.log[c])})]

\* What is left to do for a post mortem: the packets with the number n and all later
\* ones, then the connection is removed.
Job(c, n, p) == [type |-> "Packet", conn |-> c, num |-> n, pkt |-> p]
Removal(c)   == [type |-> "Remove", conn |-> c]
PacketsFrom(pm, n) ==
    LET first == pm.counter - Len(pm.pkts)
    IN  IF n \in first..pm.counter - 1
        THEN [k \in 1..pm.counter - n |-> Job(pm.conn, n + k - 1, pm.pkts[n - first + k])] ELSE <<>>

-----------------------------------------------------------------------------
(* The network thread *)

\* Mutant: exclusive mode, as when joining: no Conn while there is a connection.
SendConnPacket_Exclusive(m, c) ==
    IF isOpen(m, c) /\ c \notin m.connSent /\ \A d \in m.listed : ~isAccepted(m, d)
    THEN [Send(m, c, Simple("Conn")) EXCEPT !.connSent = @ \cup {c}] ELSE m

SendConnPacket(m, c) ==
    IF isOpen(m, c) /\ c \notin m.connSent
    THEN [Send(m, c, Simple("Conn")) EXCEPT !.connSent = @ \cup {c}] ELSE m

\* Another address of the client that is accepted already speaks against it.
AutoAccept(m, c) == SameAddress \/ \A d \in m.listed : ~isAccepted(m, d)

\* Mutant: the answer to our Conn is left to the main thread.
HandleConnReNet_Never(m, c) == IF isOpen(m, c) /\ c \notin m.connSent THEN Close(m, c) ELSE m

HandleConnReNet(m, c) ==
    IF ~isOpen(m, c) THEN m
    ELSE IF c \notin m.connSent THEN Close(m, c)
    ELSE IF isHalfAccepted(m, c) /\ c \in m.auto THEN SetStatus(m, c, "Accepted")
    ELSE m

HandleConnNet(m, c) ==
    IF isOpen(m, c) /\ AutoAccept(m, c)
    THEN [SetStatus(Send(m, c, Simple("ConnRe")), c, "HalfAccepted") EXCEPT !.auto = @ \cup {c}]
    ELSE m

\* A message for the network thread.
Handle(m, c, p, way) ==
    IF isAccepted(m, c) \/ isClosed(m, c) THEN [m EXCEPT !.handled[p.thread] = Append(@, p)]
    ELSE Drop(m, p, way)

\* Mutant: the connection is not removed after its post mortem.
HandlePostMortem_Stays(m, p) ==
    IF p.conn \notin m.listed THEN Drop(m, p, "Unknown")
    ELSE [m EXCEPT !.todo = PacketsFrom(p, m.in[p.conn]) \o @]

HandlePostMortem(m, p) ==
    IF p.conn \notin m.listed THEN Drop(m, p, "Unknown")
    ELSE [m EXCEPT !.todo = PacketsFrom(p, m.in[p.conn]) \o <<Removal(p.conn)>> \o @]

HandlePacket(m, c, p, way) ==
    IF ~isHalfAccepted(m, c) /\ p.type \notin {"Conn", "ConnRe", "Ping"} THEN Drop(m, p, way)
    ELSE CASE p.type = "Conn"       -> PushEvent(HandleConnNet(m, c), Packet(c, p))
           [] p.type = "ConnRe"     -> PushEvent(HandleConnReNet(m, c), Packet(c, p))
           [] p.type = "Ping"       -> IF isOpen(m, c) THEN SearchLog(m, c, p.counter) ELSE m
           [] p.type = "PostMortem" -> IF isAccepted(m, c) THEN HandlePostMortem(m, p) ELSE Drop(m, p, way)
           [] p.type = "Message" /\ p.thread = "Net"  -> Handle(m, c, p, way)
           [] p.type = "Message" /\ p.thread = "Main" -> PushEvent(m, Packet(c, p))

\* The next packet of a post mortem, or its end.
DoJob(m, q) ==
    IF q.type = "Packet" THEN HandlePacket(m, q.conn, q.pkt, "PostMortem")
    ELSE RemoveConnection(Close(m, q.conn), q.conn)

OnPacket(m, c, p) ==
    IF c \notin m.listed THEN m
    ELSE HandlePacket([m EXCEPT !.in[c] = IF Logged(p) THEN @ + 1 ELSE @], c, p, "Wire")

\* An attempt that was given up is refused, and so is a call from the address of
\* a closed connection that is still listed: UDP names the peer in both cases.
OnConn(m, i, c) ==
    LET known == m.listed \cap (IF Caller[c] = i THEN {c} ELSE IF c \in Udp THEN Udp ELSE {})
    IN  IF \E d \in known : isClosed(m, d) THEN [m EXCEPT !.sock[c] = "Closed"]
        ELSE SendConnPacket(SetStatus([m EXCEPT !.sock[c] = "Open", !.listed = @ \cup {c}], c, "Connected"), c)

-----------------------------------------------------------------------------
(* The main thread *)

\* C4Network2Client: one connection for messages, one for data.
SetMsgConn(m, c)  == [m EXCEPT !.msg = c, !.data = IF @ = NoConn THEN c ELSE @]
SetDataConn(m, c) == [m EXCEPT !.data = c, !.msg = IF @ = NoConn THEN c ELSE @]

RemoveConn(m, c) ==
    LET msg  == IF m.msg = c THEN NoConn ELSE m.msg
        data == IF m.data = c THEN NoConn ELSE m.data
    IN  [m EXCEPT !.msg  = IF msg = NoConn THEN data ELSE msg,
                  !.data = IF data = NoConn THEN msg ELSE data]

\* The client is removed, and its connections with it.
OnClientDisconnect(m) ==
    IF isConnected(m) THEN m
    ELSE [m EXCEPT !.gone = TRUE, !.events = <<>>]

SendPostMortem(m, c) ==
    IF m.log[c] = <<>> \/ m.pmSent[c] >= 0 THEN m
    ELSE LET created == [m EXCEPT !.pmSent[c] = m.out[c]]
         IN  IF isConnected(m) THEN Send(created, m.msg, PostMortem(m, c)) ELSE created

OnDisconnMain(m, c) ==
    IF m.status[c] = "ConnectFail" THEN OnClientDisconnect(m)
    ELSE OnClientDisconnect(SendPostMortem(RemoveConn(m, c), c))

\* A client that is known is accepted.
HandleConn(m, c) ==
    IF ~isOpen(m, c) \/ isHalfAccepted(m, c) THEN m
    ELSE SetStatus(Send(m, c, Simple("ConnRe")), c, "HalfAccepted")

HandleConnRe(m, c) ==
    IF ~isOpen(m, c) \/ (isAccepted(m, c) /\ c \notin m.auto) THEN m
    ELSE LET accepted == [SetStatus(m, c, "Accepted") EXCEPT !.auto = @ \ {c}]
         IN  IF c \in Udp THEN SetMsgConn(accepted, c) ELSE SetDataConn(accepted, c)

HandlePacketMain(m, c, p) ==
    CASE p.type = "Conn"    -> HandleConn(m, c)
      [] p.type = "ConnRe"  -> HandleConnRe(m, c)
      [] p.type = "Message" -> IF isHalfAccepted(m, c) THEN [m EXCEPT !.handled["Main"] = Append(@, p)]
                               ELSE Drop(m, p, "Queue")

OnThreadEvent(m, e) ==
    IF e.type = "Disconn" THEN OnDisconnMain(m, e.conn) ELSE HandlePacketMain(m, e.conn, e.pkt)

\* C4Network2IO::GetDataConnection.
DataConnections(m) ==
    LET accepted == {c \in m.listed : isAccepted(m, c)}
    IN  IF accepted \cap Tcp # {} THEN accepted \cap Tcp ELSE accepted

-----------------------------------------------------------------------------
New(i) ==
    LET up(c) == c \in Established
        first(S, T) == IF S \cap Established # {} THEN CHOOSE c \in S \cap Established : TRUE
                       ELSE IF T \cap Established # {} THEN CHOOSE c \in T \cap Established : TRUE ELSE NoConn
    IN  [status |-> [c \in Conn |-> IF up(c) THEN "Accepted" ELSE "None"],
         listed |-> Established, connSent |-> Established, auto |-> {},
         out |-> [c \in Conn |-> 0], in |-> [c \in Conn |-> 0],
         log |-> [c \in Conn |-> <<>>], clearing |-> {}, todo |-> <<>>, pmSent |-> [c \in Conn |-> -1],
         sock |-> [c \in Conn |-> IF up(c) THEN "Open" ELSE "None"],
         wire |-> [c \in Conn |-> <<>>],
         msg |-> first(Udp, Tcp), data |-> first(Tcp, Udp), gone |-> FALSE,
         events |-> <<>>, sent |-> [c \in Conn |-> <<>>], handled |-> [t \in {"Net", "Main"} |-> <<>>], dropped |-> {}]

Init ==
    /\ node = [i \in Computer |-> New(i)]
    /\ budget = [traffic |-> MaxTraffic, break |-> MaxBreak]

\* The model ends when one of the two gives the other up.
Together == \A i \in Computer : ~node[i].gone

Change(i, m) == node' = [node EXCEPT ![i] = m]
Spend(what)  == /\ budget[what] > 0
                /\ budget' = [budget EXCEPT ![what] = @ - 1]

\* DoConnectAttempt: for a protocol that has no connection; an old one to the
\* same address stands in the way until it is removed.
Connect(i, c) ==
    LET m == node[i]
        same == IF c \in Udp THEN Udp ELSE Tcp
    IN  /\ Together /\ Caller[c] = i /\ m.status[c] = "None"
        /\ m.msg = m.data /\ m.msg \notin same
        /\ \A d \in same \cap m.listed : Caller[d] # i
        /\ Change(i, [SetStatus(m, c, "Connect") EXCEPT !.listed = @ \cup {c}, !.sock[c] = "Calling"])
        /\ UNCHANGED budget

\* The network thread waits for something to happen.
Idle(i) == Together /\ node[i].clearing = {} /\ node[i].todo = <<>>

\* The network connects one side, then the other.
Connected(i, c) ==
    /\ Idle(i)
    /\ \/ node[i].sock[c] = "Calling"
       \/ /\ Caller[c] # i /\ node[i].sock[c] = "None"
          /\ node[Other(i)].sock[c] \in {"Calling", "Open"}
          /\ \A d \in Udp : c \in Udp => node[i].sock[d] # "Open"
    /\ Change(i, OnConn(node[i], i, c))
    /\ UNCHANGED budget

\* The network thread takes what arrives.
Receive(i, c) ==
    LET j == Other(i)
    IN  /\ Idle(i)
        /\ node[i].sock[c] = "Open" /\ node[j].wire[c] # <<>>
        /\ node' = [node EXCEPT ![j].wire[c] = Tail(@),
                                ![i] = OnPacket(node[i], c, Head(node[j].wire[c]))]
        /\ UNCHANGED budget

\* It goes on with a post mortem, or with the second step of ClearPacketLog.
GoOn(i) ==
    LET m == node[i]
    IN  /\ Together
        /\ \/ m.clearing # {} /\ Change(i, CutLog(m))
           \/ /\ m.clearing = {} /\ m.todo # <<>>
              /\ Change(i, DoJob([m EXCEPT !.todo = Tail(@)], Head(m.todo)))
        /\ UNCHANGED budget

\* The connection is lost, or the other side has closed it.
Break(i, c) ==
    /\ Idle(i)
    /\ node[i].sock[c] \in {"Calling", "Open"}
    /\ Change(i, CloseSocket(node[i], c))
    /\ IF node[Other(i)].sock[c] = "Closed" THEN UNCHANGED budget ELSE Spend("break")

\* CheckTimeout: a connection that was not accepted in time, or does not answer.
Timeout(i, c) ==
    /\ Idle(i)
    /\ c \in node[i].listed /\ ~isClosed(node[i], c)
    /\ Change(i, Close(node[i], c))
    /\ Spend("break")

\* CheckTimeout: nobody has sent a post mortem for a closed connection.
Forget(i, c) ==
    /\ Idle(i)
    /\ c \in node[i].listed /\ isClosed(node[i], c)
    /\ Change(i, RemoveConnection(node[i], c))
    /\ Spend("traffic")

\* Once in a while all open connections are told what has arrived; the speaker's
\* pings are left out, as nothing arrives there that is kept.
PingAll(i) ==
    LET m == node[i]
        open == {c \in m.listed : isOpen(m, c)}
    IN  /\ i # Speaker /\ Idle(i) /\ open # {}
        /\ Change(i, [m EXCEPT !.wire = [c \in Conn |->
               IF c \in open /\ m.sock[c] = "Open" THEN Append(@[c], Ping(m.in[c])) ELSE @[c]]])
        /\ Spend("traffic")

ProcessEvent(i) ==
    LET m == node[i]
    IN  /\ Together /\ m.events # <<>>
        /\ Change(i, OnThreadEvent([m EXCEPT !.events = Tail(@)], Head(m.events)))
        /\ UNCHANGED budget

Say(i, c, t) ==
    LET p == Message(i, MaxTraffic - budget.traffic, t, c)
    IN  /\ Change(i, Send(node[i], c, p))
        /\ Spend("traffic")

\* A message, by the connection for messages, or data.
Speak(i, t) ==
    LET m == node[i]
    IN  /\ i = Speaker /\ Together /\ isConnected(m)
        /\ Say(i, m.msg, t)

SpeakData(i) ==
    LET m == node[i]
    IN  /\ i = Speaker /\ Together
        /\ \E c \in DataConnections(m) : Say(i, c, "Net")

Next == \E i \in Computer :
            \/ ProcessEvent(i) \/ GoOn(i) \/ PingAll(i)
            \/ \E t \in {"Net", "Main"} : Speak(i, t)
            \/ SpeakData(i)
            \/ \E c \in Conn : \/ Connect(i, c) \/ Connected(i, c) \/ Receive(i, c)
                               \/ Break(i, c) \/ Timeout(i, c) \/ Forget(i, c)

Spec == Init /\ [][Next]_vars

\* Threads run, the network answers, and whoever does not close a dead
\* connection notices in the end.
FairSpec ==
    /\ Spec
    /\ \A i \in Computer :
          /\ WF_vars(ProcessEvent(i))
          /\ WF_vars(\/ GoOn(i)
                     \/ \E c \in Conn : Connected(i, c) \/ Receive(i, c) \/ (Break(i, c) /\ UNCHANGED budget))

-----------------------------------------------------------------------------
(* Properties *)

Said(i) == UNION {{p.id : p \in {q \in ToSet(node[i].sent[c]) : q.type = "Message"}} : c \in Conn}

\* What happened at j to what was said.
Arrived(j) ==
    (UNION {{m.id : m \in ToSet(node[j].handled[t])} : t \in {"Net", "Main"}})
      \cup {d[1] : d \in node[j].dropped}
      \cup IdsOf({e \in ToSet(node[j].events) \cup ToSet(node[j].todo) : e.type = "Packet"})
\* What a post mortem would bring, or is to bring.
Recoverable(i) ==
    IdsOf(UNION {{e \in ToSet(node[i].log[c]) : e.num >= node[Other(i)].in[c]} :
                 c \in {c \in Conn : node[i].pmSent[c] = -1}})

\* No message vanishes on the way: until the client is given up, everything that did
\* not come to the other side is in the log of a connection whose post mortem is
\* still to be made ("closed? No sweat, post mortem will reroute it later").  What
\* came in a post mortem counts as come; whether it is handled then is the question
\* of PostMortemRecovers.
NothingVanishes ==
    \A i \in Computer : Together => Said(i) \subseteq Arrived(Other(i)) \cup Recoverable(i)

\* A message is handled once, though it may come off the wire and in a post mortem,
\* and a thread handles the messages of one connection in the order they were sent.
HandledOnceInOrder ==
    \A j \in Computer, t, u \in {"Net", "Main"} :
        \A a \in 1..Len(node[j].handled[t]), b \in 1..Len(node[j].handled[u]) :
            LET p == node[j].handled[t][a]
                q == node[j].handled[u][b]
            IN  /\ p.id = q.id => t = u /\ a = b
                /\ t = u /\ a < b /\ p.conn = q.conn => p.id < q.id

\* The peer is ready: what a computer sends on a connection it has accepted is not
\* thrown away by the other side because its own threads are not so far yet.
NeverTooEarly == \A j \in Computer : \A d \in node[j].dropped : d[2] # "Wire"

\* Whatever the threads do, an attempt to connect ends: both sides have accepted
\* the connection and use it, or both have closed it, or the client is given up.
Settled(c) ==
    \/ ~Together
    \/ \A i \in Computer : isAccepted(node[i], c) /\ c \in {node[i].msg, node[i].data}
    \/ \A i \in Computer : isClosed(node[i], c) \/ node[i].status[c] = "None"
AttemptSettles == \A c \in Conn : node[Caller[c]].status[c] = "Connect" ~> Settled(c)

\* A connection that is closed still waits for its post mortem ("don't remove
\* connection from list - wait for postmortem or timeout"), so that what is
\* recovered gets handled.
PostMortemRecovers == \A j \in Computer : \A d \in node[j].dropped : d[2] # "PostMortem"
=============================================================================
