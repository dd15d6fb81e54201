------------------------------ MODULE NetIOUDP ------------------------------
(***************************************************************************)
(* Connections over UDP, as C4NetIOUDP emulates them: two computers, each  *)
(* with at most one open Peer for the other.  A packet is cut into         *)
(* numbered fragments; the receiver asks for the fragments it misses and   *)
(* acknowledges with Check, the sender keeps a packet until then.          *)
(*                                                                         *)
(* Unicast only: multicast and second addresses of a computer are left     *)
(* out.  A timeout that has been set may run out at any time.              *)
(***************************************************************************)
EXTENDS Integers, Sequences, FiniteSets, SequencesExt

CONSTANTS
    Computers,       \* the two computers
    Callers,         \* bound: those whose user calls Connect and Close
    Senders,         \* bound: those whose user sends
    Sizes,           \* how many fragments a packet may have
    ConnectRetries,  \* iConnectRetries
    MaxAsk,          \* iMaxAskCnt
    MaxBacklog,      \* iMaxOPacketBacklog
    Reorder,         \* whether datagrams may overtake each other
    Timely,          \* whether a timeout is longer than a datagram and its answer take
    MaxSend,         \* bound: fragments sent on a connection
    MaxConnect,      \* bound: calls of Connect by each user
    MaxClose,        \* bound: calls of Close by each user
    MaxFaults,       \* bound: lost datagrams, if none was repeated
    MaxFlight        \* bound: datagrams on the way when a user or a timer adds one

ASSUME TwoComputers == IsFiniteSet(Computers) /\ Cardinality(Computers) = 2
ASSUME Limits == /\ (Callers \cup Senders) \subseteq Computers
                 /\ Sizes \subseteq Nat \ {0}
                 /\ {ConnectRetries, MaxSend, MaxConnect, MaxClose} \subseteq Nat
                 /\ {MaxAsk, MaxBacklog, MaxFlight, MaxFaults} \subseteq Nat \ {0}
                 /\ {Reorder, Timely} \subseteq BOOLEAN

VARIABLES
    peer,    \* the Peer object a computer has for the other one
    net,     \* the datagrams on their way to a computer
    calls,   \* how often each user called Connect and Close
    faults   \* how many datagrams were lost; MaxFaults when one was repeated

vars == <<peer, net, calls, faults>>

Other(n) == CHOOSE m \in Computers : m # n
Larger(i, j) == IF i > j THEN i ELSE j

-----------------------------------------------------------------------------
(* A step of a Peer is computed on a record of the Peer, p, and of the     *)
(* datagrams it sends, out.                                                *)

(* A new Peer.  The code does not keep these: session counts the Peers of a*)
(* computer, start is iO at the last OnConn and got are the packets given  *)
(* to the user since then. <<session, start>> is a connection.             *)
NewPeer(session) ==
    [status |-> "None", retries |-> 0, O |-> {}, I |-> {}, iO |-> 0, iI |-> 0, iRI |-> 0,
     noReCheck |-> FALSE, lastAsked |-> 0, session |-> session, start |-> 0, got |-> <<>>, reason |-> "none"]

Conn(p)    == [type |-> "Conn", nr |-> p.iO]
ConnOK(p)  == [type |-> "ConnOK", nr |-> p.iO]
Close0     == [type |-> "Close", nr |-> 0]
Fragment(pkt, i) == [type |-> "Data", nr |-> i, pkt |-> pkt]
(* Mutant: the last fragment is not announced.                             *)
CheckPacket_Last(p, ask) == [type |-> "Check", nr |-> Larger(p.iO - 1, 0), ack |-> p.iI, ask |-> ask]
CheckPacket(p, ask) == [type |-> "Check", nr |-> p.iO, ack |-> p.iI, ask |-> ask]
Fragments(pkt) == pkt.nr .. pkt.nr + pkt.cnt - 1

Put(s, m) == [s EXCEPT !.out = Append(@, m)]

DoConn(s) == Put([s EXCEPT !.p.status = "Conn", !.p.retries = ConnectRetries], Conn(s.p))

(* The user of a working connection is told why it ends.                   *)
OnClose(s, reason) ==
    [s EXCEPT !.p.status = "Closed", !.p.reason = IF s.p.status = "Works" THEN reason ELSE @]
Close(s, reason) ==
    IF s.p.status = "Closed" THEN s ELSE OnClose(Put(s, Close0), reason)

(* Mutant: a complete packet is taken whatever its number.                 *)
GiveFirst_AnyNr(s) ==
    LET complete == {q \in s.p.I : q.have = Fragments(q.pkt)}
        first == {q \in complete : \A r \in complete : q.pkt.nr <= r.pkt.nr}
        q == CHOOSE q \in first : TRUE
    IN  IF first = {} THEN s
        ELSE [s EXCEPT !.p.got = Append(@, q.pkt), !.p.iI = q.pkt.nr + q.pkt.cnt, !.p.I = @ \ {q}]

(* The first complete packet is given to the user, if it is the next one.  *)
GiveFirst(s) ==
    LET complete == {q \in s.p.I : q.have = Fragments(q.pkt)}
        next == {q \in complete : q.pkt.nr = s.p.iI /\ \A r \in complete : q.pkt.nr <= r.pkt.nr}
        q == CHOOSE q \in next : TRUE
    IN  IF next = {} THEN s
        ELSE [s EXCEPT !.p.got = Append(@, q.pkt), !.p.iI = q.pkt.nr + q.pkt.cnt, !.p.I = @ \ {q}]

CheckCompleteIPackets(s) ==
    LET given[k \in 0 .. Cardinality(s.p.I)] == IF k = 0 THEN s ELSE GiveFirst(given[k - 1])
    IN  IF s.p.status # "Works" THEN s ELSE given[Cardinality(s.p.I)]

(* The timeout is reset, the user is told.                                 *)
OnConn(s) ==
    CheckCompleteIPackets([s EXCEPT !.p.status = "Works", !.p.retries = 0,
                                    !.p.start = IF s.p.status = "Works" THEN @ ELSE s.p.iO,
                                    !.p.got = IF s.p.status = "Works" THEN @ ELSE <<>>])

FragmentPresent(p, i) == \E q \in p.I : i \in q.have

(* The first fragments that are missing from start on, in order.           *)
Missing(p, start) ==
    LET found[i \in 0 .. p.iRI] ==
            IF i = 0 THEN <<>>
            ELSE IF i - 1 < start \/ FragmentPresent(p, i - 1) \/ Len(found[i - 1]) = MaxAsk
                 THEN found[i - 1]
                 ELSE Append(found[i - 1], i - 1)
    IN  found[p.iRI]

(* Ask for missing fragments; while another check is not allowed yet, only *)
(* for those after the last one asked for.                                 *)
Check(s, force) ==
    LET p == s.p
        start == IF p.noReCheck THEN Larger(p.lastAsked + 1, p.iI) ELSE p.iI
        ask == Missing(p, start)
        checked == [s EXCEPT !.p.noReCheck = @ \/ ask # <<>>,
                             !.p.lastAsked = IF ask # <<>> THEN Last(ask)
                                             ELSE IF p.noReCheck THEN @ ELSE 0]
    IN  IF p.status # "Works" THEN s
        ELSE IF ask # <<>> \/ force
             THEN Put(checked, CheckPacket(p, ask))
             ELSE checked

(* A Conn resets what was received, also on a connection that works.       *)
RecvConn(s, m) ==
    LET again == s.p.status = "Works" /\ s.p.iI # m.nr
        s1 == IF again THEN DoConn(OnClose(s, "reconnect")) ELSE s
    IN  OnConn(Put([s1 EXCEPT !.p.iI = m.nr, !.p.iRI = m.nr, !.p.I = {},
                              !.p.noReCheck = FALSE, !.p.lastAsked = 0], ConnOK(s1.p)))

RecvConnOK(s, m) == IF s.p.status = "Conn" THEN OnConn(s) ELSE s

RecvData(s, m) ==
    LET old == {q \in s.p.I : q.pkt.nr = m.pkt.nr}
        fits == \A q \in s.p.I : Fragments(q.pkt) \cap Fragments(m.pkt) = {}
        I1 == IF old = {} THEN s.p.I \cup {q \in {[pkt |-> m.pkt, have |-> {m.nr}]} : fits}
              ELSE {[q EXCEPT !.have = IF q \in old /\ q.pkt.cnt = m.pkt.cnt THEN @ \cup {m.nr} ELSE @] : q \in s.p.I}
    IN  IF m.nr < s.p.iI THEN s ELSE CheckCompleteIPackets([s EXCEPT !.p.I = I1])

(* Mutant: one packet more is dropped.                                     *)
ClearPackets_OneMore(O, ack) == {q \in O : q.nr > ack}

(* What is kept when the fragments before ack were received.               *)
ClearPackets(O, ack) == {q \in O : q.nr >= ack}

(* What was acknowledged is dropped, what was asked for is sent again. A   *)
(* fragment that is not kept any more closes the connection.               *)
RecvCheck(s, m) ==
    LET kept == ClearPackets(s.p.O, m.ack)
        Holder(i) == CHOOSE q \in kept : i \in Fragments(q)
        lost == {j \in 1 .. Len(m.ask) : \A q \in kept : m.ask[j] \notin Fragments(q)}
        count == IF lost = {} THEN Len(m.ask) ELSE (CHOOSE j \in lost : \A k \in lost : j <= k) - 1
        s1 == [s EXCEPT !.p.O = kept,
                        !.out = @ \o [j \in 1 .. count |-> Fragment(Holder(m.ask[j]), m.ask[j])]]
    IN  IF lost # {} THEN Close(s1, "starvation") ELSE s1

Reached(p, m) == Larger(p.iRI, m.nr)

(* Every datagram tells how far the sender is; a connection that works     *)
(* checks at once whether something is missing.                            *)
OnRecv(s0, m) ==
    LET s == Check([s0 EXCEPT !.p.iRI = Reached(s0.p, m)], FALSE)
    IN  CASE m.type = "Conn"   -> RecvConn(s, m)
          [] m.type = "ConnOK" -> RecvConnOK(s, m)
          [] m.type = "Data"   -> RecvData(s, m)
          [] m.type = "Check"  -> RecvCheck(s, m)
          [] m.type = "Close"  -> OnClose(s, "closed by peer")
          [] OTHER             -> s

ConnectPeer(p) == DoConn([p |-> NewPeer(p.session + 1), out |-> <<>>])

(* Without a Peer, a Conn makes one; it is not handed to it.               *)
OnPacket(p, m) ==
    IF p.status # "Closed" THEN OnRecv([p |-> p, out |-> <<>>], m)
    ELSE IF m.type = "Conn" THEN ConnectPeer(p)
    ELSE [p |-> p, out |-> <<>>]

(* A closed Peer is deleted when the list of peers is not in use any more. *)
OnShareFree(p) ==
    IF p.status = "Closed"
    THEN [NewPeer(p.session) EXCEPT !.status = "Closed", !.reason = p.reason]
    ELSE p

-----------------------------------------------------------------------------
Init ==
    /\ peer = [n \in Computers |-> OnShareFree([NewPeer(0) EXCEPT !.status = "Closed"])]
    /\ net = [n \in Computers |-> <<>>]
    /\ calls = [n \in Computers |-> [connect |-> 0, close |-> 0]]
    /\ faults = 0

(* Computer n makes the step s, with these datagrams left for it.          *)
Step(n, s, left) ==
    /\ peer' = [peer EXCEPT ![n] = OnShareFree(s.p)]
    /\ net' = [net EXCEPT ![n] = left, ![Other(n)] = @ \o s.out]

Now(n) == [p |-> peer[n], out |-> <<>>]
Room(n) == Len(net[Other(n)]) < MaxFlight
UnderWay(n, types) == \E i \in 1 .. Len(net[n]) : net[n][i].type \in types
Asking(n) == \E i \in 1 .. Len(net[n]) : net[n][i].type = "Check" /\ net[n][i].ask # <<>>

(* What each timer waits for.                                              *)
MayTimeOut(n) ==
    /\ peer[n].status = "Conn" /\ Room(n)
    /\ Timely => ~UnderWay(n, {"Conn", "ConnOK"}) /\ ~UnderWay(Other(n), {"Conn", "ConnOK"})
MayCheck(n) == peer[n].status = "Works" /\ Room(n)
MayReCheck(n) ==
    /\ peer[n].noReCheck /\ Room(n)
    /\ Timely => ~UnderWay(n, {"Data"}) /\ ~Asking(Other(n))

(* The user calls Connect; with a Peer there already, that does nothing.   *)
Connect(n) ==
    /\ n \in Callers /\ peer[n].status = "Closed"
    /\ calls[n].connect < MaxConnect
    /\ Step(n, ConnectPeer(peer[n]), net[n])
    /\ calls' = [calls EXCEPT ![n].connect = @ + 1]
    /\ UNCHANGED faults

(* The user calls Close.                                                   *)
UserClose(n) ==
    /\ n \in Callers /\ peer[n].status # "Closed"
    /\ calls[n].close < MaxClose
    /\ Step(n, Close(Now(n), "closed"), net[n])
    /\ calls' = [calls EXCEPT ![n].close = @ + 1]
    /\ UNCHANGED faults

(* The user sends a packet; users do so on open connections only.          *)
Send(n) ==
    /\ n \in Senders /\ peer[n].status = "Works" /\ Room(n)
    /\ \E cnt \in Sizes :
        LET p == peer[n]
            pkt == [nr |-> p.iO, cnt |-> cnt, from |-> <<p.session, p.start>>]
            all == p.O \cup {pkt}
            kept == IF Cardinality(all) <= MaxBacklog THEN all
                    ELSE {q \in all : \E r \in all : r.nr < q.nr}
        IN  /\ p.iO + cnt <= MaxSend
            /\ Step(n, [p |-> [p EXCEPT !.O = kept, !.iO = @ + cnt],
                        out |-> [i \in 1 .. cnt |-> Fragment(pkt, pkt.nr + i - 1)]], net[n])
    /\ UNCHANGED <<calls, faults>>

(* The timeout of a connection attempt runs out.                           *)
OnTimeout(n) ==
    /\ MayTimeOut(n)
    /\ LET retries == peer[n].retries
       IN  Step(n, IF retries > 0
                   THEN [DoConn(Now(n)) EXCEPT !.p.retries = retries - 1]
                   ELSE Close(Now(n), "connection timeout"), net[n])
    /\ UNCHANGED <<calls, faults>>

(* The check at iCheckInterval.                                            *)
DoCheck(n) ==
    /\ MayCheck(n)
    /\ Step(n, Check(Now(n), TRUE), net[n])
    /\ UNCHANGED <<calls, faults>>

(* iReCheckInterval has passed.                                            *)
ReCheckAllowed(n) ==
    /\ MayReCheck(n)
    /\ peer' = [peer EXCEPT ![n].noReCheck = FALSE]
    /\ UNCHANGED <<net, calls, faults>>

Arriving(n) == {i \in 1 .. Len(net[n]) : Reorder \/ i = 1}

Receive(n) ==
    /\ \E i \in Arriving(n) : Step(n, OnPacket(peer[n], net[n][i]), RemoveAt(net[n], i))
    /\ UNCHANGED <<calls, faults>>

(* The network repeats a datagram, or loses it.                            *)
Duplicate(n) ==
    /\ faults = 0 /\ faults' = MaxFaults
    /\ \E i \in Arriving(n) : Step(n, OnPacket(peer[n], net[n][i]), net[n])
    /\ UNCHANGED calls

Lose(n) ==
    /\ faults < MaxFaults /\ faults' = faults + 1
    /\ \E i \in Arriving(n) : net' = [net EXCEPT ![n] = RemoveAt(@, i)]
    /\ UNCHANGED <<peer, calls>>

Next == \E n \in Computers :
    \/ Connect(n) \/ UserClose(n) \/ Send(n)
    \/ OnTimeout(n) \/ DoCheck(n) \/ ReCheckAllowed(n)
    \/ Receive(n) \/ Duplicate(n) \/ Lose(n)

Spec == Init /\ [][Next]_vars

(* Datagrams that are not lost arrive, and Execute runs its timers: it     *)
(* blocks for iCheckInterval at most, and a deadline that has passed stays *)
(* passed. Nobody has to connect or to send.  These are weak fairness of   *)
(* Receive and strong fairness of the timers, with ENABLED written out.    *)
Fairness == \A n \in Computers :
    /\ []<>(net[n] = <<>>) \/ []<><<Receive(n)>>_vars
    /\ <>[]~MayTimeOut(n) \/ []<><<OnTimeout(n)>>_vars
    /\ <>[]~MayCheck(n) \/ []<><<DoCheck(n)>>_vars
    /\ <>[]~MayReCheck(n) \/ []<><<ReCheckAllowed(n)>>_vars
FairSpec == Spec /\ Fairness

-----------------------------------------------------------------------------
(* Every packet the user gets follows the one before it: none is missing   *)
(* and none comes twice, whatever the network does to the datagrams.       *)
Gapless == \A n \in Computers : LET got == peer[n].got IN
    \A i \in 2 .. Len(got) : got[i].nr = got[i - 1].nr + got[i - 1].cnt

(* "Connection are emulated" (C4NetIO.h:431): between OnConn and OnDisconn *)
(* the user gets the packets of one connection of the other computer, from *)
(* the first one, in order, none missing and none twice.                   *)
InOrder == /\ Gapless
           /\ \A n \in Computers : LET got == peer[n].got IN
                /\ got # <<>> => got[1].nr = got[1].from[2]
                /\ \A i \in 1 .. Len(got) : got[i].from = got[1].from

(* "Delivery garantueed" (C4NetIO.h:432): a computer never throws away what*)
(* the other one may still ask for, so no connection ends with "starvation"*)
NoStarvation == \A n \in Computers : peer[n].reason # "starvation"

(* "Delivery garantueed": what was sent is received in the end, unless a   *)
(* connection ends.                                                        *)
Delivered == \A n \in Computers :
    (peer[n].status = "Works" /\ peer[Other(n)].status = "Works") ~>
        \/ peer[Other(n)].iI = peer[n].iO
        \/ \E m \in Computers : peer[m].status # "Works"
=============================================================================
