-------------------------- MODULE Reconnect_proofs --------------------------
(***************************************************************************)
(* A client that was taken back stays, and asks for it once only, for      *)
(* every number of connections, breaks and attempts.                       *)
(***************************************************************************)
EXTENDS Reconnect, SequenceTheorems, TLAPS

Phys   == {"Free", "Up", "Broken", "Shut"}
Hold   == {"None", "Half", "Open", "Closing", "Closed"}
Packet == [type : {"ConnRe", "Reconn", "JoinData", "Remove"}] \cup [type : {"Status", "StatusAck"}, target : Target]
Net    == [phys : [Link -> Phys], at : [Side -> [Link -> Hold]], wire : [Side -> [Link -> Seq(Packet)]]]

Conns   == [msg : 0..MaxLinks, data : 0..MaxLinks, attempts : Nat]
Hosts   == [status : {"Ready", "Chasing", "Dormant", "Remove", "Deleted"}, entries : {0, 1}, removing : BOOLEAN,
            chase : BOOLEAN, backLink : 0..MaxLinks, only : 0..MaxLinks]
Clients == [armed : BOOLEAN, sent : BOOLEAN, sentLink : 0..MaxLinks, late : BOOLEAN, gone : BOOLEAN,
            reached : BOOLEAN, runs : BOOLEAN, target : Target, restored : 0..MaxLinks]

\* Packets of type t on their way to s, on connection l of n.
Marked(n, s, l, t) == \E i \in 1..Len(n.wire[s][l]) : n.wire[s][l][i].type = t
Single(n, s, l, t) == \A i, j \in 1..Len(n.wire[s][l]) :
                          n.wire[s][l][i].type = t /\ n.wire[s][l][j].type = t => i = j
Settled(n, l)      == n.at["client"][l] \notin {"None", "Half"}

\* From n to m no request and no answer is added, and no connection is new.
Quiet(n, m) ==
    /\ \A s \in Side, l \in Link, t \in {"Reconn", "JoinData"} :
          /\ Marked(m, s, l, t) => Marked(n, s, l, t)
          /\ Single(n, s, l, t) => Single(m, s, l, t)
    /\ \A l \in Link : /\ Settled(n, l) => Settled(m, l)
                       /\ m.phys[l] = "Free" => n.phys[l] = "Free"
                       /\ m.phys[l] = "Free" /\ n.at["client"][l] = "None" => m.at["client"][l] = "None"
                       /\ m.phys[l] = "Up" => n.phys[l] = "Up"

TypeOK ==
    /\ net \in Net
    /\ node \in [Side -> Conns]
    /\ host \in Hosts
    /\ client \in Clients
    /\ breaks \in Nat

\* There is one request or one answer, on the connection the client remembers.
WireInv(n, c) ==
    \A l \in Link :
        /\ n.phys[l] = "Free" => n.at["client"][l] = "None"
        /\ c.gone => n.phys[l] # "Up"
        /\ Single(n, "host", l, "Reconn") /\ Single(n, "client", l, "JoinData")
        /\ Marked(n, "host", l, "Reconn") => Settled(n, l) /\ (c.gone \/ (c.armed /\ c.sent /\ c.sentLink = l))
        /\ Marked(n, "client", l, "JoinData") =>
               c.armed /\ c.sent /\ c.sentLink = l /\ ~Marked(n, "host", l, "Reconn")

\* A client that was taken back asks again only after it has lost that connection.
BackInv(n, d, h, c) ==
    h.backLink # NoLink =>
        /\ h.entries = 0 /\ h.status \in {"Chasing", "Ready"}
        /\ Settled(n, h.backLink) /\ ~Marked(n, "host", h.backLink, "Reconn")
        /\ c.armed /\ ~c.sent => d.msg # h.backLink /\ d.data # h.backLink

ConnInv(d, c) == (d.msg = NoLink <=> d.data = NoLink) /\ ~(c.gone /\ c.armed)

IInv ==
    /\ TypeOK /\ WireInv(net, client) /\ BackInv(net, node["client"], host, client)
    /\ ConnInv(node["client"], client)

\* Several steps of a handler are quiet together.
LEMMA QuietTransitive ==
    ASSUME NEW n, NEW m, NEW k, Quiet(n, m), Quiet(m, k)
    PROVE  Quiet(n, k)
BY DEF Quiet

\* What is handled leaves the wire.
LEMMA TailQuiet ==
    ASSUME NEW n \in Net, NEW s \in Side, NEW l \in Link, n.wire[s][l] # <<>>
    PROVE  LET m == [n EXCEPT !.wire[s][l] = Tail(@)]
           IN  /\ m \in Net /\ Quiet(n, m) /\ m.phys = n.phys /\ m.at = n.at
               /\ \A t : Single(n, s, l, t) /\ Head(n.wire[s][l]).type = t => ~Marked(m, s, l, t)
<1> DEFINE m == [n EXCEPT !.wire[s][l] = Tail(@)]
           w == n.wire[s][l]
<1>1. /\ w \in Seq(Packet) /\ Tail(w) \in Seq(Packet) /\ Len(w) \in Nat /\ Len(w) > 0
      /\ Len(Tail(w)) = Len(w) - 1 /\ Head(w) = w[1]
      /\ \A i \in 1..Len(Tail(w)) : Tail(w)[i] = w[i + 1]
  BY DEF Net
<1>2. m \in Net /\ m.phys = n.phys /\ m.at = n.at
  BY <1>1 DEF Net
<1>3. /\ m.wire[s][l] = Tail(w)
      /\ \A r \in Side, k \in Link : <<r, k>> # <<s, l>> => m.wire[r][k] = n.wire[r][k]
  BY DEF Net
<1>4. ASSUME NEW t
      PROVE  /\ Marked(m, s, l, t) => Marked(n, s, l, t)
             /\ Single(n, s, l, t) => Single(m, s, l, t)
             /\ Single(n, s, l, t) /\ Head(w).type = t => ~Marked(m, s, l, t)
  <2>1. Marked(m, s, l, t) => Marked(n, s, l, t)
    BY <1>1, <1>3 DEF Marked
  <2>2. ASSUME Single(n, s, l, t) PROVE Single(m, s, l, t)
    <3> SUFFICES ASSUME NEW i \in 1..Len(Tail(w)), NEW j \in 1..Len(Tail(w)), Tail(w)[i].type = t, Tail(w)[j].type = t
                 PROVE  i = j
      BY <1>3 DEF Single
    <3>1. i + 1 \in 1..Len(w) /\ j + 1 \in 1..Len(w)
      BY <1>1
    <3>2. w[i + 1].type = t /\ w[j + 1].type = t
      BY <1>1
    <3>3. i + 1 = j + 1
      BY <2>2, <3>1, <3>2 DEF Single
    <3> QED
      BY <3>3
  <2>3. ASSUME Single(n, s, l, t), Head(w).type = t PROVE ~Marked(m, s, l, t)
    <3> SUFFICES ASSUME NEW i \in 1..Len(Tail(w)), Tail(w)[i].type = t
                 PROVE  FALSE
      BY <1>3 DEF Marked
    <3>1. i + 1 \in 1..Len(w) /\ 1 \in 1..Len(w) /\ w[i + 1].type = t /\ w[1].type = t
      BY <1>1, <2>3
    <3>2. i + 1 = 1
      BY <2>3, <3>1 DEF Single
    <3> QED
      BY <3>2
  <2> QED
    BY <2>1, <2>2, <2>3
<1>5. ASSUME NEW r \in Side, NEW k \in Link, NEW t
      PROVE  /\ Marked(m, r, k, t) => Marked(n, r, k, t)
             /\ Single(n, r, k, t) => Single(m, r, k, t)
  <2>1. CASE <<r, k>> = <<s, l>>
    BY <1>4, <2>1
  <2>2. CASE <<r, k>> # <<s, l>>
    <3>1. m.wire[r][k] = n.wire[r][k]
      BY <1>3, <2>2
    <3> QED
      BY <3>1 DEF Marked, Single
  <2> QED
    BY <2>1, <2>2
<1>6. Quiet(n, m)
  BY <1>2, <1>5 DEF Quiet, Settled
<1> QED
  BY <1>2, <1>4, <1>6

Sent(n, s, l, p) == [n EXCEPT !.wire[s][l] = Append(@, p)]

\* What is sent, other than the request and its answer.
LEMMA AppendQuiet ==
    ASSUME NEW n \in Net, NEW s \in Side, NEW l \in Link, NEW p \in Packet
    PROVE  LET m == Sent(n, s, l, p)
           IN  /\ m \in Net /\ m.phys = n.phys /\ m.at = n.at
               /\ \A r \in Side, k \in Link : <<r, k>> # <<s, l>> => m.wire[r][k] = n.wire[r][k]
               /\ \A t : p.type # t => (Marked(m, s, l, t) => Marked(n, s, l, t))
               /\ \A t : p.type # t => (Single(n, s, l, t) => Single(m, s, l, t))
               /\ \A t : ~Marked(n, s, l, t) => Single(m, s, l, t)
               /\ p.type \notin {"Reconn", "JoinData"} => Quiet(n, m)
<1> DEFINE m == [n EXCEPT !.wire[s][l] = Append(@, p)]
           w == n.wire[s][l]
<1>1. w \in Seq(Packet) /\ Append(w, p) \in Seq(Packet) /\ Len(w) \in Nat /\ Len(Append(w, p)) = Len(w) + 1
  BY DEF Net
<1>2. (\A i \in 1..Len(w) : Append(w, p)[i] = w[i]) /\ Append(w, p)[Len(w) + 1] = p
  BY <1>1, AppendProperties
<1>3. m \in Net /\ m.phys = n.phys /\ m.at = n.at
  BY <1>1 DEF Net
<1>4. m.wire[s][l] = Append(w, p) /\ \A r \in Side, k \in Link : <<r, k>> # <<s, l>> => m.wire[r][k] = n.wire[r][k]
  BY DEF Net
<1>5. ASSUME NEW t, p.type # t
      PROVE  /\ Marked(m, s, l, t) => Marked(n, s, l, t)
             /\ Single(n, s, l, t) => Single(m, s, l, t)
  <2>1. \A i \in 1..Len(w) + 1 : Append(w, p)[i].type = t => i \in 1..Len(w) /\ w[i].type = t
    BY <1>1, <1>2, <1>5
  <2>2. Marked(m, s, l, t) => Marked(n, s, l, t)
    BY <1>1, <1>4, <2>1 DEF Marked
  <2>3. Single(n, s, l, t) => Single(m, s, l, t)
    BY <1>1, <1>4, <2>1 DEF Single
  <2> QED
    BY <2>2, <2>3
<1>6. ASSUME NEW t, ~Marked(n, s, l, t)
      PROVE  Single(m, s, l, t)
  <2>1. \A i \in 1..Len(w) + 1 : Append(w, p)[i].type = t => i = Len(w) + 1
    BY <1>1, <1>2, <1>6 DEF Marked
  <2> QED
    BY <1>1, <1>4, <2>1 DEF Single
<1>7. ASSUME p.type \notin {"Reconn", "JoinData"} PROVE Quiet(n, m)
  <2>1. ASSUME NEW r \in Side, NEW k \in Link, NEW t \in {"Reconn", "JoinData"}
        PROVE  /\ Marked(m, r, k, t) => Marked(n, r, k, t)
               /\ Single(n, r, k, t) => Single(m, r, k, t)
    <3>1. CASE <<r, k>> = <<s, l>>
      BY <1>5, <1>7, <3>1
    <3>2. CASE <<r, k>> # <<s, l>>
      <4>1. m.wire[r][k] = n.wire[r][k]
        BY <1>4, <3>2
      <4> QED
        BY <4>1 DEF Marked, Single
    <3> QED
      BY <3>1, <3>2
  <2> QED
    BY <1>3, <2>1 DEF Quiet, Settled
<1> HIDE DEF m
<1>8. Sent(n, s, l, p) = m
  BY DEF Sent, m
<1> QED
  BY <1>3, <1>4, <1>5, <1>6, <1>7, <1>8

\* A step that leaves the network alone is quiet.
LEMMA QuietReflexive == \A n : Quiet(n, n)
BY DEF Quiet

\* As Push does it: what is sent on a connection that is no more gets lost.
LEMMA PushQuiet ==
    ASSUME NEW n \in Net, NEW s \in Side, NEW l \in 0..MaxLinks, NEW p \in Packet, p.type \notin {"Reconn", "JoinData"}
    PROVE  Push(n, s, l, p) \in Net /\ Quiet(n, Push(n, s, l, p))
<1>1. l # NoLink => l \in Link
  BY BoundsAssumption DEF Link, NoLink
<1> QED
  BY <1>1, AppendQuiet, QuietReflexive DEF Push, Sent

\* Closing a connection puts nothing on a wire.
LEMMA CloseQuiet ==
    ASSUME NEW n \in Net, NEW s \in Side, NEW l \in Link
    PROVE  Close(n, s, l) \in Net /\ Close(n, s, l).wire = n.wire /\ Quiet(n, Close(n, s, l))
<1> DEFINE a == [n.at EXCEPT ![s][l] = "Closing"]
           f == [n.phys EXCEPT ![l] = IF @ = "Up" THEN "Shut" ELSE @]
           m == [phys |-> f, at |-> a, wire |-> n.wire]
<1>1. /\ n.phys \in [Link -> Phys] /\ n.at \in [Side -> [Link -> Hold]] /\ n.wire \in [Side -> [Link -> Seq(Packet)]]
      /\ n = [phys |-> n.phys, at |-> n.at, wire |-> n.wire]
  BY DEF Net
<1>2. f \in [Link -> Phys] /\ a \in [Side -> [Link -> Hold]]
  BY <1>1 DEF Phys, Hold
<1>3. m \in Net
  BY <1>1, <1>2 DEF Net
<1>4. ASSUME n.at[s][l] \in {"Half", "Open"}
      PROVE  Close(n, s, l) = m
  <2>1. Close(n, s, l) = [[phys |-> n.phys, at |-> n.at, wire |-> n.wire]
                            EXCEPT !.at[s][l] = "Closing", !.phys[l] = IF @ = "Up" THEN "Shut" ELSE @]
    BY <1>1, <1>4 DEF Close
  <2> QED
    BY <2>1
<1>5. ASSUME n.at[s][l] \in {"Half", "Open"} PROVE Quiet(n, m)
  <2>1. m.wire = n.wire /\ m.at = a /\ m.phys = f
    OBVIOUS
  <2> HIDE DEF m, a, f
  <2>2. \A r \in Side, k \in Link, t \in {"Reconn", "JoinData"} :
            (Marked(m, r, k, t) => Marked(n, r, k, t)) /\ (Single(n, r, k, t) => Single(m, r, k, t))
    BY <2>1 DEF Marked, Single
  <2>3. \A k \in Link :
            /\ Settled(n, k) => Settled(m, k)
            /\ m.phys[k] = "Up" => n.phys[k] = "Up"
            /\ m.phys[k] = "Free" => n.phys[k] = "Free"
            /\ m.phys[k] = "Free" /\ n.at["client"][k] = "None" => m.at["client"][k] = "None"
    <3> TAKE k \in Link
    <3>1. /\ a["client"][k] \in {"None", "Half"} => n.at["client"][k] \in {"None", "Half"}
          /\ n.at["client"][k] = "None" => a["client"][k] = "None"
      BY <1>1, <1>5 DEF Side, a
    <3>2. (f[k] = "Up" => n.phys[k] = "Up") /\ (f[k] = "Free" => n.phys[k] = "Free")
      BY <1>1 DEF f
    <3> QED
      BY <2>1, <3>1, <3>2 DEF Settled
  <2> QED
    BY <2>2, <2>3 DEF Quiet
<1> QED
  BY <1>3, <1>4, <1>5, QuietReflexive DEF Close

\* NoLink is no connection.
LEMMA LinkFacts == Link \subseteq Nat /\ NoLink \notin Link /\ \A l \in 0..MaxLinks : l # NoLink => l \in Link
BY BoundsAssumption DEF Link, NoLink

\* A step that adds no request and no answer, and leaves the client's request alone.
LEMMA QuietStep ==
    ASSUME IInv, TypeOK', Quiet(net, net'),
           client'.gone = client.gone, client'.armed = client.armed,
           client'.sent = client.sent, client'.sentLink = client.sentLink,
           \/ host'.backLink = NoLink
           \/ /\ host'.backLink = host.backLink /\ host'.entries = host.entries
              /\ host'.status = host.status \/ host'.status = "Ready",
           ConnInv(node["client"]', client'),
           \A l \in Link : Settled(net, l) /\ l # node["client"].msg /\ l # node["client"].data
                           => l # node["client"].msg' /\ l # node["client"].data'
    PROVE  IInv'
<1>1. WireInv(net', client')
  <2>1. SUFFICES ASSUME NEW l \in Link
                 PROVE  /\ net'.phys[l] = "Free" => net'.at["client"][l] = "None"
                        /\ client'.gone => net'.phys[l] # "Up"
                        /\ Single(net', "host", l, "Reconn") /\ Single(net', "client", l, "JoinData")
                        /\ Marked(net', "host", l, "Reconn") =>
                             Settled(net', l) /\ (client'.gone \/ (client'.armed /\ client'.sent /\ client'.sentLink = l))
                        /\ Marked(net', "client", l, "JoinData") =>
                             client'.armed /\ client'.sent /\ client'.sentLink = l /\ ~Marked(net', "host", l, "Reconn")
    BY DEF WireInv
  <2>2. /\ Marked(net', "host", l, "Reconn") => Marked(net, "host", l, "Reconn")
        /\ Marked(net', "client", l, "JoinData") => Marked(net, "client", l, "JoinData")
        /\ Single(net, "host", l, "Reconn") => Single(net', "host", l, "Reconn")
        /\ Single(net, "client", l, "JoinData") => Single(net', "client", l, "JoinData")
        /\ Settled(net, l) => Settled(net', l)
        /\ net'.phys[l] = "Free" => net.phys[l] = "Free"
        /\ net'.phys[l] = "Free" /\ net.at["client"][l] = "None" => net'.at["client"][l] = "None"
        /\ net'.phys[l] = "Up" => net.phys[l] = "Up"
    BY DEF Quiet, Side
  <2> QED
    BY <2>2 DEF IInv, WireInv
<1>2. BackInv(net', node["client"]', host', client')
  <2> SUFFICES ASSUME host'.backLink # NoLink
               PROVE  BackInv(net', node["client"]', host', client')
    BY DEF BackInv
  <2>1. host.backLink \in Link /\ host'.backLink = host.backLink
    BY LinkFacts DEF IInv, TypeOK, Conns, Hosts, Clients
  <2>2. /\ Settled(net, host.backLink) => Settled(net', host.backLink)
        /\ Marked(net', "host", host.backLink, "Reconn") => Marked(net, "host", host.backLink, "Reconn")
    BY <2>1 DEF Quiet, Side
  <2> QED
    BY <2>1, <2>2 DEF IInv, BackInv
<1> QED
  BY <1>1, <1>2 DEF IInv

\* What comes on a connection is taken off it.
LEMMA RestQuiet ==
    ASSUME TypeOK, NEW s \in Side, NEW l \in Link, NEW t, Comes(s, l, t)
    PROVE  /\ Rest(s, l) \in Net /\ Quiet(net, Rest(s, l)) /\ Rest(s, l).phys = net.phys /\ Rest(s, l).at = net.at
           /\ Single(net, s, l, t) => ~Marked(Rest(s, l), s, l, t)
           /\ Head(net.wire[s][l]) \in Packet /\ Head(net.wire[s][l]).type = t
           /\ Marked(net, s, l, t)
<1>1. net \in Net /\ net.wire[s][l] # <<>> /\ Head(net.wire[s][l]).type = t
  BY DEF TypeOK, Conns, Hosts, Clients, Comes
<1>2. net.wire[s][l] \in Seq(Packet)
  BY <1>1 DEF Net
<1>3. Head(net.wire[s][l]) \in Packet /\ Len(net.wire[s][l]) > 0 /\ Head(net.wire[s][l]) = net.wire[s][l][1]
      /\ Len(net.wire[s][l]) \in Nat
  BY <1>1, <1>2
<1>4. Marked(net, s, l, t)
  BY <1>1, <1>3 DEF Marked
<1> QED
  BY <1>1, <1>3, <1>4, TailQuiet DEF Rest

\* A connection breaks.
LEMMA BreakPreserves == ASSUME IInv, NEW l \in Link, Break(l) PROVE IInv'
<1>1. net \in Net /\ net' = [net EXCEPT !.phys[l] = "Broken"] /\ net.phys[l] = "Up"
  BY DEF Break, IInv, TypeOK, Conns, Hosts, Clients
<1>2. net' \in Net /\ net'.at = net.at /\ net'.wire = net.wire /\ net'.phys = [net.phys EXCEPT ![l] = "Broken"]
  BY <1>1 DEF Net, Phys
<1>3. \A k \in Link : (net'.phys[k] = "Free" => net.phys[k] = "Free") /\ (net'.phys[k] = "Up" => net.phys[k] = "Up")
  BY <1>1, <1>2 DEF Net
<1>4. Quiet(net, net')
  BY <1>2, <1>3 DEF Quiet, Marked, Single, Settled
<1>5. TypeOK'
  BY <1>2 DEF Break, IInv, TypeOK, Conns, Hosts, Clients
<1>6. /\ client' = client /\ host' = host /\ node' = node
  BY DEF Break
<1> QED
  BY <1>4, <1>5, <1>6, QuietStep DEF IInv

\* The client's time runs out.
LEMMA TimePreserves == ASSUME IInv, TimePasses PROVE IInv'
<1>1. TypeOK' /\ net' = net /\ host' = host /\ node' = node
  BY DEF TimePasses, IInv, TypeOK, Conns, Hosts, Clients
<1>2. /\ client'.gone = client.gone /\ client'.armed = client.armed
      /\ client'.sent = client.sent /\ client'.sentLink = client.sentLink
  BY DEF TimePasses, IInv, TypeOK, Conns, Hosts, Clients
<1>3. Quiet(net, net') /\ ConnInv(node["client"]', client')
  BY <1>1, <1>2, QuietReflexive DEF IInv, ConnInv
<1> QED
  BY <1>1, <1>2, <1>3, QuietStep

\* The entry ends, and the client is to be removed.
LEMMA TickPreserves == ASSUME IInv, TickDormancy PROVE IInv'
<1> DEFINE h == [host EXCEPT !.entries = @ - 1]
<1>0. UNCHANGED <<net, node, client, breaks>> /\ host' = CtrlRemove(h) /\ host.entries > 0
  BY DEF TickDormancy
<1>a. /\ h \in Hosts
  BY <1>0 DEF IInv, TypeOK, Conns, Hosts, Clients
<1> HIDE DEF h
<1>b. NoLink \in 0..MaxLinks
  BY BoundsAssumption DEF NoLink
<1>1. /\ TypeOK' /\ host'.backLink = NoLink /\ UNCHANGED <<net, node, client>>
  BY <1>0, <1>a, <1>b DEF CtrlRemove, IInv, TypeOK, Conns, Hosts, Clients
<1>2. Quiet(net, net') /\ ConnInv(node["client"]', client')
  BY <1>1, QuietReflexive DEF IInv
<1> QED
  BY <1>1, <1>2, QuietStep

\* The host sends a chase target.
LEMMA ChasePreserves == ASSUME IInv, UpdateChaseTarget PROVE IInv'
<1>1. UNCHANGED <<node, client, breaks>>
  BY DEF UpdateChaseTarget
<1>2. CASE host.status # "Chasing"
  <2>1. net' = net /\ host' = [host EXCEPT !.chase = FALSE]
    BY <1>2 DEF UpdateChaseTarget
  <2>2. TypeOK' /\ host'.backLink = host.backLink /\ host'.entries = host.entries /\ host'.status = host.status
    BY <1>1, <2>1 DEF IInv, TypeOK, Conns, Hosts, Clients
  <2>3. Quiet(net, net') /\ ConnInv(node["client"]', client')
    BY <1>1, <2>1, QuietReflexive DEF IInv
  <2> QED
    BY <1>1, <2>2, <2>3, QuietStep
<1>3. CASE host.status = "Chasing"
  <2>1. PICK x \in Fresh : net' = Push(net, "client", node["host"].msg, Status(x))
    BY <1>3 DEF UpdateChaseTarget
  <2>2. host' = host
    BY <1>3 DEF UpdateChaseTarget
  <2>3. Status(x) \in Packet /\ Status(x).type \notin {"Reconn", "JoinData"}
    BY DEF Fresh, Status, Packet
  <2>4. net \in Net /\ node["host"].msg \in 0..MaxLinks
    BY DEF IInv, TypeOK, Conns, Hosts, Clients, Side
  <2>5. net' \in Net /\ Quiet(net, net')
    BY <2>1, <2>3, <2>4, PushQuiet DEF Side
  <2>6. TypeOK'
    BY <1>1, <2>2, <2>5 DEF IInv, TypeOK, Conns, Hosts, Clients
  <2> QED
    BY <1>1, <2>2, <2>5, <2>6, QuietStep DEF IInv
<1> QED
  BY <1>2, <1>3

\* The client reports that it has reached its target.
LEMMA ReachedPreserves == ASSUME IInv, CheckStatusReached PROVE IInv'
<1>1. /\ UNCHANGED <<node, host, breaks>> /\ client' = [client EXCEPT !.reached = TRUE, !.runs = FALSE]
      /\ net' = Push(net, "host", node["client"].msg, StatusAck(client.target))
  BY DEF CheckStatusReached
<1>2. StatusAck(client.target) \in Packet /\ StatusAck(client.target).type \notin {"Reconn", "JoinData"}
  BY DEF StatusAck, Packet, IInv, TypeOK, Conns, Hosts, Clients
<1>3. net \in Net /\ node["client"].msg \in 0..MaxLinks
  BY DEF IInv, TypeOK, Conns, Hosts, Clients, Side
<1>4. net' \in Net /\ Quiet(net, net')
  BY <1>1, <1>2, <1>3, PushQuiet DEF Side
<1>5. /\ client'.gone = client.gone /\ client'.armed = client.armed
      /\ client'.sent = client.sent /\ client'.sentLink = client.sentLink
  BY <1>1 DEF IInv, TypeOK, Conns, Hosts, Clients
<1>6. TypeOK'
  BY <1>1, <1>4 DEF IInv, TypeOK, Conns, Hosts, Clients
<1>7. ConnInv(node["client"]', client')
  BY <1>1, <1>5 DEF IInv, ConnInv
<1> QED
  BY <1>1, <1>4, <1>5, <1>6, <1>7, QuietStep

\* The client gets a chase target.
LEMMA StatusPreserves == ASSUME IInv, NEW l \in Link, HandleStatus(l) PROVE IInv'
<1> DEFINE p == Head(net.wire["client"][l])
<1>1. UNCHANGED <<node, host, breaks>> /\ net' = Rest("client", l) /\ Comes("client", l, "Status")
  BY DEF HandleStatus
<1>2. net' \in Net /\ Quiet(net, net') /\ p \in Packet /\ p.type = "Status"
  BY <1>1, RestQuiet DEF IInv, Side
<1>3. p.target \in Target
  BY <1>2 DEF Packet
<1> HIDE DEF p
<1>4. \/ client' = client
      \/ client' = [client EXCEPT !.reached = FALSE, !.runs = FALSE, !.target = p.target]
  BY DEF HandleStatus, p
<1>5. /\ client'.gone = client.gone /\ client'.armed = client.armed
      /\ client'.sent = client.sent /\ client'.sentLink = client.sentLink
  BY <1>4 DEF IInv, TypeOK, Conns, Hosts, Clients
<1>6. TypeOK'
  BY <1>1, <1>2, <1>3, <1>4 DEF IInv, TypeOK, Conns, Hosts, Clients
<1>7. ConnInv(node["client"]', client')
  BY <1>1, <1>5 DEF IInv, ConnInv
<1> QED
  BY <1>1, <1>2, <1>5, <1>6, <1>7, QuietStep

\* The client goes on when its status is acknowledged.
LEMMA ClientAckPreserves == ASSUME IInv, NEW l \in Link, ClientStatusAck(l) PROVE IInv'
<1> DEFINE r == client.runs \/ (client.reached /\ Head(net.wire["client"][l]).target = client.target)
<1>1. UNCHANGED <<node, host, breaks>> /\ net' = Rest("client", l) /\ Comes("client", l, "StatusAck")
  BY DEF ClientStatusAck
<1>2. net' \in Net /\ Quiet(net, net')
  BY <1>1, RestQuiet DEF IInv, Side
<1>3. client' = [client EXCEPT !.runs = r]
  BY DEF ClientStatusAck, IInv, TypeOK, Conns, Hosts, Clients
<1>4. r \in BOOLEAN
  BY Zenon DEF r
<1> HIDE DEF r
<1>5. /\ client'.gone = client.gone /\ client'.armed = client.armed
      /\ client'.sent = client.sent /\ client'.sentLink = client.sentLink
  BY <1>3 DEF IInv, TypeOK, Conns, Hosts, Clients
<1>6. TypeOK'
  BY <1>1, <1>2, <1>3, <1>4 DEF IInv, TypeOK, Conns, Hosts, Clients
<1>7. ConnInv(node["client"]', client')
  BY <1>1, <1>5 DEF IInv, ConnInv
<1> QED
  BY <1>1, <1>2, <1>5, <1>6, <1>7, QuietStep

\* The host acknowledges; the client that was taken back is ready.
LEMMA HostAckPreserves == ASSUME IInv, NEW l \in Link, HostStatusAck(l) PROVE IInv'
<1> DEFINE p == Head(net.wire["host"][l])
           n == Rest("host", l)
<1>1. UNCHANGED <<node, client, breaks>> /\ Comes("host", l, "StatusAck")
  BY DEF HostStatusAck
<1>2. n \in Net /\ Quiet(net, n) /\ p \in Packet /\ p.type = "StatusAck"
  BY <1>1, RestQuiet DEF IInv, Side
<1> HIDE DEF n, p
<1>3. \/ net' = n /\ host' = host
      \/ net' = Push(n, "client", node["host"].msg, p) /\ host' = [host EXCEPT !.status = "Ready"]
  BY DEF HostStatusAck, n, p
<1>4. node["host"].msg \in 0..MaxLinks
  BY DEF IInv, TypeOK, Conns, Hosts, Clients, Side
<1>5. Push(n, "client", node["host"].msg, p) \in Net /\ Quiet(n, Push(n, "client", node["host"].msg, p))
  BY <1>2, <1>4, PushQuiet DEF Side
<1>6. net' \in Net /\ Quiet(net, net')
  BY <1>2, <1>3, <1>5, QuietTransitive
<1>7. /\ host'.backLink = host.backLink /\ host'.entries = host.entries
      /\ host'.status = host.status \/ host'.status = "Ready"
  BY <1>3 DEF IInv, TypeOK, Conns, Hosts, Clients
<1>8. TypeOK'
  BY <1>1, <1>3, <1>6 DEF IInv, TypeOK, Conns, Hosts, Clients
<1> QED
  BY <1>1, <1>6, <1>7, <1>8, QuietStep DEF IInv

\* A connection that opens is new, and was not used for a request.
LEMMA OpenPreserves == ASSUME IInv, NEW s \in Side, NEW l \in Link, HandleConnRe(s, l) PROVE IInv'
<1> DEFINE n == Rest(s, l)
<1>1. UNCHANGED <<client, breaks>> /\ Comes(s, l, "ConnRe")
  BY DEF HandleConnRe
<1>2. n \in Net /\ Quiet(net, n) /\ n.at = net.at
  BY <1>1, RestQuiet DEF IInv
<1>3. host' = host \/ host' = [host EXCEPT !.only = NoLink]
  BY DEF HandleConnRe
<1>4. /\ host'.backLink = host.backLink /\ host'.entries = host.entries /\ host'.status = host.status
      /\ host' \in Hosts
  BY <1>3, BoundsAssumption DEF IInv, TypeOK, Conns, Hosts, Clients, NoLink
<1> HIDE DEF n
<1>5. \/ net' = Close(n, s, l) /\ node' = node
      \/ net' = n /\ node' = node
      \/ /\ net.at[s][l] = "Half"
         /\ net' = [n EXCEPT !.at[s][l] = "Open"] /\ node' = [node EXCEPT ![s] = SetMsgConn(@, l)]
  BY DEF HandleConnRe, n
<1>6. CASE node' = node /\ net' \in {n, Close(n, s, l)}
  <2>1. net' \in Net /\ Quiet(net, net')
    BY <1>2, <1>6, CloseQuiet, QuietTransitive
  <2>2. TypeOK'
    BY <1>1, <1>4, <1>6, <2>1 DEF IInv, TypeOK, Conns, Hosts, Clients
  <2> QED
    BY <1>1, <1>4, <1>6, <2>1, <2>2, QuietStep DEF IInv
<1>7. CASE /\ net.at[s][l] = "Half"
           /\ net' = [n EXCEPT !.at[s][l] = "Open"] /\ node' = [node EXCEPT ![s] = SetMsgConn(@, l)]
  <2>1. /\ net' \in Net /\ net'.phys = n.phys /\ net'.wire = n.wire /\ net'.at[s][l] = "Open"
        /\ \A r \in Side, k \in Link : <<r, k>> # <<s, l>> => net'.at[r][k] = n.at[r][k]
    BY <1>2, <1>7 DEF Net, Hold
  <2>2. /\ \A k \in Link : Settled(n, k) => Settled(net', k)
        /\ \A k \in Link : n.at["client"][k] = "None" => net'.at["client"][k] = "None"
    BY <1>2, <1>7, <2>1 DEF Settled, Side
  <2>3. Quiet(n, net')
    BY <2>1, <2>2 DEF Quiet, Marked, Single
  <2>4. Quiet(net, net')
    BY <1>2, <2>3, QuietTransitive
  <2>5. /\ node["client"]' = node["client"] \/ (s = "client" /\ node["client"]' = SetMsgConn(node["client"], l))
        /\ node[s] \in Conns
        /\ node["client"] \in Conns
        /\ l \in 0..MaxLinks /\ l # NoLink
    BY <1>7, LinkFacts DEF IInv, TypeOK, Conns, Hosts, Clients, Side, Link
  <2>6. SetMsgConn(node[s], l) \in Conns
    BY <2>5 DEF Conns, SetMsgConn
  <2>7. TypeOK'
    BY <1>1, <1>4, <1>7, <2>1, <2>6 DEF IInv, TypeOK, Conns, Hosts, Clients
  <2>8. ASSUME NEW k \in Link, Settled(net, k), k # node["client"].msg, k # node["client"].data
        PROVE  k # node["client"].msg' /\ k # node["client"].data'
    <3>1. CASE node["client"]' = node["client"]
      BY <2>8, <3>1
    <3>2. CASE s = "client" /\ node["client"]' = SetMsgConn(node["client"], l)
      <4>1. k # l
        BY <1>7, <2>8, <3>2 DEF Settled
      <4>2. node["client"].msg' = l /\ node["client"].data' \in {l, node["client"].data}
        BY <2>5, <3>2 DEF SetMsgConn
      <4> QED
        BY <2>8, <4>1, <4>2
    <3> QED
      BY <2>5, <3>1, <3>2
  <2>9. ConnInv(node["client"]', client')
    BY <1>1, <2>5 DEF Conns, IInv, ConnInv, SetMsgConn
  <2> QED
    BY <1>1, <1>4, <2>4, <2>7, <2>8, <2>9, QuietStep
<1> QED
  BY <1>5, <1>6, <1>7

\* The two connections of a side are closed.
LEMMA CloseConnsQuiet ==
    ASSUME NEW n \in Net, NEW s \in Side, NEW d, d.msg \in 0..MaxLinks, d.data \in 0..MaxLinks
    PROVE  CloseConns(n, s, d) \in Net /\ CloseConns(n, s, d).wire = n.wire /\ Quiet(n, CloseConns(n, s, d))
<1> DEFINE shut(k, l) == IF l = NoLink THEN k ELSE Close(k, s, l)
<1>1. ASSUME NEW k \in Net, NEW l \in 0..MaxLinks
      PROVE  shut(k, l) \in Net /\ shut(k, l).wire = k.wire /\ Quiet(k, shut(k, l))
  BY CloseQuiet, QuietReflexive, LinkFacts
<1>2. CloseConns(n, s, d) = shut(shut(n, d.msg), d.data)
  BY DEF CloseConns
<1> HIDE DEF shut
<1>3. shut(n, d.msg) \in Net /\ shut(n, d.msg).wire = n.wire /\ Quiet(n, shut(n, d.msg))
  BY <1>1
<1>4. /\ shut(shut(n, d.msg), d.data) \in Net /\ shut(shut(n, d.msg), d.data).wire = shut(n, d.msg).wire
      /\ Quiet(shut(n, d.msg), shut(shut(n, d.msg), d.data))
  BY <1>1, <1>3
<1> QED
  BY <1>2, <1>3, <1>4, QuietTransitive

\* What is left on the wires of a client that has given up went to the host.
LEMMA ClearQuiet ==
    ASSUME NEW n \in Net
    PROVE  /\ ClearNet(n) \in Net /\ Quiet(n, ClearNet(n))
           /\ \A l \in Link : ClearNet(n).phys[l] # "Up" /\ \A t : ~Marked(ClearNet(n), "client", l, t)
<1> DEFINE f == [l \in Link |-> IF n.phys[l] = "Up" THEN "Shut" ELSE n.phys[l]]
           c == [l \in Link |-> IF n.at["client"][l] = "None" THEN "None" ELSE "Closed"]
           a == [n.at EXCEPT !["client"] = c]
           w == [n.wire EXCEPT !["client"] = [l \in Link |-> <<>>]]
           m == [phys |-> f, at |-> a, wire |-> w]
<1>1. /\ n.phys \in [Link -> Phys] /\ n.at \in [Side -> [Link -> Hold]] /\ n.wire \in [Side -> [Link -> Seq(Packet)]]
      /\ n = [phys |-> n.phys, at |-> n.at, wire |-> n.wire]
  BY DEF Net
<1>2. ClearNet(n) = m
  <2> DEFINE r == [phys |-> n.phys, at |-> n.at, wire |-> n.wire]
  <2>1. r.at["client"] = n.at["client"] /\ r.phys = n.phys
    OBVIOUS
  <2>2. ClearNet(n) = [r EXCEPT !.at["client"] = c, !.wire["client"] = [l \in Link |-> <<>>], !.phys = f]
    BY <1>1, <2>1 DEF ClearNet
  <2> HIDE DEF c, f
  <2> QED
    BY <2>2
<1>3. f \in [Link -> Phys] /\ a \in [Side -> [Link -> Hold]] /\ w \in [Side -> [Link -> Seq(Packet)]]
  <2>1. f \in [Link -> Phys]
    BY <1>1 DEF Phys
  <2>2. a \in [Side -> [Link -> Hold]]
    <3>1. c \in [Link -> Hold]
      BY DEF Hold
    <3> QED
      BY <1>1, <3>1
  <2>3. w \in [Side -> [Link -> Seq(Packet)]]
    <3>1. <<>> \in Seq(Packet)
      OBVIOUS
    <3> QED
      BY <1>1, <3>1 DEF Side
  <2> QED
    BY <2>1, <2>2, <2>3
<1>4. /\ w["host"] = n.wire["host"] /\ \A l \in Link : w["client"][l] = <<>>
      /\ \A l \in Link : a["client"][l] = IF n.at["client"][l] = "None" THEN "None" ELSE "Closed"
      /\ \A l \in Link : f[l] = IF n.phys[l] = "Up" THEN "Shut" ELSE n.phys[l]
  BY <1>1 DEF Side
<1>5. m \in Net /\ m.phys = f /\ m.at = a /\ m.wire = w
  BY <1>3 DEF Net
<1> HIDE DEF m, f, a, w
<1>6. \A l \in Link : m.phys[l] # "Up" /\ \A t : ~Marked(m, "client", l, t) /\ Single(m, "client", l, t)
  BY <1>4, <1>5 DEF Marked, Single
<1>7. \A l \in Link : \A t : /\ Marked(m, "host", l, t) <=> Marked(n, "host", l, t)
                             /\ Single(m, "host", l, t) <=> Single(n, "host", l, t)
  BY <1>4, <1>5 DEF Marked, Single
<1>8. Quiet(n, m)
  BY <1>4, <1>5, <1>6, <1>7 DEF Quiet, Settled, Side
<1> QED
  BY <1>2, <1>5, <1>6, <1>8

\* The host deletes the client.
LEMMA ClientRemovePreserves == ASSUME IInv, ClientRemove PROVE IInv'
<1> DEFINE n == Push(net, "client", node["host"].msg, Simple("Remove"))
<1>1. /\ UNCHANGED <<client, breaks>>
      /\ host' = [host EXCEPT !.status = "Deleted", !.backLink = NoLink, !.only = NoLink]
      /\ net' = CloseConns(n, "host", node["host"]) /\ node' = [node EXCEPT !["host"] = NoConns(@)]
  BY DEF ClientRemove
<1>2. /\ node["host"].msg \in 0..MaxLinks /\ node["host"].data \in 0..MaxLinks /\ net \in Net
      /\ NoLink \in 0..MaxLinks /\ "host" \in Side /\ "client" \in Side
  BY BoundsAssumption DEF IInv, TypeOK, Conns, Hosts, Clients, Side, NoLink
<1>3. Simple("Remove") \in Packet /\ Simple("Remove").type \notin {"Reconn", "JoinData"}
  BY DEF Simple, Packet
<1>4. n \in Net /\ Quiet(net, n)
  BY <1>2, <1>3, PushQuiet
<1> HIDE DEF n
<1>5. net' \in Net /\ Quiet(net, net')
  BY <1>1, <1>2, <1>4, CloseConnsQuiet, QuietTransitive
<1>6. node["client"]' = node["client"] /\ host'.backLink = NoLink
  BY <1>1 DEF IInv, TypeOK, Conns, Hosts, Clients, Side
<1>7. TypeOK'
  BY <1>1, <1>2, <1>5 DEF IInv, TypeOK, Conns, Hosts, Clients, NoConns
<1> QED
  BY <1>1, <1>5, <1>6, <1>7, QuietStep DEF IInv

\* The client gives up and clears its network.
LEMMA Cleared ==
    ASSUME IInv, TypeOK', NEW n \in Net, Quiet(net, n), net' = ClearNet(n), client' = Clear(client), host' = host,
           node["client"]'.msg = NoLink <=> node["client"]'.data = NoLink
    PROVE  IInv'
<1>1. /\ net' \in Net /\ Quiet(net, net')
      /\ \A l \in Link : net'.phys[l] # "Up" /\ ~Marked(net', "client", l, "JoinData")
  BY ClearQuiet, QuietTransitive
<1>2. client'.gone /\ ~client'.armed
  BY DEF Clear
<1>3. \A l \in Link : /\ Marked(net', "host", l, "Reconn") => Marked(net, "host", l, "Reconn")
                      /\ Single(net, "host", l, "Reconn") => Single(net', "host", l, "Reconn")
                      /\ Single(net, "client", l, "JoinData") => Single(net', "client", l, "JoinData")
                      /\ Settled(net, l) => Settled(net', l)
                      /\ net'.phys[l] = "Free" => net.phys[l] = "Free"
                      /\ net'.phys[l] = "Free" /\ net.at["client"][l] = "None" => net'.at["client"][l] = "None"
  BY <1>1 DEF Quiet, Side
<1>4. WireInv(net', client')
  BY <1>1, <1>2, <1>3 DEF IInv, WireInv
<1>5. BackInv(net', node["client"]', host', client')
  <2> SUFFICES ASSUME host.backLink # NoLink PROVE BackInv(net', node["client"]', host', client')
    BY DEF BackInv
  <2>1. host.backLink \in Link
    BY LinkFacts DEF IInv, TypeOK, Conns, Hosts, Clients
  <2> QED
    BY <1>2, <1>3, <2>1 DEF IInv, BackInv
<1> QED
  BY <1>2, <1>4, <1>5 DEF IInv, ConnInv

\* The client learns that it was removed.
LEMMA HandleRemovePreserves == ASSUME IInv, NEW l \in Link, HandleRemove(l) PROVE IInv'
<1>1. /\ UNCHANGED <<host, breaks>> /\ net' = ClearNet(net) /\ client' = Clear(client)
      /\ node' = [node EXCEPT !["client"] = NoConns(@)]
  BY DEF HandleRemove
<1>2. net \in Net /\ Quiet(net, net) /\ ClearNet(net) \in Net /\ NoLink \in 0..MaxLinks
  BY ClearQuiet, QuietReflexive, BoundsAssumption DEF IInv, TypeOK, Conns, Hosts, Clients, NoLink
<1>3. node["client"]'.msg = NoLink /\ node["client"]'.data = NoLink
  BY <1>1 DEF IInv, TypeOK, Conns, Hosts, Clients, Side, NoConns
<1>4. TypeOK'
  BY <1>1, <1>2 DEF IInv, TypeOK, Conns, Hosts, Clients, NoConns, Clear
<1> QED
  BY <1>1, <1>2, <1>3, <1>4, Cleared

\* Side s learns that a connection has gone, or an attempt has failed.
LEMMA DisconnectedPreserves ==
    ASSUME IInv, NEW s \in Side, NEW n \in Net, Quiet(net, n), NEW d \in Conns,
           s = "client" => (d.msg = NoLink <=> d.data = NoLink),
           {d.msg, d.data} \subseteq {node[s].msg, node[s].data, NoLink},
           Disconnected(s, n, d), breaks' = breaks
    PROVE  IInv'
<1>1. node' = [node EXCEPT ![s] = d]
  BY DEF Disconnected
<1>2. /\ s = "client" => node["client"]' = d
      /\ s = "host" => node["client"]' = node["client"]
      /\ node' \in [Side -> Conns] /\ s \in {"host", "client"}
  BY <1>1 DEF IInv, TypeOK, Conns, Hosts, Clients, Side
<1>3. node["client"]'.msg = NoLink <=> node["client"]'.data = NoLink
  BY <1>2 DEF IInv, ConnInv
<1>4. \A l \in Link : l # node["client"].msg /\ l # node["client"].data
                      => l # node["client"].msg' /\ l # node["client"].data'
  BY <1>2, LinkFacts
<1>5. CASE client' = client /\ net' \in {n, ClearNet(n)} /\ (host' = host \/ s = "host")
  <2>1. net' \in Net /\ Quiet(net, net')
    BY <1>5, ClearQuiet, QuietTransitive
  <2>2. host' = host \/ host' = EnterDormancy(host)
    BY <1>2, <1>5 DEF Disconnected
  <2>3. /\ host' = host \/ host'.backLink = NoLink
        /\ host' \in Hosts
    <3>1. host \in Hosts
      BY DEF IInv, TypeOK, Conns, Hosts, Clients
    <3>2. NoLink \in 0..MaxLinks
      BY BoundsAssumption DEF NoLink
    <3>3. CASE host.entries > 0
      BY <2>2, <3>1, <3>2, <3>3 DEF Hosts, EnterDormancy
    <3>4. CASE ~(host.entries > 0)
      BY <2>2, <3>1, <3>2, <3>4 DEF Hosts, EnterDormancy
    <3> QED
      BY <3>3, <3>4
  <2>4. TypeOK'
    BY <1>2, <1>5, <2>1, <2>3 DEF IInv, TypeOK, Conns, Hosts, Clients
  <2>5. ConnInv(node["client"]', client')
    BY <1>3, <1>5 DEF IInv, ConnInv
  <2> QED
    BY <1>4, <1>5, <2>1, <2>3, <2>4, <2>5, QuietStep
<1>6. CASE s = "client" /\ ~isConnected(d) /\ ~client.gone /\ host' = host
  <2>1. client' = TryReconnectToHost(client) /\ net' = IF client'.gone THEN ClearNet(n) ELSE n
    BY <1>6 DEF Disconnected
  <2>2. d.msg = NoLink /\ d.data = NoLink /\ node["client"]' = d
    BY <1>2, <1>6 DEF isConnected
  <2>3. CASE ~client.armed
    <3>1. client' = [client EXCEPT !.armed = TRUE, !.sent = FALSE, !.late = FALSE]
      BY <2>1, <2>3 DEF TryReconnectToHost
    <3>2. ~client'.gone /\ client'.armed /\ net' = n /\ TypeOK'
      BY <1>2, <1>6, <2>1, <3>1 DEF IInv, TypeOK, Conns, Hosts, Clients
    <3>3. WireInv(net', client')
      <4>1. ASSUME NEW l \in Link
            PROVE  /\ n.phys[l] = "Free" => n.at["client"][l] = "None"
                   /\ Single(n, "host", l, "Reconn") /\ Single(n, "client", l, "JoinData")
                   /\ ~Marked(n, "host", l, "Reconn") /\ ~Marked(n, "client", l, "JoinData")
        BY <1>6, <2>3 DEF IInv, WireInv, Quiet, Side
      <4> QED
        BY <3>2, <4>1 DEF WireInv
    <3>4. BackInv(net', node["client"]', host', client')
      <4> SUFFICES ASSUME host.backLink # NoLink PROVE BackInv(net', node["client"]', host', client')
        BY <1>6 DEF BackInv
      <4>1. host.backLink \in Link
        BY LinkFacts DEF IInv, TypeOK, Conns, Hosts, Clients
      <4>2. /\ Settled(n, host.backLink) /\ ~Marked(n, "host", host.backLink, "Reconn")
            /\ host.entries = 0 /\ host.status \in {"Chasing", "Ready"}
        BY <4>1 DEF IInv, BackInv, Quiet, Side
      <4> QED
        BY <1>6, <2>2, <3>2, <4>2 DEF BackInv
    <3> QED
      BY <2>2, <3>2, <3>3, <3>4 DEF IInv, ConnInv
  <2>4. CASE client.armed /\ client.late
    <3>1. client' = Clear(client) /\ client'.gone
      BY <2>1, <2>4 DEF TryReconnectToHost, Clear
    <3>2. net' = ClearNet(n) /\ net' \in Net /\ NoLink \in 0..MaxLinks
      BY <2>1, <3>1, ClearQuiet, BoundsAssumption DEF NoLink
    <3>3. TypeOK'
      BY <1>2, <1>6, <3>1, <3>2 DEF IInv, TypeOK, Conns, Hosts, Clients, Clear
    <3> QED
      BY <1>3, <1>6, <3>1, <3>2, <3>3, Cleared
  <2>5. CASE client.armed /\ ~client.late
    <3>1. client' = client /\ net' = n
      BY <1>6, <2>1, <2>5 DEF TryReconnectToHost
    <3> QED
      BY <1>5, <1>6, <3>1
  <2> QED
    BY <2>3, <2>4, <2>5
<1> QED
  <2>1. CASE isConnected(d)
    BY <1>5, <2>1 DEF Disconnected
  <2>2. CASE ~isConnected(d) /\ s = "host"
    BY <1>5, <2>2 DEF Disconnected
  <2>3. CASE ~isConnected(d) /\ s = "client"
    <3>1. /\ host' = host /\ client' = IF client.gone THEN client ELSE TryReconnectToHost(client)
          /\ net' = IF client'.gone THEN ClearNet(n) ELSE n
      BY <2>3 DEF Disconnected
    <3> QED
      BY <1>5, <1>6, <2>3, <3>1
  <2> QED
    BY <1>2, <2>1, <2>2, <2>3

\* What was on the wire to s is lost.
LEMMA OnDisconnPreserves == ASSUME IInv, NEW s \in Side, NEW l \in Link, OnDisconn(s, l) PROVE IInv'
<1> DEFINE n == [net EXCEPT !.at[s][l] = "Closed", !.wire[s][l] = <<>>]
           a == [net.at EXCEPT ![s][l] = "Closed"]
           w == [net.wire EXCEPT ![s][l] = <<>>]
           m == [phys |-> net.phys, at |-> a, wire |-> w]
           d == RemoveConn(node[s], l)
<1>1. /\ net.phys \in [Link -> Phys] /\ net.at \in [Side -> [Link -> Hold]]
      /\ net.wire \in [Side -> [Link -> Seq(Packet)]]
      /\ net = [phys |-> net.phys, at |-> net.at, wire |-> net.wire]
  BY DEF IInv, TypeOK, Conns, Hosts, Clients, Net
<1>2. n = m
  <2> DEFINE k == [net EXCEPT !.at[s][l] = "Closed"]
  <2>1. k = [phys |-> net.phys, at |-> a, wire |-> net.wire]
    <3>1. k = [[phys |-> net.phys, at |-> net.at, wire |-> net.wire] EXCEPT !.at[s][l] = "Closed"]
      BY <1>1
    <3> QED
      BY <3>1
  <2>2. n = [k EXCEPT !.wire[s][l] = <<>>]
    OBVIOUS
  <2> HIDE DEF k, n, a
  <2> QED
    BY <2>1, <2>2
<1>3. a \in [Side -> [Link -> Hold]] /\ w \in [Side -> [Link -> Seq(Packet)]]
  BY <1>1 DEF Hold
<1>4. \A r \in Side, k \in Link : /\ w[r][k] = net.wire[r][k] \/ w[r][k] = <<>>
                                  /\ a[r][k] = net.at[r][k] \/ (<<r, k>> = <<s, l>> /\ a[r][k] = "Closed")
  BY <1>1
<1>5. m \in Net /\ m.phys = net.phys /\ m.at = a /\ m.wire = w
  BY <1>1, <1>3 DEF Net
<1> HIDE DEF n, m, a, w
<1>6. net.at[s][l] \in {"Half", "Open", "Closing"} /\ Disconnected(s, n, d) /\ breaks' = breaks
  BY DEF OnDisconn, n
<1>7. Quiet(net, m)
  <2>1. \A r \in Side, k \in Link : \A t : /\ Marked(m, r, k, t) => Marked(net, r, k, t)
                                           /\ Single(net, r, k, t) => Single(m, r, k, t)
    <3> TAKE r \in Side, k \in Link
    <3> TAKE t
    <3>1. CASE w[r][k] = net.wire[r][k]
      BY <1>5, <3>1 DEF Marked, Single
    <3>2. CASE w[r][k] = <<>>
      BY <1>5, <3>2 DEF Marked, Single
    <3> QED
      BY <1>4, <3>1, <3>2
  <2>2. \A k \in Link : /\ Settled(net, k) => Settled(m, k)
                        /\ net.at["client"][k] = "None" => m.at["client"][k] = "None"
    BY <1>4, <1>5, <1>6 DEF Settled, Side
  <2> QED
    BY <1>5, <2>1, <2>2 DEF Quiet
<1>8. node[s] \in Conns /\ NoLink \in 0..MaxLinks
  BY BoundsAssumption DEF IInv, TypeOK, Conns, Hosts, Clients, NoLink
<1>9. /\ d \in Conns /\ (d.msg = NoLink <=> d.data = NoLink)
      /\ {d.msg, d.data} \subseteq {node[s].msg, node[s].data, NoLink}
  BY <1>8 DEF RemoveConn, Conns
<1> HIDE DEF d
<1> QED
  BY <1>2, <1>5, <1>6, <1>7, <1>9, DisconnectedPreserves

\* Nobody answers a call.
LEMMA DialFailsPreserves == ASSUME IInv, NEW s \in Side, DialFails(s) PROVE IInv'
<1> DEFINE d == [node[s] EXCEPT !.attempts = @ + 1]
<1>1. Disconnected(s, net, d) /\ breaks' = breaks /\ ~isConnected(node[s])
  BY DEF DialFails, MayDial
<1>2. node[s] \in Conns /\ net \in Net /\ Quiet(net, net)
  BY QuietReflexive DEF IInv, TypeOK, Conns, Hosts, Clients
<1>3. d \in Conns /\ d.msg = node[s].msg /\ d.data = node[s].data
  BY <1>2 DEF Conns
<1> HIDE DEF d
<1>4. s = "client" => (d.msg = NoLink <=> d.data = NoLink)
  BY <1>3 DEF IInv, ConnInv
<1> QED
  BY <1>1, <1>2, <1>3, <1>4, DisconnectedPreserves

\* A new connection carries the answers to both calls, and is not held yet.
LEMMA DialPreserves == ASSUME IInv, NEW s \in Side, NEW l \in Link, Dial(s, l) PROVE IInv'
<1> DEFINE v == <<Simple("ConnRe")>>
<1>1. /\ UNCHANGED <<host, client, breaks>> /\ net.phys[l] = "Free" /\ ~client.gone
      /\ net' = [phys |-> [net.phys EXCEPT ![l] = "Up"],
                 at   |-> [t \in Side |-> [net.at[t] EXCEPT ![l] = "Half"]],
                 wire |-> [t \in Side |-> [net.wire[t] EXCEPT ![l] = v]]]
      /\ node' = [node EXCEPT ![s].attempts = @ + 1]
  BY DEF Dial
<1>2. v \in Seq(Packet) /\ \A i, j \in 1..Len(v) : v[i].type = "ConnRe" /\ i = j
  BY DEF Packet, Simple
<1> HIDE DEF v
<1>3. /\ net.phys \in [Link -> Phys] /\ net.at \in [Side -> [Link -> Hold]] /\ net.wire \in [Side -> [Link -> Seq(Packet)]]
  BY DEF IInv, TypeOK, Conns, Hosts, Clients, Net
<1>4. net' \in Net
  BY <1>1, <1>2, <1>3 DEF Net, Phys, Hold
<1>5. /\ \A k \in Link : net'.phys[k] = IF k = l THEN "Up" ELSE net.phys[k]
      /\ \A t \in Side, k \in Link : /\ net'.at[t][k] = IF k = l THEN "Half" ELSE net.at[t][k]
                                     /\ net'.wire[t][k] = IF k = l THEN v ELSE net.wire[t][k]
  BY <1>1, <1>3
<1>6. node' \in [Side -> Conns]
  BY <1>1 DEF IInv, TypeOK, Conns, Hosts, Clients
<1>7. TypeOK'
  BY <1>1, <1>4, <1>6 DEF IInv, TypeOK, Conns, Hosts, Clients
<1>8. node["client"]'.msg = node["client"].msg /\ node["client"]'.data = node["client"].data
  BY <1>1 DEF IInv, TypeOK, Conns, Hosts, Clients, Side
<1>9. ASSUME NEW k \in Link, NEW t \in Side, NEW x \in {"Reconn", "JoinData"}
      PROVE  /\ Single(net, t, k, x) => Single(net', t, k, x)
             /\ Marked(net', t, k, x) => k # l /\ Marked(net, t, k, x)
             /\ k # l => (Marked(net, t, k, x) <=> Marked(net', t, k, x))
  <2>1. CASE k = l
    BY <1>2, <1>5, <2>1 DEF Single, Marked
  <2>2. CASE k # l
    <3>1. net'.wire[t][k] = net.wire[t][k]
      BY <1>5, <2>2
    <3> QED
      BY <2>2, <3>1 DEF Single, Marked
  <2> QED
    BY <2>1, <2>2
<1>10. WireInv(net', client')
  <2> SUFFICES ASSUME NEW k \in Link
               PROVE  /\ net'.phys[k] = "Free" => net'.at["client"][k] = "None"
                      /\ client'.gone => net'.phys[k] # "Up"
                      /\ Single(net', "host", k, "Reconn") /\ Single(net', "client", k, "JoinData")
                      /\ Marked(net', "host", k, "Reconn") =>
                           Settled(net', k) /\ (client'.gone \/ (client'.armed /\ client'.sent /\ client'.sentLink = k))
                      /\ Marked(net', "client", k, "JoinData") =>
                           client'.armed /\ client'.sent /\ client'.sentLink = k /\ ~Marked(net', "host", k, "Reconn")
    BY DEF WireInv
  <2> QED
    BY <1>1, <1>5, <1>9 DEF IInv, WireInv, Side, Settled
<1>11. BackInv(net', node["client"]', host', client')
  <2> SUFFICES ASSUME host.backLink # NoLink PROVE BackInv(net', node["client"]', host', client')
    BY <1>1 DEF BackInv
  <2>1. host.backLink \in Link /\ Settled(net, host.backLink)
    BY LinkFacts DEF IInv, TypeOK, Conns, Hosts, Clients, BackInv
  <2>2. host.backLink # l
    BY <1>1, <2>1 DEF IInv, WireInv, Settled
  <2>3. Settled(net', host.backLink)
    BY <1>5, <2>1, <2>2 DEF Settled, Side
  <2> QED
    BY <1>1, <1>8, <1>9, <2>1, <2>3 DEF IInv, BackInv, Side
<1> QED
  BY <1>1, <1>7, <1>8, <1>10, <1>11 DEF IInv, ConnInv

\* The client asks when nothing of an earlier request is left.
LEMMA SendPreserves == ASSUME IInv, SendReconnIfConnected PROVE IInv'
<1> DEFINE l == node["client"].msg
           p == Simple("Reconn")
<1>1. /\ client.armed /\ ~client.sent /\ l # NoLink /\ net.at["client"][l] = "Open"
      /\ net' = Push(net, "host", l, p) /\ client' = [client EXCEPT !.sent = TRUE, !.sentLink = l]
      /\ UNCHANGED <<node, host, breaks>>
  BY DEF SendReconnIfConnected, isOpen
<1>2. l \in 0..MaxLinks /\ l \in Link /\ net \in Net /\ "host" \in Side
  BY <1>1, LinkFacts DEF IInv, TypeOK, Conns, Hosts, Clients, Side
<1>3. p \in Packet /\ p.type = "Reconn"
  BY DEF Packet, Simple
<1>4. client' \in Clients
  BY <1>1, <1>2 DEF IInv, TypeOK, Conns, Hosts, Clients
<1>5. client'.armed /\ client'.sent /\ client'.sentLink = l /\ ~client'.gone
  BY <1>1 DEF IInv, TypeOK, Conns, Hosts, Clients, ConnInv
<1> HIDE DEF l, p
<1>6. \A k \in Link : ~Marked(net, "host", k, "Reconn") /\ ~Marked(net, "client", k, "JoinData")
  BY <1>1 DEF IInv, WireInv, ConnInv
<1>7. /\ net' \in Net /\ net'.phys = net.phys /\ net'.at = net.at
      /\ \A k \in Link : /\ ~Marked(net', "client", k, "JoinData") /\ Single(net', "host", k, "Reconn")
                         /\ Single(net', "client", k, "JoinData")
                         /\ Marked(net', "host", k, "Reconn") => k = l
  <2>1. CASE net.phys[l] = "Up"
    <3> DEFINE m == Sent(net, "host", l, p)
    <3>1. net' = m
      BY <1>1, <2>1 DEF Push, Sent
    <3>2. /\ m \in Net /\ m.phys = net.phys /\ m.at = net.at
          /\ \A r \in Side, k \in Link : <<r, k>> # <<"host", l>> => m.wire[r][k] = net.wire[r][k]
          /\ \A t : ~Marked(net, "host", l, t) => Single(m, "host", l, t)
      BY <1>2, <1>3, AppendQuiet
    <3> HIDE DEF m
    <3>3. \A k \in Link : /\ ~Marked(m, "client", k, "JoinData") /\ Single(m, "client", k, "JoinData")
                          /\ k # l => ~Marked(m, "host", k, "Reconn")
                          /\ k # l => Single(m, "host", k, "Reconn")
      <4> TAKE k \in Link
      <4>1. m.wire["client"][k] = net.wire["client"][k] /\ (k # l => m.wire["host"][k] = net.wire["host"][k])
        BY <3>2 DEF Side
      <4>2. ~Marked(net, "host", k, "Reconn") /\ ~Marked(net, "client", k, "JoinData")
        BY <1>6
      <4> QED
        BY <4>1, <4>2 DEF Marked, Single
    <3>4. Single(m, "host", l, "Reconn")
      BY <1>2, <1>6, <3>2
    <3> QED
      BY <3>1, <3>2, <3>3, <3>4
  <2>2. CASE net.phys[l] # "Up"
    <3>1. net' = net
      BY <1>1, <2>2 DEF Push
    <3> QED
      BY <1>2, <1>6, <3>1 DEF IInv, WireInv
  <2> QED
    BY <2>1, <2>2
<1>8. TypeOK'
  BY <1>1, <1>4, <1>7 DEF IInv, TypeOK, Conns, Hosts, Clients
<1>9. WireInv(net', client')
  <2>1. \A k \in Link : net.phys[k] = "Free" => net.at["client"][k] = "None"
    BY DEF IInv, WireInv
  <2>2. Settled(net', l)
    BY <1>1, <1>7 DEF Settled
  <2> QED
    BY <1>5, <1>7, <2>1, <2>2 DEF WireInv
<1>10. BackInv(net', node["client"]', host', client')
  <2> SUFFICES ASSUME host.backLink # NoLink PROVE BackInv(net', node["client"]', host', client')
    BY <1>1 DEF BackInv
  <2>1. host.backLink \in Link /\ l # host.backLink
    BY <1>1, LinkFacts DEF IInv, TypeOK, Conns, Hosts, Clients, BackInv, l
  <2>2. ~Marked(net', "host", host.backLink, "Reconn") /\ Settled(net', host.backLink)
    BY <1>7, <2>1 DEF IInv, BackInv, Settled
  <2> QED
    BY <1>1, <1>5, <2>2 DEF IInv, BackInv
<1> QED
  BY <1>1, <1>5, <1>8, <1>9, <1>10 DEF IInv, ConnInv

\* The host takes the client back: the request is answered, and it was the only one.
LEMMA ReconnPreserves == ASSUME IInv, NEW l \in Link, HandleReconn(l) PROVE IInv'
<1> DEFINE n == Rest("host", l)
           d == RemoveConn(node["host"], l)
           m == CloseConns(n, "host", d)
           c == SetMsgConn(NoConns(d), l)
           p == Simple("JoinData")
<1>1. UNCHANGED <<client, breaks>> /\ Comes("host", l, "Reconn")
  BY DEF HandleReconn
<1>2. /\ n \in Net /\ Quiet(net, n) /\ Marked(net, "host", l, "Reconn")
      /\ Single(net, "host", l, "Reconn") => ~Marked(n, "host", l, "Reconn")
  BY <1>1, RestQuiet DEF IInv, Side
<1>3. /\ Settled(net, l) /\ (client.gone \/ (client.armed /\ client.sent /\ client.sentLink = l))
      /\ ~Marked(n, "host", l, "Reconn") /\ (net.phys[l] = "Up" => ~client.gone)
  BY <1>2 DEF IInv, WireInv
<1>4. node["host"] \in Conns /\ NoLink \in 0..MaxLinks /\ l \in 0..MaxLinks /\ "host" \in Side
  BY LinkFacts, BoundsAssumption DEF IInv, TypeOK, Conns, Hosts, Clients, Side, Link, NoLink
<1>5. d \in Conns /\ c \in Conns
  BY <1>4 DEF RemoveConn, SetMsgConn, NoConns, Conns
<1>6. \/ net' = n /\ UNCHANGED <<node, host>>
      \/ net' = Close(n, "host", l) /\ UNCHANGED <<node, host>>
      \/ /\ host.entries # 0 /\ node' = [node EXCEPT !["host"] = c]
         /\ \/ net' = Push(m, "client", l, p) /\ host' = Back(host, l)
            \/ net' = m /\ host' = CtrlRemove(Back(host, l))
  BY DEF HandleReconn, Reassociate, n, m, c, d, p
<1> HIDE DEF n, c, p
<1>7. m \in Net /\ Quiet(net, m) /\ m.wire = n.wire
  BY <1>2, <1>4, <1>5, CloseConnsQuiet, QuietTransitive DEF Conns
<1> HIDE DEF m, d
<1>8. CASE UNCHANGED <<node, host>> /\ net' \in {n, Close(n, "host", l)}
  <2>1. net' \in Net /\ Quiet(net, net')
    BY <1>2, <1>4, <1>8, CloseQuiet, QuietTransitive
  <2>2. TypeOK'
    BY <1>1, <1>8, <2>1 DEF IInv, TypeOK, Conns, Hosts, Clients
  <2> QED
    BY <1>1, <1>8, <2>1, <2>2, QuietStep DEF IInv
<1>9. CASE /\ host.entries # 0 /\ node' = [node EXCEPT !["host"] = c]
           /\ \/ net' = Push(m, "client", l, p) /\ host' = Back(host, l)
              \/ net' = m /\ host' = CtrlRemove(Back(host, l))
  <2>1. /\ Back(host, l).entries = 0 /\ Back(host, l).status = "Chasing" /\ Back(host, l).backLink = l
        /\ Back(host, l) \in Hosts
    <3> DEFINE o == IF node["client"].msg = l THEN l ELSE NoLink
    <3>1. host \in Hosts
      BY DEF IInv, TypeOK, Conns, Hosts, Clients
    <3>2. host.entries - 1 = 0 /\ o \in 0..MaxLinks
      BY <1>4, <1>9, <3>1 DEF Hosts
    <3>3. Back(host, l) = [host EXCEPT !.status = "Chasing", !.entries = host.entries - 1, !.chase = TRUE,
                                       !.backLink = l, !.only = o]
      BY DEF Back
    <3> HIDE DEF o
    <3>4. Back(host, l) = [host EXCEPT !.status = "Chasing", !.entries = 0, !.chase = TRUE, !.backLink = l, !.only = o]
      BY <3>2, <3>3
    <3> QED
      BY <1>4, <3>1, <3>2, <3>4 DEF Hosts
  <2>2. node' \in [Side -> Conns] /\ node["client"]' = node["client"]
    BY <1>5, <1>9 DEF IInv, TypeOK, Conns, Hosts, Clients, Side
  <2>3. ASSUME net' = m, host' \in {Back(host, l), CtrlRemove(Back(host, l))}
        PROVE  TypeOK'
    BY <1>1, <1>4, <1>7, <2>1, <2>2, <2>3 DEF CtrlRemove, IInv, TypeOK, Conns, Hosts, Clients
  <2>4. CASE net' = m /\ host' = CtrlRemove(Back(host, l))
    <3>1. host'.backLink = NoLink
      BY <2>1, <2>4 DEF CtrlRemove
    <3> QED
      BY <1>1, <1>7, <2>2, <2>3, <2>4, <3>1, QuietStep DEF IInv
  <2>5. CASE net' = Push(m, "client", l, p) /\ host' = Back(host, l)
    <3>1. /\ net' \in Net /\ net'.phys = m.phys /\ net'.at = m.at
          /\ \A k \in Link : /\ Single(net', "host", k, "Reconn")
                             /\ Marked(net', "host", k, "Reconn") => Marked(net, "host", k, "Reconn") /\ k # l
                             /\ Single(net', "client", k, "JoinData")
                             /\ Marked(net', "client", k, "JoinData") =>
                                  k = l /\ client.armed /\ client.sent /\ client.sentLink = l
      <4>1. \A k \in Link : /\ Single(m, "host", k, "Reconn") /\ Single(m, "client", k, "JoinData")
                            /\ ~Marked(m, "client", k, "JoinData")
                            /\ Marked(m, "host", k, "Reconn") => Marked(net, "host", k, "Reconn") /\ k # l
        <5> TAKE k \in Link
        <5>1. /\ Single(net, "host", k, "Reconn") /\ Single(net, "client", k, "JoinData")
              /\ ~Marked(net, "client", k, "JoinData")
          BY <1>2, <1>3 DEF IInv, WireInv, ConnInv
        <5>2. ~Marked(m, "host", l, "Reconn")
          BY <1>3, <1>7 DEF Marked
        <5> QED
          BY <1>7, <5>1, <5>2 DEF Quiet, Side
      <4>2. CASE m.phys[l] = "Up"
        <5>1. net' = Sent(m, "client", l, p)
          BY <2>5, <4>2, LinkFacts DEF Push, Sent
        <5>2. p \in Packet /\ p.type = "JoinData" /\ "client" \in Side
          BY DEF p, Simple, Packet, Side
        <5>3. /\ net' \in Net /\ net'.phys = m.phys /\ net'.at = m.at
              /\ \A r \in Side, k \in Link : <<r, k>> # <<"client", l>> => net'.wire[r][k] = m.wire[r][k]
              /\ \A t : ~Marked(m, "client", l, t) => Single(net', "client", l, t)
          BY <1>7, <5>1, <5>2, AppendQuiet
        <5>4. client.armed /\ client.sent /\ client.sentLink = l
          BY <1>3, <1>7, <4>2 DEF Quiet
        <5> QED
          <6> SUFFICES ASSUME NEW k \in Link
                       PROVE  /\ Single(net', "host", k, "Reconn")
                              /\ Marked(net', "host", k, "Reconn") => Marked(net, "host", k, "Reconn") /\ k # l
                              /\ Single(net', "client", k, "JoinData")
                              /\ Marked(net', "client", k, "JoinData") => k = l
            BY <5>3, <5>4
          <6>1. net'.wire["host"][k] = m.wire["host"][k]
            BY <5>3 DEF Side
          <6>2. /\ Single(net', "host", k, "Reconn")
                /\ Marked(net', "host", k, "Reconn") => Marked(net, "host", k, "Reconn") /\ k # l
            BY <4>1, <6>1 DEF Single, Marked
          <6>3. CASE k = l
            BY <4>1, <5>3, <6>2, <6>3
          <6>4. CASE k # l
            <7>1. net'.wire["client"][k] = m.wire["client"][k]
              BY <5>3, <6>4 DEF Side
            <7> QED
              BY <4>1, <6>2, <7>1 DEF Single, Marked
          <6> QED
            BY <6>3, <6>4
      <4>3. CASE m.phys[l] # "Up"
        <5>1. net' = m
          BY <2>5, <4>3 DEF Push
        <5> QED
          BY <1>7, <4>1, <5>1
      <4> QED
        BY <4>2, <4>3
    <3>2. TypeOK'
      BY <1>1, <2>1, <2>2, <2>5, <3>1 DEF IInv, TypeOK, Conns, Hosts, Clients
    <3>3. ASSUME NEW k \in Link
          PROVE  /\ net'.phys[k] = "Free" => net'.at["client"][k] = "None"
                 /\ client.gone => net'.phys[k] # "Up"
                 /\ Settled(net, k) => Settled(net', k)
      BY <1>7, <3>1 DEF IInv, WireInv, Quiet, Settled
    <3>4. WireInv(net', client')
      BY <1>1, <3>1, <3>3 DEF IInv, WireInv
    <3>5. BackInv(net', node["client"]', host', client')
      <4>1. Settled(net', l) /\ ~Marked(net', "host", l, "Reconn")
        BY <1>3, <3>1, <3>3
      <4>2. ~(client.armed /\ ~client.sent)
        BY <1>3 DEF IInv, ConnInv
      <4> QED
        BY <1>1, <2>1, <2>5, <4>1, <4>2 DEF BackInv
    <3> QED
      BY <1>1, <2>2, <3>2, <3>4, <3>5 DEF IInv
  <2> QED
    BY <1>9, <2>4, <2>5
<1> QED
  BY <1>6, <1>8, <1>9

\* The answer was the only one: neither a request nor an answer is left.
LEMMA JoinDataPreserves == ASSUME IInv, NEW l \in Link, HandleReconnectJoinData(l) PROVE IInv'
<1> DEFINE n == Rest("client", l)
<1>1. UNCHANGED <<node, host, breaks>> /\ net' = n /\ Comes("client", l, "JoinData")
  BY DEF HandleReconnectJoinData
<1>2. /\ n \in Net /\ Quiet(net, n) /\ Marked(net, "client", l, "JoinData")
      /\ Single(net, "client", l, "JoinData") => ~Marked(n, "client", l, "JoinData")
  BY <1>1, RestQuiet DEF IInv, Side
<1> HIDE DEF n
<1>3. CASE client' = client
  <2>1. TypeOK'
    BY <1>1, <1>2, <1>3 DEF IInv, TypeOK, Conns, Hosts, Clients
  <2> QED
    BY <1>1, <1>2, <1>3, <2>1, QuietStep DEF IInv
<1>4. CASE client' = [client EXCEPT !.armed = FALSE, !.sent = FALSE, !.sentLink = NoLink, !.late = FALSE,
                                    !.runs = FALSE, !.restored = l]
  <2>1. ~client'.armed /\ client'.gone = client.gone
    BY <1>4 DEF IInv, TypeOK, Conns, Hosts, Clients
  <2>2. NoLink \in 0..MaxLinks /\ l \in 0..MaxLinks
    BY BoundsAssumption DEF NoLink, Link
  <2>3. TypeOK'
    BY <1>1, <1>2, <1>4, <2>2 DEF IInv, TypeOK, Conns, Hosts, Clients
  <2>4. ASSUME NEW k \in Link
        PROVE  /\ net'.phys[k] = "Free" => net'.at["client"][k] = "None"
               /\ client'.gone => net'.phys[k] # "Up"
               /\ Single(net', "host", k, "Reconn") /\ Single(net', "client", k, "JoinData")
               /\ ~Marked(net', "client", k, "JoinData") /\ ~Marked(net', "host", k, "Reconn")
               /\ Settled(net, k) => Settled(net', k)
    <3>1. client.armed /\ client.sentLink = l /\ ~client.gone /\ ~Marked(net, "host", l, "Reconn")
      BY <1>2 DEF IInv, WireInv, ConnInv
    <3>2. ~Marked(net, "host", k, "Reconn") /\ (k # l => ~Marked(net, "client", k, "JoinData"))
      BY <3>1 DEF IInv, WireInv
    <3> QED
      BY <1>1, <1>2, <2>1, <3>2 DEF IInv, WireInv, Quiet, Side
  <2>5. WireInv(net', client')
    BY <2>4 DEF WireInv
  <2>6. BackInv(net', node["client"]', host', client')
    <3> SUFFICES ASSUME host.backLink # NoLink PROVE BackInv(net', node["client"]', host', client')
      BY <1>1 DEF BackInv
    <3>1. host.backLink \in Link
      BY LinkFacts DEF IInv, TypeOK, Conns, Hosts, Clients
    <3> QED
      BY <1>1, <2>1, <2>4, <3>1 DEF IInv, BackInv
  <2> QED
    BY <1>1, <2>1, <2>3, <2>5, <2>6 DEF IInv, ConnInv
<1> QED
  BY <1>3, <1>4 DEF HandleReconnectJoinData

\* The round runs, and nothing is under way.
LEMMA InitHolds == Init => IInv
<1> SUFFICES ASSUME Init PROVE IInv
  OBVIOUS
<1>1. 0 \in 0..MaxLinks /\ 1 \in 0..MaxLinks /\ 1 \in Link
  BY BoundsAssumption DEF Link
<1>2. <<>> \in Seq(Packet) /\ Len(<<>>) = 0
  OBVIOUS
<1>3. net \in Net
  BY <1>2 DEF Init, Net, Phys, Hold
<1>4. TypeOK
  BY <1>1, <1>3 DEF Init, TypeOK, Conns, Hosts, Clients, Target, NoLink
<1>5. \A s \in Side, l \in Link : \A t : ~Marked(net, s, l, t) /\ Single(net, s, l, t)
  BY <1>2 DEF Init, Marked, Single
<1>6. \A l \in Link : net.phys[l] = "Free" => net.at["client"][l] = "None"
  BY DEF Init, Side
<1>7. ~client.gone /\ ~client.armed /\ host.backLink = NoLink
      /\ node["client"].msg = 1 /\ node["client"].data = 1
  BY DEF Init, Side
<1>8. WireInv(net, client)
  BY <1>5, <1>6, <1>7 DEF WireInv, Side
<1> QED
  BY <1>4, <1>7, <1>8 DEF IInv, BackInv, ConnInv, NoLink

\* The invariant that the following two rest on: of a request and its answer
\* there is one at most, on the connection the client remembers, and the client
\* asks on a connection it has not been taken back with.
THEOREM Invariance == Spec => []IInv
<1>1. Init => IInv
  BY InitHolds
<1>2. IInv /\ [Next]_vars => IInv'
  <2> SUFFICES ASSUME IInv, [Next]_vars PROVE IInv'
    OBVIOUS
  <2>1. ASSUME NEW l \in Link, Break(l) PROVE IInv'
    BY <2>1, BreakPreserves
  <2>2. ASSUME NEW s \in Side, Reconnecting(s) PROVE IInv'
    BY <2>2, DialPreserves, DialFailsPreserves DEF Reconnecting
  <2>3. ASSUME NEW s \in Side, NEW l \in Link, OnDisconn(s, l) PROVE IInv'
    BY <2>3, OnDisconnPreserves
  <2>4. ASSUME NEW s \in Side, NEW l \in Link, Handle(s, l) PROVE IInv'
    BY <2>4, OpenPreserves, ReconnPreserves, HostAckPreserves, JoinDataPreserves, StatusPreserves,
       ClientAckPreserves, HandleRemovePreserves DEF Handle
  <2>5. ASSUME SendReconnIfConnected PROVE IInv'
    BY <2>5, SendPreserves
  <2>6. ASSUME CheckStatusReached PROVE IInv'
    BY <2>6, ReachedPreserves
  <2>7. ASSUME UpdateChaseTarget PROVE IInv'
    BY <2>7, ChasePreserves
  <2>8. ASSUME TickDormancy PROVE IInv'
    BY <2>8, TickPreserves
  <2>9. ASSUME ClientRemove PROVE IInv'
    BY <2>9, ClientRemovePreserves
  <2>10. ASSUME TimePasses PROVE IInv'
    BY <2>10, TimePreserves
  <2>11. CASE UNCHANGED vars
    BY <2>11 DEF vars, IInv, TypeOK, Conns, Hosts, Clients, WireInv, BackInv, ConnInv
  <2> QED
    BY <2>1, <2>2, <2>3, <2>4, <2>5, <2>6, <2>7, <2>8, <2>9, <2>10, <2>11 DEF Next
<1> QED
  BY <1>1, <1>2, PTL DEF Spec

\* No dormant entry that would run out later is left of a client the host has taken
\* back (EnterDormancy, HandleReconn).
THEOREM NoEntryLeftHolds == Spec => []NoEntryLeft
<1>1. IInv => NoEntryLeft
  BY DEF IInv, BackInv, NoEntryLeft
<1> QED
  BY <1>1, Invariance, PTL

\* No second request comes on the connection the client was taken back with, which
\* HandleReconn would answer by closing it.
THEOREM NoSecondReconnHolds == Spec => []NoSecondReconn
<1>1. IInv => NoSecondReconn
  <2> SUFFICES ASSUME IInv, host.backLink # NoLink,
                      Simple("Reconn") \in ToSet(net.wire["host"][host.backLink])
               PROVE  FALSE
    BY DEF NoSecondReconn
  <2>1. net.wire["host"][host.backLink] \in Seq(Packet)
    BY LinkFacts DEF IInv, TypeOK, Conns, Hosts, Clients, Net, Side
  <2>2. PICK i \in 1..Len(net.wire["host"][host.backLink]) : net.wire["host"][host.backLink][i] = Simple("Reconn")
    BY <2>1 DEF ToSet
  <2>3. Marked(net, "host", host.backLink, "Reconn")
    BY <2>2 DEF Marked, Simple
  <2> QED
    BY <2>3 DEF IInv, BackInv
<1> QED
  BY <1>1, Invariance, PTL
=============================================================================
