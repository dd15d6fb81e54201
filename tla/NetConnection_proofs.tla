------------------------ MODULE NetConnection_proofs ------------------------
(***************************************************************************)
(* What a computer handles of a connection, off the wire or from a post    *)
(* mortem, it handles once and in the order it was sent, for any number of *)
(* connections, messages, breaks and timeouts, whatever gets lost; no      *)
(* message vanishes, and none is thrown away because the peer is not ready.*)
(***************************************************************************)
EXTENDS NetConnection, SequenceTheorems, FiniteSetTheorems, TLAPS

-----------------------------------------------------------------------------
(* The invariant.  m is a node, s one that sends and r the one that        *)
(* receives from it.                                                       *)

Status == {"None", "Connect", "Connected", "HalfAccepted", "Accepted", "Closed", "ConnectFail"}
Socket == {"None", "Calling", "Open", "Closed"}
Thread == {"Net", "Main"}
Fields == {"status", "listed", "connSent", "auto", "out", "in", "log", "clearing", "todo", "pmSent", "sock", "wire",
           "msg", "data", "gone", "events", "sent", "handled", "dropped"}

IsSeq(q)       == \E S : q \in Seq(S)
IsSeqs(f, D)   == f = [x \in D |-> f[x]] /\ \A x \in D : IsSeq(f[x])

Notice(e) == /\ e.conn \in Conn
             /\ e.type = "Disconn" \/ (e.type = "Packet" /\ e.pkt.type \in {"Conn", "ConnRe", "Message"})

Shape(m) ==
    /\ m = [f \in Fields |-> m[f]]
    /\ m.status \in [Conn -> Status] /\ m.sock \in [Conn -> Socket] /\ m.listed \in SUBSET Conn
    /\ m.in \in [Conn -> Nat] /\ m.out \in [Conn -> Nat] /\ m.pmSent \in [Conn -> Nat \cup {-1}]
    /\ m.msg \in Conn \cup {NoConn} /\ m.data \in Conn \cup {NoConn} /\ m.gone \in BOOLEAN
    /\ IsSeqs(m.wire, Conn) /\ IsSeqs(m.sent, Conn) /\ IsSeqs(m.log, Conn) /\ IsSeqs(m.handled, Thread)
    /\ IsSeq(m.events) /\ IsSeq(m.todo) /\ (\A q \in m.clearing : q.conn \in Conn)
    /\ \A b \in 1..Len(m.events) : Notice(m.events[b])

\* A socket is open as long as its connection is; it is in the list then, and once
\* it is closed it stays so.
SocketOf(m, i, c) ==
    /\ m.sock[c] = "Open" <=> isOpen(m, c)
    /\ isClosed(m, c) => m.sock[c] = "Closed"
    /\ m.sock[c] \in {"Open", "Calling"} => c \in m.listed
    /\ c \in m.listed => m.sock[c] # "None"
    /\ m.status[c] = "None" => m.sock[c] = "None" \/ (m.sock[c] = "Closed" /\ Caller[c] # i)
    /\ m.sock[c] \in {"None", "Calling"} => m.sent[c] = <<>> /\ c # m.msg /\ c # m.data
Sockets(m, i) == \A c \in Conn : SocketOf(m, i, c)

\* The log is the end of what was sent.
Logs(m) ==
    \A c \in Conn :
        /\ m.out[c] = Len(m.sent[c]) /\ Len(m.log[c]) <= m.out[c]
        /\ \A k \in 1..Len(m.log[c]) :
              m.log[c][k] = [num |-> m.out[c] - Len(m.log[c]) + k - 1,
                             pkt |-> m.sent[c][m.out[c] - Len(m.log[c]) + k]]

\* Packet p is the k-th that m sent on d.
At(m, d, k, p) == d \in Conn /\ k \in 1..Len(m.sent[d]) /\ m.sent[d][k] = p

IsMessage(p)       == p.type = "Message"
IsPostMortem(p, c) == p.type = "PostMortem" /\ p.conn = c

\* A post mortem has a piece of what was sent.
PieceOf(m, p) ==
    /\ p.conn \in Conn /\ m.pmSent[p.conn] # -1 /\ IsSeq(p.pkts)
    /\ p.counter \in Nat /\ p.counter <= Len(m.sent[p.conn]) /\ Len(p.pkts) <= p.counter
    /\ \A k \in 1..Len(p.pkts) : p.pkts[k] = m.sent[p.conn][p.counter - Len(p.pkts) + k]

\* A message is sent once, the messages of a connection are in order, and there is one
\* post mortem of a connection.
Proper(m, d, p) == \/ IsMessage(p) /\ p.conn = d /\ p.id \in Nat /\ p.thread \in Thread
                   \/ p.type = "PostMortem" /\ PieceOf(m, p)
Distinct(d, k, p, e, l, q) ==
    /\ IsMessage(p) /\ IsMessage(q) => /\ p.id = q.id => d = e /\ k = l
                                       /\ d = e /\ k < l => p.id < q.id
    /\ p.type = "PostMortem" /\ q.type = "PostMortem" /\ p.conn = q.conn => d = e /\ k = l
Sendings(m) ==
    /\ \A d \in Conn : \A k \in 1..Len(m.sent[d]) : Proper(m, d, m.sent[d][k])
    /\ \A d, e \in Conn : \A k \in 1..Len(m.sent[d]), l \in 1..Len(m.sent[e]) :
          Distinct(d, k, m.sent[d][k], e, l, m.sent[e][l])

\* What is on the wire w is what the other side, which has counted n packets, has not
\* counted of q, in order; all of it, if full.
Control(u) == u.type \in {"Conn", "ConnRe", "Ping"}
Follows(w, n, q, full) ==
    \E g \in [0..Len(w) -> 0..Len(q)] :
        /\ g[0] = n /\ (full => g[Len(w)] = Len(q))
        /\ \A x \in 1..Len(w) : IF Logged(w[x]) THEN g[x] = g[x - 1] + 1 /\ w[x] = q[g[x]]
                                ELSE g[x] = g[x - 1] /\ Control(w[x])

Wires(s, r) == \A c \in Conn : r.sock[c] # "Closed" => Follows(s.wire[c], r.in[c], s.sent[c], s.sock[c] = "Open")

Jobs(r, c)    == {x \in 1..Len(r.todo) : r.todo[x].conn = c}
Packets(r, c) == {x \in Jobs(r, c) : r.todo[x].type = "Packet"}

\* Something may still come on c.
Fresh(r, c) == Jobs(r, c) = {} /\ (r.sock[c] = "None" \/ c \in r.listed)

\* The k-th packet of c has been handled, or will not be any more.
Taken(r, c, k) == /\ \A x \in Packets(r, c) : k <= r.todo[x].num
                  /\ Fresh(r, c) => k <= r.in[c]

\* The messages that wait for the main thread.
Waiting(r) == {b \in 1..Len(r.events) : r.events[b].type = "Packet" /\ IsMessage(r.events[b].pkt)}

\* What the threads of r have handled, or one has put before the other, was sent
\* and will not come again.
Came(r, s, t, p) == /\ IsMessage(p) /\ p.thread = t
                    /\ \E k \in Nat : At(s, p.conn, k, p) /\ Taken(r, p.conn, k)
Seen(r, s) ==
    /\ \A t \in Thread : \A a \in 1..Len(r.handled[t]) : Came(r, s, t, r.handled[t][a])
    /\ \A b \in Waiting(r) : Came(r, s, "Main", r.events[b].pkt)

Before(p, q) == p.conn = q.conn => p.id < q.id
Orderly(r) ==
    /\ \A t \in Thread : \A a, b \in 1..Len(r.handled[t]) : a < b => Before(r.handled[t][a], r.handled[t][b])
    /\ \A a, b \in Waiting(r) : a < b => Before(r.events[a].pkt, r.events[b].pkt)
    /\ \A a \in 1..Len(r.handled["Main"]), b \in Waiting(r) : Before(r.handled["Main"][a], r.events[b].pkt)

\* What is left of post mortems: each is handled once, and then the connection is removed.
JobOf(r, s, x, q) ==
    /\ q.conn \in r.listed /\ q.type \in {"Packet", "Remove"}
    /\ \E d \in Conn : \E k \in 1..Len(s.sent[d]) : IsPostMortem(s.sent[d][k], q.conn)
    /\ \A d \in Conn : \A k \in 1..Len(s.sent[d]) : IsPostMortem(s.sent[d][k], q.conn) => Taken(r, d, k)
    /\ q.type = "Packet" => /\ q.num \in Nat /\ At(s, q.conn, q.num + 1, q.pkt)
                            /\ \E y \in 1..Len(r.todo) : x < y /\ r.todo[y] = Removal(q.conn)
InTurn(p, q) == p.conn = q.conn => p.type = "Packet" /\ (q.type = "Packet" => p.num < q.num)
Recovery(r, s) ==
    /\ \A x \in 1..Len(r.todo) : JobOf(r, s, x, r.todo[x])
    /\ \A x, y \in 1..Len(r.todo) : x < y => InTurn(r.todo[x], r.todo[y])

Link(s, r) == Wires(s, r) /\ Seen(r, s) /\ Orderly(r) /\ Recovery(r, s)

\* Later messages get greater numbers.
Numbered(m, n) ==
    \A d \in Conn : \A k \in 1..Len(m.sent[d]) : IsMessage(m.sent[d][k]) => m.sent[d][k].id < n

Local(i, m, n)   == Shape(m) /\ Sockets(m, i) /\ Logs(m) /\ Sendings(m) /\ Numbered(m, n)
Pair(i, m, o, n) == Local(i, m, n) /\ Local(Other(i), o, n) /\ Link(m, o) /\ Link(o, m)

IInv == /\ node = [i \in Computer |-> node[i]]
        /\ budget = [b \in {"traffic", "break"} |-> budget[b]] /\ budget.traffic \in 0..MaxTraffic
        /\ \A i \in Computer : Pair(i, node[i], node[Other(i)], MaxTraffic - budget.traffic)

-----------------------------------------------------------------------------
(* Sequences of whatever.                                                  *)

LEMMA SeqIs ==
  ASSUME NEW q, IsSeq(q)
  PROVE  Len(q) \in Nat /\ DOMAIN q = 1..Len(q) /\ (q = <<>> <=> Len(q) = 0)
BY DEF IsSeq

LEMMA AppendIs ==
  ASSUME NEW q, IsSeq(q), NEW x
  PROVE  /\ IsSeq(Append(q, x)) /\ Len(Append(q, x)) = Len(q) + 1
         /\ \A k \in 1..Len(q) : Append(q, x)[k] = q[k]
         /\ Append(q, x)[Len(q) + 1] = x
<1>1. PICK S : q \in Seq(S)
  BY DEF IsSeq
<1>2. q \in Seq(S \cup {x}) /\ x \in S \cup {x}
  BY <1>1, SeqMonotonic
<1> QED BY <1>2, AppendProperties DEF IsSeq

LEMMA TailIs ==
  ASSUME NEW q, IsSeq(q), q # <<>>
  PROVE  /\ IsSeq(Tail(q)) /\ Len(Tail(q)) = Len(q) - 1 /\ Len(q) \in Nat /\ Len(q) # 0
         /\ \A k \in 1..Len(Tail(q)) : Tail(q)[k] = q[k + 1]
         /\ Head(q) = q[1] /\ 1 \in 1..Len(q)
<1>1. PICK S : q \in Seq(S)
  BY DEF IsSeq
<1>2. Tail(q) \in Seq(S) /\ Len(Tail(q)) = Len(q) - 1 /\ \A k \in 1..Len(Tail(q)) : Tail(q)[k] = q[k + 1]
  BY <1>1, HeadTailProperties
<1>3. Len(q) \in Nat /\ Len(q) # 0 /\ Head(q) = q[1]
  BY <1>1, EmptySeq
<1> QED BY <1>2, <1>3 DEF IsSeq

LEMMA ConcatIs ==
  ASSUME NEW p, IsSeq(p), NEW q, IsSeq(q)
  PROVE  /\ IsSeq(p \o q) /\ Len(p \o q) = Len(p) + Len(q)
         /\ \A k \in 1..Len(p) : (p \o q)[k] = p[k]
         /\ \A k \in 1..Len(q) : (p \o q)[Len(p) + k] = q[k]
<1>1. PICK S : p \in Seq(S)
  BY DEF IsSeq
<1>2. PICK T : q \in Seq(T)
  BY DEF IsSeq
<1> DEFINE u == p \o q
<1>3. p \in Seq(S \cup T) /\ q \in Seq(S \cup T)
  BY <1>1, <1>2, SeqMonotonic
<1>4. /\ u \in Seq(S \cup T) /\ Len(u) = Len(p) + Len(q) /\ Len(p) \in Nat /\ Len(q) \in Nat
      /\ \A k \in 1..Len(p) + Len(q) : u[k] = IF k <= Len(p) THEN p[k] ELSE q[k - Len(p)]
  BY <1>3, ConcatProperties, LenProperties
<1> HIDE DEF u
<1>5. \A k \in 1..Len(p) : u[k] = p[k]
  BY <1>4
<1>6. ASSUME NEW k \in 1..Len(q) PROVE u[Len(p) + k] = q[k]
  <2>1. Len(p) + k \in 1..Len(p) + Len(q) /\ ~(Len(p) + k <= Len(p)) /\ Len(p) + k - Len(p) = k
    BY <1>4
  <2> QED BY <1>4, <2>1
<1> QED BY <1>4, <1>5, <1>6 DEF u, IsSeq

\* The end of a sequence.
LEMMA EndIs ==
  ASSUME NEW q, IsSeq(q), NEW n \in Nat
  PROVE  LET e == SubSeq(q, n + 1, Len(q))
         IN  /\ IsSeq(e) /\ Len(e) = IF n <= Len(q) THEN Len(q) - n ELSE 0
             /\ \A k \in 1..Len(e) : e[k] = q[n + k]
<1>1. PICK S : q \in Seq(S)
  BY DEF IsSeq
<1> DEFINE e == SubSeq(q, n + 1, Len(q))
<1>2. Len(q) \in Nat /\ n + 1 \in Int /\ Len(q) \in Int /\ \A k \in n + 1..Len(q) : q[k] \in S
  <2>1. Len(q) \in Nat /\ \A k \in 1..Len(q) : q[k] \in S
    BY <1>1, LenProperties
  <2> QED BY <2>1
<1>3. /\ e \in Seq(S) /\ Len(e) = (IF n + 1 <= Len(q) THEN Len(q) - (n + 1) + 1 ELSE 0)
      /\ \A k \in 1..Len(q) - (n + 1) + 1 : e[k] = q[n + 1 + k - 1]
  BY <1>2, SubSeqProperties
<1> HIDE DEF e
<1>4. Len(e) = (IF n <= Len(q) THEN Len(q) - n ELSE 0)
  BY <1>2, <1>3
<1>5. \A k \in 1..Len(e) : e[k] = q[n + k]
  <2> SUFFICES ASSUME NEW k \in 1..Len(e) PROVE e[k] = q[n + k]
    OBVIOUS
  <2>1. k \in 1..Len(q) - (n + 1) + 1 /\ n + 1 + k - 1 = n + k
    BY <1>2, <1>4
  <2> QED BY <1>3, <2>1
<1> QED BY <1>3, <1>4, <1>5 DEF e, IsSeq

LEMMA EmptyIs == IsSeq(<<>>) /\ Len(<<>>) = 0
BY DEF IsSeq

-----------------------------------------------------------------------------
(* What is on a wire.                                                      *)

LEMMA WireStays ==
  ASSUME NEW w, IsSeq(w), NEW n \in Nat, NEW q, IsSeq(q), NEW full, NEW more, Follows(w, n, q, full),
         more => full \/ q = <<>>
  PROVE  Follows(w, n, q, more)
<1>1. Len(w) \in Nat /\ Len(q) \in Nat /\ (q = <<>> => Len(q) = 0)
  BY SeqIs
<1>2. PICK g \in [0..Len(w) -> 0..Len(q)] :
        /\ g[0] = n /\ (full => g[Len(w)] = Len(q))
        /\ \A x \in 1..Len(w) : IF Logged(w[x]) THEN g[x] = g[x - 1] + 1 /\ w[x] = q[g[x]]
                                ELSE g[x] = g[x - 1] /\ Control(w[x])
  BY DEF Follows
<1>3. ASSUME more PROVE g[Len(w)] = Len(q)
  <2>1. CASE full
    BY <1>2, <2>1
  <2>2. CASE q = <<>>
    <3>1. Len(w) \in 0..Len(w)
      BY <1>1
    <3>2. g[Len(w)] \in 0..Len(q)
      BY <3>1
    <3> QED BY <1>1, <2>2, <3>2
  <2> QED BY <1>3, <2>1, <2>2
<1> QED BY <1>2, <1>3 DEF Follows

LEMMA WireOther ==
  ASSUME NEW w, IsSeq(w), NEW n \in Nat, NEW q, IsSeq(q), NEW full, Follows(w, n, q, full),
         NEW u, Control(u)
  PROVE  Follows(Append(w, u), n, q, full)
<1>1. Len(w) \in Nat /\ Len(q) \in Nat
  BY SeqIs
<1>2. PICK g \in [0..Len(w) -> 0..Len(q)] :
        /\ g[0] = n /\ (full => g[Len(w)] = Len(q))
        /\ \A x \in 1..Len(w) : IF Logged(w[x]) THEN g[x] = g[x - 1] + 1 /\ w[x] = q[g[x]]
                                ELSE g[x] = g[x - 1] /\ Control(w[x])
  BY DEF Follows
<1> DEFINE v == Append(w, u)
           h == [x \in 0..Len(w) + 1 |-> IF x <= Len(w) THEN g[x] ELSE g[Len(w)]]
<1>3. Len(v) = Len(w) + 1 /\ (\A x \in 1..Len(w) : v[x] = w[x]) /\ v[Len(w) + 1] = u
  BY AppendIs
<1> HIDE DEF v
<1>4. h \in [0..Len(v) -> 0..Len(q)]
  BY <1>1, <1>3
<1>5. h[0] = n /\ h[Len(v)] = g[Len(w)] /\ \A x \in 0..Len(w) : h[x] = g[x]
  BY <1>1, <1>2, <1>3
<1>6. \A x \in 1..Len(w) : x - 1 \in 0..Len(w) /\ x \in 0..Len(w)
  BY <1>1
<1>7. h[Len(w) + 1] = h[Len(w) + 1 - 1]
  BY <1>1
<1> HIDE DEF h
<1>8. ASSUME NEW x \in 1..Len(v)
      PROVE  IF Logged(v[x]) THEN h[x] = h[x - 1] + 1 /\ v[x] = q[h[x]] ELSE h[x] = h[x - 1] /\ Control(v[x])
  <2>1. CASE x \in 1..Len(w)
    BY <1>2, <1>3, <1>5, <1>6, <2>1
  <2>2. CASE x = Len(w) + 1
    BY <1>3, <1>7, <2>2 DEF Logged, Control
  <2> QED BY <1>1, <1>3, <2>1, <2>2
<1> QED BY <1>2, <1>4, <1>5, <1>8 DEF Follows, v

LEMMA WireNext ==
  ASSUME NEW w, IsSeq(w), NEW n \in Nat, NEW q, IsSeq(q), Follows(w, n, q, TRUE), NEW p, Logged(p)
  PROVE  Follows(Append(w, p), n, Append(q, p), TRUE)
<1>1. Len(w) \in Nat /\ Len(q) \in Nat
  BY SeqIs
<1>2. PICK g \in [0..Len(w) -> 0..Len(q)] :
        /\ g[0] = n /\ g[Len(w)] = Len(q)
        /\ \A x \in 1..Len(w) : IF Logged(w[x]) THEN g[x] = g[x - 1] + 1 /\ w[x] = q[g[x]]
                                ELSE g[x] = g[x - 1] /\ Control(w[x])
  BY DEF Follows
<1> DEFINE v == Append(w, p)
           u == Append(q, p)
           h == [x \in 0..Len(w) + 1 |-> IF x <= Len(w) THEN g[x] ELSE Len(q) + 1]
<1>3. Len(v) = Len(w) + 1 /\ (\A x \in 1..Len(w) : v[x] = w[x]) /\ v[Len(w) + 1] = p
  BY AppendIs
<1>4. Len(u) = Len(q) + 1 /\ (\A x \in 1..Len(q) : u[x] = q[x]) /\ u[Len(q) + 1] = p
  BY AppendIs
<1> HIDE DEF v, u
<1>5. \A x \in 0..Len(w) : g[x] \in 0..Len(q)
  OBVIOUS
<1>6. h \in [0..Len(v) -> 0..Len(u)]
  <2>1. \A x \in 0..Len(w) + 1 : h[x] \in 0..Len(q) + 1
    BY <1>1, <1>5
  <2> QED BY <1>3, <1>4, <2>1
<1>7. h[0] = n /\ h[Len(v)] = Len(u) /\ \A x \in 0..Len(w) : h[x] = g[x]
  BY <1>1, <1>2, <1>3, <1>4
<1>8. \A x \in 1..Len(w) : x - 1 \in 0..Len(w) /\ x \in 0..Len(w)
  BY <1>1
<1>9. h[Len(w) + 1] = Len(q) + 1 /\ Len(w) + 1 - 1 = Len(w) /\ Len(w) \in 0..Len(w)
  BY <1>1
<1> HIDE DEF h
<1>10. ASSUME NEW x \in 1..Len(v)
       PROVE  IF Logged(v[x]) THEN h[x] = h[x - 1] + 1 /\ v[x] = u[h[x]] ELSE h[x] = h[x - 1] /\ Control(v[x])
  <2>1. CASE x \in 1..Len(w)
    <3>1. v[x] = w[x] /\ h[x] = g[x] /\ h[x - 1] = g[x - 1] /\ g[x] \in 0..Len(q) /\ g[x - 1] \in 0..Len(q)
      BY <1>3, <1>5, <1>7, <1>8, <2>1
    <3>2. IF Logged(w[x]) THEN g[x] = g[x - 1] + 1 /\ w[x] = q[g[x]] ELSE g[x] = g[x - 1] /\ Control(w[x])
      BY <1>2, <2>1
    <3>3. CASE Logged(w[x])
      <4>1. g[x] \in 1..Len(q)
        BY <1>1, <3>1, <3>2, <3>3
      <4> QED BY <1>4, <3>1, <3>2, <3>3, <4>1
    <3> QED BY <3>1, <3>2, <3>3
  <2>2. CASE x = Len(w) + 1
    BY <1>2, <1>3, <1>4, <1>7, <1>9, <2>2
  <2> QED BY <1>1, <1>3, <2>1, <2>2
<1> QED BY <1>6, <1>7, <1>10 DEF Follows, v, u

LEMMA WireLacks ==
  ASSUME NEW w, IsSeq(w), NEW n \in Nat, NEW q, IsSeq(q), NEW full, Follows(w, n, q, full), NEW p
  PROVE  Follows(w, n, Append(q, p), FALSE)
<1>1. Len(w) \in Nat /\ Len(q) \in Nat
  BY SeqIs
<1>2. PICK g \in [0..Len(w) -> 0..Len(q)] :
        /\ g[0] = n
        /\ \A x \in 1..Len(w) : IF Logged(w[x]) THEN g[x] = g[x - 1] + 1 /\ w[x] = q[g[x]]
                                ELSE g[x] = g[x - 1] /\ Control(w[x])
  BY DEF Follows
<1> DEFINE u == Append(q, p)
<1>3. Len(u) = Len(q) + 1 /\ (\A x \in 1..Len(q) : u[x] = q[x])
  BY AppendIs
<1> HIDE DEF u
<1>4. g \in [0..Len(w) -> 0..Len(u)]
  <2>1. \A x \in 0..Len(w) : g[x] \in 0..Len(q)
    OBVIOUS
  <2>2. \A x \in 0..Len(w) : g[x] \in 0..Len(u)
    BY <1>1, <1>3, <2>1
  <2> QED BY <2>2
<1>5. ASSUME NEW x \in 1..Len(w), Logged(w[x]) PROVE g[x] = g[x - 1] + 1 /\ w[x] = u[g[x]]
  <2>1. g[x] = g[x - 1] + 1 /\ w[x] = q[g[x]]
    BY <1>2, <1>5
  <2>2. g[x] \in 0..Len(q) /\ g[x - 1] \in 0..Len(q)
    BY <1>1
  <2>3. g[x] \in 1..Len(q)
    BY <1>1, <2>1, <2>2
  <2> QED BY <1>3, <2>1, <2>3
<1>6. \A x \in 1..Len(w) : IF Logged(w[x]) THEN g[x] = g[x - 1] + 1 /\ w[x] = u[g[x]]
                           ELSE g[x] = g[x - 1] /\ Control(w[x])
  BY <1>2, <1>5
<1> QED BY <1>2, <1>4, <1>6 DEF Follows, u

LEMMA WireTaken ==
  ASSUME NEW w, IsSeq(w), w # <<>>, NEW n \in Nat, NEW q, IsSeq(q), NEW full, Follows(w, n, q, full)
  PROVE  IF Logged(Head(w)) THEN n + 1 \in 1..Len(q) /\ Head(w) = q[n + 1] /\ Follows(Tail(w), n + 1, q, full)
         ELSE Control(Head(w)) /\ Follows(Tail(w), n, q, full)
<1>1. Len(w) \in Nat /\ Len(q) \in Nat
  BY SeqIs
<1>2. PICK g \in [0..Len(w) -> 0..Len(q)] :
        /\ g[0] = n /\ (full => g[Len(w)] = Len(q))
        /\ \A x \in 1..Len(w) : IF Logged(w[x]) THEN g[x] = g[x - 1] + 1 /\ w[x] = q[g[x]]
                                ELSE g[x] = g[x - 1] /\ Control(w[x])
  BY DEF Follows
<1> DEFINE v == Tail(w)
           n1 == IF Logged(Head(w)) THEN n + 1 ELSE n
           h == [x \in 0..Len(w) - 1 |-> g[x + 1]]
<1>3. /\ Len(v) = Len(w) - 1 /\ Len(w) # 0 /\ (\A k \in 1..Len(v) : v[k] = w[k + 1])
      /\ Head(w) = w[1] /\ 1 \in 1..Len(w)
  BY TailIs
<1>4. g[1] = n1 /\ (Logged(Head(w)) => Head(w) = q[n + 1]) /\ (~Logged(Head(w)) => Control(Head(w)))
  BY <1>2, <1>3
<1>5. g[1] \in 0..Len(q) /\ g[0] \in 0..Len(q)
  BY <1>1, <1>3
<1>6. Logged(Head(w)) => n + 1 \in 1..Len(q)
  BY <1>1, <1>2, <1>4, <1>5
<1> HIDE DEF v, n1
<1>7. h \in [0..Len(v) -> 0..Len(q)]
  BY <1>1, <1>3
<1>8. h[0] = n1 /\ h[Len(v)] = g[Len(w)]
  BY <1>1, <1>3, <1>4
<1>9. ASSUME NEW x \in 1..Len(v)
      PROVE  IF Logged(v[x]) THEN h[x] = h[x - 1] + 1 /\ v[x] = q[h[x]] ELSE h[x] = h[x - 1] /\ Control(v[x])
  <2>1. x + 1 \in 1..Len(w) /\ v[x] = w[x + 1] /\ h[x] = g[x + 1] /\ h[x - 1] = g[x] /\ x + 1 - 1 = x
    BY <1>1, <1>3
  <2> HIDE DEF h
  <2> QED BY <1>2, <2>1
<1> HIDE DEF h
<1>10. Follows(v, n1, q, full)
  BY <1>2, <1>7, <1>8, <1>9 DEF Follows
<1> QED BY <1>4, <1>6, <1>10 DEF n1, v

-----------------------------------------------------------------------------
(* Steps that handle nothing of what the other side sent.                  *)

SameNews(m, n) == Waiting(n) = Waiting(m) /\ \A b \in Waiting(m) : n.events[b] = m.events[b]

Calm(m, n) ==
    /\ n.in = m.in /\ n.todo = m.todo /\ n.handled = m.handled /\ SameNews(m, n)
    /\ \A c \in Conn : (n.sock[c] # "Closed" => m.sock[c] # "Closed") /\ (Fresh(n, c) => Fresh(m, c))
    /\ \A x \in 1..Len(m.todo) : m.todo[x].conn \in m.listed => m.todo[x].conn \in n.listed

LEMMA CalmIs ==
  ASSUME NEW s, NEW m, NEW n, Link(s, m), Calm(m, n)
  PROVE  Link(s, n)
<1>1. ASSUME NEW c \in Conn, NEW k, Taken(m, c, k) PROVE Taken(n, c, k)
  BY <1>1 DEF Calm, Taken, Packets, Jobs
<1>2. ASSUME NEW t, NEW p, Came(m, s, t, p) PROVE Came(n, s, t, p)
  BY <1>1, <1>2 DEF Came, At
<1>3. Wires(s, n)
  BY DEF Link, Wires, Calm
<1>4. Seen(n, s)
  BY <1>2 DEF Link, Seen, Calm, SameNews
<1>5. Orderly(n)
  BY DEF Link, Orderly, Calm, SameNews
<1>6. Recovery(n, s)
  <2>1. n.todo = m.todo
    BY DEF Calm
  <2>2. ASSUME NEW x \in 1..Len(n.todo) PROVE JobOf(n, s, x, n.todo[x])
    <3>1. JobOf(m, s, x, m.todo[x]) /\ m.todo[x].conn \in n.listed
      BY <2>1 DEF Link, Recovery, JobOf, Calm
    <3> QED BY <1>1, <2>1, <3>1 DEF JobOf
  <2> QED BY <2>1, <2>2 DEF Link, Recovery
<1> QED BY <1>3, <1>4, <1>5, <1>6 DEF Link

-----------------------------------------------------------------------------
(* Steps that send.                                                        *)

Quietly(m, n, c) ==
    /\ n.sent[c] = m.sent[c] /\ (n.sock[c] = "Open" => m.sock[c] = "Open" \/ m.sent[c] = <<>>)
    /\ n.wire[c] = m.wire[c] \/ \E u : Control(u) /\ n.wire[c] = Append(m.wire[c], u)

SendsOn(m, n, c, p) ==
    /\ Logged(p) /\ (p.type = "PostMortem" => m.pmSent[p.conn] = -1)
    /\ n.sent[c] = Append(m.sent[c], p) /\ n.sock[c] = m.sock[c]
    /\ n.wire[c] = IF m.sock[c] = "Open" THEN Append(m.wire[c], p) ELSE m.wire[c]

Sends(m, n) == \A c \in Conn : Quietly(m, n, c) \/ \E p : SendsOn(m, n, c, p)

LEMMA SentGrows ==
  ASSUME NEW m, NEW n, Shape(m), Sends(m, n), NEW c \in Conn
  PROVE  /\ Len(m.sent[c]) \in Nat /\ Len(n.sent[c]) \in Nat /\ Len(m.sent[c]) <= Len(n.sent[c])
         /\ \A k \in 1..Len(m.sent[c]) : n.sent[c][k] = m.sent[c][k]
         /\ \A k \in 1..Len(n.sent[c]) :
               k \in 1..Len(m.sent[c]) \/ (n.sent[c][k].type = "PostMortem" => m.pmSent[n.sent[c][k].conn] = -1)
<1>1. IsSeq(m.sent[c]) /\ Len(m.sent[c]) \in Nat
  BY SeqIs DEF Shape, IsSeqs
<1>2. CASE n.sent[c] = m.sent[c]
  BY <1>1, <1>2
<1>3. ASSUME NEW p, SendsOn(m, n, c, p)
      PROVE  /\ Len(n.sent[c]) = Len(m.sent[c]) + 1 /\ \A k \in 1..Len(m.sent[c]) : n.sent[c][k] = m.sent[c][k]
             /\ n.sent[c][Len(m.sent[c]) + 1] = p /\ (p.type = "PostMortem" => m.pmSent[p.conn] = -1)
  <2>1. n.sent[c] = Append(m.sent[c], p) /\ (p.type = "PostMortem" => m.pmSent[p.conn] = -1)
    BY <1>3 DEF SendsOn
  <2> QED BY <1>1, <2>1, AppendIs
<1>4. ASSUME NEW p, SendsOn(m, n, c, p)
      PROVE  \A k \in 1..Len(n.sent[c]) :
               k \in 1..Len(m.sent[c]) \/ (n.sent[c][k].type = "PostMortem" => m.pmSent[n.sent[c][k].conn] = -1)
  <2>1. \A k \in 1..Len(n.sent[c]) : k \in 1..Len(m.sent[c]) \/ k = Len(m.sent[c]) + 1
    BY <1>1, <1>3, <1>4
  <2> QED BY <1>3, <1>4, <2>1
<1> QED BY <1>1, <1>2, <1>3, <1>4 DEF Sends, Quietly

LEMMA SendsIs ==
  ASSUME NEW m, NEW n, NEW r, Shape(m), Sendings(m), r.in \in [Conn -> Nat], Link(m, r), Sends(m, n)
  PROVE  Link(n, r)
<1>1. \A c \in Conn : /\ Len(m.sent[c]) \in Nat /\ Len(n.sent[c]) \in Nat /\ Len(m.sent[c]) <= Len(n.sent[c])
                      /\ \A k \in 1..Len(m.sent[c]) : n.sent[c][k] = m.sent[c][k] /\ k \in 1..Len(n.sent[c])
  BY SentGrows
<1>2. \A c \in Conn : \A k \in 1..Len(n.sent[c]) :
        k \in 1..Len(m.sent[c]) \/ (n.sent[c][k].type = "PostMortem" => m.pmSent[n.sent[c][k].conn] = -1)
  BY SentGrows
<1>3. \A c, k, p : At(m, c, k, p) => At(n, c, k, p)
  BY <1>1 DEF At
<1>4. Seen(r, n)
  BY <1>3 DEF Link, Seen, Came
<1>5. Recovery(r, n)
  <2>1. ASSUME NEW x \in 1..Len(r.todo), JobOf(r, m, x, r.todo[x]) PROVE JobOf(r, n, x, r.todo[x])
    <3> DEFINE q == r.todo[x]
    <3>1. /\ q.conn \in r.listed /\ q.type \in {"Packet", "Remove"}
          /\ \A d \in Conn : \A k \in 1..Len(m.sent[d]) : IsPostMortem(m.sent[d][k], q.conn) => Taken(r, d, k)
          /\ q.type = "Packet" => /\ q.num \in Nat /\ At(m, q.conn, q.num + 1, q.pkt)
                                  /\ \E y \in 1..Len(r.todo) : x < y /\ r.todo[y] = Removal(q.conn)
      BY <2>1 DEF JobOf
    <3>2. PICK e \in Conn : \E k \in 1..Len(m.sent[e]) : IsPostMortem(m.sent[e][k], q.conn)
      BY <2>1 DEF JobOf
    <3> PICK l \in 1..Len(m.sent[e]) : IsPostMortem(m.sent[e][l], q.conn)
      BY <3>2
    <3>3. m.pmSent[q.conn] # -1
      <4>1. Proper(m, e, m.sent[e][l])
        BY DEF Sendings
      <4> QED BY <3>2, <4>1 DEF Proper, PieceOf, IsMessage, IsPostMortem
    <3>4. l \in 1..Len(n.sent[e]) /\ IsPostMortem(n.sent[e][l], q.conn)
      <4>1. l \in 1..Len(n.sent[e]) /\ n.sent[e][l] = m.sent[e][l]
        BY <1>1
      <4> QED BY <3>2, <4>1
    <3>5. ASSUME NEW d \in Conn, NEW k \in 1..Len(n.sent[d]), IsPostMortem(n.sent[d][k], q.conn) PROVE Taken(r, d, k)
      <4>1. k \in 1..Len(m.sent[d]) \/ (n.sent[d][k].type = "PostMortem" => m.pmSent[n.sent[d][k].conn] = -1)
        BY <1>2
      <4>2. k \in 1..Len(m.sent[d])
        BY <3>3, <3>5, <4>1 DEF IsPostMortem
      <4> QED BY <1>1, <3>1, <3>5, <4>2
    <3>6. q.type = "Packet" => At(n, q.conn, q.num + 1, q.pkt)
      BY <1>3, <3>1
    <3> HIDE DEF q
    <3>7. JobOf(r, n, x, q)
      BY <3>1, <3>4, <3>5, <3>6 DEF JobOf
    <3> QED BY <3>7 DEF q
  <2> QED BY <2>1 DEF Link, Recovery
<1>6. Wires(n, r)
  <2> SUFFICES ASSUME NEW c \in Conn, r.sock[c] # "Closed"
               PROVE  Follows(n.wire[c], r.in[c], n.sent[c], n.sock[c] = "Open")
    BY DEF Wires
  <2>1. Follows(m.wire[c], r.in[c], m.sent[c], m.sock[c] = "Open")
    BY DEF Link, Wires
  <2>2. IsSeq(m.wire[c]) /\ IsSeq(m.sent[c]) /\ r.in[c] \in Nat
    BY DEF Shape, IsSeqs
  <2>3. CASE Quietly(m, n, c)
    <3>1. Follows(m.wire[c], r.in[c], m.sent[c], n.sock[c] = "Open")
      BY <2>1, <2>2, <2>3, WireStays DEF Quietly
    <3>2. ASSUME NEW u, Control(u), n.wire[c] = Append(m.wire[c], u)
          PROVE  Follows(n.wire[c], r.in[c], m.sent[c], n.sock[c] = "Open")
      BY <2>2, <3>1, <3>2, WireOther
    <3> QED BY <2>3, <3>1, <3>2 DEF Quietly
  <2>4. ASSUME NEW p, SendsOn(m, n, c, p)
        PROVE  Follows(n.wire[c], r.in[c], n.sent[c], n.sock[c] = "Open")
    <3>1. n.sent[c] = Append(m.sent[c], p) /\ n.sock[c] = m.sock[c] /\ Logged(p)
      BY <2>4 DEF SendsOn
    <3>2. CASE m.sock[c] = "Open"
      <4>1. Follows(m.wire[c], r.in[c], m.sent[c], TRUE)
        BY <2>1, <2>2, <3>2, WireStays
      <4>2. Follows(Append(m.wire[c], p), r.in[c], Append(m.sent[c], p), TRUE)
        BY <2>2, <3>1, <4>1, WireNext
      <4>3. n.wire[c] = Append(m.wire[c], p)
        BY <2>4, <3>2 DEF SendsOn
      <4>4. (n.sock[c] = "Open") = TRUE
        BY <3>1, <3>2
      <4> QED BY <3>1, <4>2, <4>3, <4>4
    <3>3. CASE m.sock[c] # "Open"
      <4>1. Follows(m.wire[c], r.in[c], Append(m.sent[c], p), FALSE)
        BY <2>1, <2>2, WireLacks
      <4>2. n.wire[c] = m.wire[c] /\ (n.sock[c] = "Open") = FALSE
        BY <2>4, <3>1, <3>3 DEF SendsOn
      <4> QED BY <3>1, <4>1, <4>2
    <3> QED BY <3>2, <3>3
  <2> QED BY <2>3, <2>4 DEF Sends
<1> QED BY <1>4, <1>5, <1>6 DEF Link

-----------------------------------------------------------------------------
(* Pieces of the handlers.  The node m of i becomes n, o is the other one. *)

LEMMA OtherIs ==
  ASSUME NEW i \in Computer
  PROVE  Other(i) \in Computer /\ Other(i) # i /\ Other(Other(i)) = i /\ \A j \in Computer : j = i \/ j = Other(i)
<1>1. PICK a \in Computer, b \in Computer : a # b /\ Computer = {a, b}
  <2>1. IsFiniteSet(Computer) /\ Cardinality(Computer) = 2
    BY TwoComputers
  <2>2. PICK a \in Computer : TRUE
    <3>1. Computer # {}
      BY <2>1, FS_EmptySet
    <3> QED BY <3>1
  <2>3. IsFiniteSet(Computer \ {a}) /\ Cardinality(Computer \ {a}) = 1
    BY <2>1, FS_RemoveElement
  <2>4. PICK b : Computer \ {a} = {b}
    BY <2>3, FS_Singleton
  <2> QED BY <2>4
<1>2. \A j \in Computer : \E k \in Computer : k # j
  BY <1>1
<1> QED BY <1>1, <1>2 DEF Other

\* Nothing is sent or closed, no packet is handled and no event is pushed.
Quiet(m, n) ==
    /\ n = [f \in Fields |-> n[f]]
    /\ n.listed = m.listed /\ n.in = m.in /\ n.out = m.out /\ n.log = m.log /\ n.todo = m.todo /\ n.pmSent = m.pmSent
    /\ n.sock = m.sock /\ n.wire = m.wire /\ n.sent = m.sent /\ n.handled = m.handled /\ n.events = m.events
    /\ n.status \in [Conn -> Status] /\ n.gone \in BOOLEAN /\ n.msg \in Conn \cup {NoConn} /\ n.data \in Conn \cup {NoConn}
    /\ \A c \in Conn : n.status[c] = m.status[c] \/ (isOpen(m, c) /\ n.status[c] \in {"HalfAccepted", "Accepted"})
    /\ \A c \in Conn : c \in {n.msg, n.data} => c \in {m.msg, m.data} \/ m.sock[c] = "Open"
    /\ \A q \in n.clearing : q.conn \in Conn

LEMMA QuietLink ==
  ASSUME NEW i, NEW m, NEW n, NEW o, NEW x, Pair(i, m, o, x), Shape(n), Sends(m, n), Calm(m, n)
  PROVE  Link(n, o) /\ Link(o, n)
<1>1. Shape(m) /\ Sendings(m) /\ o.in \in [Conn -> Nat] /\ Link(m, o) /\ Link(o, m)
  BY DEF Pair, Local, Shape
<1> QED BY <1>1, SendsIs, CalmIs

\* What was sent and the log are as before.
LEMMA SameSent ==
  ASSUME NEW m, NEW n, NEW x, Logs(m), Sendings(m), Numbered(m, x), n.sent = m.sent, n.out = m.out, n.log = m.log, n.pmSent = m.pmSent
  PROVE  Logs(n) /\ Sendings(n) /\ Numbered(n, x)
<1>1. Logs(n) /\ Numbered(n, x)
  BY DEF Logs, Numbered
<1>2. \A d, p : Proper(m, d, p) => Proper(n, d, p)
  BY DEF Proper, PieceOf
<1> QED BY <1>1, <1>2 DEF Sendings

LEMMA QuietIs ==
  ASSUME NEW i, NEW m, NEW n, NEW o, NEW x, Pair(i, m, o, x), Quiet(m, n)
  PROVE  Pair(i, n, o, x)
<1>1. Shape(m) /\ Sockets(m, i) /\ Logs(m) /\ Sendings(m) /\ Numbered(m, x)
  BY DEF Pair, Local
<1>2. Shape(n)
  BY <1>1 DEF Shape, Quiet
<1>3. Sockets(n, i)
  <2> SUFFICES ASSUME NEW c \in Conn
               PROVE  SocketOf(n, i, c)
    BY DEF Sockets
  <2>1. /\ n.sock = m.sock /\ n.listed = m.listed /\ n.sent = m.sent
        /\ n.status[c] = m.status[c] \/ (isOpen(m, c) /\ n.status[c] \in {"HalfAccepted", "Accepted"})
        /\ c = n.msg \/ c = n.data => c = m.msg \/ c = m.data \/ m.sock[c] = "Open"
    BY DEF Quiet
  <2>2. CASE n.status[c] = m.status[c]
    BY <1>1, <2>1, <2>2 DEF Sockets, SocketOf, isOpen, isClosed
  <2>3. CASE isOpen(m, c) /\ n.status[c] \in {"HalfAccepted", "Accepted"}
    BY <1>1, <2>1, <2>3 DEF Sockets, SocketOf, isOpen, isClosed
  <2> QED BY <2>1, <2>2, <2>3
<1>4. Sends(m, n)
  BY DEF Sends, Quietly, Quiet
<1>5. Calm(m, n)
  BY DEF Calm, Quiet, SameNews, Waiting, Fresh, Jobs
<1>6. Link(n, o) /\ Link(o, n)
  BY <1>2, <1>4, <1>5, QuietLink
<1>7. Logs(n) /\ Sendings(n) /\ Numbered(n, x)
  BY <1>1, SameSent DEF Quiet
<1> QED BY <1>2, <1>3, <1>6, <1>7 DEF Pair, Local

LEMMA WiredIs ==
  ASSUME NEW i, NEW m, NEW o, NEW x, Pair(i, m, o, x), NEW W, W = [c \in Conn |-> W[c]],
         \A c \in Conn : W[c] = m.wire[c] \/ \E u : Control(u) /\ W[c] = Append(m.wire[c], u)
  PROVE  Pair(i, [m EXCEPT !.wire = W], o, x)
<1> DEFINE n == [m EXCEPT !.wire = W]
<1>1. Shape(m) /\ Sockets(m, i) /\ Logs(m) /\ Sendings(m) /\ Numbered(m, x)
  BY DEF Pair, Local
<1>2. n = [f \in Fields |-> n[f]] /\ n.wire = W /\ \A f \in Fields \ {"wire"} : n[f] = m[f]
  BY <1>1 DEF Shape, Fields
<1>3. /\ n.listed = m.listed /\ n.in = m.in /\ n.out = m.out /\ n.log = m.log /\ n.todo = m.todo /\ n.pmSent = m.pmSent
      /\ n.sock = m.sock /\ n.sent = m.sent /\ n.handled = m.handled /\ n.events = m.events /\ n.status = m.status
      /\ n.gone = m.gone /\ n.msg = m.msg /\ n.data = m.data /\ n.clearing = m.clearing
  BY <1>2 DEF Fields
<1> HIDE DEF n
<1>4. \A c \in Conn : IsSeq(W[c])
  <2> SUFFICES ASSUME NEW c \in Conn PROVE IsSeq(W[c])
    OBVIOUS
  <2>1. IsSeq(m.wire[c])
    BY <1>1 DEF Shape, IsSeqs
  <2>2. \A u : IsSeq(Append(m.wire[c], u))
    BY <2>1, AppendIs
  <2> QED BY <2>1, <2>2
<1>5. Shape(n)
  BY <1>1, <1>2, <1>3, <1>4 DEF Shape, IsSeqs
<1>6. Sockets(n, i)
  BY <1>1, <1>3 DEF Sockets, SocketOf, isOpen, isClosed
<1>7. Sends(m, n)
  BY <1>2, <1>3 DEF Sends, Quietly
<1>8. Calm(m, n)
  BY <1>3 DEF Calm, SameNews, Waiting, Fresh, Jobs
<1>9. Link(n, o) /\ Link(o, n)
  BY <1>5, <1>7, <1>8, QuietLink
<1>10. Logs(n) /\ Sendings(n) /\ Numbered(n, x)
  BY <1>1, <1>3, SameSent
<1> QED BY <1>5, <1>6, <1>9, <1>10 DEF Pair, Local, n

LEMMA TransmitIs ==
  ASSUME NEW i, NEW m, NEW o, NEW x, Pair(i, m, o, x), NEW c \in Conn, NEW p, Control(p)
  PROVE  Pair(i, Transmit(m, c, p), o, x) /\ Send(m, c, p) = Transmit(m, c, p)
<1> DEFINE W == [m.wire EXCEPT ![c] = Append(@, p)]
<1>1. Shape(m)
  BY DEF Pair, Local
<1>2. m.wire = [d \in Conn |-> m.wire[d]]
  BY <1>1 DEF Shape, IsSeqs
<1>3. W = [d \in Conn |-> W[d]] /\ \A d \in Conn : W[d] = m.wire[d] \/ W[d] = Append(m.wire[d], p)
  BY <1>2
<1>4. [m EXCEPT !.wire[c] = Append(@, p)] = [m EXCEPT !.wire = W]
  OBVIOUS
<1> HIDE DEF W
<1>5. Pair(i, [m EXCEPT !.wire = W], o, x)
  BY <1>3, WiredIs
<1> QED BY <1>4, <1>5 DEF Transmit, Send, Control, Logged

\* A message, or a post mortem that is marked as sent.
LEMMA SendIs ==
  ASSUME NEW i, NEW m, NEW o, NEW x, Pair(i, m, o, x), NEW c \in Conn, m.sock[c] \in {"Open", "Closed"}, NEW p, Logged(p),
         NEW P \in [Conn -> Nat \cup {-1}], \A d \in Conn : m.pmSent[d] # -1 => P[d] # -1,
         Proper([m EXCEPT !.pmSent = P], c, p),
         p.type = "PostMortem" => m.pmSent[p.conn] = -1,
         IsMessage(p) => Numbered(m, p.id) /\ p.id < x
  PROVE  Pair(i, Send([m EXCEPT !.pmSent = P], c, p), o, x)
<1> DEFINE k == [m EXCEPT !.pmSent = P]
           n == Send(k, c, p)
           W == IF m.sock[c] = "Open" THEN [m.wire EXCEPT ![c] = Append(@, p)] ELSE m.wire
<1>1. Shape(m) /\ Sockets(m, i) /\ Logs(m) /\ Sendings(m) /\ Numbered(m, x)
  BY DEF Pair, Local
<1>2. k = [f \in Fields |-> k[f]] /\ k.pmSent = P /\ \A f \in Fields \ {"pmSent"} : k[f] = m[f]
  BY <1>1 DEF Shape, Fields
<1> HIDE DEF k
<1>3. /\ n = [f \in Fields |-> n[f]]
      /\ n.log = [k.log EXCEPT ![c] = Append(@, [num |-> k.out[c], pkt |-> p])]
      /\ n.out = [k.out EXCEPT ![c] = @ + 1] /\ n.sent = [k.sent EXCEPT ![c] = Append(@, p)]
      /\ n.wire = (IF isOpen(k, c) /\ k.sock[c] = "Open" THEN [k.wire EXCEPT ![c] = Append(@, p)] ELSE k.wire)
      /\ \A f \in Fields \ {"log", "out", "sent", "wire"} : n[f] = k[f]
  <2> DEFINE kept == [k EXCEPT !.log[c] = Append(@, [num |-> k.out[c], pkt |-> p]), !.out[c] = @ + 1,
                               !.sent[c] = Append(@, p)]
  <2>1. /\ kept = [f \in Fields |-> kept[f]]
        /\ kept.log = [k.log EXCEPT ![c] = Append(@, [num |-> k.out[c], pkt |-> p])]
        /\ kept.out = [k.out EXCEPT ![c] = @ + 1] /\ kept.sent = [k.sent EXCEPT ![c] = Append(@, p)]
        /\ \A f \in Fields \ {"log", "out", "sent"} : kept[f] = k[f]
    BY <1>2 DEF Fields
  <2>2. n = IF isOpen(k, c) THEN Transmit(kept, c, p) ELSE kept
    BY DEF Send
  <2> HIDE DEF kept
  <2> DEFINE sent == [kept EXCEPT !.wire[c] = Append(@, p)]
  <2>3. /\ sent = [f \in Fields |-> sent[f]] /\ sent.wire = [kept.wire EXCEPT ![c] = Append(@, p)]
        /\ \A f \in Fields \ {"wire"} : sent[f] = kept[f]
    BY <2>1 DEF Fields
  <2>4. Transmit(kept, c, p) = IF kept.sock[c] = "Open" THEN sent ELSE kept
    BY DEF Transmit
  <2> HIDE DEF sent, n
  <2>5. n = IF isOpen(k, c) /\ k.sock[c] = "Open" THEN sent ELSE kept
    BY <2>1, <2>2, <2>4 DEF Fields
  <2> QED BY <2>1, <2>3, <2>5 DEF Fields
<1> HIDE DEF n
<1>4. /\ n.listed = m.listed /\ n.in = m.in /\ n.todo = m.todo /\ n.pmSent = P
      /\ n.sock = m.sock /\ n.handled = m.handled /\ n.events = m.events /\ n.status = m.status
      /\ n.gone = m.gone /\ n.msg = m.msg /\ n.data = m.data /\ n.clearing = m.clearing
      /\ n.log = [m.log EXCEPT ![c] = Append(@, [num |-> m.out[c], pkt |-> p])]
      /\ n.out = [m.out EXCEPT ![c] = @ + 1] /\ n.sent = [m.sent EXCEPT ![c] = Append(@, p)] /\ n.wire = W
  <2>1. isOpen(k, c) <=> m.sock[c] = "Open"
    BY <1>1, <1>2 DEF Sockets, SocketOf, isOpen, Fields
  <2> QED BY <1>2, <1>3, <2>1 DEF Fields
<1>5. /\ \A d \in Conn : IsSeq(m.wire[d]) /\ IsSeq(m.sent[d]) /\ IsSeq(m.log[d])
      /\ m.wire = [d \in Conn |-> m.wire[d]] /\ m.sent = [d \in Conn |-> m.sent[d]] /\ m.log = [d \in Conn |-> m.log[d]]
      /\ m.out \in [Conn -> Nat]
  BY <1>1 DEF Shape, IsSeqs
<1>6. /\ W = [d \in Conn |-> W[d]] /\ W[c] = (IF m.sock[c] = "Open" THEN Append(m.wire[c], p) ELSE m.wire[c])
      /\ \A d \in Conn \ {c} : W[d] = m.wire[d]
  BY <1>5
<1> HIDE DEF W
<1>7. IsSeqs(n.wire, Conn) /\ IsSeqs(n.sent, Conn) /\ IsSeqs(n.log, Conn) /\ n.out \in [Conn -> Nat]
  <2>1. \A d \in Conn : IsSeq(W[d])
    <3>1. IsSeq(Append(m.wire[c], p))
      BY <1>5, AppendIs
    <3> QED BY <1>5, <1>6, <3>1
  <2>2. \A d \in Conn : IsSeq(n.sent[d]) /\ IsSeq(n.log[d])
    <3>1. IsSeq(Append(m.sent[c], p)) /\ IsSeq(Append(m.log[c], [num |-> m.out[c], pkt |-> p]))
      BY <1>5, AppendIs
    <3>2. /\ n.sent = [d \in Conn |-> IF d = c THEN Append(m.sent[c], p) ELSE m.sent[d]]
          /\ n.log = [d \in Conn |-> IF d = c THEN Append(m.log[c], [num |-> m.out[c], pkt |-> p]) ELSE m.log[d]]
      BY <1>4, <1>5
    <3> QED BY <1>5, <3>1, <3>2
  <2>3. n.sent = [d \in Conn |-> n.sent[d]] /\ n.log = [d \in Conn |-> n.log[d]] /\ n.out \in [Conn -> Nat]
    <3>1. n.sent = [m.sent EXCEPT ![c] = Append(@, p)] /\ m.sent = [d \in Conn |-> m.sent[d]]
      BY <1>4, <1>5
    <3>2. n.log = [m.log EXCEPT ![c] = Append(@, [num |-> m.out[c], pkt |-> p])] /\ m.log = [d \in Conn |-> m.log[d]]
      BY <1>4, <1>5
    <3>3. n.out = [m.out EXCEPT ![c] = @ + 1] /\ m.out \in [Conn -> Nat]
      BY <1>4, <1>5
    <3>4. n.sent = [d \in Conn |-> n.sent[d]]
      BY <3>1
    <3>5. n.log = [d \in Conn |-> n.log[d]]
      BY <3>2
    <3>6. n.out \in [Conn -> Nat]
      BY <3>3
    <3> QED BY <3>4, <3>5, <3>6
  <2> QED BY <1>4, <1>6, <2>1, <2>2, <2>3 DEF IsSeqs
<1>8. Shape(n)
  BY <1>1, <1>3, <1>4, <1>7 DEF Shape
<1>9. Sockets(n, i)
  <2>1. \A d \in Conn : m.sock[d] \in {"None", "Calling"} => n.sent[d] = m.sent[d]
    BY <1>4, <1>5
  <2> QED BY <1>1, <1>4, <2>1 DEF Sockets, SocketOf, isOpen, isClosed
<1>10. Sends(m, n)
  <2>1. SendsOn(m, n, c, p)
    BY <1>4, <1>5, <1>6 DEF SendsOn
  <2>2. \A d \in Conn \ {c} : Quietly(m, n, d)
    BY <1>4, <1>5, <1>6 DEF Quietly
  <2> QED BY <2>1, <2>2 DEF Sends
<1>11. Calm(m, n)
  BY <1>4 DEF Calm, SameNews, Waiting, Fresh, Jobs
<1>12. Link(n, o) /\ Link(o, n)
  BY <1>8, <1>10, <1>11, QuietLink
<1>13. /\ Len(n.sent[c]) = Len(m.sent[c]) + 1 /\ n.sent[c][Len(m.sent[c]) + 1] = p
       /\ Len(m.sent[c]) \in Nat /\ Len(m.log[c]) \in Nat /\ m.out[c] \in Nat
       /\ Len(n.log[c]) = Len(m.log[c]) + 1 /\ n.log[c][Len(m.log[c]) + 1] = [num |-> m.out[c], pkt |-> p]
       /\ \A l \in 1..Len(m.log[c]) : n.log[c][l] = m.log[c][l]
       /\ \A l \in 1..Len(m.sent[c]) : n.sent[c][l] = m.sent[c][l]
       /\ n.out[c] = m.out[c] + 1
       /\ \A d \in Conn \ {c} : n.sent[d] = m.sent[d] /\ n.log[d] = m.log[d] /\ n.out[d] = m.out[d]
  <2>1. n.sent[c] = Append(m.sent[c], p) /\ n.log[c] = Append(m.log[c], [num |-> m.out[c], pkt |-> p])
    BY <1>4, <1>5
  <2>2. n.out[c] = m.out[c] + 1 /\ \A d \in Conn \ {c} : n.sent[d] = m.sent[d] /\ n.log[d] = m.log[d] /\ n.out[d] = m.out[d]
    BY <1>4, <1>5
  <2>3. IsSeq(m.sent[c]) /\ IsSeq(m.log[c]) /\ m.out[c] \in Nat
    BY <1>5
  <2> QED BY <2>1, <2>2, <2>3, AppendIs, SeqIs
<1>14. Logs(n)
  <2> SUFFICES ASSUME NEW d \in Conn
               PROVE  /\ n.out[d] = Len(n.sent[d]) /\ Len(n.log[d]) <= n.out[d]
                      /\ \A l \in 1..Len(n.log[d]) :
                            n.log[d][l] = [num |-> n.out[d] - Len(n.log[d]) + l - 1,
                                           pkt |-> n.sent[d][n.out[d] - Len(n.log[d]) + l]]
    BY DEF Logs
  <2>1. /\ m.out[d] = Len(m.sent[d]) /\ Len(m.log[d]) <= m.out[d]
        /\ \A l \in 1..Len(m.log[d]) :
              m.log[d][l] = [num |-> m.out[d] - Len(m.log[d]) + l - 1,
                             pkt |-> m.sent[d][m.out[d] - Len(m.log[d]) + l]]
    BY <1>1 DEF Logs
  <2>2. CASE d # c
    BY <1>13, <2>1, <2>2
  <2>3. CASE d = c
    <3> DEFINE S == Len(m.sent[c])
               L == Len(m.log[c])
    <3>1. S \in Nat /\ L \in Nat /\ L <= S /\ m.out[c] = S /\ n.out[c] = S + 1 /\ Len(n.sent[c]) = S + 1 /\ Len(n.log[c]) = L + 1
      BY <1>13, <2>1, <2>3
    <3>2. \A l \in 1..L : /\ n.log[c][l] = [num |-> S - L + l - 1, pkt |-> m.sent[c][S - L + l]]
                          /\ n.sent[c][S - L + l] = m.sent[c][S - L + l]
      <4>1. \A l \in 1..L : S - L + l \in 1..S
        <5>1. S \in Nat /\ L \in Nat /\ L <= S
          BY <3>1
        <5> HIDE DEF S, L
        <5> QED BY <5>1
      <4>2. \A l \in 1..L : n.log[c][l] = [num |-> S - L + l - 1, pkt |-> m.sent[c][S - L + l]]
        <5>1. \A l \in 1..L : n.log[c][l] = m.log[c][l]
          BY <1>13
        <5>2. \A l \in 1..L : m.log[c][l] = [num |-> m.out[c] - L + l - 1, pkt |-> m.sent[c][m.out[c] - L + l]]
          BY <2>1, <2>3
        <5>3. m.out[c] = S
          BY <3>1
        <5> QED BY <5>1, <5>2, <5>3
      <4>3. \A l \in 1..S : n.sent[c][l] = m.sent[c][l]
        BY <1>13
      <4> QED BY <4>1, <4>2, <4>3
    <3>3. n.log[c][L + 1] = [num |-> S, pkt |-> p] /\ n.sent[c][S + 1] = p
      BY <1>13, <3>1
    <3> HIDE DEF S, L
    <3>4. ASSUME NEW l \in 1..Len(n.log[c])
          PROVE  n.log[c][l] = [num |-> n.out[c] - Len(n.log[c]) + l - 1,
                                pkt |-> n.sent[c][n.out[c] - Len(n.log[c]) + l]]
      <4>1. n.out[c] - Len(n.log[c]) + l - 1 = S - L + l - 1 /\ n.out[c] - Len(n.log[c]) + l = S - L + l
        <5>1. n.out[c] = S + 1 /\ Len(n.log[c]) = L + 1 /\ l \in Int /\ S \in Int /\ L \in Int
          BY <3>1
        <5>2. \A a, b, z \in Int : a + 1 - (b + 1) + z - 1 = a - b + z - 1 /\ a + 1 - (b + 1) + z = a - b + z
          OBVIOUS
        <5>3. S + 1 - (L + 1) + l - 1 = S - L + l - 1 /\ S + 1 - (L + 1) + l = S - L + l
          BY <5>1, <5>2
        <5> QED BY ONLY <5>1, <5>3
      <4>2. CASE l \in 1..L
        BY <3>2, <4>1, <4>2
      <4>3. CASE l = L + 1
        <5>1. S - L + (L + 1) - 1 = S /\ S - L + (L + 1) = S + 1
          <6>1. S \in Int /\ L \in Int
            BY <3>1
          <6> QED BY ONLY <6>1
        <5> QED BY <3>3, <4>1, <4>3, <5>1
      <4> QED BY <3>1, <4>2, <4>3
    <3>5. Len(n.log[c]) <= n.out[c] /\ n.out[c] = Len(n.sent[c])
      BY <3>1
    <3> QED BY <2>3, <3>4, <3>5
  <2> QED BY <2>2, <2>3
<1>15. /\ k.sent = m.sent /\ \A d \in Conn : m.pmSent[d] # -1 => n.pmSent[d] # -1
       /\ n.pmSent = k.pmSent
  BY <1>2, <1>4 DEF Fields
<1>16. \A d \in Conn : Len(m.sent[d]) \in Nat /\ Len(m.sent[d]) <= Len(n.sent[d]) /\ \A l \in 1..Len(m.sent[d]) : n.sent[d][l] = m.sent[d][l]
  BY <1>8, <1>10, <1>1, SentGrows
<1>17. ASSUME NEW d \in Conn, NEW q, Proper(m, d, q) \/ Proper(k, d, q) PROVE Proper(n, d, q)
  <2>1. CASE PieceOf(m, q) \/ PieceOf(k, q)
    <3> SUFFICES PieceOf(n, q)
      BY <1>17 DEF Proper, PieceOf
    <3>1. /\ q.conn \in Conn /\ n.pmSent[q.conn] # -1 /\ IsSeq(q.pkts)
          /\ q.counter \in Nat /\ q.counter <= Len(m.sent[q.conn]) /\ Len(q.pkts) <= q.counter
          /\ \A l \in 1..Len(q.pkts) : q.pkts[l] = m.sent[q.conn][q.counter - Len(q.pkts) + l]
      BY <1>15, <2>1 DEF PieceOf
    <3>2. Len(q.pkts) \in Nat /\ Len(m.sent[q.conn]) \in Nat /\ Len(n.sent[q.conn]) \in Nat
      BY <3>1, <1>16, SeqIs
    <3>3. q.counter <= Len(n.sent[q.conn])
      BY <1>16, <3>1, <3>2
    <3>4. ASSUME NEW l \in 1..Len(q.pkts) PROVE q.pkts[l] = n.sent[q.conn][q.counter - Len(q.pkts) + l]
      <4> DEFINE Q == Len(q.pkts)
                 S == Len(m.sent[q.conn])
                 C == q.counter
      <4>1. Q \in Nat /\ S \in Nat /\ C \in Nat /\ C <= S /\ Q <= C /\ l \in 1..Q
        BY <3>1, <3>2
      <4>2. C - Q + l \in 1..S
        <5> HIDE DEF Q, S, C
        <5> QED BY <4>1
      <4> QED BY <1>16, <3>1, <4>2
    <3> QED BY <3>1, <3>3, <3>4 DEF PieceOf
  <2>2. CASE ~(PieceOf(m, q) \/ PieceOf(k, q))
    BY <1>17, <2>2 DEF Proper
  <2> QED BY <2>1, <2>2
<1>18. \A d \in Conn : \A l \in 1..Len(n.sent[d]) : l \in 1..Len(m.sent[d]) \/ (d = c /\ l = Len(m.sent[c]) + 1)
  BY <1>13
<1>19. \A d \in Conn : \A l \in 1..Len(n.sent[d]) : Proper(n, d, n.sent[d][l])
  <2> SUFFICES ASSUME NEW d \in Conn, NEW l \in 1..Len(n.sent[d]) PROVE Proper(n, d, n.sent[d][l])
    OBVIOUS
  <2>1. CASE l \in 1..Len(m.sent[d])
    BY <1>1, <1>16, <1>17, <2>1 DEF Sendings
  <2>2. CASE d = c /\ l = Len(m.sent[c]) + 1
    <3>1. Proper(k, c, p)
      BY DEF k
    <3> QED BY <1>13, <1>17, <2>2, <3>1
  <2> QED BY <1>18, <2>1, <2>2
<1>20. ASSUME NEW d \in Conn, NEW e \in Conn, NEW v \in 1..Len(n.sent[d]), NEW y \in 1..Len(n.sent[e])
       PROVE  Distinct(d, v, n.sent[d][v], e, y, n.sent[e][y])
  <2>1. ASSUME NEW f \in Conn, NEW z \in 1..Len(m.sent[f])
        PROVE  LET q == m.sent[f][z]
               IN  (IsMessage(p) /\ IsMessage(q) => q.id < p.id) /\ ~(p.type = "PostMortem" /\ q.type = "PostMortem" /\ q.conn = p.conn)
    <3> DEFINE q == m.sent[f][z]
    <3>1. IsMessage(p) /\ IsMessage(q) => q.id < p.id
      BY DEF Numbered
    <3>2. q.type = "PostMortem" => m.pmSent[q.conn] # -1
      <4>1. Proper(m, f, q)
        BY <1>1 DEF Sendings
      <4> QED BY <4>1 DEF Proper, IsMessage, PieceOf
    <3> QED BY <3>1, <3>2
  <2>2. ASSUME NEW f \in Conn, NEW z \in 1..Len(m.sent[f]), IsMessage(m.sent[f][z]) PROVE m.sent[f][z].id \in Nat
    <3>1. Proper(m, f, m.sent[f][z])
      BY <1>1 DEF Sendings
    <3> QED BY <2>2, <3>1 DEF Proper, IsMessage
  <2>3. IsMessage(p) => p.id \in Nat
    <3>1. Proper(k, c, p)
      BY DEF k
    <3> QED BY <3>1 DEF Proper, IsMessage
  <2>4. CASE v \in 1..Len(m.sent[d]) /\ y \in 1..Len(m.sent[e])
    BY <1>1, <1>16, <2>4 DEF Sendings
  <2>5. CASE v \in 1..Len(m.sent[d]) /\ e = c /\ y = Len(m.sent[c]) + 1
    <3>1. n.sent[d][v] = m.sent[d][v] /\ n.sent[e][y] = p
      BY <1>13, <1>16, <2>5
    <3>2. d = e => v # y
      BY <1>13, <2>5
    <3>3. /\ IsMessage(n.sent[d][v]) /\ IsMessage(p) => n.sent[d][v].id < p.id /\ n.sent[d][v].id \in Nat /\ p.id \in Nat
          /\ ~(p.type = "PostMortem" /\ n.sent[d][v].type = "PostMortem" /\ n.sent[d][v].conn = p.conn)
      BY <2>1, <2>2, <2>3, <2>5, <3>1
    <3> QED BY <3>1, <3>3 DEF Distinct
  <2>6. CASE y \in 1..Len(m.sent[e]) /\ d = c /\ v = Len(m.sent[c]) + 1
    <3>1. n.sent[e][y] = m.sent[e][y] /\ n.sent[d][v] = p
      BY <1>13, <1>16, <2>6
    <3>2. ~(d = e /\ v < y)
      BY <1>13, <2>6
    <3>3. /\ IsMessage(n.sent[e][y]) /\ IsMessage(p) => n.sent[e][y].id < p.id /\ n.sent[e][y].id \in Nat /\ p.id \in Nat
          /\ ~(p.type = "PostMortem" /\ n.sent[e][y].type = "PostMortem" /\ n.sent[e][y].conn = p.conn)
      BY <2>1, <2>2, <2>3, <2>6, <3>1
    <3> QED BY <3>1, <3>2, <3>3 DEF Distinct
  <2>7. CASE d = c /\ v = Len(m.sent[c]) + 1 /\ e = c /\ y = Len(m.sent[c]) + 1
    BY <2>7, <1>13 DEF Distinct
  <2> QED BY <1>18, <2>4, <2>5, <2>6, <2>7
<1>21. Sendings(n)
  BY <1>19, <1>20 DEF Sendings
<1>22. Numbered(n, x)
  <2> SUFFICES ASSUME NEW d \in Conn, NEW l \in 1..Len(n.sent[d]), IsMessage(n.sent[d][l])
               PROVE  n.sent[d][l].id < x
    BY DEF Numbered
  <2>1. CASE l \in 1..Len(m.sent[d])
    <3>1. n.sent[d][l] = m.sent[d][l] /\ IsMessage(m.sent[d][l])
      BY <1>16, <2>1
    <3> QED BY <1>1, <2>1, <3>1 DEF Numbered
  <2>2. CASE d = c /\ l = Len(m.sent[c]) + 1
    BY <1>13, <2>2
  <2> QED BY <1>18, <2>1, <2>2
<1>23. Pair(i, n, o, x)
  BY <1>8, <1>9, <1>12, <1>14, <1>21, <1>22 DEF Pair, Local
<1> QED BY <1>23 DEF n, k

\* What the main thread does not handle.
LEMMA PushEventIs ==
  ASSUME NEW i, NEW m, NEW o, NEW x, Pair(i, m, o, x), NEW e, Notice(e), e.type = "Packet" => ~IsMessage(e.pkt)
  PROVE  Pair(i, PushEvent(m, e), o, x)
<1> DEFINE n == PushEvent(m, e)
<1>1. Shape(m) /\ Sockets(m, i) /\ Logs(m) /\ Sendings(m) /\ Numbered(m, x)
  BY DEF Pair, Local
<1>2. n = [f \in Fields |-> n[f]] /\ n.events = Append(m.events, e) /\ \A f \in Fields \ {"events"} : n[f] = m[f]
  BY <1>1 DEF Shape, Fields, PushEvent
<1>3. /\ n.listed = m.listed /\ n.in = m.in /\ n.out = m.out /\ n.log = m.log /\ n.todo = m.todo /\ n.pmSent = m.pmSent
      /\ n.sock = m.sock /\ n.sent = m.sent /\ n.handled = m.handled /\ n.wire = m.wire /\ n.status = m.status
      /\ n.gone = m.gone /\ n.msg = m.msg /\ n.data = m.data /\ n.clearing = m.clearing
  BY <1>2 DEF Fields
<1> HIDE DEF n
<1>4. /\ IsSeq(n.events) /\ Len(n.events) = Len(m.events) + 1 /\ Len(m.events) \in Nat
      /\ (\A k \in 1..Len(m.events) : n.events[k] = m.events[k]) /\ n.events[Len(m.events) + 1] = e
  <2>1. IsSeq(m.events) /\ n.events = Append(m.events, e)
    BY <1>1, <1>2 DEF Shape
  <2> QED BY <2>1, AppendIs, SeqIs
<1>5. \A b \in 1..Len(n.events) : b \in 1..Len(m.events) \/ b = Len(m.events) + 1
  BY <1>4
<1>6. Shape(n)
  <2>1. \A b \in 1..Len(n.events) : Notice(n.events[b])
    BY <1>1, <1>4, <1>5 DEF Shape
  <2> QED BY <1>1, <1>2, <1>3, <1>4, <2>1 DEF Shape
<1>7. Sockets(n, i)
  BY <1>1, <1>3 DEF Sockets, SocketOf, isOpen, isClosed
<1>8. Sends(m, n)
  BY <1>3 DEF Sends, Quietly
<1>9. SameNews(m, n)
  <2>1. Waiting(n) \subseteq Waiting(m)
    BY <1>4, <1>5 DEF Waiting
  <2>2. 1..Len(m.events) \subseteq 1..Len(n.events)
    BY <1>4
  <2>3. Waiting(m) \subseteq Waiting(n)
    BY <1>4, <2>2 DEF Waiting
  <2> QED BY <1>4, <2>1, <2>3 DEF SameNews, Waiting
<1>10. Calm(m, n)
  BY <1>3, <1>9 DEF Calm, Fresh, Jobs
<1>11. Link(n, o) /\ Link(o, n)
  BY <1>6, <1>8, <1>10, QuietLink
<1>12. Logs(n) /\ Sendings(n) /\ Numbered(n, x)
  BY <1>1, <1>3, SameSent
<1> QED BY <1>6, <1>7, <1>11, <1>12 DEF Pair, Local, n

\* A connection gets another status or socket, or goes into the list or out of it.
LEMMA TurnIs ==
  ASSUME NEW i, NEW m, NEW o, NEW x, Pair(i, m, o, x), NEW c \in Conn,
         NEW n, n = [f \in Fields |-> n[f]], \A f \in Fields \ {"status", "sock", "listed"} : n[f] = m[f],
         n.status \in [Conn -> Status], n.sock \in [Conn -> Socket], n.listed \in SUBSET Conn,
         \A d \in Conn \ {c} : n.status[d] = m.status[d] /\ n.sock[d] = m.sock[d] /\ (d \in n.listed <=> d \in m.listed),
         SocketOf(n, i, c), n.sock[c] # "Closed" => m.sock[c] # "Closed", n.sock[c] = "None" => m.sock[c] = "None",
         n.sock[c] = "Open" => m.sock[c] = "Open" \/ m.sent[c] = <<>>,
         c \in n.listed => c \in m.listed \/ m.sock[c] = "None", c \in m.listed => c \in n.listed \/ Jobs(m, c) = {}
  PROVE  Pair(i, n, o, x)
<1>1. Shape(m) /\ Sockets(m, i) /\ Logs(m) /\ Sendings(m) /\ Numbered(m, x)
  BY DEF Pair, Local
<1>2. /\ n.in = m.in /\ n.out = m.out /\ n.log = m.log /\ n.todo = m.todo /\ n.pmSent = m.pmSent
      /\ n.sent = m.sent /\ n.handled = m.handled /\ n.wire = m.wire /\ n.events = m.events
      /\ n.gone = m.gone /\ n.msg = m.msg /\ n.data = m.data /\ n.clearing = m.clearing
  BY DEF Fields
<1>3. Shape(n)
  BY <1>1, <1>2 DEF Shape
<1>4. Sockets(n, i)
  <2> SUFFICES ASSUME NEW d \in Conn \ {c} PROVE SocketOf(n, i, d)
    BY DEF Sockets
  <2> QED BY <1>1, <1>2 DEF Sockets, SocketOf, isOpen, isClosed
<1>5. Sends(m, n)
  <2>1. \A d \in Conn : n.sock[d] = "Open" => m.sock[d] = "Open" \/ m.sent[d] = <<>>
    OBVIOUS
  <2> QED BY <1>2, <2>1 DEF Sends, Quietly
<1>6. Calm(m, n)
  <2>1. SameNews(m, n) /\ \A d : Jobs(n, d) = Jobs(m, d)
    BY <1>2 DEF SameNews, Waiting, Jobs
  <2>2. \A d \in Conn : (n.sock[d] # "Closed" => m.sock[d] # "Closed") /\ (Fresh(n, d) => Fresh(m, d))
    BY <2>1 DEF Fresh
  <2>3. \A y \in 1..Len(m.todo) : m.todo[y].conn \in m.listed => m.todo[y].conn \in n.listed
    <3> SUFFICES ASSUME NEW y \in 1..Len(m.todo), m.todo[y].conn \in m.listed PROVE m.todo[y].conn \in n.listed
      OBVIOUS
    <3>1. m.todo[y].conn \in Conn
      BY <1>1 DEF Shape
    <3>2. CASE m.todo[y].conn = c
      BY <3>2 DEF Jobs
    <3> QED BY <3>1, <3>2
  <2> QED BY <1>2, <2>1, <2>2, <2>3 DEF Calm
<1>7. Link(n, o) /\ Link(o, n)
  BY <1>3, <1>5, <1>6, QuietLink
<1>8. Logs(n) /\ Sendings(n) /\ Numbered(n, x)
  BY <1>1, <1>2, SameSent
<1> QED BY <1>3, <1>4, <1>7, <1>8 DEF Pair, Local

\* The log is cut.
LEMMA CutIs ==
  ASSUME NEW i, NEW m, NEW o, NEW x, Pair(i, m, o, x), NEW c \in Conn, NEW q, IsSeq(q), Len(q) <= Len(m.log[c]),
         \A k \in 1..Len(q) : q[k] = m.log[c][Len(m.log[c]) - Len(q) + k]
  PROVE  Pair(i, [m EXCEPT !.log[c] = q], o, x)
<1> DEFINE n == [m EXCEPT !.log[c] = q]
<1>1. Shape(m) /\ Sockets(m, i) /\ Logs(m) /\ Sendings(m) /\ Numbered(m, x)
  BY DEF Pair, Local
<1>2. n = [f \in Fields |-> n[f]] /\ n.log = [m.log EXCEPT ![c] = q] /\ \A f \in Fields \ {"log"} : n[f] = m[f]
  BY <1>1 DEF Shape, Fields
<1>3. /\ n.listed = m.listed /\ n.in = m.in /\ n.out = m.out /\ n.todo = m.todo /\ n.pmSent = m.pmSent /\ n.events = m.events
      /\ n.sock = m.sock /\ n.sent = m.sent /\ n.handled = m.handled /\ n.wire = m.wire /\ n.status = m.status
      /\ n.gone = m.gone /\ n.msg = m.msg /\ n.data = m.data /\ n.clearing = m.clearing
  BY <1>2 DEF Fields
<1> HIDE DEF n
<1>4. IsSeqs(n.log, Conn) /\ n.log[c] = q /\ \A d \in Conn \ {c} : n.log[d] = m.log[d]
  <2>1. m.log = [d \in Conn |-> m.log[d]] /\ \A d \in Conn : IsSeq(m.log[d])
    BY <1>1 DEF Shape, IsSeqs
  <2> QED BY <1>2, <2>1 DEF IsSeqs
<1>5. Shape(n)
  BY <1>1, <1>2, <1>3, <1>4 DEF Shape
<1>6. Sockets(n, i)
  BY <1>1, <1>3 DEF Sockets, SocketOf, isOpen, isClosed
<1>7. Sends(m, n)
  BY <1>3 DEF Sends, Quietly
<1>8. Calm(m, n)
  BY <1>3 DEF Calm, SameNews, Waiting, Fresh, Jobs
<1>9. Link(n, o) /\ Link(o, n)
  BY <1>5, <1>7, <1>8, QuietLink
<1>10. Logs(n)
  <2> SUFFICES ASSUME NEW d \in Conn
               PROVE  /\ n.out[d] = Len(n.sent[d]) /\ Len(n.log[d]) <= n.out[d]
                      /\ \A l \in 1..Len(n.log[d]) :
                            n.log[d][l] = [num |-> n.out[d] - Len(n.log[d]) + l - 1,
                                           pkt |-> n.sent[d][n.out[d] - Len(n.log[d]) + l]]
    BY DEF Logs
  <2>1. /\ m.out[d] = Len(m.sent[d]) /\ Len(m.log[d]) <= m.out[d]
        /\ \A l \in 1..Len(m.log[d]) :
              m.log[d][l] = [num |-> m.out[d] - Len(m.log[d]) + l - 1,
                             pkt |-> m.sent[d][m.out[d] - Len(m.log[d]) + l]]
    BY <1>1 DEF Logs
  <2>2. CASE d # c
    <3>1. n.out[d] = m.out[d] /\ n.sent[d] = m.sent[d] /\ n.log[d] = m.log[d]
      BY <1>3, <1>4, <2>2
    <3> QED BY <2>1, <3>1
  <2>3. CASE d = c
    <3> DEFINE S == m.out[c]
               L == Len(m.log[c])
               Q == Len(q)
    <3>1. S \in Nat /\ L \in Nat /\ Q \in Nat /\ Q <= L /\ L <= S
      BY <1>1, <2>1, <2>3, SeqIs DEF Shape, IsSeqs
    <3>2. \A l \in 1..L : m.log[c][l] = [num |-> S - L + l - 1, pkt |-> m.sent[c][S - L + l]]
      BY <2>1, <2>3
    <3>3. \A k \in 1..Q : q[k] = m.log[c][L - Q + k]
      OBVIOUS
    <3> HIDE DEF S, L, Q
    <3>4. \A l \in 1..Q : L - Q + l \in 1..L /\ S - L + (L - Q + l) - 1 = S - Q + l - 1 /\ S - L + (L - Q + l) = S - Q + l
      BY <3>1
    <3>5. ASSUME NEW l \in 1..Q PROVE q[l] = [num |-> S - Q + l - 1, pkt |-> m.sent[c][S - Q + l]]
      BY <3>2, <3>3, <3>4
    <3>6. Q <= S
      BY <3>1
    <3>7. n.out[d] = S /\ n.sent[d] = m.sent[c] /\ n.log[d] = q /\ Len(m.sent[c]) = S
      BY <1>3, <1>4, <2>1, <2>3 DEF S
    <3>8. Len(n.log[d]) = Q
      BY <3>7 DEF Q
    <3> QED BY <3>5, <3>6, <3>7, <3>8
  <2> QED BY <2>2, <2>3
<1>11. Sendings(n) /\ Numbered(n, x)
  <2>1. \A d, p : Proper(m, d, p) => Proper(n, d, p)
    BY <1>3 DEF Proper, PieceOf
  <2> QED BY <1>1, <1>3, <2>1 DEF Sendings, Numbered
<1> QED BY <1>5, <1>6, <1>9, <1>10, <1>11 DEF Pair, Local, n

-----------------------------------------------------------------------------
(* The handlers, first those that take no packet of the other side.       *)

LEMMA ClearPacketLogIs ==
  ASSUME NEW i, NEW m, NEW o, NEW x, Pair(i, m, o, x), NEW c \in Conn, NEW until
  PROVE  Pair(i, ClearPacketLog(m, c, until), o, x)
<1> DEFINE L == Len(m.log[c])
           old == {k \in 1..L : m.log[c][k].num < until}
           N == Cardinality(old)
           q == SubSeq(m.log[c], N + 1, L)
<1>1. IsSeq(m.log[c]) /\ L \in Nat
  BY SeqIs DEF Pair, Local, Shape, IsSeqs
<1>2. N \in Nat
  <2>1. IsFiniteSet(1..L)
    BY <1>1, FS_Interval
  <2>2. old \subseteq 1..L
    OBVIOUS
  <2> HIDE DEF old
  <2>3. IsFiniteSet(old)
    BY <2>1, <2>2, FS_Subset
  <2> QED BY <2>3, FS_CardinalityType
<1>3. [m EXCEPT !.log[c] = q] = ClearPacketLog(m, c, until)
  BY DEF ClearPacketLog
<1> HIDE DEF N
<1>4. IsSeq(q) /\ Len(q) = (IF N <= L THEN L - N ELSE 0) /\ \A k \in 1..Len(q) : q[k] = m.log[c][N + k]
  BY <1>1, <1>2, EndIs
<1> HIDE DEF q, L
<1>5. Len(q) <= L /\ \A k \in 1..Len(q) : L - Len(q) + k = N + k
  BY <1>1, <1>2, <1>4
<1>6. \A k \in 1..Len(q) : q[k] = m.log[c][L - Len(q) + k]
  BY <1>4, <1>5
<1>7. Pair(i, [m EXCEPT !.log[c] = q], o, x)
  BY <1>4, <1>5, <1>6, CutIs DEF L
<1> QED BY <1>3, <1>7

\* Nothing but what the threads note for themselves.
LEMMA ClearingIs ==
  ASSUME NEW i, NEW m, NEW o, NEW x, Pair(i, m, o, x), NEW C, \A q \in C : q.conn \in Conn
  PROVE  Pair(i, [m EXCEPT !.clearing = C], o, x)
<1> DEFINE n == [m EXCEPT !.clearing = C]
<1>1. Shape(m)
  BY DEF Pair, Local
<1>2. n = [f \in Fields |-> n[f]] /\ n.clearing = C /\ \A f \in Fields \ {"clearing"} : n[f] = m[f]
  BY <1>1 DEF Shape, Fields
<1> HIDE DEF n
<1>3. Quiet(m, n)
  BY <1>1, <1>2 DEF Quiet, Shape, Fields
<1> QED BY <1>3, QuietIs DEF n

LEMMA SearchLogIs ==
  ASSUME NEW i, NEW m, NEW o, NEW x, Pair(i, m, o, x), NEW c \in Conn, NEW until
  PROVE  Pair(i, SearchLog(m, c, until), o, x)
<1>1. CASE AtomicClear
  BY <1>1, ClearPacketLogIs DEF SearchLog
<1>2. CASE ~AtomicClear
  <2> DEFINE q == [conn |-> c, until |-> until, all |-> \A k \in 1..Len(m.log[c]) : m.log[c][k].num < until]
  <2>1. q.conn \in Conn
    OBVIOUS
  <2>2. SearchLog(m, c, until) = [m EXCEPT !.clearing = {q}]
    BY <1>2 DEF SearchLog
  <2> HIDE DEF q
  <2>3. \A u \in {q} : u.conn \in Conn
    BY <2>1
  <2>4. Pair(i, [m EXCEPT !.clearing = {q}], o, x)
    BY <2>3, ClearingIs
  <2> QED BY <2>2, <2>4
<1> QED BY <1>1, <1>2

LEMMA CutLogIs ==
  ASSUME NEW i, NEW m, NEW o, NEW x, Pair(i, m, o, x), m.clearing # {}
  PROVE  Pair(i, CutLog(m), o, x)
<1> DEFINE q == CHOOSE q \in m.clearing : TRUE
           done == [m EXCEPT !.clearing = {}]
<1>1. q \in m.clearing
  OBVIOUS
<1>2. q.conn \in Conn
  BY <1>1 DEF Pair, Local, Shape
<1>3. CutLog(m) = IF q.all /\ m.log[q.conn] # <<>> THEN [done EXCEPT !.log[q.conn] = <<>>]
                  ELSE ClearPacketLog(done, q.conn, q.until)
  BY DEF CutLog
<1>4. Pair(i, done, o, x)
  BY ClearingIs
<1> HIDE DEF q, done
<1>5. Pair(i, [done EXCEPT !.log[q.conn] = <<>>], o, x)
  <2>1. IsSeq(done.log[q.conn])
    BY <1>2, <1>4 DEF Pair, Local, Shape, IsSeqs
  <2>2. Len(<<>>) <= Len(done.log[q.conn])
    BY <2>1, SeqIs, EmptyIs
  <2>3. \A k \in 1..Len(<<>>) : FALSE
    BY EmptyIs
  <2> QED BY <1>2, <1>4, <2>2, <2>3, EmptyIs, CutIs
<1>6. Pair(i, ClearPacketLog(done, q.conn, q.until), o, x)
  BY <1>2, <1>4, ClearPacketLogIs
<1> QED BY <1>3, <1>5, <1>6

LEMMA CloseSocketIs ==
  ASSUME NEW i, NEW m, NEW o, NEW x, Pair(i, m, o, x), NEW c \in Conn
  PROVE  Pair(i, CloseSocket(m, c), o, x)
<1> DEFINE k == [m EXCEPT !.sock[c] = "Closed"]
           st == IF isHalfAccepted(k, c) THEN "Closed" ELSE "ConnectFail"
           n == SetStatus(k, c, st)
<1> SUFFICES ASSUME m.sock[c] \in {"Calling", "Open"} PROVE Pair(i, CloseSocket(m, c), o, x)
  BY DEF CloseSocket
<1>1. Shape(m) /\ SocketOf(m, i, c)
  BY DEF Pair, Local, Sockets
<1>2. k = [f \in Fields |-> k[f]] /\ k.sock = [m.sock EXCEPT ![c] = "Closed"] /\ \A f \in Fields \ {"sock"} : k[f] = m[f]
  BY <1>1 DEF Shape, Fields
<1>3. CloseSocket(m, c) = OnDisconn(k, c)
  BY DEF CloseSocket
<1> HIDE DEF k
<1>4. c \in k.listed /\ ~isClosed(k, c)
  BY <1>1, <1>2 DEF SocketOf, isClosed, Fields
<1>5. CloseSocket(m, c) = PushEvent(n, Disconn(c))
  BY <1>3, <1>4 DEF OnDisconn
<1>6. st \in {"Closed", "ConnectFail"}
  OBVIOUS
<1> HIDE DEF st
<1>7. n = [f \in Fields |-> n[f]] /\ n.status = [k.status EXCEPT ![c] = st] /\ \A f \in Fields \ {"status"} : n[f] = k[f]
  BY <1>2 DEF SetStatus, Fields
<1> HIDE DEF n
<1>8. /\ n.status = [m.status EXCEPT ![c] = st] /\ n.sock = [m.sock EXCEPT ![c] = "Closed"] /\ n.listed = m.listed
      /\ \A f \in Fields \ {"status", "sock", "listed"} : n[f] = m[f]
  BY <1>2, <1>7 DEF Fields
<1>9. m.status \in [Conn -> Status] /\ m.sock \in [Conn -> Socket] /\ m.listed \in SUBSET Conn
  BY <1>1 DEF Shape
<1>10. /\ n.status \in [Conn -> Status] /\ n.sock \in [Conn -> Socket] /\ n.listed \in SUBSET Conn
       /\ n.status[c] = st /\ n.sock[c] = "Closed" /\ \A d \in Conn \ {c} : n.status[d] = m.status[d] /\ n.sock[d] = m.sock[d]
  BY <1>6, <1>8, <1>9 DEF Status, Socket
<1>11. SocketOf(n, i, c)
  BY <1>6, <1>10 DEF SocketOf, isOpen, isClosed
<1>12. Pair(i, n, o, x)
  BY <1>7, <1>8, <1>10, <1>11, TurnIs
<1>13. Notice(Disconn(c)) /\ Disconn(c).type = "Disconn"
  BY DEF Notice, Disconn
<1> QED BY <1>5, <1>12, <1>13, PushEventIs

LEMMA CloseFields ==
  ASSUME NEW m, Shape(m), NEW c \in Conn, c \in m.listed
  PROVE  LET n == Close(m, c)
             open == ~isClosed(m, c) /\ m.sock[c] \in {"Calling", "Open"}
         IN  /\ n = [f \in Fields |-> n[f]]
             /\ n.status = IF isClosed(m, c) THEN m.status ELSE [m.status EXCEPT ![c] = "Closed"]
             /\ n.sock = IF open THEN [m.sock EXCEPT ![c] = "Closed"] ELSE m.sock
             /\ n.events = IF open THEN Append(m.events, Disconn(c)) ELSE m.events
             /\ \A f \in Fields \ {"status", "sock", "events"} : n[f] = m[f]
<1> DEFINE n == Close(m, c)
           k == SetStatus(m, c, "Closed")
           t == [k EXCEPT !.sock[c] = "Closed"]
           u == PushEvent(t, Disconn(c))
<1>1. m = [f \in Fields |-> m[f]] /\ m.status \in [Conn -> Status]
  BY DEF Shape
<1>2. k = [f \in Fields |-> k[f]] /\ k.status = [m.status EXCEPT ![c] = "Closed"] /\ \A f \in Fields \ {"status"} : k[f] = m[f]
  BY <1>1 DEF SetStatus, Fields
<1>3. n = IF isClosed(m, c) THEN m ELSE CloseSocket(k, c)
  BY DEF Close
<1> HIDE DEF k, n
<1>4. CloseSocket(k, c) = IF k.sock[c] \in {"Calling", "Open"} THEN OnDisconn(t, c) ELSE k
  BY DEF CloseSocket
<1>5. t = [f \in Fields |-> t[f]] /\ t.sock = [k.sock EXCEPT ![c] = "Closed"] /\ \A f \in Fields \ {"sock"} : t[f] = k[f]
  BY <1>2 DEF Fields
<1> HIDE DEF t
<1>6. c \in t.listed /\ isClosed(t, c)
  <2>1. t.status[c] = "Closed" /\ t.listed = m.listed
    BY <1>1, <1>2, <1>5 DEF Fields
  <2> QED BY <2>1 DEF isClosed
<1>7. OnDisconn(t, c) = u
  BY <1>6 DEF OnDisconn
<1>8. u = [f \in Fields |-> u[f]] /\ u.events = Append(t.events, Disconn(c)) /\ \A f \in Fields \ {"events"} : u[f] = t[f]
  BY <1>5 DEF PushEvent, Fields
<1> HIDE DEF u
<1>9. k.sock = m.sock /\ k.events = m.events /\ t.status = k.status /\ t.events = k.events /\ u.status = t.status /\ u.sock = t.sock
  BY <1>2, <1>5, <1>8 DEF Fields
<1>10. CASE isClosed(m, c)
  BY <1>1, <1>3, <1>10 DEF n
<1>11. CASE ~isClosed(m, c) /\ m.sock[c] \in {"Calling", "Open"}
  <2>1. n = u
    BY <1>3, <1>4, <1>7, <1>9, <1>11
  <2>2. \A f \in Fields \ {"status", "sock", "events"} : u[f] = m[f]
    BY <1>2, <1>5, <1>8
  <2> QED BY <1>2, <1>5, <1>8, <1>9, <1>11, <2>1, <2>2 DEF n
<1>12. CASE ~isClosed(m, c) /\ m.sock[c] \notin {"Calling", "Open"}
  <2>1. n = k
    BY <1>3, <1>4, <1>9, <1>12
  <2> QED BY <1>2, <1>9, <1>12, <2>1 DEF n
<1> QED BY <1>10, <1>11, <1>12

LEMMA CloseIs ==
  ASSUME NEW i, NEW m, NEW o, NEW x, Pair(i, m, o, x), NEW c \in Conn, c \in m.listed
  PROVE  Pair(i, Close(m, c), o, x) /\ isClosed(Close(m, c), c)
<1> DEFINE n == Close(m, c)
           T == [m.status EXCEPT ![c] = "Closed"]
           S == [m.sock EXCEPT ![c] = "Closed"]
           t == [[m EXCEPT !.status = T] EXCEPT !.sock = S]
<1>1. Shape(m) /\ SocketOf(m, i, c)
  BY DEF Pair, Local, Sockets
<1>2. CASE isClosed(m, c)
  BY <1>2 DEF Close
<1>3. CASE ~isClosed(m, c)
  <2>1. /\ n = [f \in Fields |-> n[f]] /\ n.status = T
        /\ n.sock = IF m.sock[c] \in {"Calling", "Open"} THEN S ELSE m.sock
        /\ n.events = IF m.sock[c] \in {"Calling", "Open"} THEN Append(m.events, Disconn(c)) ELSE m.events
        /\ \A f \in Fields \ {"status", "sock", "events"} : n[f] = m[f]
    <3> DEFINE open == ~isClosed(m, c) /\ m.sock[c] \in {"Calling", "Open"}
    <3>1. /\ n = [f \in Fields |-> n[f]]
          /\ n.status = IF isClosed(m, c) THEN m.status ELSE T
          /\ n.sock = IF open THEN S ELSE m.sock
          /\ n.events = IF open THEN Append(m.events, Disconn(c)) ELSE m.events
          /\ \A f \in Fields \ {"status", "sock", "events"} : n[f] = m[f]
      BY <1>1, CloseFields
    <3> HIDE DEF n, T, S
    <3> QED BY <1>3, <3>1
  <2> HIDE DEF n
  <2>2. m.status \in [Conn -> Status] /\ m.sock \in [Conn -> Socket] /\ m.listed \in SUBSET Conn /\ m = [f \in Fields |-> m[f]]
    BY <1>1 DEF Shape
  <2>3. /\ T \in [Conn -> Status] /\ T[c] = "Closed" /\ S \in [Conn -> Socket] /\ S[c] = "Closed"
        /\ \A d \in Conn \ {c} : T[d] = m.status[d] /\ S[d] = m.sock[d]
        /\ m.sock[c] = "Closed" => S = m.sock
    BY <2>2 DEF Status, Socket
  <2> HIDE DEF T, S
  <2>4. /\ t = [f \in Fields |-> t[f]] /\ t.status = T /\ t.sock = S /\ t.listed = m.listed
        /\ \A f \in Fields \ {"status", "sock", "listed"} : t[f] = m[f]
    BY <2>2 DEF Fields
  <2> HIDE DEF t
  <2>5. SocketOf(t, i, c)
    BY <2>3, <2>4 DEF SocketOf, isOpen, isClosed
  <2>6. Pair(i, t, o, x)
    BY <2>2, <2>3, <2>4, <2>5, TurnIs
  <2>7. isClosed(n, c)
    BY <2>1, <2>3 DEF isClosed
  <2>8. CASE m.sock[c] \in {"Calling", "Open"}
    <3> DEFINE u == PushEvent(t, Disconn(c))
    <3>1. Notice(Disconn(c)) /\ Disconn(c).type = "Disconn"
      BY DEF Notice, Disconn
    <3>2. Pair(i, u, o, x)
      BY <2>6, <3>1, PushEventIs
    <3>3. u = [f \in Fields |-> u[f]] /\ u.events = Append(t.events, Disconn(c)) /\ \A f \in Fields \ {"events"} : u[f] = t[f]
      BY <2>4 DEF PushEvent, Fields
    <3> HIDE DEF u
    <3>4. \A f \in Fields : u[f] = n[f]
      <4>1. \A f \in Fields \ {"status", "sock", "events", "listed"} : u[f] = t[f] /\ t[f] = m[f] /\ n[f] = m[f]
        BY <2>1, <2>4, <3>3
      <4>2. u.status = T /\ u.sock = S /\ t.events = m.events /\ u.listed = m.listed /\ n.listed = m.listed
        BY <2>1, <2>4, <3>3 DEF Fields
      <4>3. n.status = T /\ n.sock = S /\ n.events = u.events
        BY <2>1, <2>8, <3>3, <4>2
      <4> QED BY <4>1, <4>2, <4>3
    <3>5. u = n
      BY <2>1, <3>3, <3>4
    <3> QED BY <2>7, <3>2, <3>5 DEF n
  <2>9. CASE m.sock[c] = "Closed"
    <3>1. S = m.sock
      BY <2>3, <2>9
    <3>2. \A f \in Fields : t[f] = n[f]
      BY <2>1, <2>4, <2>9, <3>1 DEF Fields
    <3>3. t = n
      BY <2>1, <2>4, <3>2
    <3> QED BY <2>6, <2>7, <3>3 DEF n
  <2>10. m.sock[c] \in {"Calling", "Open", "Closed"}
    BY <1>1, <2>2 DEF SocketOf, Socket
  <2> QED BY <2>8, <2>9, <2>10
<1> QED BY <1>2, <1>3

LEMMA ForgetIs ==
  ASSUME NEW i, NEW m, NEW o, NEW x, Pair(i, m, o, x), NEW c \in Conn, isClosed(m, c), m.todo = <<>>
  PROVE  Pair(i, RemoveConnection(m, c), o, x)
<1> DEFINE n == RemoveConnection(m, c)
<1>1. Shape(m) /\ SocketOf(m, i, c)
  BY DEF Pair, Local, Sockets
<1>2. n = [f \in Fields |-> n[f]] /\ n.listed = m.listed \ {c} /\ \A f \in Fields \ {"listed"} : n[f] = m[f]
  BY <1>1 DEF Shape, Fields, RemoveConnection
<1> HIDE DEF n
<1>3. n.status = m.status /\ n.sock = m.sock
  BY <1>2 DEF Fields
<1>4. m.status \in [Conn -> Status] /\ m.sock \in [Conn -> Socket] /\ m.listed \in SUBSET Conn /\ m.sock[c] = "Closed"
  BY <1>1 DEF Shape, SocketOf
<1>5. SocketOf(n, i, c)
  BY <1>1, <1>2, <1>3, <1>4 DEF SocketOf, isOpen, isClosed
<1>6. Jobs(m, c) = {}
  BY EmptyIs DEF Jobs
<1>7. Pair(i, n, o, x)
  BY <1>2, <1>3, <1>4, <1>5, <1>6, TurnIs
<1> QED BY <1>7 DEF n

\* A status that is set when the connection is open, and what else the peer cannot see.
LEMMA AcceptIs ==
  ASSUME NEW i, NEW m, NEW o, NEW x, Pair(i, m, o, x), NEW n, n = [f \in Fields |-> n[f]],
         \A f \in Fields \ {"status", "auto"} : n[f] = m[f], n.status \in [Conn -> Status],
         \A d \in Conn : n.status[d] = m.status[d] \/ (isOpen(m, d) /\ n.status[d] \in {"HalfAccepted", "Accepted"})
  PROVE  Pair(i, n, o, x)
<1>1. Shape(m)
  BY DEF Pair, Local
<1>2. Quiet(m, n)
  BY <1>1 DEF Quiet, Shape, Fields
<1> QED BY <1>2, QuietIs

LEMMA SendConnPacketIs ==
  ASSUME NEW i, NEW m, NEW o, NEW x, Pair(i, m, o, x), NEW c \in Conn
  PROVE  Pair(i, SendConnPacket(m, c), o, x)
<1> DEFINE p == Simple("Conn")
           k == Transmit(m, c, p)
           n == [k EXCEPT !.connSent = @ \cup {c}]
<1>1. Control(p)
  BY DEF Control, Simple
<1>2. Pair(i, k, o, x) /\ Send(m, c, p) = k
  BY <1>1, TransmitIs
<1>3. SendConnPacket(m, c) = IF isOpen(m, c) /\ c \notin m.connSent THEN n ELSE m
  BY <1>2 DEF SendConnPacket
<1> HIDE DEF k
<1>4. Shape(k)
  BY <1>2 DEF Pair, Local
<1>5. n = [f \in Fields |-> n[f]] /\ \A f \in Fields \ {"connSent"} : n[f] = k[f]
  BY <1>4 DEF Shape, Fields
<1> HIDE DEF n
<1>6. Quiet(k, n)
  BY <1>4, <1>5 DEF Quiet, Shape, Fields
<1>7. Pair(i, n, o, x)
  BY <1>2, <1>6, QuietIs
<1> QED BY <1>3, <1>7

\* What a Conn is answered with, by either thread.
LEMMA AnswerIs ==
  ASSUME NEW i, NEW m, NEW o, NEW x, Pair(i, m, o, x), NEW c \in Conn, isOpen(m, c)
  PROVE  LET k == SetStatus(Send(m, c, Simple("ConnRe")), c, "HalfAccepted")
         IN  Pair(i, k, o, x) /\ Pair(i, [k EXCEPT !.auto = @ \cup {c}], o, x)
<1> DEFINE p == Simple("ConnRe")
           t == Transmit(m, c, p)
           k == SetStatus(t, c, "HalfAccepted")
           n == [k EXCEPT !.auto = @ \cup {c}]
<1>1. Control(p)
  BY DEF Control, Simple
<1>2. Pair(i, t, o, x) /\ Send(m, c, p) = t
  BY <1>1, TransmitIs
<1>3. isOpen(t, c)
  <2>1. Shape(m)
    BY DEF Pair, Local
  <2>2. t.status = m.status
    BY <2>1 DEF Shape, Fields, Transmit
  <2> HIDE DEF t
  <2> QED BY <2>2 DEF isOpen
<1> HIDE DEF t
<1>4. Shape(t)
  BY <1>2 DEF Pair, Local
<1>5. k = [f \in Fields |-> k[f]] /\ k.status = [t.status EXCEPT ![c] = "HalfAccepted"] /\ \A f \in Fields \ {"status"} : k[f] = t[f]
  BY <1>4 DEF Shape, Fields, SetStatus
<1>6. n = [f \in Fields |-> n[f]] /\ \A f \in Fields \ {"auto"} : n[f] = k[f]
  BY <1>5 DEF Fields
<1> HIDE DEF k, n
<1>7. n.status = k.status /\ \A f \in Fields \ {"status", "auto"} : n[f] = t[f] /\ k[f] = t[f]
  BY <1>5, <1>6 DEF Fields
<1>8. /\ k.status \in [Conn -> Status]
      /\ \A d \in Conn : k.status[d] = t.status[d] \/ (isOpen(t, d) /\ k.status[d] \in {"HalfAccepted", "Accepted"})
  <2>1. t.status \in [Conn -> Status]
    BY <1>4 DEF Shape
  <2> QED BY <1>3, <1>5, <2>1 DEF Status
<1>9. Pair(i, k, o, x) /\ Pair(i, n, o, x)
  BY <1>2, <1>5, <1>6, <1>7, <1>8, AcceptIs
<1> QED BY <1>2, <1>9 DEF k, n

LEMMA ConnectIs ==
  ASSUME NEW i, NEW m, NEW o, NEW x, Pair(i, m, o, x), NEW c \in Conn, Caller[c] = i, m.status[c] = "None"
  PROVE  Pair(i, [SetStatus(m, c, "Connect") EXCEPT !.listed = @ \cup {c}, !.sock[c] = "Calling"], o, x)
<1> DEFINE k == SetStatus(m, c, "Connect")
           l == [k EXCEPT !.listed = @ \cup {c}]
           n == [l EXCEPT !.sock[c] = "Calling"]
<1>1. Shape(m) /\ SocketOf(m, i, c)
  BY DEF Pair, Local, Sockets
<1>2. k = [f \in Fields |-> k[f]] /\ k.status = [m.status EXCEPT ![c] = "Connect"] /\ \A f \in Fields \ {"status"} : k[f] = m[f]
  BY <1>1 DEF Shape, Fields, SetStatus
<1>3. [k EXCEPT !.listed = @ \cup {c}, !.sock[c] = "Calling"] = n
  BY <1>2 DEF Fields
<1> HIDE DEF k
<1>4. l = [f \in Fields |-> l[f]] /\ l.listed = k.listed \cup {c} /\ \A f \in Fields \ {"listed"} : l[f] = k[f]
  BY <1>2 DEF Fields
<1> HIDE DEF l
<1>5. n = [f \in Fields |-> n[f]] /\ n.sock = [l.sock EXCEPT ![c] = "Calling"] /\ \A f \in Fields \ {"sock"} : n[f] = l[f]
  BY <1>4 DEF Fields
<1>6. m.status \in [Conn -> Status] /\ m.sock \in [Conn -> Socket] /\ m.listed \in SUBSET Conn
  BY <1>1 DEF Shape
<1> HIDE DEF n
<1>7. /\ n.status = [m.status EXCEPT ![c] = "Connect"] /\ n.sock = [m.sock EXCEPT ![c] = "Calling"] /\ n.listed = m.listed \cup {c}
      /\ n.sent = m.sent /\ n.msg = m.msg /\ n.data = m.data /\ \A f \in Fields \ {"status", "sock", "listed"} : n[f] = m[f]
  BY <1>2, <1>4, <1>5 DEF Fields
<1>8. m.sock[c] = "None"
  BY <1>1 DEF SocketOf
<1>9. /\ n.status \in [Conn -> Status] /\ n.sock \in [Conn -> Socket] /\ n.listed \in SUBSET Conn
      /\ n.status[c] = "Connect" /\ n.sock[c] = "Calling"
      /\ \A d \in Conn \ {c} : n.status[d] = m.status[d] /\ n.sock[d] = m.sock[d] /\ (d \in n.listed <=> d \in m.listed)
  BY <1>6, <1>7 DEF Status, Socket
<1>10. SocketOf(n, i, c)
  BY <1>1, <1>7, <1>8, <1>9 DEF SocketOf, isOpen, isClosed
<1>11. Pair(i, n, o, x)
  BY <1>5, <1>7, <1>8, <1>9, <1>10, TurnIs
<1> QED BY <1>3, <1>11 DEF k

LEMMA OnConnIs ==
  ASSUME NEW i, NEW m, NEW o, NEW x, Pair(i, m, o, x), NEW c \in Conn,
         m.sock[c] = "Calling" \/ (Caller[c] # i /\ m.sock[c] = "None")
  PROVE  Pair(i, OnConn(m, i, c), o, x)
<1> DEFINE r == [m EXCEPT !.sock[c] = "Closed"]
           k == [m EXCEPT !.sock[c] = "Open"]
           l == [k EXCEPT !.listed = @ \cup {c}]
           n == SetStatus(l, c, "Connected")
<1>1. Shape(m) /\ SocketOf(m, i, c)
  BY DEF Pair, Local, Sockets
<1>2. m.status \in [Conn -> Status] /\ m.sock \in [Conn -> Socket] /\ m.listed \in SUBSET Conn
  BY <1>1 DEF Shape
<1>3. Pair(i, r, o, x)
  <2>1. r = [f \in Fields |-> r[f]] /\ r.sock = [m.sock EXCEPT ![c] = "Closed"] /\ \A f \in Fields \ {"sock"} : r[f] = m[f]
    BY <1>1 DEF Shape, Fields
  <2> HIDE DEF r
  <2>2. r.status = m.status /\ r.listed = m.listed
    BY <2>1 DEF Fields
  <2>3. r.sock \in [Conn -> Socket] /\ r.sock[c] = "Closed" /\ \A d \in Conn \ {c} : r.sock[d] = m.sock[d]
    BY <1>2, <2>1 DEF Socket
  <2>4. SocketOf(r, i, c)
    BY <1>1, <2>2, <2>3 DEF SocketOf, isOpen, isClosed
  <2> QED BY <1>2, <2>1, <2>2, <2>3, <2>4, TurnIs
<1>4. Pair(i, n, o, x)
  <2>1. k = [f \in Fields |-> k[f]] /\ k.sock = [m.sock EXCEPT ![c] = "Open"] /\ \A f \in Fields \ {"sock"} : k[f] = m[f]
    BY <1>1 DEF Shape, Fields
  <2> HIDE DEF k
  <2>2. l = [f \in Fields |-> l[f]] /\ l.listed = k.listed \cup {c} /\ \A f \in Fields \ {"listed"} : l[f] = k[f]
    BY <2>1 DEF Fields
  <2> HIDE DEF l
  <2>3. n = [f \in Fields |-> n[f]] /\ n.status = [l.status EXCEPT ![c] = "Connected"] /\ \A f \in Fields \ {"status"} : n[f] = l[f]
    BY <2>2 DEF Fields, SetStatus
  <2> HIDE DEF n
  <2>4. /\ n.status = [m.status EXCEPT ![c] = "Connected"] /\ n.sock = [m.sock EXCEPT ![c] = "Open"] /\ n.listed = m.listed \cup {c}
        /\ \A f \in Fields \ {"status", "sock", "listed"} : n[f] = m[f]
    BY <2>1, <2>2, <2>3 DEF Fields
  <2>5. /\ n.status \in [Conn -> Status] /\ n.sock \in [Conn -> Socket] /\ n.listed \in SUBSET Conn
        /\ n.status[c] = "Connected" /\ n.sock[c] = "Open"
        /\ \A d \in Conn \ {c} : n.status[d] = m.status[d] /\ n.sock[d] = m.sock[d] /\ (d \in n.listed <=> d \in m.listed)
    BY <1>2, <2>4 DEF Status, Socket
  <2>6. SocketOf(n, i, c)
    BY <1>1, <2>4, <2>5 DEF SocketOf, isOpen, isClosed
  <2>7. m.sent[c] = <<>> /\ (m.sock[c] = "Calling" => c \in m.listed)
    BY <1>1 DEF SocketOf
  <2> QED BY <2>3, <2>4, <2>5, <2>6, <2>7, TurnIs
<1>5. Pair(i, SendConnPacket(n, c), o, x)
  BY <1>4, SendConnPacketIs
<1>6. SetStatus([m EXCEPT !.sock[c] = "Open", !.listed = @ \cup {c}], c, "Connected") = n
  OBVIOUS
<1>7. OnConn(m, i, c) \in {r, SendConnPacket(n, c)}
  <2> HIDE DEF n, r
  <2> QED BY <1>6 DEF OnConn, r
<1> QED BY <1>3, <1>5, <1>7

LEMMA HandleConnNetIs ==
  ASSUME NEW i, NEW m, NEW o, NEW x, Pair(i, m, o, x), NEW c \in Conn
  PROVE  Pair(i, HandleConnNet(m, c), o, x)
BY AnswerIs DEF HandleConnNet

LEMMA HandleConnIs ==
  ASSUME NEW i, NEW m, NEW o, NEW x, Pair(i, m, o, x), NEW c \in Conn
  PROVE  Pair(i, HandleConn(m, c), o, x)
BY AnswerIs DEF HandleConn

LEMMA HandleConnReNetIs ==
  ASSUME NEW i, NEW m, NEW o, NEW x, Pair(i, m, o, x), NEW c \in Conn, c \in m.listed
  PROVE  Pair(i, HandleConnReNet(m, c), o, x)
<1> DEFINE n == SetStatus(m, c, "Accepted")
<1>1. Shape(m)
  BY DEF Pair, Local
<1>2. n = [f \in Fields |-> n[f]] /\ n.status = [m.status EXCEPT ![c] = "Accepted"] /\ \A f \in Fields \ {"status"} : n[f] = m[f]
  BY <1>1 DEF Shape, Fields, SetStatus
<1> HIDE DEF n
<1>3. ASSUME isOpen(m, c) PROVE Pair(i, n, o, x)
  <2>1. m.status \in [Conn -> Status]
    BY <1>1 DEF Shape
  <2>2. n.status \in [Conn -> Status]
    BY <1>2, <2>1 DEF Status
  <2>3. \A d \in Conn : n.status[d] = m.status[d] \/ (isOpen(m, d) /\ n.status[d] \in {"HalfAccepted", "Accepted"})
    BY <1>2, <1>3, <2>1
  <2> QED BY <1>2, <2>2, <2>3, AcceptIs
<1>4. HandleConnReNet(m, c) \in {m, Close(m, c), n} /\ (HandleConnReNet(m, c) = n => isOpen(m, c) \/ n = m)
  BY DEF HandleConnReNet, n
<1>5. Pair(i, Close(m, c), o, x)
  BY CloseIs
<1> QED BY <1>3, <1>4, <1>5

LEMMA HandleConnReIs ==
  ASSUME NEW i, NEW m, NEW o, NEW x, Pair(i, m, o, x), NEW c \in Conn
  PROVE  Pair(i, HandleConnRe(m, c), o, x)
<1> DEFINE k == SetStatus(m, c, "Accepted")
           l == [k EXCEPT !.auto = @ \ {c}]
           M == [l EXCEPT !.msg = c, !.data = IF @ = NoConn THEN c ELSE @]
           D == [l EXCEPT !.data = c, !.msg = IF @ = NoConn THEN c ELSE @]
<1> SUFFICES ASSUME isOpen(m, c) PROVE Pair(i, HandleConnRe(m, c), o, x)
  BY DEF HandleConnRe
<1>1. Shape(m) /\ SocketOf(m, i, c)
  BY DEF Pair, Local, Sockets
<1>2. k = [f \in Fields |-> k[f]] /\ k.status = [m.status EXCEPT ![c] = "Accepted"] /\ \A f \in Fields \ {"status"} : k[f] = m[f]
  BY <1>1 DEF Shape, Fields, SetStatus
<1>3. HandleConnRe(m, c) \in {m, M, D}
  BY DEF HandleConnRe, SetMsgConn, SetDataConn
<1> HIDE DEF k
<1>4. l = [f \in Fields |-> l[f]] /\ l.status = k.status /\ \A f \in Fields \ {"auto"} : l[f] = k[f]
  BY <1>2 DEF Fields
<1> HIDE DEF l
<1>5. /\ l.status \in [Conn -> Status] /\ l.msg = m.msg /\ l.data = m.data
      /\ \A d \in Conn : l.status[d] = m.status[d] \/ (isOpen(m, d) /\ l.status[d] \in {"HalfAccepted", "Accepted"})
  <2>1. m.status \in [Conn -> Status]
    BY <1>1 DEF Shape
  <2> QED BY <1>2, <1>4, <2>1 DEF Status, Fields
<1>6. Pair(i, l, o, x)
  <2>1. \A f \in Fields \ {"status", "auto"} : l[f] = m[f]
    BY <1>2, <1>4
  <2> QED BY <1>4, <1>5, <2>1, AcceptIs
<1>7. l.sock[c] = "Open"
  BY <1>1, <1>2, <1>4 DEF SocketOf, Fields
<1>8. Shape(l)
  BY <1>6 DEF Pair, Local
<1>9. Pair(i, M, o, x)
  <2>1. M = [f \in Fields |-> M[f]] /\ M.msg = c /\ M.data \in {c, l.data} /\ \A f \in Fields \ {"msg", "data"} : M[f] = l[f]
    BY <1>4 DEF Fields
  <2> HIDE DEF M
  <2>2. Quiet(l, M)
    BY <1>7, <1>8, <2>1 DEF Quiet, Shape, Fields
  <2> QED BY <1>6, <2>2, QuietIs
<1>10. Pair(i, D, o, x)
  <2>1. D = [f \in Fields |-> D[f]] /\ D.data = c /\ D.msg \in {c, l.msg} /\ \A f \in Fields \ {"msg", "data"} : D[f] = l[f]
    BY <1>4 DEF Fields
  <2> HIDE DEF D
  <2>2. Quiet(l, D)
    BY <1>7, <1>8, <2>1 DEF Quiet, Shape, Fields
  <2> QED BY <1>6, <2>2, QuietIs
<1> HIDE DEF M, D
<1> QED BY <1>3, <1>9, <1>10

LEMMA DropIs ==
  ASSUME NEW i, NEW m, NEW o, NEW x, Pair(i, m, o, x), NEW p, NEW way
  PROVE  Pair(i, Drop(m, p, way), o, x)
<1> DEFINE n == Drop(m, p, way)
<1>1. Shape(m)
  BY DEF Pair, Local
<1>2. n = [f \in Fields |-> n[f]] /\ \A f \in Fields \ {"dropped"} : n[f] = m[f]
  BY <1>1 DEF Shape, Fields, Drop
<1> HIDE DEF n
<1>3. Quiet(m, n)
  BY <1>1, <1>2 DEF Quiet, Shape, Fields
<1>4. Pair(i, n, o, x)
  BY <1>3, QuietIs
<1> QED BY <1>4 DEF n

LEMMA RemoveConnIs ==
  ASSUME NEW i, NEW m, NEW o, NEW x, Pair(i, m, o, x), NEW c
  PROVE  Pair(i, RemoveConn(m, c), o, x)
<1> DEFINE n == RemoveConn(m, c)
<1>1. Shape(m)
  BY DEF Pair, Local
<1>2. /\ n = [f \in Fields |-> n[f]] /\ n.msg \in {m.msg, m.data, NoConn} /\ n.data \in {m.msg, m.data, NoConn}
      /\ \A f \in Fields \ {"msg", "data"} : n[f] = m[f]
  BY <1>1 DEF Shape, Fields, RemoveConn
<1> HIDE DEF n
<1>3. Quiet(m, n)
  BY <1>1, <1>2, ConnAssumption DEF Quiet, Shape, Fields
<1>4. Pair(i, n, o, x)
  BY <1>3, QuietIs
<1> QED BY <1>4 DEF n

\* A post mortem is noted as made.
LEMMA MarkIs ==
  ASSUME NEW i, NEW m, NEW o, NEW x, Pair(i, m, o, x), NEW P \in [Conn -> Nat \cup {-1}],
         \A d \in Conn : m.pmSent[d] # -1 => P[d] # -1
  PROVE  Pair(i, [m EXCEPT !.pmSent = P], o, x)
<1> DEFINE n == [m EXCEPT !.pmSent = P]
<1>1. Shape(m) /\ Sockets(m, i) /\ Logs(m) /\ Sendings(m) /\ Numbered(m, x)
  BY DEF Pair, Local
<1>2. n = [f \in Fields |-> n[f]] /\ n.pmSent = P /\ \A f \in Fields \ {"pmSent"} : n[f] = m[f]
  BY <1>1 DEF Shape, Fields
<1>3. /\ n.listed = m.listed /\ n.in = m.in /\ n.out = m.out /\ n.todo = m.todo /\ n.log = m.log /\ n.events = m.events
      /\ n.sock = m.sock /\ n.sent = m.sent /\ n.handled = m.handled /\ n.wire = m.wire /\ n.status = m.status
      /\ n.gone = m.gone /\ n.msg = m.msg /\ n.data = m.data /\ n.clearing = m.clearing
  BY <1>2 DEF Fields
<1> HIDE DEF n
<1>4. Shape(n)
  BY <1>1, <1>2, <1>3 DEF Shape
<1>5. Sockets(n, i)
  BY <1>1, <1>3 DEF Sockets, SocketOf, isOpen, isClosed
<1>6. Sends(m, n)
  BY <1>3 DEF Sends, Quietly
<1>7. Calm(m, n)
  BY <1>3 DEF Calm, SameNews, Waiting, Fresh, Jobs
<1>8. Link(n, o) /\ Link(o, n)
  BY <1>4, <1>6, <1>7, QuietLink
<1>9. Logs(n) /\ Numbered(n, x)
  BY <1>1, <1>3 DEF Logs, Numbered
<1>10. Sendings(n)
  <2>1. \A d, p : Proper(m, d, p) => Proper(n, d, p)
    BY <1>2, <1>3 DEF Proper, PieceOf
  <2> QED BY <1>1, <1>3, <2>1 DEF Sendings
<1> QED BY <1>4, <1>5, <1>8, <1>9, <1>10 DEF Pair, Local, n

LEMMA SendPostMortemIs ==
  ASSUME NEW i, NEW m, NEW o, NEW x, Pair(i, m, o, x), NEW c \in Conn
  PROVE  Pair(i, SendPostMortem(m, c), o, x)
<1> DEFINE P == [m.pmSent EXCEPT ![c] = m.out[c]]
           k == [m EXCEPT !.pmSent = P]
           p == PostMortem(m, c)
<1> SUFFICES ASSUME m.log[c] # <<>>, ~(m.pmSent[c] >= 0) PROVE Pair(i, SendPostMortem(m, c), o, x)
  BY DEF SendPostMortem
<1>1. Shape(m) /\ Sockets(m, i) /\ Logs(m) /\ Sendings(m)
  BY DEF Pair, Local
<1>2. /\ m.pmSent \in [Conn -> Nat \cup {-1}] /\ m.out \in [Conn -> Nat] /\ m.out[c] = Len(m.sent[c])
      /\ IsSeq(m.log[c]) /\ Len(m.log[c]) \in Nat /\ Len(m.log[c]) <= m.out[c]
      /\ m = [f \in Fields |-> m[f]]
  BY <1>1, SeqIs DEF Shape, IsSeqs, Logs
<1>3. m.pmSent[c] = -1
  BY <1>2
<1>4. P \in [Conn -> Nat \cup {-1}] /\ P[c] = m.out[c] /\ \A d \in Conn : m.pmSent[d] # -1 => P[d] # -1
  BY <1>2
<1>5. SendPostMortem(m, c) = IF isConnected(m) THEN Send(k, m.msg, p) ELSE k
  BY DEF SendPostMortem
<1>6. Pair(i, k, o, x)
  BY <1>4, MarkIs
<1>7. ASSUME isConnected(m) PROVE Pair(i, Send(k, m.msg, p), o, x)
  <2>1. m.msg \in Conn /\ m.sock[m.msg] \in {"Open", "Closed"}
    <3>1. m.msg \in Conn /\ m.sock \in [Conn -> Socket]
      BY <1>1, <1>7 DEF Shape, isConnected
    <3>2. SocketOf(m, i, m.msg)
      BY <1>1, <3>1 DEF Sockets
    <3> QED BY <3>1, <3>2 DEF SocketOf, Socket
  <2>2. p.type = "PostMortem" /\ p.conn = c /\ p.counter = m.out[c] /\ p.pkts = [l \in 1..Len(m.log[c]) |-> m.log[c][l].pkt]
    BY DEF PostMortem
  <2> HIDE DEF p
  <2>3. IsSeq(p.pkts) /\ Len(p.pkts) = Len(m.log[c]) /\ \A l \in 1..Len(m.log[c]) : p.pkts[l] = m.log[c][l].pkt
    <3> DEFINE S == {m.log[c][l].pkt : l \in 1..Len(m.log[c])}
    <3>1. \A l \in 1..Len(m.log[c]) : m.log[c][l].pkt \in S
      OBVIOUS
    <3> HIDE DEF S
    <3>2. p.pkts \in Seq(S) /\ Len(p.pkts) = Len(m.log[c])
      <4> DEFINE L == Len(m.log[c])
                 q == p.pkts
      <4>1. L \in Nat /\ q = [l \in 1..L |-> m.log[c][l].pkt] /\ \A l \in 1..L : m.log[c][l].pkt \in S
        BY <1>2, <2>2, <3>1
      <4> HIDE DEF L, q
      <4>2. q \in [1..L -> S]
        BY <4>1
      <4>3. q \in Seq(S) /\ Len(q) = L
        BY <4>1, <4>2
      <4> QED BY <4>3 DEF L, q
    <3> QED BY <2>2, <3>2 DEF IsSeq
  <2>4. PieceOf(k, p)
    <3>1. k.pmSent = P /\ k.sent = m.sent
      BY <1>2 DEF Fields
    <3> HIDE DEF k, P
    <3>2. \A l \in 1..Len(p.pkts) : p.pkts[l] = m.sent[c][p.counter - Len(p.pkts) + l]
      <4>1. \A l \in 1..Len(m.log[c]) : m.log[c][l].pkt = m.sent[c][m.out[c] - Len(m.log[c]) + l]
        <5>1. \A l \in 1..Len(m.log[c]) :
                 m.log[c][l] = [num |-> m.out[c] - Len(m.log[c]) + l - 1, pkt |-> m.sent[c][m.out[c] - Len(m.log[c]) + l]]
          BY <1>1 DEF Logs
        <5> SUFFICES ASSUME NEW l \in 1..Len(m.log[c])
                     PROVE  m.log[c][l].pkt = m.sent[c][m.out[c] - Len(m.log[c]) + l]
          OBVIOUS
        <5> DEFINE u == m.out[c] - Len(m.log[c]) + l - 1
                   v == m.sent[c][m.out[c] - Len(m.log[c]) + l]
        <5>2. m.log[c][l] = [num |-> u, pkt |-> v]
          BY <5>1
        <5> HIDE DEF u, v
        <5>3. m.log[c][l].pkt = v
          BY <5>2
        <5> QED BY <5>3 DEF v
      <4>2. p.counter - Len(p.pkts) = m.out[c] - Len(m.log[c])
        BY <2>2, <2>3
      <4>3. Len(p.pkts) = Len(m.log[c]) /\ \A l \in 1..Len(m.log[c]) : p.pkts[l] = m.log[c][l].pkt
        BY <2>3
      <4>4. \A l \in 1..Len(m.log[c]) : p.pkts[l] = m.sent[c][p.counter - Len(p.pkts) + l]
        BY ONLY <4>1, <4>2, <4>3, Zenon
      <4> QED BY <4>3, <4>4
    <3>3. k.pmSent[c] # -1
      BY <1>2, <1>4, <3>1
    <3>4. p.conn \in Conn /\ k.pmSent[p.conn] # -1 /\ k.sent[p.conn] = m.sent[c]
      BY <2>2, <3>1, <3>3
    <3>5. p.counter \in Nat /\ p.counter <= Len(k.sent[p.conn]) /\ Len(p.pkts) <= p.counter
      BY <1>2, <2>2, <2>3, <3>4
    <3> QED BY <2>3, <3>2, <3>4, <3>5 DEF PieceOf
  <2>5. Logged(p) /\ Proper(k, m.msg, p) /\ ~IsMessage(p)
    BY <2>2, <2>4 DEF Logged, Proper, IsMessage
  <2> HIDE DEF P
  <2> QED BY <1>3, <1>4, <2>1, <2>2, <2>5, SendIs
<1> QED BY <1>5, <1>6, <1>7

-----------------------------------------------------------------------------
(* What is handled.                                                        *)

\* What i sends is as before.
LEMMA OwnIs ==
  ASSUME NEW i, NEW m, NEW o, NEW x, Pair(i, m, o, x), NEW n, Shape(n), Sockets(n, i), n.sent = m.sent, n.out = m.out,
         n.log = m.log, n.pmSent = m.pmSent, n.sock = m.sock, n.wire = m.wire
  PROVE  Local(i, n, x) /\ Local(Other(i), o, x) /\ Link(n, o)
<1>1. Shape(m) /\ Logs(m) /\ Sendings(m) /\ Numbered(m, x) /\ o.in \in [Conn -> Nat] /\ Link(m, o)
  BY DEF Pair, Local, Shape
<1>2. Sends(m, n)
  BY DEF Sends, Quietly
<1>3. Link(n, o)
  BY <1>1, <1>2, SendsIs
<1>4. Logs(n) /\ Sendings(n) /\ Numbered(n, x)
  BY <1>1, SameSent
<1> QED BY <1>3, <1>4 DEF Pair, Local

\* What still is to come is as before.
LEMMA RestIs ==
  ASSUME NEW s, NEW m, NEW n, Link(s, m), n.in = m.in, n.todo = m.todo, n.sock = m.sock, n.listed = m.listed
  PROVE  Wires(s, n) /\ Recovery(n, s) /\ \A t, p : Came(m, s, t, p) => Came(n, s, t, p)
<1>1. \A c, k : Taken(m, c, k) <=> Taken(n, c, k)
  BY DEF Taken, Packets, Jobs, Fresh
<1>2. Wires(s, n)
  BY DEF Link, Wires
<1>3. Recovery(n, s)
  BY <1>1 DEF Link, Recovery, JobOf
<1> QED BY <1>1, <1>2, <1>3 DEF Came

\* Events are taken or thrown away.
LEMMA LessNewsIs ==
  ASSUME NEW i, NEW m, NEW o, NEW x, Pair(i, m, o, x), NEW n, n = [f \in Fields |-> n[f]],
         \A f \in Fields \ {"events", "gone"} : n[f] = m[f], n.gone \in BOOLEAN,
         n.events = <<>> \/ (m.events # <<>> /\ n.events = Tail(m.events))
  PROVE  Pair(i, n, o, x)
<1>1. Shape(m) /\ Sockets(m, i) /\ Link(o, m)
  BY DEF Pair, Local
<1>2. /\ n.listed = m.listed /\ n.in = m.in /\ n.out = m.out /\ n.todo = m.todo /\ n.log = m.log /\ n.pmSent = m.pmSent
      /\ n.sock = m.sock /\ n.sent = m.sent /\ n.handled = m.handled /\ n.wire = m.wire /\ n.status = m.status
      /\ n.msg = m.msg /\ n.data = m.data /\ n.clearing = m.clearing
  BY DEF Fields
<1>3. /\ IsSeq(n.events) /\ Len(n.events) \in Nat
      /\ \A b \in 1..Len(n.events) : b + 1 \in 1..Len(m.events) /\ n.events[b] = m.events[b + 1]
  <2>1. CASE n.events = <<>>
    BY <2>1, EmptyIs
  <2>2. CASE m.events # <<>> /\ n.events = Tail(m.events)
    <3>1. IsSeq(m.events)
      BY <1>1 DEF Shape
    <3>2. /\ IsSeq(n.events) /\ Len(n.events) = Len(m.events) - 1 /\ Len(m.events) \in Nat /\ Len(m.events) # 0
          /\ \A b \in 1..Len(n.events) : n.events[b] = m.events[b + 1]
      <4> DEFINE q == Tail(m.events)
      <4>1. /\ IsSeq(q) /\ Len(q) = Len(m.events) - 1 /\ Len(m.events) \in Nat /\ Len(m.events) # 0
            /\ \A b \in 1..Len(q) : q[b] = m.events[b + 1]
        BY <2>2, <3>1, TailIs
      <4>2. n.events = q
        BY <2>2
      <4> HIDE DEF q
      <4> QED BY <4>1, <4>2
    <3>3. \A b \in 1..Len(n.events) : b + 1 \in 1..Len(m.events)
      BY <3>2
    <3> QED BY <3>2, <3>3
  <2> QED BY <2>1, <2>2
<1>4. \A b \in Waiting(n) : b \in Int /\ b + 1 \in Waiting(m) /\ n.events[b] = m.events[b + 1]
  <2> SUFFICES ASSUME NEW b \in Waiting(n) PROVE b \in Int /\ b + 1 \in Waiting(m) /\ n.events[b] = m.events[b + 1]
    OBVIOUS
  <2>1. b \in 1..Len(n.events) /\ n.events[b].type = "Packet" /\ IsMessage(n.events[b].pkt)
    BY DEF Waiting
  <2>2. b \in Int /\ b + 1 \in 1..Len(m.events) /\ n.events[b] = m.events[b + 1]
    <3>1. b + 1 \in 1..Len(m.events) /\ n.events[b] = m.events[b + 1]
      BY <1>3, <2>1
    <3>2. b \in Int
      <4>1. \A l \in Nat : \A y \in 1..l : y \in Int
        OBVIOUS
      <4>2. Len(n.events) \in Nat
        BY <1>3
      <4> QED BY ONLY <2>1, <4>1, <4>2
    <3> QED BY <3>1, <3>2
  <2> QED BY <2>1, <2>2 DEF Waiting
<1>5. Shape(n)
  <2>1. \A b \in 1..Len(n.events) : Notice(n.events[b])
    BY <1>1, <1>3 DEF Shape
  <2> QED BY <1>1, <1>2, <1>3, <2>1 DEF Shape
<1>6. Sockets(n, i)
  BY <1>1, <1>2 DEF Sockets, SocketOf, isOpen, isClosed
<1>7. Wires(o, n) /\ Recovery(n, o) /\ \A t, p : Came(m, o, t, p) => Came(n, o, t, p)
  BY <1>1, <1>2, RestIs
<1>8. Seen(n, o)
  BY <1>1, <1>2, <1>4, <1>7 DEF Link, Seen
<1>9. Orderly(n)
  <2>1. \A a, b \in Waiting(n) : a < b => Before(n.events[a].pkt, n.events[b].pkt)
    <3> SUFFICES ASSUME NEW a \in Waiting(n), NEW b \in Waiting(n), a < b PROVE Before(n.events[a].pkt, n.events[b].pkt)
      OBVIOUS
    <3>1. a + 1 < b + 1
      BY <1>4
    <3> QED BY <1>1, <1>4, <3>1 DEF Link, Orderly
  <2>2. \A a \in 1..Len(n.handled["Main"]), b \in Waiting(n) : Before(n.handled["Main"][a], n.events[b].pkt)
    BY <1>1, <1>2, <1>4 DEF Link, Orderly
  <2> QED BY <1>1, <1>2, <2>1, <2>2 DEF Link, Orderly
<1>10. Local(i, n, x) /\ Local(Other(i), o, x) /\ Link(n, o)
  BY <1>2, <1>5, <1>6, OwnIs
<1> QED BY <1>7, <1>8, <1>9, <1>10 DEF Pair, Link

LEMMA OnClientDisconnectIs ==
  ASSUME NEW i, NEW m, NEW o, NEW x, Pair(i, m, o, x)
  PROVE  Pair(i, OnClientDisconnect(m), o, x)
<1> DEFINE n == [m EXCEPT !.gone = TRUE, !.events = <<>>]
<1>1. Shape(m)
  BY DEF Pair, Local
<1>2. n = [f \in Fields |-> n[f]] /\ n.gone = TRUE /\ n.events = <<>> /\ \A f \in Fields \ {"events", "gone"} : n[f] = m[f]
  BY <1>1 DEF Shape, Fields
<1>3. OnClientDisconnect(m) \in {m, n}
  BY DEF OnClientDisconnect
<1> HIDE DEF n
<1>4. Pair(i, n, o, x)
  BY <1>2, LessNewsIs
<1> QED BY <1>3, <1>4

LEMMA OnDisconnMainIs ==
  ASSUME NEW i, NEW m, NEW o, NEW x, Pair(i, m, o, x), NEW c \in Conn
  PROVE  Pair(i, OnDisconnMain(m, c), o, x)
BY RemoveConnIs, SendPostMortemIs, OnClientDisconnectIs DEF OnDisconnMain

\* A thread handles a message that came and that no other of its connection is behind.
LEMMA HandledIs ==
  ASSUME NEW i, NEW m, NEW o, NEW x, Pair(i, m, o, x), NEW t \in Thread, NEW p, Came(m, o, t, p),
         \A a \in 1..Len(m.handled[t]) : Before(m.handled[t][a], p),
         t = "Main" => \A b \in Waiting(m) : Before(p, m.events[b].pkt)
  PROVE  Pair(i, [m EXCEPT !.handled[t] = Append(@, p)], o, x)
<1> DEFINE n == [m EXCEPT !.handled[t] = Append(@, p)]
<1>1. Shape(m) /\ Sockets(m, i) /\ Link(o, m)
  BY DEF Pair, Local
<1>2. n = [f \in Fields |-> n[f]] /\ n.handled = [m.handled EXCEPT ![t] = Append(@, p)] /\ \A f \in Fields \ {"handled"} : n[f] = m[f]
  BY <1>1 DEF Shape, Fields
<1>3. /\ n.listed = m.listed /\ n.in = m.in /\ n.out = m.out /\ n.todo = m.todo /\ n.log = m.log /\ n.pmSent = m.pmSent
      /\ n.sock = m.sock /\ n.sent = m.sent /\ n.events = m.events /\ n.wire = m.wire /\ n.status = m.status
      /\ n.gone = m.gone /\ n.msg = m.msg /\ n.data = m.data /\ n.clearing = m.clearing
  BY <1>2 DEF Fields
<1> HIDE DEF n
<1>4. m.handled = [u \in Thread |-> m.handled[u]] /\ \A u \in Thread : IsSeq(m.handled[u])
  BY <1>1 DEF Shape, IsSeqs
<1>5. /\ n.handled = [u \in Thread |-> n.handled[u]] /\ n.handled[t] = Append(m.handled[t], p)
      /\ \A u \in Thread \ {t} : n.handled[u] = m.handled[u]
  BY <1>2, <1>4
<1>6. /\ IsSeq(n.handled[t]) /\ Len(m.handled[t]) \in Nat /\ Len(n.handled[t]) = Len(m.handled[t]) + 1
      /\ n.handled[t][Len(m.handled[t]) + 1] = p /\ \A a \in 1..Len(m.handled[t]) : n.handled[t][a] = m.handled[t][a]
  <2> DEFINE q == Append(m.handled[t], p)
  <2>1. /\ IsSeq(q) /\ Len(q) = Len(m.handled[t]) + 1 /\ Len(m.handled[t]) \in Nat
        /\ (\A a \in 1..Len(m.handled[t]) : q[a] = m.handled[t][a]) /\ q[Len(m.handled[t]) + 1] = p
    BY <1>4, AppendIs, SeqIs
  <2>2. n.handled[t] = q
    BY <1>5
  <2> HIDE DEF q
  <2> QED BY <2>1, <2>2
<1>7. \A a \in 1..Len(n.handled[t]) : a \in 1..Len(m.handled[t]) \/ a = Len(m.handled[t]) + 1
  BY <1>6
<1>8. Shape(n)
  <2>1. IsSeqs(n.handled, Thread)
    BY <1>4, <1>5, <1>6 DEF IsSeqs
  <2> QED BY <1>1, <1>2, <1>3, <2>1 DEF Shape
<1>9. Sockets(n, i)
  BY <1>1, <1>3 DEF Sockets, SocketOf, isOpen, isClosed
<1>10. Wires(o, n) /\ Recovery(n, o) /\ \A u, q : Came(m, o, u, q) => Came(n, o, u, q)
  BY <1>1, <1>3, RestIs
<1>11. Waiting(n) = Waiting(m)
  BY <1>3 DEF Waiting
<1>12. Seen(n, o)
  <2>1. \A u \in Thread : \A a \in 1..Len(n.handled[u]) : Came(m, o, u, n.handled[u][a])
    <3> SUFFICES ASSUME NEW u \in Thread, NEW a \in 1..Len(n.handled[u]) PROVE Came(m, o, u, n.handled[u][a])
      OBVIOUS
    <3>1. CASE u = t
      BY <1>1, <1>6, <1>7, <3>1 DEF Link, Seen
    <3>2. CASE u # t
      BY <1>1, <1>5, <3>2 DEF Link, Seen
    <3> QED BY <3>1, <3>2
  <2> QED BY <1>1, <1>3, <1>10, <1>11, <2>1 DEF Link, Seen
<1>13. Orderly(n)
  <2>1. ASSUME NEW u \in Thread, NEW a \in 1..Len(n.handled[u]), NEW b \in 1..Len(n.handled[u]), a < b
        PROVE  Before(n.handled[u][a], n.handled[u][b])
    <3>1. CASE u # t
      BY <1>1, <1>5, <2>1, <3>1 DEF Link, Orderly
    <3>2. CASE u = t /\ b \in 1..Len(m.handled[t])
      <4>1. a \in 1..Len(m.handled[t])
        BY <1>6, <2>1, <3>2
      <4> QED BY <1>1, <1>6, <2>1, <3>2, <4>1 DEF Link, Orderly
    <3>3. CASE u = t /\ b = Len(m.handled[t]) + 1
      <4>1. a \in 1..Len(m.handled[t])
        BY <1>6, <2>1, <3>3
      <4> QED BY <1>6, <3>3, <4>1
    <3> QED BY <1>7, <3>1, <3>2, <3>3
  <2>2. ASSUME NEW a \in 1..Len(n.handled["Main"]), NEW b \in Waiting(n) PROVE Before(n.handled["Main"][a], n.events[b].pkt)
    <3>1. CASE t # "Main" \/ a \in 1..Len(m.handled["Main"])
      <4>1. "Main" \in Thread
        BY DEF Thread
      <4>2. a \in 1..Len(m.handled["Main"]) /\ n.handled["Main"][a] = m.handled["Main"][a]
        BY <1>5, <1>6, <3>1, <4>1
      <4> QED BY <1>1, <1>3, <1>11, <4>2 DEF Link, Orderly
    <3>2. CASE t = "Main" /\ a = Len(m.handled["Main"]) + 1
      BY <1>3, <1>6, <1>11, <3>2
    <3> QED BY <1>7, <3>1, <3>2
  <2>3. \A a, b \in Waiting(n) : a < b => Before(n.events[a].pkt, n.events[b].pkt)
    BY <1>1, <1>3, <1>11 DEF Link, Orderly
  <2> QED BY <2>1, <2>2, <2>3 DEF Orderly
<1>14. Local(i, n, x) /\ Local(Other(i), o, x) /\ Link(n, o)
  BY <1>3, <1>8, <1>9, OwnIs
<1> QED BY <1>10, <1>12, <1>13, <1>14 DEF Pair, Link, n

\* The network thread puts a message before the main thread.
LEMMA WaitIs ==
  ASSUME NEW i, NEW m, NEW o, NEW x, Pair(i, m, o, x), NEW c \in Conn, NEW p, Came(m, o, "Main", p),
         \A a \in 1..Len(m.handled["Main"]) : Before(m.handled["Main"][a], p),
         \A b \in Waiting(m) : Before(m.events[b].pkt, p)
  PROVE  Pair(i, PushEvent(m, Packet(c, p)), o, x)
<1> DEFINE e == Packet(c, p)
           n == PushEvent(m, e)
<1>1. Shape(m) /\ Sockets(m, i) /\ Link(o, m)
  BY DEF Pair, Local
<1>2. n = [f \in Fields |-> n[f]] /\ n.events = Append(m.events, e) /\ \A f \in Fields \ {"events"} : n[f] = m[f]
  BY <1>1 DEF Shape, Fields, PushEvent
<1>3. /\ n.listed = m.listed /\ n.in = m.in /\ n.out = m.out /\ n.todo = m.todo /\ n.log = m.log /\ n.pmSent = m.pmSent
      /\ n.sock = m.sock /\ n.sent = m.sent /\ n.handled = m.handled /\ n.wire = m.wire /\ n.status = m.status
      /\ n.gone = m.gone /\ n.msg = m.msg /\ n.data = m.data /\ n.clearing = m.clearing
  BY <1>2 DEF Fields
<1>4. e.type = "Packet" /\ e.conn = c /\ e.pkt = p /\ IsMessage(p)
  BY DEF Packet, Came
<1> HIDE DEF n, e
<1>5. /\ IsSeq(n.events) /\ Len(n.events) = Len(m.events) + 1 /\ Len(m.events) \in Nat
      /\ (\A k \in 1..Len(m.events) : n.events[k] = m.events[k]) /\ n.events[Len(m.events) + 1] = e
  <2>1. IsSeq(m.events)
    BY <1>1 DEF Shape
  <2> DEFINE q == Append(m.events, e)
  <2>2. /\ IsSeq(q) /\ Len(q) = Len(m.events) + 1 /\ Len(m.events) \in Nat
        /\ (\A k \in 1..Len(m.events) : q[k] = m.events[k]) /\ q[Len(m.events) + 1] = e
    BY <2>1, AppendIs, SeqIs
  <2>3. n.events = q
    BY <1>2
  <2> HIDE DEF q
  <2> QED BY <2>2, <2>3
<1>6. \A b \in 1..Len(n.events) : b \in 1..Len(m.events) \/ b = Len(m.events) + 1
  BY <1>5
<1>7. \A b \in Waiting(n) : b \in Waiting(m) \/ b = Len(m.events) + 1
  BY <1>5, <1>6 DEF Waiting
<1>8. \A b \in Waiting(m) : b \in 1..Len(m.events) /\ n.events[b] = m.events[b]
  BY <1>5 DEF Waiting
<1>9. Shape(n)
  <2>1. Notice(e)
    BY <1>4 DEF Notice, IsMessage
  <2>2. \A b \in 1..Len(n.events) : Notice(n.events[b])
    BY <1>1, <1>5, <1>6, <2>1 DEF Shape
  <2> QED BY <1>1, <1>2, <1>3, <1>5, <2>2 DEF Shape
<1>10. Sockets(n, i)
  BY <1>1, <1>3 DEF Sockets, SocketOf, isOpen, isClosed
<1>11. Wires(o, n) /\ Recovery(n, o) /\ \A u, q : Came(m, o, u, q) => Came(n, o, u, q)
  BY <1>1, <1>3, RestIs
<1>12. Seen(n, o)
  <2>1. \A b \in Waiting(n) : Came(m, o, "Main", n.events[b].pkt)
    BY <1>1, <1>4, <1>5, <1>7, <1>8 DEF Link, Seen
  <2> QED BY <1>1, <1>3, <1>11, <2>1 DEF Link, Seen
<1>13. Orderly(n)
  <2>1. ASSUME NEW a \in Waiting(n), NEW b \in Waiting(n), a < b PROVE Before(n.events[a].pkt, n.events[b].pkt)
    <3>1. a \in Waiting(m)
      <4>1. a \in 1..Len(n.events) /\ b \in 1..Len(n.events)
        BY DEF Waiting
      <4> QED BY <1>5, <1>7, <2>1, <4>1
    <3>2. CASE b \in Waiting(m)
      BY <1>1, <1>8, <2>1, <3>1, <3>2 DEF Link, Orderly
    <3>3. CASE b = Len(m.events) + 1
      BY <1>4, <1>5, <1>8, <3>1, <3>3
    <3> QED BY <1>7, <3>2, <3>3
  <2>2. ASSUME NEW a \in 1..Len(n.handled["Main"]), NEW b \in Waiting(n) PROVE Before(n.handled["Main"][a], n.events[b].pkt)
    <3>1. CASE b \in Waiting(m)
      BY <1>1, <1>3, <1>8, <3>1 DEF Link, Orderly
    <3>2. CASE b = Len(m.events) + 1
      BY <1>3, <1>4, <1>5, <3>2
    <3> QED BY <1>7, <3>1, <3>2
  <2> QED BY <1>1, <1>3, <2>1, <2>2 DEF Link, Orderly
<1>14. Local(i, n, x) /\ Local(Other(i), o, x) /\ Link(n, o)
  BY <1>3, <1>9, <1>10, OwnIs
<1> QED BY <1>11, <1>12, <1>13, <1>14 DEF Pair, Link, n, e

\* What a post mortem still has for someone who has counted n packets.
LEMMA PacketsFromIs ==
  ASSUME NEW s, NEW p, PieceOf(s, p), NEW n \in Nat, IsSeqs(s.sent, Conn)
  PROVE  LET q == PacketsFrom(p, n)
         IN  /\ IsSeq(q) /\ Len(q) \in Nat
             /\ \A y \in 1..Len(q) : q[y] = Job(p.conn, n + y - 1, s.sent[p.conn][n + y]) /\ n + y \in 1..Len(s.sent[p.conn])
<1> DEFINE C == p.counter
           L == Len(p.pkts)
           S == Len(s.sent[p.conn])
           F == C - L
           q == PacketsFrom(p, n)
<1>1. C \in Nat /\ L \in Nat /\ S \in Nat /\ C <= S /\ L <= C
  BY SeqIs DEF PieceOf, IsSeqs
<1>2. \A k \in 1..L : p.pkts[k] = s.sent[p.conn][F + k]
  BY DEF PieceOf
<1>3. q = IF n \in F..C - 1 THEN [k \in 1..C - n |-> Job(p.conn, n + k - 1, p.pkts[n - F + k])] ELSE <<>>
  BY DEF PacketsFrom
<1> HIDE DEF C, L, S, q
<1>4. CASE n \in F..C - 1
  <2>1. C - n \in Nat /\ C - n \in 1..C
    BY <1>1, <1>4
  <2>2. \A k \in 1..C - n : n - F + k \in 1..L /\ F + (n - F + k) = n + k /\ n + k \in 1..S
    BY <1>1, <1>4
  <2> HIDE DEF F
  <2> DEFINE D == C - n
             T == {Job(p.conn, n + k - 1, p.pkts[n - F + k]) : k \in 1..D}
  <2>3. D \in Nat /\ q = [k \in 1..D |-> Job(p.conn, n + k - 1, p.pkts[n - F + k])]
    BY <1>3, <1>4, <2>1
  <2>4. \A k \in 1..D : Job(p.conn, n + k - 1, p.pkts[n - F + k]) \in T
    OBVIOUS
  <2>5. \A k \in 1..D : p.pkts[n - F + k] = s.sent[p.conn][n + k] /\ n + k \in 1..S
    BY <1>2, <2>2
  <2> HIDE DEF D, T
  <2>6. q \in Seq(T) /\ Len(q) = D
    <3>1. q \in [1..D -> T]
      BY <2>3, <2>4
    <3> QED BY <2>3, <3>1
  <2>7. \A y \in 1..D : q[y] = Job(p.conn, n + y - 1, s.sent[p.conn][n + y])
    BY <2>3, <2>5
  <2> QED BY <2>3, <2>5, <2>6, <2>7 DEF IsSeq, q, S
<1>5. CASE n \notin F..C - 1
  <2>1. q = <<>>
    BY <1>3, <1>5
  <2> QED BY <2>1, EmptyIs DEF q
<1> QED BY <1>4, <1>5

\* A packet that i takes, off the wire or from a post mortem, is one that will not come
\* again, and those it has seen were sent before.
Arrives(r, s, c, p) ==
    \E k \in Nat :
        /\ At(s, c, k, p) /\ Taken(r, c, k)
        /\ p.type = "PostMortem" => Jobs(r, p.conn) = {}
        /\ IsMessage(p) => /\ \A t \in Thread : \A a \in 1..Len(r.handled[t]) : Before(r.handled[t][a], p)
                           /\ \A b \in Waiting(r) : Before(r.events[b].pkt, p)

LEMMA HandlePostMortemIs ==
  ASSUME NEW i, NEW m, NEW o, NEW x, Pair(i, m, o, x), NEW c \in Conn, NEW p, p.type = "PostMortem", Arrives(m, o, c, p)
  PROVE  Pair(i, HandlePostMortem(m, p), o, x)
<1> DEFINE d == p.conn
           N == m.in[d]
           new == PacketsFrom(p, N)
           front == new \o <<Removal(d)>>
           todo == front \o m.todo
           n == [m EXCEPT !.todo = todo]
           A == Len(new)
           B == Len(m.todo)
           F == A + 1
           G == Len(todo)
<1>1. /\ Shape(m) /\ Sockets(m, i) /\ Link(o, m) /\ Shape(o) /\ Sendings(o)
      /\ m.in \in [Conn -> Nat] /\ IsSeq(m.todo) /\ IsSeqs(o.sent, Conn)
  BY DEF Pair, Local, Shape
<1> PICK k \in Nat : At(o, c, k, p) /\ Taken(m, c, k) /\ Jobs(m, d) = {}
  BY DEF Arrives
<1>2. PieceOf(o, p) /\ d \in Conn /\ N \in Nat
  <2>1. Proper(o, c, p)
    BY <1>1 DEF Sendings, At
  <2> QED BY <1>1, <2>1 DEF Proper, IsMessage, PieceOf
<1> SUFFICES ASSUME d \in m.listed PROVE Pair(i, n, o, x)
  <2>1. HandlePostMortem(m, p) = IF d \in m.listed THEN n ELSE Drop(m, p, "Unknown")
    BY DEF HandlePostMortem
  <2> QED BY <2>1, DropIs
<1>3. /\ IsSeq(new) /\ Len(new) \in Nat
      /\ \A y \in 1..Len(new) : new[y] = Job(d, N + y - 1, o.sent[d][N + y]) /\ N + y \in 1..Len(o.sent[d])
  BY <1>1, <1>2, PacketsFromIs
<1> HIDE DEF new, N
<1>4. /\ IsSeq(front) /\ Len(front) = F /\ front[F] = Removal(d)
      /\ \A y \in 1..A : front[y] = new[y]
  <2> DEFINE e == <<Removal(d)>>
  <2>1. IsSeq(e) /\ Len(e) = 1 /\ e[1] = Removal(d) /\ 1 \in 1..Len(e)
    <3>1. e \in Seq({Removal(d)}) /\ Len(e) = 1 /\ e[1] = Removal(d)
      OBVIOUS
    <3>2. 1 \in 1..Len(e)
      BY <3>1
    <3> HIDE DEF e
    <3> QED BY <3>1, <3>2 DEF IsSeq
  <2> HIDE DEF e
  <2> DEFINE q == new \o e
  <2>2. IsSeq(q) /\ Len(q) = Len(new) + Len(e) /\ (\A y \in 1..Len(e) : q[Len(new) + y] = e[y]) /\ \A y \in 1..Len(new) : q[y] = new[y]
    <3>1. IsSeq(new) /\ IsSeq(e)
      BY <1>3, <2>1
    <3> QED BY ONLY <3>1, ConcatIs
  <2>3. q = front
    BY DEF e, front
  <2> HIDE DEF q
  <2>4. q[Len(new) + 1] = e[1]
    BY <2>1, <2>2
  <2> QED BY <2>1, <2>2, <2>3, <2>4
<1> HIDE DEF front
<1>5. /\ IsSeq(todo) /\ G = F + B /\ A \in Nat /\ B \in Nat /\ F = A + 1 /\ G \in Nat
      /\ (\A y \in 1..F : todo[y] = front[y]) /\ \A y \in 1..B : todo[F + y] = m.todo[y]
  <2>1. /\ IsSeq(todo) /\ Len(todo) = Len(front) + Len(m.todo)
        /\ \A y \in 1..Len(front) : todo[y] = front[y]
        /\ \A y \in 1..Len(m.todo) : todo[Len(front) + y] = m.todo[y]
    <3>1. IsSeq(front) /\ IsSeq(m.todo)
      BY <1>1, <1>4
    <3> QED BY ONLY <3>1, ConcatIs
  <2> HIDE DEF todo, F
  <2>2. A \in Nat /\ B \in Nat /\ F = A + 1
    BY <1>1, <1>3, SeqIs DEF F
  <2> HIDE DEF A, B
  <2>3. Len(front) = F /\ Len(todo) = F + B
    BY <1>4, <2>1 DEF B
  <2>4. G \in Nat /\ G = F + B
    BY <2>2, <2>3
  <2>5. (\A y \in 1..F : todo[y] = front[y]) /\ \A y \in 1..B : todo[F + y] = m.todo[y]
    BY <1>4, <2>1 DEF B
  <2> QED BY <2>1, <2>2, <2>4, <2>5
<1>50. /\ \A y \in 1..A : new[y] = Job(d, N + y - 1, o.sent[d][N + y]) /\ N + y \in 1..Len(o.sent[d])
       /\ front[F] = Removal(d) /\ \A y \in 1..A : front[y] = new[y]
  BY <1>3, <1>4
<1> HIDE DEF todo, A, B, F, G
<1>6. n = [f \in Fields |-> n[f]] /\ n.todo = todo /\ \A f \in Fields \ {"todo"} : n[f] = m[f]
  BY <1>1 DEF Shape, Fields
<1>7. /\ n.listed = m.listed /\ n.in = m.in /\ n.out = m.out /\ n.log = m.log /\ n.pmSent = m.pmSent /\ n.events = m.events
      /\ n.sock = m.sock /\ n.sent = m.sent /\ n.handled = m.handled /\ n.wire = m.wire /\ n.status = m.status
      /\ n.gone = m.gone /\ n.msg = m.msg /\ n.data = m.data /\ n.clearing = m.clearing
  BY <1>6 DEF Fields
<1> HIDE DEF n
<1>8. \A y \in 1..G : y \in 1..A \/ y = F \/ (y - F \in 1..B /\ F + (y - F) = y)
  BY <1>5
<1>9. \A y \in 1..A : /\ y \in 1..G /\ todo[y] = Job(d, N + y - 1, o.sent[d][N + y])
                             /\ todo[y].conn = d /\ todo[y].type = "Packet" /\ todo[y].num = N + y - 1
  <2> SUFFICES ASSUME NEW y \in 1..A
               PROVE  /\ y \in 1..G /\ todo[y] = Job(d, N + y - 1, o.sent[d][N + y])
                      /\ todo[y].conn = d /\ todo[y].type = "Packet" /\ todo[y].num = N + y - 1
    OBVIOUS
  <2>1. y \in 1..F /\ y \in 1..G
    BY <1>5
  <2>2. todo[y] = Job(d, N + y - 1, o.sent[d][N + y])
    BY <1>5, <1>50, <2>1
  <2> QED BY <2>1, <2>2 DEF Job
<1>10. F \in 1..G /\ todo[F] = Removal(d) /\ Removal(d).conn = d /\ Removal(d).type = "Remove"
  BY <1>5, <1>50 DEF Removal
<1>11. \A z \in 1..B : F + z \in 1..G /\ todo[F + z] = m.todo[z] /\ m.todo[z].conn # d
  <2>1. \A z \in 1..B : m.todo[z].conn # d
    BY DEF Jobs, B
  <2> QED BY <1>5, <2>1
<1>12. ASSUME NEW e, NEW l \in Nat, Taken(m, e, l) PROVE Taken(n, e, l)
  <2>1. CASE e = d
    <3>1. l <= N
      BY <1>12, <2>1 DEF Taken, Fresh, N
    <3>2. ASSUME NEW y \in Packets(n, d) PROVE l <= n.todo[y].num
      <4>1. y \in 1..G /\ todo[y].conn = d /\ todo[y].type = "Packet"
        BY <1>6 DEF Packets, Jobs, G
      <4>2. y \in 1..A
        BY <1>8, <1>10, <1>11, <4>1
      <4>3. n.todo[y].num = N + y - 1
        BY <1>6, <1>9, <4>2
      <4>4. y \in Nat /\ y >= 1
        BY <1>5, <4>2
      <4> QED BY <1>2, <3>1, <4>3, <4>4
    <3>3. ~Fresh(n, d)
      BY <1>6, <1>10 DEF Fresh, Jobs, G
    <3> QED BY <2>1, <3>2, <3>3 DEF Taken
  <2>2. CASE e # d
    <3>1. \A y \in Jobs(n, e) : y - F \in Jobs(m, e) /\ n.todo[y] = m.todo[y - F]
      <4> SUFFICES ASSUME NEW y \in Jobs(n, e) PROVE y - F \in Jobs(m, e) /\ n.todo[y] = m.todo[y - F]
        OBVIOUS
      <4>1. y \in 1..G /\ todo[y].conn = e
        BY <1>6 DEF Jobs, G
      <4>2. y - F \in 1..B /\ F + (y - F) = y
        BY <1>8, <1>9, <1>10, <2>2, <4>1
      <4>3. todo[y] = m.todo[y - F]
        BY <1>11, <4>2
      <4> QED BY <1>6, <4>1, <4>2, <4>3 DEF Jobs, B
    <3>2. \A z \in Jobs(m, e) : F + z \in Jobs(n, e)
      BY <1>6, <1>11 DEF Jobs, B, G
    <3>3. Fresh(n, e) => Fresh(m, e)
      BY <1>7, <3>2 DEF Fresh
    <3>4. \A y \in Packets(n, e) : y - F \in Packets(m, e) /\ n.todo[y] = m.todo[y - F]
      BY <3>1 DEF Packets
    <3> QED BY <1>7, <1>12, <3>3, <3>4 DEF Taken
  <2> QED BY <2>1, <2>2
<1>13. \A e \in Conn : \A l \in 1..Len(o.sent[e]) : l \in Nat
  BY <1>1, SeqIs DEF IsSeqs
<1>14. Recovery(n, o)
  <2>1. ASSUME NEW e \in Conn, NEW l \in 1..Len(o.sent[e]), IsPostMortem(o.sent[e][l], d) PROVE Taken(n, e, l)
    <3>1. Distinct(c, k, p, e, l, o.sent[e][l])
      BY <1>1 DEF Sendings, At
    <3>2. e = c /\ l = k
      BY <2>1, <3>1 DEF Distinct, IsPostMortem
    <3> QED BY <1>12, <3>2
  <2>2. \E e \in Conn : \E l \in 1..Len(o.sent[e]) : IsPostMortem(o.sent[e][l], d)
    BY DEF At, IsPostMortem
  <2>3. ASSUME NEW y \in 1..G PROVE JobOf(n, o, y, todo[y])
    <3>1. CASE y \in 1..A
      <4>1. N + y - 1 \in Nat /\ N + y - 1 + 1 = N + y /\ y < F
        BY <1>2, <1>5, <3>1
      <4>2. At(o, d, N + y, todo[y].pkt)
        <5>1. N + y \in 1..Len(o.sent[d]) /\ todo[y] = Job(d, N + y - 1, o.sent[d][N + y])
          BY <1>9, <1>50, <3>1
        <5> DEFINE v == o.sent[d][N + y]
                   u == N + y - 1
        <5>2. Job(d, u, v).pkt = v
          BY DEF Job
        <5>3. todo[y].pkt = v
          BY <5>1, <5>2
        <5> HIDE DEF u
        <5> QED BY <1>2, <5>1, <5>3 DEF At
      <4>3. todo[y].num \in Nat /\ At(o, d, todo[y].num + 1, todo[y].pkt) /\ todo[y].conn = d /\ todo[y].type = "Packet"
        BY <1>9, <3>1, <4>1, <4>2
      <4>4. \E z \in 1..G : y < z /\ n.todo[z] = Removal(d)
        BY <1>6, <1>10, <4>1
      <4> QED BY <1>6, <1>7, <2>1, <2>2, <4>3, <4>4 DEF JobOf, G
    <3>2. CASE y = F
      <4>1. todo[y].conn = d /\ todo[y].type = "Remove"
        BY <1>10, <3>2
      <4> QED BY <1>7, <2>1, <2>2, <4>1 DEF JobOf
    <3>3. CASE y - F \in 1..B /\ F + (y - F) = y
      <4> DEFINE z == y - F
      <4>1. JobOf(m, o, z, m.todo[z]) /\ todo[y] = m.todo[z] /\ y = F + z /\ z \in 1..B
        BY <1>1, <1>11, <3>3 DEF Link, Recovery, B
      <4> HIDE DEF z
      <4> DEFINE q == m.todo[z]
      <4>2. q.type = "Packet" => \E w \in 1..G : y < w /\ n.todo[w] = Removal(q.conn)
        <5> SUFFICES ASSUME q.type = "Packet" PROVE \E w \in 1..G : y < w /\ n.todo[w] = Removal(q.conn)
          OBVIOUS
        <5>1. PICK w \in 1..B : z < w /\ m.todo[w] = Removal(q.conn)
          BY <4>1 DEF JobOf, B
        <5>2. F + w \in 1..G /\ n.todo[F + w] = Removal(q.conn)
          BY <1>6, <1>11, <5>1
        <5>3. y < F + w
          BY <1>5, <4>1, <5>1
        <5> QED BY <5>2, <5>3
      <4>3. \A e \in Conn : \A l \in 1..Len(o.sent[e]) : IsPostMortem(o.sent[e][l], q.conn) => Taken(n, e, l)
        BY <1>12, <1>13, <4>1 DEF JobOf
      <4>4. JobOf(n, o, y, q)
        BY <1>6, <1>7, <4>1, <4>2, <4>3 DEF JobOf, G
      <4> QED BY <4>1, <4>4
    <3> QED BY <1>8, <3>1, <3>2, <3>3
  <2>4. ASSUME NEW y \in 1..G, NEW z \in 1..G, y < z PROVE InTurn(todo[y], todo[z])
    <3>1. CASE z \in 1..A
      <4>1. y \in 1..A /\ N + y - 1 < N + z - 1
        BY <1>2, <1>5, <2>4, <3>1
      <4> QED BY <1>9, <3>1, <4>1 DEF InTurn
    <3>2. CASE z = F
      <4>1. y \in 1..A
        BY <1>5, <2>4, <3>2
      <4> QED BY <1>9, <1>10, <3>2, <4>1 DEF InTurn
    <3>3. CASE z - F \in 1..B /\ F + (z - F) = z
      <4>1. todo[z] = m.todo[z - F] /\ m.todo[z - F].conn # d
        BY <1>11, <3>3
      <4>2. CASE y \in 1..A \/ y = F
        <5>1. todo[y].conn = d
          BY <1>9, <1>10, <4>2
        <5> QED BY <4>1, <5>1 DEF InTurn
      <4>3. CASE y - F \in 1..B /\ F + (y - F) = y
        <5>1. todo[y] = m.todo[y - F] /\ y - F < z - F
          <6>1. y - F < z - F
            BY <1>5, <2>4
          <6> QED BY <1>11, <4>3, <6>1
        <5> QED BY <1>1, <3>3, <4>1, <4>3, <5>1 DEF Link, Recovery, B
      <4> QED BY <1>8, <4>2, <4>3
    <3> QED BY <1>8, <3>1, <3>2, <3>3
  <2> QED BY <1>6, <2>3, <2>4 DEF Recovery, G
<1>15. Wires(o, n)
  BY <1>1, <1>7 DEF Link, Wires
<1>16. Seen(n, o) /\ Orderly(n)
  <2>1. \A t, q : Came(m, o, t, q) => Came(n, o, t, q)
    BY <1>12 DEF Came
  <2>2. Waiting(n) = Waiting(m)
    BY <1>7 DEF Waiting
  <2> QED BY <1>1, <1>7, <2>1, <2>2 DEF Link, Seen, Orderly
<1>17. Shape(n)
  BY <1>1, <1>5, <1>6, <1>7 DEF Shape
<1>18. Sockets(n, i)
  BY <1>1, <1>7 DEF Sockets, SocketOf, isOpen, isClosed
<1>19. Local(i, n, x) /\ Local(Other(i), o, x) /\ Link(n, o)
  BY <1>7, <1>17, <1>18, OwnIs
<1> QED BY <1>14, <1>15, <1>16, <1>19 DEF Pair, Link

LEMMA HandlePacketIs ==
  ASSUME NEW i, NEW m, NEW o, NEW x, Pair(i, m, o, x), NEW c \in Conn, c \in m.listed, NEW p, NEW way,
         Control(p) \/ Arrives(m, o, c, p)
  PROVE  Pair(i, HandlePacket(m, c, p, way), o, x)
<1> DEFINE n == HandlePacket(m, c, p, way)
<1>1. Sendings(o)
  BY DEF Pair, Local
<1>2. Pair(i, Drop(m, p, way), o, x)
  BY DropIs
<1>3. CASE p.type = "Conn"
  <2>1. n = PushEvent(HandleConnNet(m, c), Packet(c, p))
    BY <1>3 DEF HandlePacket
  <2>2. Notice(Packet(c, p)) /\ (Packet(c, p).type = "Packet" => ~IsMessage(Packet(c, p).pkt))
    BY <1>3 DEF Notice, Packet, IsMessage
  <2> QED BY <2>1, <2>2, HandleConnNetIs, PushEventIs
<1>4. CASE p.type = "ConnRe"
  <2>1. n = PushEvent(HandleConnReNet(m, c), Packet(c, p))
    BY <1>4 DEF HandlePacket
  <2>2. Notice(Packet(c, p)) /\ (Packet(c, p).type = "Packet" => ~IsMessage(Packet(c, p).pkt))
    BY <1>4 DEF Notice, Packet, IsMessage
  <2> QED BY <2>1, <2>2, HandleConnReNetIs, PushEventIs
<1>5. CASE p.type = "Ping"
  <2>1. n \in {m, SearchLog(m, c, p.counter)}
    BY <1>5 DEF HandlePacket
  <2> QED BY <2>1, SearchLogIs
<1>6. CASE p.type = "PostMortem"
  <2>1. n \in {Drop(m, p, way), HandlePostMortem(m, p)}
    BY <1>6 DEF HandlePacket
  <2>2. Arrives(m, o, c, p)
    BY <1>6 DEF Control
  <2>3. Pair(i, HandlePostMortem(m, p), o, x)
    BY <1>6, <2>2, HandlePostMortemIs
  <2> QED BY <1>2, <2>1, <2>3
<1>7. CASE IsMessage(p)
  <2>1. Arrives(m, o, c, p)
    BY <1>7 DEF Control, IsMessage
  <2>2. PICK k \in Nat :
           /\ At(o, c, k, p) /\ Taken(m, c, k)
           /\ \A t \in Thread : \A a \in 1..Len(m.handled[t]) : Before(m.handled[t][a], p)
           /\ \A b \in Waiting(m) : Before(m.events[b].pkt, p)
    BY <1>7, <2>1 DEF Arrives
  <2>3. p.conn = c /\ p.thread \in Thread
    <3>1. Proper(o, c, p)
      BY <1>1, <2>2 DEF Sendings, At
    <3> QED BY <1>7, <3>1 DEF Proper, IsMessage
  <2>4. Came(m, o, p.thread, p)
    BY <1>7, <2>2, <2>3 DEF Came
  <2>5. CASE p.thread = "Net"
    <3>1. n \in {Drop(m, p, way), [m EXCEPT !.handled["Net"] = Append(@, p)]}
      BY <1>7, <2>5 DEF HandlePacket, Handle, IsMessage
    <3>2. "Net" \in Thread /\ "Net" # "Main"
      BY DEF Thread
    <3>3. Pair(i, [m EXCEPT !.handled["Net"] = Append(@, p)], o, x)
      BY <2>2, <2>4, <2>5, <3>2, HandledIs
    <3> QED BY <1>2, <3>1, <3>3
  <2>6. CASE p.thread = "Main"
    <3>1. n \in {Drop(m, p, way), PushEvent(m, Packet(c, p))}
      BY <1>7, <2>6 DEF HandlePacket, IsMessage
    <3>2. Pair(i, PushEvent(m, Packet(c, p)), o, x)
      BY <2>2, <2>4, <2>6, WaitIs DEF Thread
    <3> QED BY <1>2, <3>1, <3>2
  <2> QED BY <2>3, <2>5, <2>6 DEF Thread
<1>8. Control(p) \/ p.type = "PostMortem" \/ IsMessage(p)
  <2> SUFFICES ASSUME Arrives(m, o, c, p) PROVE p.type = "PostMortem" \/ IsMessage(p)
    OBVIOUS
  <2>1. Proper(o, c, p)
    BY <1>1 DEF Arrives, Sendings, At
  <2> QED BY <2>1 DEF Proper
<1> QED BY <1>3, <1>4, <1>5, <1>6, <1>7, <1>8 DEF Control

\* What has been seen is before what has not been taken.
LEMMA LaterIs ==
  ASSUME NEW m, NEW s, Sendings(s), Seen(m, s), NEW c, NEW k \in Nat, NEW p, At(s, c, k, p), IsMessage(p),
         \A l \in Nat : Taken(m, c, l) => l < k
  PROVE  /\ \A t \in Thread : \A a \in 1..Len(m.handled[t]) : Before(m.handled[t][a], p)
         /\ \A b \in Waiting(m) : Before(m.events[b].pkt, p)
<1>1. p.conn = c
  <2>1. Proper(s, c, p)
    BY DEF Sendings, At
  <2> QED BY <2>1 DEF Proper, IsMessage
<1>2. ASSUME NEW t, NEW q, Came(m, s, t, q) PROVE Before(q, p)
  <2> SUFFICES ASSUME q.conn = c PROVE q.id < p.id
    BY <1>1 DEF Before
  <2>1. PICK l \in Nat : At(s, c, l, q) /\ Taken(m, c, l)
    BY <1>2 DEF Came
  <2>2. l < k /\ Distinct(c, l, q, c, k, p)
    BY <2>1 DEF Sendings, At
  <2> QED BY <1>2, <2>2 DEF Distinct, Came
<1> QED BY <1>2 DEF Seen

\* One job less.
LEMMA ShedIs ==
  ASSUME NEW s, NEW m, NEW n, Link(s, m), IsSeq(m.todo), m.todo # <<>>, n.in = m.in, n.todo = Tail(m.todo),
         n.handled = m.handled, n.events = m.events,
         \A c \in Conn : (n.sock[c] # "Closed" => m.sock[c] # "Closed") /\ (Fresh(n, c) => Fresh(m, c)),
         \A y \in 1..Len(n.todo) : n.todo[y].conn \in n.listed
  PROVE  Link(s, n)
<1> DEFINE L == Len(m.todo)
           D == Len(n.todo)
<1>1. D = L - 1 /\ L \in Nat /\ L # 0 /\ \A y \in 1..D : n.todo[y] = m.todo[y + 1]
  <2> DEFINE q == Tail(m.todo)
  <2>1. Len(q) = L - 1 /\ L \in Nat /\ L # 0 /\ \A y \in 1..Len(q) : q[y] = m.todo[y + 1]
    BY TailIs
  <2>2. n.todo = q
    OBVIOUS
  <2> HIDE DEF q
  <2> QED BY <2>1, <2>2
<1> HIDE DEF L, D
<1>2. \A y \in 1..D : y + 1 \in 1..L /\ n.todo[y] = m.todo[y + 1] /\ y + 1 > y
  <2>1. D = L - 1 /\ L \in Nat
    BY <1>1
  <2>2. \A y \in 1..D : y + 1 \in 1..L /\ y + 1 > y
    BY ONLY <2>1
  <2>3. \A y \in 1..D : n.todo[y] = m.todo[y + 1]
    BY <1>1
  <2> QED BY ONLY <2>2, <2>3
<1>3. ASSUME NEW c \in Conn, NEW k, Taken(m, c, k) PROVE Taken(n, c, k)
  <2>1. \A y \in Packets(n, c) : y + 1 \in Packets(m, c) /\ n.todo[y] = m.todo[y + 1]
    BY <1>2 DEF Packets, Jobs, L, D
  <2> QED BY <1>3, <2>1 DEF Taken
<1>4. ASSUME NEW t, NEW p, Came(m, s, t, p) PROVE Came(n, s, t, p)
  BY <1>3, <1>4 DEF Came, At
<1>5. Wires(s, n)
  BY DEF Link, Wires
<1>6. Seen(n, s) /\ Orderly(n)
  <2>1. Waiting(n) = Waiting(m)
    BY DEF Waiting
  <2> QED BY <1>4, <2>1 DEF Link, Seen, Orderly
<1>7. Recovery(n, s)
  <2>1. ASSUME NEW y \in 1..D PROVE JobOf(n, s, y, n.todo[y])
    <3> DEFINE q == n.todo[y]
    <3>1. JobOf(m, s, y + 1, q) /\ q.conn \in n.listed
      BY <1>2, <2>1 DEF Link, Recovery, L, D
    <3>2. \A d \in Conn : \A k \in 1..Len(s.sent[d]) : IsPostMortem(s.sent[d][k], q.conn) => Taken(n, d, k)
      BY <1>3, <3>1 DEF JobOf
    <3>3. ASSUME q.type = "Packet" PROVE \E z \in 1..D : y < z /\ n.todo[z] = Removal(q.conn)
      <4>1. PICK w \in 1..L : y + 1 < w /\ m.todo[w] = Removal(q.conn)
        BY <3>1, <3>3 DEF JobOf, L
      <4>2. w - 1 \in 1..D /\ w - 1 + 1 = w /\ y < w - 1
        BY <1>1, <4>1
      <4>3. n.todo[w - 1] = Removal(q.conn)
        BY <1>2, <4>1, <4>2
      <4> QED BY <4>2, <4>3
    <3> HIDE DEF q
    <3>4. JobOf(n, s, y, q)
      BY <3>1, <3>2, <3>3 DEF JobOf, D
    <3> QED BY <3>4 DEF q
  <2>2. ASSUME NEW y \in 1..D, NEW z \in 1..D, y < z PROVE InTurn(n.todo[y], n.todo[z])
    <3>1. y + 1 < z + 1
      BY <1>1, <2>2
    <3> QED BY <1>2, <3>1 DEF Link, Recovery, L
  <2> QED BY <2>1, <2>2 DEF Recovery, D
<1> QED BY <1>5, <1>6, <1>7 DEF Link

\* The end of a post mortem: its connection is closed by now, and leaves the list.
LEMMA RemovalIs ==
  ASSUME NEW i, NEW m, NEW o, NEW x, Pair(i, m, o, x), m.todo # <<>>, m.todo[1].type = "Remove", NEW c, c = m.todo[1].conn,
         isClosed(m, c), NEW n, n = [f \in Fields |-> n[f]], n.todo = Tail(m.todo), n.listed = m.listed \ {c},
         \A f \in Fields \ {"todo", "listed"} : n[f] = m[f]
  PROVE  Pair(i, n, o, x)
<1>1. Shape(m) /\ Sockets(m, i) /\ Link(o, m)
  BY DEF Pair, Local
<1>2. /\ n.in = m.in /\ n.out = m.out /\ n.log = m.log /\ n.pmSent = m.pmSent /\ n.events = m.events
      /\ n.sock = m.sock /\ n.sent = m.sent /\ n.handled = m.handled /\ n.wire = m.wire /\ n.status = m.status
      /\ n.gone = m.gone /\ n.msg = m.msg /\ n.data = m.data /\ n.clearing = m.clearing
  BY DEF Fields
<1> DEFINE q == Tail(m.todo)
<1>3. /\ IsSeq(q) /\ Len(q) = Len(m.todo) - 1 /\ Len(m.todo) \in Nat /\ Len(m.todo) # 0
      /\ \A y \in 1..Len(q) : q[y] = m.todo[y + 1]
  BY <1>1, TailIs DEF Shape
<1> HIDE DEF q
<1>4. n.todo = q
  BY DEF q
<1>5. \A y \in 1..Len(m.todo) : y = 1 \/ (y - 1 \in 1..Len(q) /\ y - 1 + 1 = y /\ 1 < y)
  BY <1>3
<1>6. \A y \in 1..Len(q) : y + 1 \in 1..Len(m.todo) /\ 1 < y + 1
  BY <1>3
<1>7. 1 \in 1..Len(m.todo)
  BY <1>3
<1>8. c \in m.listed /\ c \in Conn /\ \A y \in 1..Len(q) : q[y].conn \in m.listed \ {c}
  <2>1. JobOf(m, o, 1, m.todo[1])
    BY <1>1, <1>7 DEF Link, Recovery
  <2>2. c \in m.listed /\ m.listed \in SUBSET Conn
    BY <1>1, <2>1 DEF JobOf, Shape
  <2>3. ASSUME NEW y \in 1..Len(q) PROVE q[y].conn \in m.listed \ {c}
    <3>1. q[y] = m.todo[y + 1] /\ y + 1 \in 1..Len(m.todo) /\ 1 < y + 1
      BY <1>3, <1>6
    <3>2. InTurn(m.todo[1], m.todo[y + 1]) /\ JobOf(m, o, y + 1, m.todo[y + 1])
      BY <1>1, <1>7, <3>1 DEF Link, Recovery
    <3> QED BY <3>1, <3>2 DEF InTurn, JobOf
  <2> QED BY <2>2, <2>3
<1>9. m.sock[c] = "Closed"
  BY <1>1, <1>8 DEF Sockets, SocketOf
<1>10. Shape(n)
  <2>1. n.listed \in SUBSET Conn
    BY <1>1 DEF Shape
  <2> QED BY <1>1, <1>2, <1>3, <1>4, <2>1 DEF Shape
<1>11. Sockets(n, i)
  <2> SUFFICES ASSUME NEW d \in Conn PROVE SocketOf(n, i, d)
    BY DEF Sockets
  <2>1. SocketOf(m, i, d) /\ (d = c => n.sock[d] = "Closed")
    BY <1>1, <1>2, <1>9 DEF Sockets
  <2> QED BY <1>2, <2>1 DEF SocketOf, isOpen, isClosed
<1>12. ASSUME NEW d \in Conn, Fresh(n, d) PROVE Fresh(m, d)
  <2>1. d # c
    BY <1>2, <1>9, <1>12 DEF Fresh
  <2>2. Jobs(m, d) = {}
    <3> SUFFICES ASSUME NEW y \in Jobs(m, d) PROVE FALSE
      OBVIOUS
    <3>1. y \in 1..Len(m.todo) /\ m.todo[y].conn = d
      BY DEF Jobs
    <3>2. y # 1
      BY <2>1, <3>1
    <3>3. y - 1 \in Jobs(n, d)
      BY <1>3, <1>4, <1>5, <3>1, <3>2 DEF Jobs
    <3> QED BY <1>12, <3>3 DEF Fresh
  <2> QED BY <1>2, <1>12, <2>2 DEF Fresh
<1>13. Link(o, n)
  <2>1. IsSeq(m.todo)
    BY <1>1 DEF Shape
  <2>2. \A y \in 1..Len(n.todo) : n.todo[y].conn \in n.listed
    BY <1>4, <1>8
  <2> QED BY <1>1, <1>2, <1>12, <2>1, <2>2, ShedIs
<1>14. Local(i, n, x) /\ Local(Other(i), o, x) /\ Link(n, o)
  BY <1>2, <1>10, <1>11, OwnIs
<1> QED BY <1>13, <1>14 DEF Pair

LEMMA DoJobIs ==
  ASSUME NEW i, NEW m, NEW o, NEW x, Pair(i, m, o, x), m.todo # <<>>
  PROVE  Pair(i, DoJob([m EXCEPT !.todo = Tail(@)], Head(m.todo)), o, x)
<1> DEFINE q == Tail(m.todo)
           k == [m EXCEPT !.todo = q]
           j == m.todo[1]
           c == j.conn
<1>1. Shape(m) /\ Sockets(m, i) /\ Link(o, m) /\ Sendings(o)
  BY DEF Pair, Local
<1>2. /\ IsSeq(q) /\ Len(q) = Len(m.todo) - 1 /\ Len(m.todo) \in Nat /\ Len(m.todo) # 0
      /\ (\A y \in 1..Len(q) : q[y] = m.todo[y + 1]) /\ Head(m.todo) = j /\ 1 \in 1..Len(m.todo)
  BY <1>1, TailIs DEF Shape
<1>3. [m EXCEPT !.todo = Tail(@)] = k
  OBVIOUS
<1> HIDE DEF q
<1>4. k = [f \in Fields |-> k[f]] /\ k.todo = q /\ \A f \in Fields \ {"todo"} : k[f] = m[f]
  BY <1>1 DEF Shape, Fields
<1>5. /\ k.in = m.in /\ k.out = m.out /\ k.log = m.log /\ k.pmSent = m.pmSent /\ k.events = m.events
      /\ k.sock = m.sock /\ k.sent = m.sent /\ k.handled = m.handled /\ k.wire = m.wire /\ k.status = m.status
      /\ k.gone = m.gone /\ k.msg = m.msg /\ k.data = m.data /\ k.clearing = m.clearing /\ k.listed = m.listed
  BY <1>4 DEF Fields
<1> HIDE DEF k
<1>6. JobOf(m, o, 1, j)
  BY <1>1, <1>2 DEF Link, Recovery
<1>7. c \in Conn /\ c \in m.listed
  BY <1>1, <1>6 DEF JobOf, Shape
<1>8. \A y \in 1..Len(q) : y + 1 \in 1..Len(m.todo) /\ 1 < y + 1 /\ q[y] = m.todo[y + 1]
  <2>1. \A y \in 1..Len(q) : y + 1 \in 1..Len(m.todo) /\ 1 < y + 1
    BY <1>2
  <2> QED BY <1>2, <2>1
<1>9. \A y \in 1..Len(q) : InTurn(j, q[y]) /\ JobOf(m, o, y + 1, q[y])
  BY <1>1, <1>2, <1>8 DEF Link, Recovery
<1>10. CASE j.type = "Packet"
  <2>1. PICK w \in 1..Len(m.todo) : 1 < w /\ m.todo[w] = Removal(c)
    BY <1>6, <1>10 DEF JobOf
  <2>2. Jobs(k, c) # {}
    <3>1. w - 1 \in 1..Len(q) /\ w - 1 + 1 = w
      BY <1>2, <2>1
    <3>2. q[w - 1].conn = c
      BY <1>2, <2>1, <3>1 DEF Removal
    <3> QED BY <1>4, <3>1, <3>2 DEF Jobs
  <2>3. ASSUME NEW d, Fresh(k, d) PROVE Fresh(m, d)
    <3>1. d # c
      BY <2>2, <2>3 DEF Fresh
    <3>2. Jobs(m, d) = {}
      <4> SUFFICES ASSUME NEW y \in Jobs(m, d) PROVE FALSE
        OBVIOUS
      <4>1. y \in 1..Len(m.todo) /\ m.todo[y].conn = d
        BY DEF Jobs
      <4>2. y # 1
        BY <3>1, <4>1
      <4>3. y - 1 \in 1..Len(q) /\ y - 1 + 1 = y
        BY <1>2, <4>1, <4>2
      <4>4. y - 1 \in Jobs(k, d)
        BY <1>2, <1>4, <4>1, <4>3 DEF Jobs
      <4> QED BY <2>3, <4>4 DEF Fresh
    <3> QED BY <1>5, <2>3, <3>2 DEF Fresh
  <2>4. Link(o, k)
    <3>1. \A y \in 1..Len(k.todo) : k.todo[y].conn \in k.listed
      BY <1>4, <1>5, <1>9 DEF JobOf
    <3>2. IsSeq(m.todo) /\ k.todo = Tail(m.todo)
      BY <1>1, <1>4 DEF Shape, q
    <3> QED BY <1>1, <1>5, <2>3, <3>1, <3>2, ShedIs
  <2>5. Pair(i, k, o, x)
    <3>1. Shape(k)
      BY <1>1, <1>2, <1>4, <1>5 DEF Shape
    <3>2. Sockets(k, i)
      BY <1>1, <1>5 DEF Sockets, SocketOf, isOpen, isClosed
    <3>3. Local(i, k, x) /\ Local(Other(i), o, x) /\ Link(k, o)
      BY <1>5, <3>1, <3>2, OwnIs
    <3> QED BY <2>4, <3>3 DEF Pair
  <2> DEFINE n == j.num
             p == j.pkt
  <2>6. n \in Nat /\ At(o, c, n + 1, p)
    BY <1>6, <1>10 DEF JobOf
  <2>7. ASSUME NEW l \in Nat, Taken(m, c, l) PROVE l < n + 1
    <3>1. 1 \in Packets(m, c)
      BY <1>2, <1>10 DEF Packets, Jobs
    <3>2. l <= n
      BY <2>7, <3>1 DEF Taken
    <3> QED BY <2>6, <3>2
  <2>8. Taken(k, c, n + 1)
    <3>1. ~Fresh(k, c)
      BY <2>2 DEF Fresh
    <3>2. ASSUME NEW y \in Packets(k, c) PROVE n + 1 <= k.todo[y].num
      <4>1. y \in 1..Len(q) /\ q[y].conn = c /\ q[y].type = "Packet" /\ k.todo[y] = q[y]
        BY <1>4 DEF Packets, Jobs
      <4>2. n < q[y].num /\ q[y].num \in Nat
        BY <1>9, <4>1 DEF InTurn, JobOf
      <4> QED BY <2>6, <4>1, <4>2
    <3> QED BY <3>1, <3>2 DEF Taken
  <2>9. p.type = "PostMortem" => Jobs(k, p.conn) = {}
    <3> SUFFICES ASSUME p.type = "PostMortem", NEW y \in Jobs(k, p.conn) PROVE FALSE
      OBVIOUS
    <3>1. y \in 1..Len(q) /\ q[y].conn = p.conn
      BY <1>4 DEF Jobs
    <3>2. IsPostMortem(o.sent[c][n + 1], q[y].conn) /\ n + 1 \in 1..Len(o.sent[c])
      BY <2>6, <3>1 DEF At, IsPostMortem
    <3>3. Taken(m, c, n + 1)
      BY <1>7, <1>9, <3>1, <3>2 DEF JobOf
    <3>4. n + 1 \in Nat /\ ~(n + 1 < n + 1)
      BY <2>6
    <3> QED BY <2>7, <3>3, <3>4
  <2>10. IsMessage(p) => /\ \A t \in Thread : \A a \in 1..Len(k.handled[t]) : Before(k.handled[t][a], p)
                         /\ \A b \in Waiting(k) : Before(k.events[b].pkt, p)
    <3>1. Seen(m, o) /\ n + 1 \in Nat /\ Waiting(k) = Waiting(m)
      BY <1>1, <1>5, <2>6 DEF Link, Waiting
    <3> QED BY <1>1, <1>5, <2>6, <2>7, <3>1, LaterIs
  <2>11. Arrives(k, o, c, p)
    <3>1. n + 1 \in Nat
      BY <2>6
    <3> QED BY <2>6, <2>8, <2>9, <2>10, <3>1 DEF Arrives
  <2>12. Pair(i, HandlePacket(k, c, p, "PostMortem"), o, x)
    BY <1>5, <1>7, <2>5, <2>11, HandlePacketIs
  <2> QED BY <1>2, <1>3, <1>10, <2>12 DEF DoJob
<1>11. CASE j.type # "Packet"
  <2> DEFINE a == Close(m, c)
             b == Close(k, c)
             n == RemoveConnection(b, c)
             open == ~isClosed(m, c) /\ m.sock[c] \in {"Calling", "Open"}
             status == IF isClosed(m, c) THEN m.status ELSE [m.status EXCEPT ![c] = "Closed"]
             sock == IF open THEN [m.sock EXCEPT ![c] = "Closed"] ELSE m.sock
             events == IF open THEN Append(m.events, Disconn(c)) ELSE m.events
  <2>1. Pair(i, a, o, x) /\ isClosed(a, c)
    BY <1>7, CloseIs
  <2>2. /\ a = [f \in Fields |-> a[f]] /\ a.status = status /\ a.sock = sock /\ a.events = events
        /\ \A f \in Fields \ {"status", "sock", "events"} : a[f] = m[f]
    BY <1>1, <1>7, CloseFields
  <2>3. Shape(k)
    BY <1>1, <1>2, <1>4, <1>5 DEF Shape
  <2>4. /\ b = [f \in Fields |-> b[f]] /\ b.status = status /\ b.sock = sock /\ b.events = events
        /\ \A f \in Fields \ {"status", "sock", "events"} : b[f] = k[f]
    <3>1. c \in k.listed /\ isClosed(k, c) = isClosed(m, c)
      BY <1>5, <1>7 DEF isClosed
    <3>2. /\ b = [f \in Fields |-> b[f]]
          /\ b.status = IF isClosed(k, c) THEN k.status ELSE [k.status EXCEPT ![c] = "Closed"]
          /\ b.sock = IF ~isClosed(k, c) /\ k.sock[c] \in {"Calling", "Open"} THEN [k.sock EXCEPT ![c] = "Closed"] ELSE k.sock
          /\ b.events = IF ~isClosed(k, c) /\ k.sock[c] \in {"Calling", "Open"} THEN Append(k.events, Disconn(c)) ELSE k.events
          /\ \A f \in Fields \ {"status", "sock", "events"} : b[f] = k[f]
      BY <1>7, <2>3, <3>1, CloseFields
    <3> HIDE DEF b
    <3> QED BY <1>5, <3>1, <3>2
  <2> HIDE DEF a, b, status, sock, events
  <2>5. n = [f \in Fields |-> n[f]] /\ n.listed = b.listed \ {c} /\ \A f \in Fields \ {"listed"} : n[f] = b[f]
    BY <2>4 DEF RemoveConnection, Fields
  <2> HIDE DEF n
  <2>6. a.todo = m.todo /\ a.listed = m.listed /\ b.todo = k.todo /\ b.listed = k.listed
    BY <2>2, <2>4 DEF Fields
  <2>7. n.todo = Tail(a.todo) /\ n.listed = a.listed \ {c}
    <3>1. n.todo = b.todo
      BY <2>5 DEF Fields
    <3> QED BY <1>4, <1>5, <2>5, <2>6, <3>1 DEF q
  <2>8. \A f \in Fields \ {"todo", "listed"} : n[f] = a[f]
    <3>1. n.status = a.status /\ n.sock = a.sock /\ n.events = a.events
      BY <2>2, <2>4, <2>5 DEF Fields
    <3>2. \A f \in Fields \ {"todo", "listed", "status", "sock", "events"} : n[f] = b[f] /\ b[f] = k[f] /\ k[f] = m[f] /\ a[f] = m[f]
      BY <1>4, <2>2, <2>4, <2>5
    <3> QED BY <3>1, <3>2
  <2>9. j.type = "Remove"
    BY <1>6, <1>11 DEF JobOf
  <2>10. Pair(i, n, o, x)
    <3>1. a.todo # <<>> /\ a.todo[1].type = "Remove" /\ c = a.todo[1].conn
      BY <2>6, <2>9
    <3> QED BY <2>1, <2>5, <2>7, <2>8, <3>1, RemovalIs
  <2> QED BY <1>2, <1>3, <1>11, <2>10 DEF DoJob, b, n
<1> QED BY <1>10, <1>11

\* A packet is taken off the wire.
LEMMA ReceiveIs ==
  ASSUME NEW i \in Computer, NEW m, NEW o, NEW x, Pair(i, m, o, x), NEW c \in Conn, m.todo = <<>>, m.sock[c] = "Open",
         o.wire[c] # <<>>
  PROVE  Pair(i, OnPacket(m, c, Head(o.wire[c])), [o EXCEPT !.wire[c] = Tail(@)], x)
<1> DEFINE p == Head(o.wire[c])
           N == IF Logged(p) THEN m.in[c] + 1 ELSE m.in[c]
           k == [m EXCEPT !.in[c] = N]
           u == [o EXCEPT !.wire[c] = Tail(@)]
<1>1. /\ Shape(m) /\ Sockets(m, i) /\ Logs(m) /\ Sendings(m) /\ Numbered(m, x) /\ Link(m, o)
      /\ Shape(o) /\ Sockets(o, Other(i)) /\ Logs(o) /\ Sendings(o) /\ Numbered(o, x) /\ Link(o, m)
  BY DEF Pair, Local
<1>2. c \in m.listed
  BY <1>1 DEF Sockets, SocketOf
<1>3. /\ o.wire = [d \in Conn |-> o.wire[d]] /\ \A d \in Conn : IsSeq(o.wire[d]) /\ IsSeq(o.sent[d])
      /\ m.in \in [Conn -> Nat]
  BY <1>1 DEF Shape, IsSeqs
<1>4. k = [f \in Fields |-> k[f]] /\ k.in = [m.in EXCEPT ![c] = N] /\ \A f \in Fields \ {"in"} : k[f] = m[f]
  BY <1>1 DEF Shape, Fields
<1>5. /\ k.todo = m.todo /\ k.out = m.out /\ k.log = m.log /\ k.pmSent = m.pmSent /\ k.events = m.events
      /\ k.sock = m.sock /\ k.sent = m.sent /\ k.handled = m.handled /\ k.wire = m.wire /\ k.status = m.status
      /\ k.gone = m.gone /\ k.msg = m.msg /\ k.data = m.data /\ k.clearing = m.clearing /\ k.listed = m.listed
  BY <1>4 DEF Fields
<1>6. u = [f \in Fields |-> u[f]] /\ u.wire = [o.wire EXCEPT ![c] = Tail(@)] /\ \A f \in Fields \ {"wire"} : u[f] = o[f]
  BY <1>1 DEF Shape, Fields
<1>7. /\ u.todo = o.todo /\ u.out = o.out /\ u.log = o.log /\ u.pmSent = o.pmSent /\ u.events = o.events
      /\ u.sock = o.sock /\ u.sent = o.sent /\ u.handled = o.handled /\ u.status = o.status /\ u.in = o.in
      /\ u.gone = o.gone /\ u.msg = o.msg /\ u.data = o.data /\ u.clearing = o.clearing /\ u.listed = o.listed
  BY <1>6 DEF Fields
<1>8. OnPacket(m, c, p) = HandlePacket(k, c, p, "Wire")
  BY <1>2 DEF OnPacket
<1>9. /\ Logged(p) => m.in[c] + 1 \in 1..Len(o.sent[c]) /\ p = o.sent[c][m.in[c] + 1]
      /\ ~Logged(p) => Control(p)
      /\ Follows(Tail(o.wire[c]), N, o.sent[c], o.sock[c] = "Open")
  <2>1. Follows(o.wire[c], m.in[c], o.sent[c], o.sock[c] = "Open")
    BY <1>1 DEF Link, Wires
  <2>2. IsSeq(o.wire[c]) /\ o.wire[c] # <<>> /\ IsSeq(o.sent[c]) /\ m.in[c] \in Nat
    BY <1>3
  <2>3. N = (IF Logged(p) THEN m.in[c] + 1 ELSE m.in[c]) /\ p = Head(o.wire[c])
    OBVIOUS
  <2> HIDE DEF p, N
  <2>4. IF Logged(p) THEN /\ m.in[c] + 1 \in 1..Len(o.sent[c]) /\ p = o.sent[c][m.in[c] + 1]
                          /\ Follows(Tail(o.wire[c]), m.in[c] + 1, o.sent[c], o.sock[c] = "Open")
        ELSE Control(p) /\ Follows(Tail(o.wire[c]), m.in[c], o.sent[c], o.sock[c] = "Open")
    BY <2>1, <2>2, <2>3, WireTaken
  <2>5. CASE Logged(p)
    BY <2>3, <2>4, <2>5
  <2>6. CASE ~Logged(p)
    BY <2>3, <2>4, <2>6
  <2> QED BY <2>5, <2>6
<1> HIDE DEF p, N, k, u
<1>10. N \in Nat /\ m.in[c] \in Nat /\ m.in[c] <= N /\ (Logged(p) => N = m.in[c] + 1)
  BY <1>3 DEF N
<1>11. k.in \in [Conn -> Nat] /\ k.in[c] = N /\ \A d \in Conn : m.in[d] <= k.in[d] /\ (d # c => k.in[d] = m.in[d])
  <2>1. k.in = [m.in EXCEPT ![c] = N] /\ m.in \in [Conn -> Nat]
    BY <1>3, <1>4
  <2>2. k.in[c] = N /\ \A d \in Conn \ {c} : k.in[d] = m.in[d]
    BY <2>1
  <2>3. k.in \in [Conn -> Nat]
    BY <1>10, <2>1
  <2>4. \A d \in Conn \ {c} : m.in[d] <= m.in[d]
    BY <2>1
  <2> QED BY <1>10, <2>2, <2>3, <2>4
<1>12. u.wire[c] = Tail(o.wire[c]) /\ u.wire = [d \in Conn |-> u.wire[d]] /\ \A d \in Conn \ {c} : u.wire[d] = o.wire[d]
  BY <1>3, <1>6
<1>13. Shape(k)
  BY <1>1, <1>4, <1>5, <1>11 DEF Shape
<1>14. Shape(u)
  <2>1. IsSeq(u.wire[c])
    BY <1>3, <1>12, TailIs
  <2>2. IsSeqs(u.wire, Conn)
    BY <1>3, <1>12, <2>1 DEF IsSeqs
  <2> QED BY <1>1, <1>6, <1>7, <2>2 DEF Shape
<1>15. Sockets(k, i) /\ Sockets(u, Other(i))
  BY <1>1, <1>5, <1>7 DEF Sockets, SocketOf, isOpen, isClosed
<1>16. Local(i, k, x) /\ Local(Other(i), u, x)
  <2>1. Logs(k) /\ Sendings(k) /\ Numbered(k, x)
    BY <1>1, <1>5, SameSent
  <2>2. Logs(u) /\ Sendings(u) /\ Numbered(u, x)
    BY <1>1, <1>7, SameSent
  <2> QED BY <1>13, <1>14, <1>15, <2>1, <2>2 DEF Local
<1>17. Link(k, u)
  <2>1. \A d, l : Taken(u, d, l) <=> Taken(o, d, l)
    BY <1>7 DEF Taken, Packets, Jobs, Fresh
  <2>2. \A d, l, r : At(k, d, l, r) <=> At(m, d, l, r)
    BY <1>5 DEF At
  <2>3. Waiting(u) = Waiting(o)
    BY <1>7 DEF Waiting
  <2>4. Wires(k, u)
    BY <1>1, <1>5, <1>7 DEF Link, Wires
  <2>5. Seen(u, k) /\ Orderly(u)
    BY <1>1, <1>7, <2>1, <2>2, <2>3 DEF Link, Seen, Orderly, Came
  <2>6. Recovery(u, k)
    BY <1>1, <1>5, <1>7, <2>1, <2>2 DEF Link, Recovery, JobOf
  <2> QED BY <2>4, <2>5, <2>6 DEF Link
<1>18. \A d \in Conn : Jobs(k, d) = {} /\ Jobs(m, d) = {}
  BY <1>5, EmptyIs DEF Jobs
<1>19. Link(u, k)
  <2>1. ASSUME NEW d \in Conn, NEW l \in Nat, Taken(m, d, l) PROVE Taken(k, d, l)
    <3>1. Fresh(k, d) => l <= m.in[d]
      BY <1>5, <2>1 DEF Taken, Fresh, Jobs
    <3>2. m.in[d] \in Nat /\ k.in[d] \in Nat /\ m.in[d] <= k.in[d]
      BY <1>3, <1>11
    <3>3. Fresh(k, d) => l <= k.in[d]
      BY <3>1, <3>2
    <3> QED BY <1>18, <3>3 DEF Taken, Packets
  <2>2. \A d, l, r : At(u, d, l, r) <=> At(o, d, l, r)
    BY <1>7 DEF At
  <2>3. ASSUME NEW t, NEW r, Came(m, o, t, r) PROVE Came(k, u, t, r)
    <3>1. PICK l \in Nat : At(o, r.conn, l, r) /\ Taken(m, r.conn, l)
      BY <2>3 DEF Came
    <3>2. r.conn \in Conn
      BY <3>1 DEF At
    <3>3. Taken(k, r.conn, l)
      BY <2>1, <3>1, <3>2
    <3>4. At(u, r.conn, l, r)
      BY <2>2, <3>1
    <3> QED BY <2>3, <3>3, <3>4 DEF Came
  <2>4. Waiting(k) = Waiting(m)
    BY <1>5 DEF Waiting
  <2>5. Wires(u, k)
    <3> SUFFICES ASSUME NEW d \in Conn, k.sock[d] # "Closed" PROVE Follows(u.wire[d], k.in[d], u.sent[d], u.sock[d] = "Open")
      BY DEF Wires
    <3>1. CASE d = c
      BY <1>7, <1>9, <1>11, <1>12, <3>1
    <3>2. CASE d # c
      BY <1>1, <1>5, <1>7, <1>11, <1>12, <3>2 DEF Link, Wires
    <3> QED BY <3>1, <3>2
  <2>6. Seen(k, u) /\ Orderly(k)
    BY <1>1, <1>5, <2>3, <2>4 DEF Link, Seen, Orderly
  <2>7. Recovery(k, u)
    BY <1>5, EmptyIs DEF Recovery
  <2> QED BY <2>5, <2>6, <2>7 DEF Link
<1>20. Pair(i, k, u, x)
  BY <1>16, <1>17, <1>19 DEF Pair
<1>21. ASSUME Logged(p) PROVE Arrives(k, u, c, p)
  <2>1. N = m.in[c] + 1 /\ N \in Nat /\ At(u, c, N, p) /\ At(o, c, N, p)
    BY <1>7, <1>9, <1>10, <1>21 DEF At
  <2>2. Taken(k, c, N)
    <3>1. N <= k.in[c]
      BY <1>10, <1>11
    <3> QED BY <1>18, <3>1 DEF Taken, Packets
  <2>3. p.type = "PostMortem" => Jobs(k, p.conn) = {}
    BY <1>5, EmptyIs DEF Jobs
  <2>4. ASSUME NEW l \in Nat, Taken(m, c, l) PROVE l < N
    <3>1. l <= m.in[c]
      BY <1>2, <1>18, <2>4 DEF Taken, Fresh
    <3> QED BY <1>10, <2>1, <3>1
  <2>5. IsMessage(p) => /\ \A t \in Thread : \A a \in 1..Len(k.handled[t]) : Before(k.handled[t][a], p)
                        /\ \A b \in Waiting(k) : Before(k.events[b].pkt, p)
    <3>1. Seen(m, o) /\ Waiting(k) = Waiting(m)
      BY <1>1, <1>5 DEF Link, Waiting
    <3> QED BY <1>1, <1>5, <2>1, <2>4, <3>1, LaterIs
  <2> QED BY <2>1, <2>2, <2>3, <2>5 DEF Arrives
<1>22. Pair(i, HandlePacket(k, c, p, "Wire"), u, x)
  BY <1>2, <1>5, <1>9, <1>20, <1>21, HandlePacketIs
<1> QED BY <1>8, <1>22 DEF p, u
\* The main thread takes the first event.
LEMMA ProcessEventIs ==
  ASSUME NEW i, NEW m, NEW o, NEW x, Pair(i, m, o, x), m.events # <<>>
  PROVE  Pair(i, OnThreadEvent([m EXCEPT !.events = Tail(@)], Head(m.events)), o, x)
<1> DEFINE k == [m EXCEPT !.events = Tail(@)]
           e == m.events[1]
<1>1. Shape(m) /\ Link(o, m)
  BY DEF Pair, Local
<1>2. /\ IsSeq(m.events) /\ IsSeq(Tail(m.events)) /\ Len(Tail(m.events)) = Len(m.events) - 1 /\ Len(m.events) \in Nat
      /\ (\A b \in 1..Len(Tail(m.events)) : Tail(m.events)[b] = m.events[b + 1])
      /\ Head(m.events) = e /\ 1 \in 1..Len(m.events)
  BY <1>1, TailIs DEF Shape
<1>3. k = [f \in Fields |-> k[f]] /\ k.events = Tail(m.events) /\ \A f \in Fields \ {"events"} : k[f] = m[f]
  BY <1>1 DEF Shape, Fields
<1>4. k.in = m.in /\ k.todo = m.todo /\ k.sock = m.sock /\ k.listed = m.listed /\ k.handled = m.handled /\ k.gone = m.gone
  BY <1>3 DEF Fields
<1> HIDE DEF k
<1>5. Pair(i, k, o, x)
  <2>1. k.gone \in BOOLEAN /\ \A f \in Fields \ {"events", "gone"} : k[f] = m[f]
    BY <1>1, <1>3, <1>4 DEF Shape
  <2> QED BY <1>3, <2>1, LessNewsIs
<1>6. Notice(e)
  BY <1>1, <1>2 DEF Shape
<1> HIDE DEF e
<1>7. CASE e.type = "Disconn"
  <2>1. Pair(i, OnDisconnMain(k, e.conn), o, x)
    BY <1>5, <1>6, OnDisconnMainIs DEF Notice
  <2> QED BY <1>2, <1>7, <2>1 DEF OnThreadEvent, k
<1>8. ASSUME e.type = "Packet" PROVE Pair(i, HandlePacketMain(k, e.conn, e.pkt), o, x)
  <2>1. CASE e.pkt.type = "Conn"
    BY <1>5, <1>6, <2>1, HandleConnIs DEF Notice, HandlePacketMain
  <2>2. CASE e.pkt.type = "ConnRe"
    BY <1>5, <1>6, <2>2, HandleConnReIs DEF Notice, HandlePacketMain
  <2>3. CASE e.pkt.type = "Message"
    <3> DEFINE p == e.pkt
    <3>1. 1 \in Waiting(m) /\ p = m.events[1].pkt
      BY <1>2, <1>8, <2>3 DEF Waiting, IsMessage, e
    <3> HIDE DEF p
    <3>2. Came(m, o, "Main", p)
      BY <1>1, <3>1 DEF Link, Seen
    <3>3. Came(k, o, "Main", p)
      BY <1>1, <1>4, <3>2, RestIs
    <3>4. \A a \in 1..Len(k.handled["Main"]) : Before(k.handled["Main"][a], p)
      BY <1>1, <1>4, <3>1 DEF Link, Orderly
    <3>5. ASSUME NEW b \in Waiting(k) PROVE Before(p, k.events[b].pkt)
      <4>1. b \in 1..Len(Tail(m.events)) /\ k.events[b] = m.events[b + 1]
        BY <1>2, <1>3 DEF Waiting
      <4>2. b + 1 \in 1..Len(m.events) /\ 1 < b + 1
        BY <1>2, <4>1
      <4>3. b + 1 \in Waiting(m)
        BY <4>1, <4>2 DEF Waiting
      <4> QED BY <1>1, <3>1, <4>1, <4>2, <4>3 DEF Link, Orderly
    <3>6. "Main" \in Thread
      BY DEF Thread
    <3>7. Pair(i, [k EXCEPT !.handled["Main"] = Append(@, p)], o, x)
      BY <1>5, <3>3, <3>4, <3>5, <3>6, HandledIs
    <3>8. Pair(i, Drop(k, p, "Queue"), o, x)
      BY <1>5, DropIs
    <3> QED BY <2>3, <3>7, <3>8 DEF HandlePacketMain, p
  <2> QED BY <1>6, <1>8, <2>1, <2>2, <2>3 DEF Notice
<1>9. CASE e.type = "Packet"
  BY <1>2, <1>8, <1>9 DEF OnThreadEvent, k
<1> QED BY <1>6, <1>7, <1>9 DEF Notice

\* Pings are no more than something on the wire.
Pinged(m, S) == [m EXCEPT !.wire = [c \in Conn |->
    IF c \in S /\ m.sock[c] = "Open" THEN Append(@[c], Ping(m.in[c])) ELSE @[c]]]

LEMMA PingAllIs ==
  ASSUME NEW i, NEW m, NEW o, NEW x, Pair(i, m, o, x), NEW S
  PROVE  Pair(i, Pinged(m, S), o, x)
<1> DEFINE W == [c \in Conn |-> IF c \in S /\ m.sock[c] = "Open" THEN Append(m.wire[c], Ping(m.in[c])) ELSE m.wire[c]]
<1>1. Shape(m)
  BY DEF Pair, Local
<1>2. \A n : Control(Ping(n))
  BY DEF Control, Ping
<1>3. ASSUME NEW c \in Conn PROVE W[c] = m.wire[c] \/ \E u : Control(u) /\ W[c] = Append(m.wire[c], u)
  BY <1>2
<1>4. W = [c \in Conn |-> W[c]]
  OBVIOUS
<1> HIDE DEF W
<1>5. Pair(i, [m EXCEPT !.wire = W], o, x)
  BY <1>3, <1>4, WiredIs
<1> QED BY <1>5 DEF W, Pinged

\* The bound on the numbers of messages may grow.
LEMMA MoreIs ==
  ASSUME NEW i, NEW m, NEW o, NEW x \in Nat, Pair(i, m, o, x), NEW y \in Nat, x <= y
  PROVE  Pair(i, m, o, y)
<1>1. ASSUME NEW k, Sendings(k), Numbered(k, x) PROVE Numbered(k, y)
  <2> SUFFICES ASSUME NEW d \in Conn, NEW l \in 1..Len(k.sent[d]), IsMessage(k.sent[d][l]) PROVE k.sent[d][l].id < y
    BY DEF Numbered
  <2>1. k.sent[d][l].id \in Nat
    BY <1>1 DEF Sendings, Proper, IsMessage
  <2>2. k.sent[d][l].id < x
    BY <1>1 DEF Numbered
  <2> QED BY <2>1, <2>2
<1>2. Local(i, m, x) /\ Local(Other(i), o, x)
  BY DEF Pair
<1>3. Local(i, m, y) /\ Local(Other(i), o, y)
  BY <1>1, <1>2 DEF Local
<1> QED BY <1>3 DEF Pair

LEMMA SayIs ==
  ASSUME NEW i, NEW m, NEW o, NEW x \in Nat, Pair(i, m, o, x), NEW c \in Conn, m.sock[c] \in {"Open", "Closed"}, NEW t \in Thread
  PROVE  Pair(i, Send(m, c, Message(i, x, t, c)), o, x + 1)
<1> DEFINE p == Message(i, x, t, c)
           P == m.pmSent
           k == [m EXCEPT !.pmSent = P]
<1>1. Pair(i, m, o, x + 1)
  BY MoreIs
<1>2. Shape(m) /\ Numbered(m, x)
  BY DEF Pair, Local
<1>3. k = m /\ P \in [Conn -> Nat \cup {-1}]
  BY <1>2 DEF Shape, Fields
<1>4. IsMessage(p) /\ Logged(p) /\ p.type # "PostMortem" /\ p.id = x /\ p.conn = c /\ p.thread = t
  BY DEF Message, IsMessage, Logged
<1> HIDE DEF p
<1>5. Proper(k, c, p)
  BY <1>4 DEF Proper
<1> HIDE DEF P
<1>6. Pair(i, Send(k, c, p), o, x + 1)
  <2>1. \A d \in Conn : m.pmSent[d] # -1 => P[d] # -1
    BY DEF P
  <2>2. x < x + 1
    OBVIOUS
  <2> QED BY <1>1, <1>2, <1>3, <1>4, <1>5, <2>1, <2>2, SendIs DEF k
<1> QED BY <1>3, <1>6 DEF p

-----------------------------------------------------------------------------
(* The steps.                                                              *)

\* Either of the two may be looked at first.
LEMMA PairTurned ==
  ASSUME NEW i \in Computer, NEW m, NEW o, NEW x, Pair(i, m, o, x)
  PROVE  Pair(Other(i), o, m, x)
BY OtherIs DEF Pair

LEMMA BothIs ==
  ASSUME NEW i \in Computer, NEW n, NEW u, node' = [j \in Computer |-> IF j = i THEN n ELSE u],
         budget' = [b \in {"traffic", "break"} |-> budget'[b]], budget'.traffic \in 0..MaxTraffic,
         Pair(i, n, u, MaxTraffic - budget'.traffic)
  PROVE  IInv'
<1>1. node'[i] = n /\ node'[Other(i)] = u
  BY OtherIs
<1>2. Pair(i, node'[i], node'[Other(i)], MaxTraffic - budget'.traffic)
  BY <1>1
<1>3. Pair(Other(i), node'[Other(i)], node'[Other(Other(i))], MaxTraffic - budget'.traffic)
  BY <1>2, OtherIs, PairTurned
<1>4. \A j \in Computer : Pair(j, node'[j], node'[Other(j)], MaxTraffic - budget'.traffic)
  BY <1>2, <1>3, OtherIs
<1>5. node' = [j \in Computer |-> node'[j]]
  OBVIOUS
<1> QED BY <1>4, <1>5 DEF IInv

LEMMA ChangeIs ==
  ASSUME IInv, NEW i \in Computer, NEW n, Change(i, n), UNCHANGED budget \/ Spend("traffic") \/ Spend("break"),
         Pair(i, n, node[Other(i)], MaxTraffic - budget.traffic)
  PROVE  IInv'
<1>1. budget = [b \in {"traffic", "break"} |-> budget[b]] /\ budget.traffic \in 0..MaxTraffic /\ MaxTraffic \in Nat
  BY BoundAssumption DEF IInv
<1>2. /\ budget' = [b \in {"traffic", "break"} |-> budget'[b]] /\ budget'.traffic \in 0..MaxTraffic
      /\ budget'.traffic <= budget.traffic
  BY <1>1 DEF Spend
<1>3. Pair(i, n, node[Other(i)], MaxTraffic - budget'.traffic)
  <2> DEFINE x == MaxTraffic - budget.traffic
             y == MaxTraffic - budget'.traffic
  <2>1. x \in Nat /\ y \in Nat /\ x <= y
    BY <1>1, <1>2
  <2> HIDE DEF x, y
  <2>2. Pair(i, n, node[Other(i)], x)
    BY DEF x
  <2>3. Pair(i, n, node[Other(i)], y)
    BY <2>1, <2>2, MoreIs
  <2> QED BY <2>3 DEF y
<1>4. node' = [j \in Computer |-> IF j = i THEN n ELSE node[Other(i)]]
  <2>1. node = [j \in Computer |-> node[j]] /\ node' = [node EXCEPT ![i] = n]
    BY DEF IInv, Change
  <2> QED BY <2>1, OtherIs
<1> QED BY <1>2, <1>3, <1>4, BothIs

LEMMA SaidIs ==
  ASSUME IInv, NEW i \in Computer, NEW c \in Conn, node[i].sock[c] \in {"Open", "Closed"}, NEW t \in Thread, Say(i, c, t)
  PROVE  IInv'
<1> DEFINE x == MaxTraffic - budget.traffic
           n == Send(node[i], c, Message(i, x, t, c))
<1>1. budget = [b \in {"traffic", "break"} |-> budget[b]] /\ budget.traffic \in 0..MaxTraffic /\ MaxTraffic \in Nat
  BY BoundAssumption DEF IInv
<1>2. /\ budget' = [b \in {"traffic", "break"} |-> budget'[b]] /\ budget'.traffic \in 0..MaxTraffic
      /\ MaxTraffic - budget'.traffic = x + 1 /\ x \in Nat
  <2>1. budget.traffic > 0 /\ budget' = [budget EXCEPT !.traffic = @ - 1]
    BY DEF Say, Spend
  <2>2. budget' = [b \in {"traffic", "break"} |-> budget'[b]] /\ budget'.traffic = budget.traffic - 1
    BY <1>1, <2>1
  <2> QED BY <1>1, <2>1, <2>2
<1>3. node' = [node EXCEPT ![i] = n]
  BY DEF Say, Change
<1>4. Pair(i, node[i], node[Other(i)], x)
  BY DEF IInv
<1> HIDE DEF x
<1>5. Pair(i, n, node[Other(i)], x + 1)
  BY <1>2, <1>4, SayIs
<1> HIDE DEF n
<1>6. node' = [j \in Computer |-> IF j = i THEN n ELSE node[Other(i)]]
  <2>1. node = [j \in Computer |-> node[j]]
    BY DEF IInv
  <2> QED BY <1>3, <2>1, OtherIs
<1>7. Pair(i, n, node[Other(i)], MaxTraffic - budget'.traffic)
  BY <1>2, <1>5
<1> QED BY <1>2, <1>6, <1>7, BothIs

\* IInv is inductive.
LEMMA Inductive ==
  ASSUME IInv, [Next]_vars
  PROVE  IInv'
<1> DEFINE x == MaxTraffic - budget.traffic
<1>1. CASE UNCHANGED vars
  BY <1>1 DEF IInv, vars
<1>2. ASSUME NEW i \in Computer, ProcessEvent(i) PROVE IInv'
  <2>1. Pair(i, OnThreadEvent([node[i] EXCEPT !.events = Tail(@)], Head(node[i].events)), node[Other(i)], x)
    BY <1>2, ProcessEventIs DEF IInv, ProcessEvent
  <2> QED BY <1>2, <2>1, ChangeIs DEF ProcessEvent
<1>3. ASSUME NEW i \in Computer, GoOn(i) PROVE IInv'
  <2>1. CASE node[i].clearing # {} /\ Change(i, CutLog(node[i]))
    <3>1. Pair(i, CutLog(node[i]), node[Other(i)], x)
      BY <2>1, CutLogIs DEF IInv
    <3> QED BY <1>3, <2>1, <3>1, ChangeIs DEF GoOn
  <2>2. CASE node[i].todo # <<>> /\ Change(i, DoJob([node[i] EXCEPT !.todo = Tail(@)], Head(node[i].todo)))
    <3>1. Pair(i, DoJob([node[i] EXCEPT !.todo = Tail(@)], Head(node[i].todo)), node[Other(i)], x)
      BY <2>2, DoJobIs DEF IInv
    <3> QED BY <1>3, <2>2, <3>1, ChangeIs DEF GoOn
  <2> QED BY <1>3, <2>1, <2>2 DEF GoOn
<1>4. ASSUME NEW i \in Computer, PingAll(i) PROVE IInv'
  <2> DEFINE n == Pinged(node[i], {c \in node[i].listed : isOpen(node[i], c)})
  <2>1. Change(i, n) /\ Spend("traffic")
    BY <1>4 DEF PingAll, Pinged
  <2>2. Pair(i, n, node[Other(i)], x)
    BY PingAllIs DEF IInv
  <2> HIDE DEF n
  <2> QED BY <2>1, <2>2, ChangeIs
<1>5. ASSUME NEW i \in Computer, NEW t \in {"Net", "Main"}, Speak(i, t) PROVE IInv'
  <2> DEFINE c == node[i].msg
  <2>1. Shape(node[i]) /\ Sockets(node[i], i) /\ isConnected(node[i]) /\ Say(i, c, t) /\ t \in Thread
    BY <1>5 DEF IInv, Pair, Local, Speak, Thread
  <2>2. c \in Conn
    BY <2>1 DEF Shape, isConnected
  <2>3. node[i].sock[c] \in {"Open", "Closed"}
    BY <2>1, <2>2 DEF Shape, Sockets, SocketOf, Socket
  <2> HIDE DEF c
  <2> QED BY <2>1, <2>2, <2>3, SaidIs
<1>6. ASSUME NEW i \in Computer, SpeakData(i) PROVE IInv'
  <2>1. PICK c \in DataConnections(node[i]) : Say(i, c, "Net")
    BY <1>6 DEF SpeakData
  <2>2. Shape(node[i]) /\ Sockets(node[i], i) /\ "Net" \in Thread
    BY DEF IInv, Pair, Local, Thread
  <2>3. c \in node[i].listed /\ isAccepted(node[i], c)
    BY <2>1 DEF DataConnections
  <2>4. c \in Conn /\ node[i].sock[c] = "Open"
    BY <2>2, <2>3 DEF Shape, Sockets, SocketOf, isAccepted, isOpen
  <2> QED BY <2>1, <2>2, <2>4, SaidIs
<1>7. ASSUME NEW i \in Computer, NEW c \in Conn, Connect(i, c) PROVE IInv'
  <2> DEFINE n == [SetStatus(node[i], c, "Connect") EXCEPT !.listed = @ \cup {c}, !.sock[c] = "Calling"]
  <2>1. Pair(i, n, node[Other(i)], x)
    BY <1>7, ConnectIs DEF IInv, Connect
  <2>2. Change(i, n) /\ UNCHANGED budget
    BY <1>7 DEF Connect
  <2> QED BY <2>1, <2>2, ChangeIs
<1>8. ASSUME NEW i \in Computer, NEW c \in Conn, Connected(i, c) PROVE IInv'
  <2>1. node[i].sock[c] = "Calling" \/ (Caller[c] # i /\ node[i].sock[c] = "None")
    BY <1>8 DEF Connected
  <2>2. Pair(i, OnConn(node[i], i, c), node[Other(i)], x)
    BY <2>1, OnConnIs DEF IInv
  <2> QED BY <1>8, <2>2, ChangeIs DEF Connected
<1>9. ASSUME NEW i \in Computer, NEW c \in Conn, Receive(i, c) PROVE IInv'
  <2> DEFINE j == Other(i)
             n == OnPacket(node[i], c, Head(node[j].wire[c]))
             u == [node[j] EXCEPT !.wire[c] = Tail(@)]
  <2>1. /\ node[i].todo = <<>> /\ node[i].sock[c] = "Open" /\ node[j].wire[c] # <<>> /\ UNCHANGED budget
        /\ node' = [node EXCEPT ![j].wire[c] = Tail(@), ![i] = n]
    BY <1>9 DEF Receive, Idle
  <2>2. Pair(i, n, u, x)
    BY <2>1, ReceiveIs DEF IInv
  <2>3. node' = [node EXCEPT ![j] = u, ![i] = n]
    BY <2>1
  <2> HIDE DEF n, u
  <2>4. node' = [k \in Computer |-> IF k = i THEN n ELSE u]
    <3>1. node = [k \in Computer |-> node[k]]
      BY DEF IInv
    <3> QED BY <2>3, <3>1, OtherIs
  <2>5. /\ budget' = [b \in {"traffic", "break"} |-> budget'[b]] /\ budget'.traffic \in 0..MaxTraffic
        /\ MaxTraffic - budget'.traffic = x
    BY <2>1 DEF IInv
  <2> HIDE DEF x
  <2> QED BY <2>2, <2>4, <2>5, BothIs
<1>10. ASSUME NEW i \in Computer, NEW c \in Conn, Break(i, c) PROVE IInv'
  <2>1. Pair(i, CloseSocket(node[i], c), node[Other(i)], x)
    BY CloseSocketIs DEF IInv
  <2>2. Change(i, CloseSocket(node[i], c)) /\ (UNCHANGED budget \/ Spend("break"))
    BY <1>10 DEF Break
  <2> QED BY <2>1, <2>2, ChangeIs
<1>11. ASSUME NEW i \in Computer, NEW c \in Conn, Timeout(i, c) PROVE IInv'
  <2>1. Pair(i, Close(node[i], c), node[Other(i)], x)
    BY <1>11, CloseIs DEF IInv, Timeout
  <2> QED BY <1>11, <2>1, ChangeIs DEF Timeout
<1>12. ASSUME NEW i \in Computer, NEW c \in Conn, Forget(i, c) PROVE IInv'
  <2>1. Pair(i, RemoveConnection(node[i], c), node[Other(i)], x)
    BY <1>12, ForgetIs DEF IInv, Forget, Idle
  <2> QED BY <1>12, <2>1, ChangeIs DEF Forget
<1> QED BY <1>1, <1>2, <1>3, <1>4, <1>5, <1>6, <1>7, <1>8, <1>9, <1>10, <1>11, <1>12 DEF Next

\* The first or the second kind of connection, if there is any.
LEMMA FirstIs ==
  ASSUME NEW S, NEW T
  PROVE  (IF S \cap Established # {} THEN CHOOSE c \in S \cap Established : TRUE
          ELSE IF T \cap Established # {} THEN CHOOSE c \in T \cap Established : TRUE ELSE NoConn) \in Established \cup {NoConn}
<1>1. CASE S \cap Established # {}
  BY <1>1
<1>2. CASE S \cap Established = {} /\ T \cap Established # {}
  BY <1>2
<1> QED BY <1>1, <1>2

LEMMA NewIs ==
  ASSUME NEW i
  PROVE  Local(i, New(i), 0)
<1> DEFINE m == New(i)
<1>1. /\ m = [f \in Fields |-> m[f]]
      /\ m.status = [c \in Conn |-> IF c \in Established THEN "Accepted" ELSE "None"] /\ m.listed = Established
      /\ m.out = [c \in Conn |-> 0] /\ m.in = [c \in Conn |-> 0] /\ m.pmSent = [c \in Conn |-> -1]
      /\ m.log = [c \in Conn |-> <<>>] /\ m.wire = [c \in Conn |-> <<>>] /\ m.sent = [c \in Conn |-> <<>>]
      /\ m.sock = [c \in Conn |-> IF c \in Established THEN "Open" ELSE "None"]
      /\ m.clearing = {} /\ m.todo = <<>> /\ m.events = <<>> /\ m.gone = FALSE /\ m.handled = [t \in {"Net", "Main"} |-> <<>>]
  BY DEF New, Fields
<1>2. m.msg \in Established \cup {NoConn} /\ m.data \in Established \cup {NoConn}
  BY FirstIs DEF New
<1> HIDE DEF m
<1>3. Shape(m)
  <2>1. m.status \in [Conn -> Status] /\ m.sock \in [Conn -> Socket] /\ m.listed \in SUBSET Conn
    BY <1>1, ConnAssumption DEF Status, Socket
  <2>2. m.in \in [Conn -> Nat] /\ m.out \in [Conn -> Nat] /\ m.pmSent \in [Conn -> Nat \cup {-1}]
    BY <1>1
  <2>3. m.msg \in Conn \cup {NoConn} /\ m.data \in Conn \cup {NoConn} /\ m.gone \in BOOLEAN
    BY <1>1, <1>2, ConnAssumption
  <2>4. IsSeqs(m.wire, Conn) /\ IsSeqs(m.sent, Conn) /\ IsSeqs(m.log, Conn) /\ IsSeqs(m.handled, Thread)
    BY <1>1, EmptyIs DEF IsSeqs, Thread
  <2>5. /\ IsSeq(m.events) /\ IsSeq(m.todo) /\ (\A q \in m.clearing : q.conn \in Conn)
        /\ \A b \in 1..Len(m.events) : Notice(m.events[b])
    <3>1. Len(m.events) = 0 /\ 1..0 = {}
      BY <1>1, EmptyIs
    <3>2. \A b \in 1..Len(m.events) : Notice(m.events[b])
      BY <3>1
    <3>3. IsSeq(m.events) /\ IsSeq(m.todo) /\ (\A q \in m.clearing : q.conn \in Conn)
      BY <1>1, EmptyIs
    <3> QED BY <3>2, <3>3
  <2> QED BY <1>1, <2>1, <2>2, <2>3, <2>4, <2>5 DEF Shape
<1>4. Sockets(m, i)
  <2> SUFFICES ASSUME NEW c \in Conn PROVE SocketOf(m, i, c)
    BY DEF Sockets
  <2>1. m.sent[c] = <<>>
    BY <1>1
  <2>2. CASE c \in Established
    <3>1. m.status[c] = "Accepted" /\ m.sock[c] = "Open" /\ c \in m.listed
      BY <1>1, <2>2
    <3> QED BY <2>1, <3>1 DEF SocketOf, isOpen, isClosed
  <2>3. CASE c \notin Established
    <3>1. m.status[c] = "None" /\ m.sock[c] = "None" /\ c \notin m.listed
      BY <1>1, <2>3
    <3>2. c # m.msg /\ c # m.data
      BY <1>2, <2>3, ConnAssumption
    <3> QED BY <2>1, <3>1, <3>2 DEF SocketOf, isOpen, isClosed
  <2> QED BY <2>2, <2>3
<1>5. \A c \in Conn : m.sent[c] = <<>> /\ m.log[c] = <<>> /\ m.out[c] = 0 /\ Len(m.sent[c]) = 0 /\ Len(m.log[c]) = 0
  BY <1>1, EmptyIs
<1>6. Logs(m)
  BY <1>5 DEF Logs
<1>7. Sendings(m) /\ Numbered(m, 0)
  BY <1>5 DEF Sendings, Numbered
<1> QED BY <1>3, <1>4, <1>6, <1>7 DEF Local, m

LEMMA NewLink ==
  ASSUME NEW i, NEW j
  PROVE  Link(New(i), New(j))
<1> DEFINE s == New(i)
           r == New(j)
<1>1. /\ \A c \in Conn : s.wire[c] = <<>> /\ s.sent[c] = <<>> /\ r.in[c] = 0
      /\ r.todo = <<>> /\ r.events = <<>> /\ \A t \in Thread : r.handled[t] = <<>>
  BY DEF New, Thread
<1> HIDE DEF s, r
<1>2. Len(<<>>) = 0 /\ 1..0 = {}
  BY EmptyIs
<1>3. \A full : Follows(<<>>, 0, <<>>, full)
  <2> DEFINE g == [x \in {0} |-> 0]
  <2>1. g \in [0..0 -> 0..0] /\ g[0] = 0
    OBVIOUS
  <2> HIDE DEF g
  <2> QED BY <1>2, <2>1 DEF Follows
<1>4. Wires(s, r)
  BY <1>1, <1>3 DEF Wires
<1>5. Waiting(r) = {}
  BY <1>1, <1>2 DEF Waiting
<1>6. Seen(r, s) /\ Orderly(r)
  <2>1. "Main" \in Thread
    BY DEF Thread
  <2> QED BY <1>1, <1>2, <1>5, <2>1 DEF Seen, Orderly
<1>7. Recovery(r, s)
  BY <1>1, <1>2 DEF Recovery
<1> QED BY <1>4, <1>6, <1>7 DEF Link, s, r

LEMMA InitIs ==
  ASSUME Init
  PROVE  IInv
<1>1. node = [i \in Computer |-> New(i)] /\ budget = [traffic |-> MaxTraffic, break |-> MaxBreak] /\ MaxTraffic \in Nat
  BY BoundAssumption DEF Init
<1>2. \A i \in Computer : node[i] = New(i) /\ node[Other(i)] = New(Other(i))
  BY <1>1, OtherIs
<1>3. \A i \in Computer : Pair(i, New(i), New(Other(i)), 0)
  BY NewIs, NewLink DEF Pair
<1>4. budget = [b \in {"traffic", "break"} |-> budget[b]] /\ budget.traffic \in 0..MaxTraffic /\ MaxTraffic - budget.traffic = 0
  BY <1>1
<1>5. \A i \in Computer : Pair(i, node[i], node[Other(i)], MaxTraffic - budget.traffic)
  BY <1>2, <1>3, <1>4
<1>6. node = [i \in Computer |-> node[i]]
  BY <1>1
<1> QED BY <1>4, <1>5, <1>6 DEF IInv

\* What the threads have handled was sent once each, and is in order.
LEMMA OnceInOrder ==
  ASSUME IInv
  PROVE  HandledOnceInOrder
<1> SUFFICES ASSUME NEW j \in Computer, NEW t \in Thread, NEW u \in Thread,
                    NEW a \in 1..Len(node[j].handled[t]), NEW b \in 1..Len(node[j].handled[u])
             PROVE  LET p == node[j].handled[t][a]
                        q == node[j].handled[u][b]
                    IN  /\ p.id = q.id => t = u /\ a = b
                        /\ t = u /\ a < b /\ p.conn = q.conn => p.id < q.id
  BY DEF HandledOnceInOrder, Thread
<1> DEFINE m == node[j]
           o == node[Other(j)]
           p == m.handled[t][a]
           q == m.handled[u][b]
<1>1. Shape(m) /\ Sendings(o) /\ Seen(m, o) /\ Orderly(m)
  BY DEF IInv, Pair, Local, Link
<1>2. Len(m.handled[t]) \in Nat /\ Len(m.handled[u]) \in Nat
  BY <1>1, SeqIs DEF Shape, IsSeqs
<1>3. Came(m, o, t, p) /\ Came(m, o, u, q)
  BY <1>1 DEF Seen
<1>4. t = u /\ a < b => Before(p, q)
  BY <1>1 DEF Orderly
<1>5. t = u /\ b < a => Before(q, p)
  BY <1>1 DEF Orderly
<1>6. a \in Int /\ b \in Int
  BY <1>2
<1> HIDE DEF m, o, p, q
<1>7. PICK k : At(o, p.conn, k, p)
  BY <1>3 DEF Came
<1>8. PICK l : At(o, q.conn, l, q)
  BY <1>3 DEF Came
<1>9. IsMessage(p) /\ IsMessage(q) /\ p.thread = t /\ q.thread = u
  BY <1>3 DEF Came
<1>10. Distinct(p.conn, k, p, q.conn, l, q) /\ Proper(o, p.conn, p)
  BY <1>1, <1>7, <1>8 DEF At, Sendings
<1>11. p.id \in Nat
  BY <1>9, <1>10 DEF Proper, IsMessage
<1>12. ASSUME p.id = q.id PROVE t = u /\ a = b
  <2>1. p.conn = q.conn /\ k = l
    BY <1>9, <1>10, <1>12 DEF Distinct
  <2>2. p = q
    BY <1>7, <1>8, <2>1 DEF At
  <2>3. t = u
    BY <1>9, <2>2
  <2>4. ~(p.id < q.id) /\ ~(q.id < p.id)
    BY <1>11, <1>12
  <2>5. ~(a < b) /\ ~(b < a)
    BY <1>4, <1>5, <2>1, <2>3, <2>4 DEF Before
  <2> QED BY <1>6, <2>3, <2>5
<1>13. t = u /\ a < b /\ p.conn = q.conn => p.id < q.id
  BY <1>4 DEF Before
<1> QED BY <1>12, <1>13 DEF p, q, m

-----------------------------------------------------------------------------
\* A message is handled once, though it may come off the wire and in a post mortem,
\* and a thread handles the messages of one connection in the order they were sent:
\* C4Network2IO counts what comes off the wire, C4PacketPostMortem takes up where
\* the count ends, and the connection is removed after that.
THEOREM OnceAndInOrder == Spec => []HandledOnceInOrder
<1>1. Init => IInv
  BY InitIs
<1>2. IInv /\ [Next]_vars => IInv'
  BY Inductive
<1>3. IInv => HandledOnceInOrder
  BY OnceInOrder
<1> QED BY <1>1, <1>2, <1>3, PTL DEF Spec

-----------------------------------------------------------------------------
(* No message vanishes if AtomicClear.  Again, s sends and r receives.     *)

\* A message came to r, and is in no post mortem any more.
Direct(r, x) ==
    \/ \E t \in Thread : \E a \in 1..Len(r.handled[t]) : r.handled[t][a].id = x
    \/ \E d \in r.dropped : d[1] = x
    \/ \E b \in 1..Len(r.events) : r.events[b].type = "Packet" /\ x \in Ids(r.events[b].pkt)

\* It is in the packet p, which waits for r to go on, or which r has in its hand.
Waits(r, H, x, p) == /\ x \in Ids(p)
                     /\ p \in H \/ \E y \in 1..Len(r.todo) : r.todo[y].type = "Packet" /\ r.todo[y].pkt = p

InLog(s, r, x) ==
    \E c \in Conn : /\ s.pmSent[c] = -1
                    /\ \E k \in 1..Len(s.log[c]) : s.log[c][k].num >= r.in[c] /\ x \in Ids(s.log[c][k].pkt)

\* A post mortem may hold others.  A is the order in which they were made.
Inside(p, q, A) == \/ IsMessage(p)
                   \/ /\ p.type = "PostMortem" /\ q.type = "PostMortem" /\ p.conn \in Conn /\ q.conn \in Conn
                      /\ A[p.conn] < A[q.conn]

\* When there is a post mortem of a connection, it is closed and will not be used.
Whole(m) ==
    /\ m.clearing = {}
    /\ \A c \in Conn : m.pmSent[c] # -1 => isClosed(m, c) /\ c # m.msg /\ c # m.data
    /\ \A b \in 1..Len(m.events) : m.events[b].type = "Disconn" => isClosed(m, m.events[b].conn)

\* A post mortem begins with a packet that r has counted, or with the next one.
Made(r, d, p, A) ==
    p.type = "PostMortem" => /\ \A x : x \in p.ids <=> \E k \in 1..Len(p.pkts) : x \in Ids(p.pkts[k])
                             /\ p.counter - Len(p.pkts) <= r.in[p.conn] /\ A[p.conn] < A[d]

\* So does the log.
Counts(s, r, c) == r.in[c] <= Len(s.sent[c]) /\ s.out[c] - Len(s.log[c]) <= r.in[c]

Pings(r) == \A c \in Conn : \A y \in 1..Len(r.wire[c]) :
                r.wire[c][y].type = "Ping" => r.wire[c][y].counter \in Nat /\ r.wire[c][y].counter <= r.in[c]

\* What was counted came; what was sent came, will come or is in a log.
Covered(r, H, q, A) == \A x \in Ids(q) : Direct(r, x) \/ \E p : Waits(r, H, x, p) /\ (p = q \/ Inside(p, q, A))
Safe(s, r, H, q)    == \A x \in Ids(q) : Direct(r, x) \/ InLog(s, r, x) \/ \E p : Waits(r, H, x, p)

Kept(s, r, A, H) ==
    /\ \A c \in Conn : Counts(s, r, c)
    /\ \A c \in Conn : \A k \in 1..Len(s.sent[c]) : Made(r, c, s.sent[c][k], A)
    /\ Pings(r)
    /\ ~r.gone => \A c \in Conn : \A k \in 1..r.in[c] : Covered(r, H, s.sent[c][k], A)
    /\ ~r.gone /\ ~s.gone => \A c \in Conn : \A k \in 1..Len(s.sent[c]) : Safe(s, r, H, s.sent[c][k])

Ages == [Conn -> Nat]

\* Of two computers, the first has the packets H in its hand.
Sure(m, o, H) == /\ Whole(m) /\ Whole(o)
                 /\ \E A \in Ages : Kept(m, o, A, {})
                 /\ \E A \in Ages : Kept(o, m, A, H)

VInv == \A i \in Computer : Sure(node[i], node[Other(i)], {})

-----------------------------------------------------------------------------
(* Steps that send and take nothing that matters here.                     *)

AsSender(m, n) ==
    /\ n.sent = m.sent /\ n.out = m.out /\ n.log = m.log /\ n.pmSent = m.pmSent /\ (m.gone => n.gone)
AsReceiver(m, n) ==
    /\ n.in = m.in /\ n.todo = m.todo /\ (m.gone => n.gone) /\ (Pings(m) => Pings(n))
    /\ ~n.gone => \A x : Direct(m, x) => Direct(n, x)
Plain(m, n) == AsSender(m, n) /\ AsReceiver(m, n) /\ (Whole(m) => Whole(n))

LEMMA PlainTwice ==
  ASSUME NEW m, NEW k, NEW n, Plain(m, k), Plain(k, n)
  PROVE  Plain(m, n)
BY DEF Plain, AsSender, AsReceiver

LEMMA SenderKept ==
  ASSUME NEW m, NEW n, NEW o, NEW A, NEW H, AsSender(m, n), Kept(m, o, A, H)
  PROVE  Kept(n, o, A, H)
<1>1. \A x : InLog(m, o, x) => InLog(n, o, x)
  BY DEF AsSender, InLog
<1>2. \A c : Counts(m, o, c) => Counts(n, o, c)
  BY DEF AsSender, Counts
<1>3. ~o.gone /\ ~n.gone => \A c \in Conn : \A k \in 1..Len(n.sent[c]) : Safe(n, o, H, n.sent[c][k])
  <2>1. \A q : Safe(m, o, H, q) => Safe(n, o, H, q)
    BY <1>1 DEF Safe
  <2> QED BY <2>1 DEF AsSender, Kept
<1> QED BY <1>2, <1>3 DEF AsSender, Kept

LEMMA ReceiverKept ==
  ASSUME NEW m, NEW n, NEW o, NEW A, NEW H, AsReceiver(m, n), Kept(o, m, A, H)
  PROVE  Kept(o, n, A, H)
<1>1. n.in = m.in /\ n.todo = m.todo /\ (m.gone => n.gone)
  BY DEF AsReceiver
<1>2. \A x : InLog(o, m, x) <=> InLog(o, n, x)
  BY <1>1 DEF InLog
<1>3. \A x, p : Waits(m, H, x, p) <=> Waits(n, H, x, p)
  BY <1>1 DEF Waits
<1>4. ~n.gone => \A x : Direct(m, x) => Direct(n, x)
  BY DEF AsReceiver
<1>5. \A c : Counts(o, m, c) => Counts(o, n, c)
  BY <1>1 DEF Counts
<1>6. \A d, p : Made(m, d, p, A) => Made(n, d, p, A)
  BY <1>1 DEF Made
<1>7. ~n.gone => \A q : (Covered(m, H, q, A) => Covered(n, H, q, A)) /\ (Safe(o, m, H, q) => Safe(o, n, H, q))
  BY <1>2, <1>3, <1>4 DEF Covered, Safe
<1>8. Pings(n)
  BY DEF AsReceiver, Kept
<1>9. ~n.gone => \A c \in Conn : \A k \in 1..n.in[c] : Covered(n, H, o.sent[c][k], A)
  BY <1>1, <1>7 DEF Kept
<1>10. ~n.gone /\ ~o.gone => \A c \in Conn : \A k \in 1..Len(o.sent[c]) : Safe(o, n, H, o.sent[c][k])
  BY <1>1, <1>7 DEF Kept
<1>11. /\ \A c \in Conn : Counts(o, n, c)
       /\ \A c \in Conn : \A k \in 1..Len(o.sent[c]) : Made(n, c, o.sent[c][k], A)
  BY <1>5, <1>6 DEF Kept
<1> QED BY <1>8, <1>9, <1>10, <1>11 DEF Kept

LEMMA PlainSure ==
  ASSUME NEW m, NEW n, NEW o, NEW H, Plain(m, n), Sure(m, o, H)
  PROVE  Sure(n, o, H)
BY SenderKept, ReceiverKept DEF Plain, Sure

LEMMA SureTurned ==
  ASSUME NEW m, NEW o, Sure(m, o, {})
  PROVE  Sure(o, m, {})
BY DEF Sure

\* Nothing here depends on sockets and lists.
LEMMA SomePlain ==
  ASSUME NEW m, NEW n, \A f \in Fields \ {"sock", "listed", "auto", "connSent"} : n[f] = m[f]
  PROVE  Plain(m, n)
<1>1. /\ n.in = m.in /\ n.out = m.out /\ n.todo = m.todo /\ n.log = m.log /\ n.pmSent = m.pmSent /\ n.events = m.events
      /\ n.sent = m.sent /\ n.handled = m.handled /\ n.wire = m.wire /\ n.status = m.status /\ n.dropped = m.dropped
      /\ n.gone = m.gone /\ n.msg = m.msg /\ n.data = m.data /\ n.clearing = m.clearing
  BY DEF Fields
<1> QED BY <1>1 DEF Plain, AsSender, AsReceiver, Direct, Pings, Whole, isClosed

LEMMA StatusPlain ==
  ASSUME NEW m, Shape(m), NEW c \in Conn, NEW st \in Status, isClosed(m, c) => st \in {"Closed", "ConnectFail"}
  PROVE  Plain(m, SetStatus(m, c, st)) /\ Shape(SetStatus(m, c, st)) /\ SetStatus(m, c, st).status[c] = st
<1> DEFINE n == SetStatus(m, c, st)
<1>1. n = [f \in Fields |-> n[f]] /\ n.status = [m.status EXCEPT ![c] = st] /\ \A f \in Fields \ {"status"} : n[f] = m[f]
  BY DEF Shape, Fields, SetStatus
<1> HIDE DEF n
<1>2. /\ n.in = m.in /\ n.out = m.out /\ n.todo = m.todo /\ n.log = m.log /\ n.pmSent = m.pmSent /\ n.events = m.events
      /\ n.sent = m.sent /\ n.handled = m.handled /\ n.wire = m.wire /\ n.dropped = m.dropped /\ n.sock = m.sock
      /\ n.gone = m.gone /\ n.msg = m.msg /\ n.data = m.data /\ n.clearing = m.clearing /\ n.listed = m.listed
  BY <1>1 DEF Fields
<1>3. m.status \in [Conn -> Status] /\ \A b \in 1..Len(m.events) : m.events[b].conn \in Conn
  BY DEF Shape, Notice
<1>4. n.status \in [Conn -> Status] /\ n.status[c] = st /\ \A d \in Conn \ {c} : n.status[d] = m.status[d]
  BY <1>1, <1>3
<1>5. \A d \in Conn : isClosed(m, d) => isClosed(n, d)
  BY <1>4 DEF isClosed
<1>6. Whole(m) => Whole(n)
  BY <1>2, <1>3, <1>5 DEF Whole
<1>7. Plain(m, n)
  BY <1>2, <1>6 DEF Plain, AsSender, AsReceiver, Direct, Pings
<1>8. Shape(n)
  BY <1>1, <1>2, <1>4 DEF Shape
<1> QED BY <1>4, <1>7, <1>8 DEF n

\* Answers, and what else is not kept and says nothing of the log.
LEMMA TransmitPlain ==
  ASSUME NEW m, Shape(m), NEW c \in Conn, NEW p, p.type \in {"Conn", "ConnRe"}
  PROVE  Plain(m, Send(m, c, p)) /\ Shape(Send(m, c, p)) /\ Send(m, c, p).status = m.status
<1> DEFINE n == [m EXCEPT !.wire[c] = Append(@, p)]
<1>1. Send(m, c, p) \in {m, n}
  BY DEF Send, Transmit, Logged
<1>2. /\ n = [f \in Fields |-> n[f]] /\ n.wire = [m.wire EXCEPT ![c] = Append(@, p)]
      /\ \A f \in Fields \ {"wire"} : n[f] = m[f]
  BY DEF Shape, Fields
<1> HIDE DEF n
<1>3. /\ n.in = m.in /\ n.out = m.out /\ n.todo = m.todo /\ n.log = m.log /\ n.pmSent = m.pmSent /\ n.events = m.events
      /\ n.sent = m.sent /\ n.handled = m.handled /\ n.dropped = m.dropped /\ n.sock = m.sock /\ n.status = m.status
      /\ n.gone = m.gone /\ n.msg = m.msg /\ n.data = m.data /\ n.clearing = m.clearing /\ n.listed = m.listed
  BY <1>2 DEF Fields
<1>4. m.wire = [d \in Conn |-> m.wire[d]] /\ \A d \in Conn : IsSeq(m.wire[d])
  BY DEF Shape, IsSeqs
<1>5. n.wire = [d \in Conn |-> n.wire[d]] /\ n.wire[c] = Append(m.wire[c], p) /\ \A d \in Conn \ {c} : n.wire[d] = m.wire[d]
  BY <1>2, <1>4
<1>6. /\ IsSeq(n.wire[c]) /\ Len(m.wire[c]) \in Nat /\ Len(n.wire[c]) = Len(m.wire[c]) + 1
      /\ n.wire[c][Len(m.wire[c]) + 1] = p /\ \A y \in 1..Len(m.wire[c]) : n.wire[c][y] = m.wire[c][y]
  <2> DEFINE v == Append(m.wire[c], p)
  <2>1. /\ IsSeq(v) /\ Len(v) = Len(m.wire[c]) + 1 /\ v[Len(m.wire[c]) + 1] = p
        /\ \A y \in 1..Len(m.wire[c]) : v[y] = m.wire[c][y]
    BY <1>4, AppendIs
  <2>2. Len(m.wire[c]) \in Nat
    BY <1>4, SeqIs
  <2> HIDE DEF v
  <2>3. n.wire[c] = v
    BY <1>5 DEF v
  <2> QED BY <2>1, <2>2, <2>3
<1>7. ASSUME Pings(m) PROVE Pings(n)
  <2> SUFFICES ASSUME NEW d \in Conn, NEW y \in 1..Len(n.wire[d]), n.wire[d][y].type = "Ping"
               PROVE  n.wire[d][y].counter \in Nat /\ n.wire[d][y].counter <= n.in[d]
    BY DEF Pings
  <2>1. y \in 1..Len(m.wire[d]) /\ n.wire[d][y] = m.wire[d][y]
    <3>1. CASE d # c
      BY <1>5, <3>1
    <3>2. CASE d = c
      <4> DEFINE L == Len(m.wire[c])
      <4>1. y \in 1..L + 1 /\ L \in Nat /\ y # L + 1
        BY <1>6, <3>2
      <4> HIDE DEF L
      <4>2. y \in 1..L
        BY <4>1
      <4> QED BY <1>6, <3>2, <4>2 DEF L
    <3> QED BY <3>1, <3>2
  <2> QED BY <1>3, <1>7, <2>1 DEF Pings
<1>8. Plain(m, n)
  BY <1>3, <1>7 DEF Plain, AsSender, AsReceiver, Direct, Whole, isClosed
<1>9. Shape(n)
  <2>1. IsSeqs(n.wire, Conn)
    BY <1>4, <1>5, <1>6 DEF IsSeqs
  <2> QED BY <1>2, <1>3, <2>1 DEF Shape
<1>10. Plain(m, m)
  BY DEF Plain, AsSender, AsReceiver
<1> QED BY <1>1, <1>3, <1>8, <1>9, <1>10 DEF n

LEMMA EventPlain ==
  ASSUME NEW m, Shape(m), NEW e, Notice(e), e.type = "Disconn" => isClosed(m, e.conn)
  PROVE  /\ Plain(m, PushEvent(m, e)) /\ Shape(PushEvent(m, e))
         /\ e.type = "Packet" => \A x \in Ids(e.pkt) : Direct(PushEvent(m, e), x)
<1> DEFINE n == PushEvent(m, e)
<1>1. n = [f \in Fields |-> n[f]] /\ n.events = Append(m.events, e) /\ \A f \in Fields \ {"events"} : n[f] = m[f]
  BY DEF Shape, Fields, PushEvent
<1> HIDE DEF n
<1>2. /\ n.in = m.in /\ n.out = m.out /\ n.todo = m.todo /\ n.log = m.log /\ n.pmSent = m.pmSent /\ n.wire = m.wire
      /\ n.sent = m.sent /\ n.handled = m.handled /\ n.dropped = m.dropped /\ n.sock = m.sock /\ n.status = m.status
      /\ n.gone = m.gone /\ n.msg = m.msg /\ n.data = m.data /\ n.clearing = m.clearing /\ n.listed = m.listed
  BY <1>1 DEF Fields
<1>3. IsSeq(m.events)
  BY DEF Shape
<1>4. /\ IsSeq(n.events) /\ Len(m.events) \in Nat /\ Len(n.events) = Len(m.events) + 1
      /\ n.events[Len(m.events) + 1] = e /\ \A b \in 1..Len(m.events) : n.events[b] = m.events[b]
  <2> DEFINE v == Append(m.events, e)
  <2>1. /\ IsSeq(v) /\ Len(v) = Len(m.events) + 1 /\ v[Len(m.events) + 1] = e
        /\ \A b \in 1..Len(m.events) : v[b] = m.events[b]
    BY <1>3, AppendIs
  <2>2. Len(m.events) \in Nat
    BY <1>3, SeqIs
  <2> HIDE DEF v
  <2>3. n.events = v
    BY <1>1 DEF v
  <2> QED BY <2>1, <2>2, <2>3
<1>5. \A b \in 1..Len(n.events) : b \in 1..Len(m.events) \/ n.events[b] = e
  BY <1>4
<1>6. Len(m.events) + 1 \in 1..Len(n.events) /\ \A b \in 1..Len(m.events) : b \in 1..Len(n.events)
  BY <1>4
<1>7. \A x : Direct(m, x) => Direct(n, x)
  BY <1>2, <1>4, <1>6 DEF Direct
<1>8. e.type = "Packet" => \A x \in Ids(e.pkt) : Direct(n, x)
  BY <1>4, <1>6 DEF Direct
<1>9. ASSUME Whole(m) PROVE Whole(n)
  <2>1. \A d : isClosed(n, d) <=> isClosed(m, d)
    BY <1>2 DEF isClosed
  <2>2. \A b \in 1..Len(n.events) : n.events[b].type = "Disconn" => isClosed(n, n.events[b].conn)
    BY <1>4, <1>5, <1>9, <2>1 DEF Whole
  <2> QED BY <1>2, <1>9, <2>1, <2>2 DEF Whole
<1>10. Plain(m, n)
  BY <1>2, <1>7, <1>9 DEF Plain, AsSender, AsReceiver, Pings
<1>11. Shape(n)
  <2>1. \A b \in 1..Len(n.events) : Notice(n.events[b])
    BY <1>4, <1>5 DEF Shape
  <2> QED BY <1>1, <1>2, <1>4, <2>1 DEF Shape
<1> QED BY <1>8, <1>10, <1>11 DEF n

\* Another connection for messages or data, which is not closed.
LEMMA ChoicePlain ==
  ASSUME NEW m, NEW n, \A f \in Fields \ {"msg", "data"} : n[f] = m[f],
         \A c \in Conn : c \in {n.msg, n.data} => c \in {m.msg, m.data} \/ ~isClosed(m, c)
  PROVE  Plain(m, n)
<1>1. /\ n.in = m.in /\ n.out = m.out /\ n.todo = m.todo /\ n.log = m.log /\ n.pmSent = m.pmSent /\ n.events = m.events
      /\ n.sent = m.sent /\ n.handled = m.handled /\ n.wire = m.wire /\ n.status = m.status /\ n.dropped = m.dropped
      /\ n.gone = m.gone /\ n.clearing = m.clearing
  BY DEF Fields
<1>2. Whole(m) => Whole(n)
  <2> SUFFICES ASSUME Whole(m) PROVE Whole(n)
    OBVIOUS
  <2>1. \A c \in Conn : n.pmSent[c] # -1 => isClosed(n, c) /\ c # n.msg /\ c # n.data
    BY <1>1 DEF Whole, isClosed
  <2> QED BY <1>1, <2>1 DEF Whole, isClosed
<1> QED BY <1>1, <1>2 DEF Plain, AsSender, AsReceiver, Direct, Pings

LEMMA DropPlain ==
  ASSUME NEW m, Shape(m), NEW p, NEW way
  PROVE  Plain(m, Drop(m, p, way)) /\ \A x \in Ids(p) : Direct(Drop(m, p, way), x)
<1> DEFINE n == Drop(m, p, way)
<1>1. n = [f \in Fields |-> n[f]] /\ n.dropped = m.dropped \cup {<<id, way>> : id \in Ids(p)} /\ \A f \in Fields \ {"dropped"} : n[f] = m[f]
  BY DEF Shape, Fields, Drop
<1> HIDE DEF n
<1>2. /\ n.in = m.in /\ n.out = m.out /\ n.todo = m.todo /\ n.log = m.log /\ n.pmSent = m.pmSent /\ n.events = m.events
      /\ n.sent = m.sent /\ n.handled = m.handled /\ n.wire = m.wire /\ n.status = m.status
      /\ n.gone = m.gone /\ n.clearing = m.clearing /\ n.msg = m.msg /\ n.data = m.data
  BY <1>1 DEF Fields
<1>3. \A x : Direct(m, x) => Direct(n, x)
  BY <1>1, <1>2 DEF Direct
<1>4. ASSUME NEW x \in Ids(p) PROVE Direct(n, x)
  <2>1. <<x, way>> \in n.dropped /\ <<x, way>>[1] = x
    BY <1>1
  <2> QED BY <2>1 DEF Direct
<1> QED BY <1>2, <1>3, <1>4 DEF n, Plain, AsSender, AsReceiver, Pings, Whole, isClosed

LEMMA HandledPlain ==
  ASSUME NEW m, Shape(m), NEW t \in Thread, NEW p
  PROVE  LET n == [m EXCEPT !.handled[t] = Append(@, p)] IN Plain(m, n) /\ Direct(n, p.id)
<1> DEFINE n == [m EXCEPT !.handled[t] = Append(@, p)]
<1>1. n = [f \in Fields |-> n[f]] /\ n.handled = [m.handled EXCEPT ![t] = Append(@, p)] /\ \A f \in Fields \ {"handled"} : n[f] = m[f]
  BY DEF Shape, Fields
<1> HIDE DEF n
<1>2. /\ n.in = m.in /\ n.out = m.out /\ n.todo = m.todo /\ n.log = m.log /\ n.pmSent = m.pmSent /\ n.events = m.events
      /\ n.sent = m.sent /\ n.dropped = m.dropped /\ n.wire = m.wire /\ n.status = m.status
      /\ n.gone = m.gone /\ n.clearing = m.clearing /\ n.msg = m.msg /\ n.data = m.data
  BY <1>1 DEF Fields
<1>3. m.handled = [u \in Thread |-> m.handled[u]] /\ \A u \in Thread : IsSeq(m.handled[u])
  BY DEF Shape, IsSeqs
<1>4. n.handled[t] = Append(m.handled[t], p) /\ \A u \in Thread \ {t} : n.handled[u] = m.handled[u]
  BY <1>1, <1>3
<1>5. /\ Len(m.handled[t]) \in Nat /\ Len(n.handled[t]) = Len(m.handled[t]) + 1
      /\ n.handled[t][Len(m.handled[t]) + 1] = p /\ \A a \in 1..Len(m.handled[t]) : n.handled[t][a] = m.handled[t][a]
  BY <1>3, <1>4, AppendIs, SeqIs
<1>6. Len(m.handled[t]) + 1 \in 1..Len(n.handled[t]) /\ \A a \in 1..Len(m.handled[t]) : a \in 1..Len(n.handled[t])
  BY <1>5
<1>7. Direct(n, p.id)
  BY <1>5, <1>6 DEF Direct
<1>8. \A u \in Thread : \A a \in 1..Len(m.handled[u]) : a \in 1..Len(n.handled[u]) /\ n.handled[u][a] = m.handled[u][a]
  BY <1>4, <1>5, <1>6
<1>9. \A x : Direct(m, x) => Direct(n, x)
  BY <1>2, <1>8 DEF Direct
<1> QED BY <1>2, <1>7, <1>9 DEF n, Plain, AsSender, AsReceiver, Pings, Whole, isClosed

LEMMA GonePlain ==
  ASSUME NEW m, Shape(m)
  PROVE  Plain(m, OnClientDisconnect(m))
<1> DEFINE n == [m EXCEPT !.gone = TRUE, !.events = <<>>]
<1>1. n.gone = TRUE /\ n.events = <<>> /\ \A f \in Fields \ {"gone", "events"} : n[f] = m[f]
  BY DEF Shape, Fields
<1>2. OnClientDisconnect(m) \in {m, n}
  BY DEF OnClientDisconnect
<1> HIDE DEF n
<1>3. /\ n.in = m.in /\ n.out = m.out /\ n.todo = m.todo /\ n.log = m.log /\ n.pmSent = m.pmSent
      /\ n.sent = m.sent /\ n.wire = m.wire /\ n.status = m.status /\ n.clearing = m.clearing /\ n.msg = m.msg /\ n.data = m.data
  BY <1>1 DEF Fields
<1>4. \A b \in 1..Len(n.events) : FALSE
  BY <1>1, EmptyIs
<1>5. Plain(m, n)
  BY <1>1, <1>3, <1>4 DEF Plain, AsSender, AsReceiver, Pings, Whole, isClosed
<1>6. Plain(m, m)
  BY DEF Plain, AsSender, AsReceiver
<1> QED BY <1>2, <1>5, <1>6

-----------------------------------------------------------------------------
(* The handlers that are plain.                                            *)

LEMMA ListPlain ==
  ASSUME NEW m, Shape(m), NEW n, n = [f \in Fields |-> n[f]], \A f \in Fields \ {"sock", "listed", "connSent", "auto"} : n[f] = m[f],
         n.sock \in [Conn -> Socket], n.listed \in SUBSET Conn
  PROVE  Plain(m, n) /\ Shape(n) /\ n.status = m.status
<1>1. /\ n.in = m.in /\ n.out = m.out /\ n.todo = m.todo /\ n.log = m.log /\ n.pmSent = m.pmSent /\ n.events = m.events
      /\ n.sent = m.sent /\ n.handled = m.handled /\ n.wire = m.wire /\ n.status = m.status /\ n.dropped = m.dropped
      /\ n.gone = m.gone /\ n.msg = m.msg /\ n.data = m.data /\ n.clearing = m.clearing
  BY DEF Fields
<1>2. Shape(n)
  BY <1>1 DEF Shape
<1> QED BY <1>1, <1>2, SomePlain

LEMMA SamePlain == \A m : Plain(m, m)
BY DEF Plain, AsSender, AsReceiver

LEMMA OnDisconnPlain ==
  ASSUME NEW m, Shape(m), NEW c \in Conn
  PROVE  Plain(m, OnDisconn(m, c)) /\ Shape(OnDisconn(m, c))
<1> DEFINE st == IF isHalfAccepted(m, c) THEN "Closed" ELSE "ConnectFail"
           k == IF isClosed(m, c) THEN m ELSE SetStatus(m, c, st)
<1>1. st \in Status /\ st \in {"Closed", "ConnectFail"}
  BY DEF Status
<1> HIDE DEF st
<1>2. Plain(m, k) /\ Shape(k) /\ isClosed(k, c)
  <2>1. CASE isClosed(m, c)
    BY <2>1, SamePlain
  <2>2. CASE ~isClosed(m, c)
    <3>1. Plain(m, SetStatus(m, c, st)) /\ Shape(SetStatus(m, c, st)) /\ SetStatus(m, c, st).status[c] = st
      BY <1>1, StatusPlain
    <3> QED BY <1>1, <2>2, <3>1 DEF isClosed
  <2> QED BY <2>1, <2>2
<1>3. OnDisconn(m, c) = IF c \notin m.listed THEN m ELSE PushEvent(k, Disconn(c))
  BY DEF OnDisconn, st
<1> HIDE DEF k
<1>4. Notice(Disconn(c)) /\ Disconn(c).conn = c
  BY DEF Notice, Disconn
<1>5. Plain(k, PushEvent(k, Disconn(c))) /\ Shape(PushEvent(k, Disconn(c)))
  BY <1>2, <1>4, EventPlain
<1> QED BY <1>2, <1>3, <1>5, SamePlain, PlainTwice

LEMMA CloseSocketPlain ==
  ASSUME NEW m, Shape(m), NEW c \in Conn
  PROVE  Plain(m, CloseSocket(m, c)) /\ Shape(CloseSocket(m, c))
<1> DEFINE k == [m EXCEPT !.sock[c] = "Closed"]
<1>1. /\ k = [f \in Fields |-> k[f]] /\ k.sock = [m.sock EXCEPT ![c] = "Closed"] /\ k.listed = m.listed
      /\ \A f \in Fields \ {"sock"} : k[f] = m[f]
  BY DEF Shape, Fields
<1>2. CloseSocket(m, c) \in {m, OnDisconn(k, c)}
  BY DEF CloseSocket
<1> HIDE DEF k
<1>3. k.sock \in [Conn -> Socket] /\ k.listed \in SUBSET Conn
  BY <1>1 DEF Shape, Socket
<1>4. Plain(m, k) /\ Shape(k)
  BY <1>1, <1>3, ListPlain
<1>5. Plain(k, OnDisconn(k, c)) /\ Shape(OnDisconn(k, c))
  BY <1>4, OnDisconnPlain
<1> QED BY <1>2, <1>4, <1>5, SamePlain, PlainTwice

LEMMA ClosePlain ==
  ASSUME NEW m, Shape(m), NEW c \in Conn
  PROVE  Plain(m, Close(m, c)) /\ Shape(Close(m, c))
<1> DEFINE k == SetStatus(m, c, "Closed")
<1>1. Plain(m, k) /\ Shape(k)
  BY StatusPlain DEF Status
<1> HIDE DEF k
<1>2. Plain(k, CloseSocket(k, c)) /\ Shape(CloseSocket(k, c))
  BY <1>1, CloseSocketPlain
<1> QED BY <1>1, <1>2, SamePlain, PlainTwice DEF Close, k

LEMMA RemovePlain ==
  ASSUME NEW m, Shape(m), NEW c
  PROVE  Plain(m, RemoveConnection(m, c))
<1> DEFINE n == RemoveConnection(m, c)
<1>1. \A f \in Fields \ {"listed"} : n[f] = m[f]
  BY DEF Shape, Fields, RemoveConnection
<1> HIDE DEF n
<1>2. Plain(m, n)
  BY <1>1, SomePlain
<1> QED BY <1>2 DEF n

LEMMA SendConnPacketPlain ==
  ASSUME NEW m, Shape(m), NEW c \in Conn
  PROVE  Plain(m, SendConnPacket(m, c))
<1> DEFINE k == Send(m, c, Simple("Conn"))
           n == [k EXCEPT !.connSent = @ \cup {c}]
<1>1. SendConnPacket(m, c) \in {m, n}
  BY DEF SendConnPacket
<1>2. Plain(m, k) /\ Shape(k)
  BY TransmitPlain DEF Simple
<1> HIDE DEF k
<1>3. n = [f \in Fields |-> n[f]] /\ n.sock = k.sock /\ n.listed = k.listed /\ \A f \in Fields \ {"connSent"} : n[f] = k[f]
  BY <1>2 DEF Shape, Fields
<1> HIDE DEF n
<1>4. Plain(k, n)
  BY <1>2, <1>3, ListPlain DEF Shape
<1> HIDE DEF n
<1> QED BY <1>1, <1>2, <1>4, SamePlain, PlainTwice

LEMMA OnConnPlain ==
  ASSUME NEW m, Shape(m), NEW i, NEW c \in Conn, ~isClosed(m, c)
  PROVE  Plain(m, OnConn(m, i, c))
<1> DEFINE r == [m EXCEPT !.sock[c] = "Closed"]
           k == [m EXCEPT !.sock[c] = "Open", !.listed = @ \cup {c}]
           l == SetStatus(k, c, "Connected")
<1>1. OnConn(m, i, c) \in {r, SendConnPacket(l, c)}
  BY DEF OnConn
<1>2. /\ r = [f \in Fields |-> r[f]] /\ r.sock = [m.sock EXCEPT ![c] = "Closed"] /\ r.listed = m.listed
      /\ \A f \in Fields \ {"sock"} : r[f] = m[f]
      /\ k = [f \in Fields |-> k[f]] /\ k.sock = [m.sock EXCEPT ![c] = "Open"] /\ k.listed = m.listed \cup {c}
      /\ \A f \in Fields \ {"sock", "listed"} : k[f] = m[f]
  BY DEF Shape, Fields
<1> HIDE DEF k, r
<1>3. r.sock \in [Conn -> Socket] /\ r.listed \in SUBSET Conn /\ k.sock \in [Conn -> Socket] /\ k.listed \in SUBSET Conn
  <2>1. m.sock \in [Conn -> Socket] /\ m.listed \in SUBSET Conn /\ "Open" \in Socket /\ "Closed" \in Socket
    BY DEF Shape, Socket
  <2> QED BY <1>2, <2>1
<1>4. Plain(m, r) /\ Plain(m, k) /\ Shape(k) /\ k.status = m.status
  BY <1>2, <1>3, ListPlain
<1>5. Plain(k, l) /\ Shape(l)
  BY <1>4, StatusPlain DEF Status, isClosed
<1> HIDE DEF l
<1>6. Plain(l, SendConnPacket(l, c))
  BY <1>5, SendConnPacketPlain
<1> QED BY <1>1, <1>4, <1>5, <1>6, PlainTwice

LEMMA ConnectPlain ==
  ASSUME NEW m, Shape(m), NEW c \in Conn, m.status[c] = "None"
  PROVE  Plain(m, [SetStatus(m, c, "Connect") EXCEPT !.listed = @ \cup {c}, !.sock[c] = "Calling"])
<1> DEFINE k == SetStatus(m, c, "Connect")
<1>1. Plain(m, k) /\ Shape(k)
  BY StatusPlain DEF Status, isClosed
<1> HIDE DEF k
<1> DEFINE n == [k EXCEPT !.listed = @ \cup {c}, !.sock[c] = "Calling"]
<1>2. /\ n = [f \in Fields |-> n[f]] /\ n.sock = [k.sock EXCEPT ![c] = "Calling"] /\ n.listed = k.listed \cup {c}
      /\ \A f \in Fields \ {"sock", "listed"} : n[f] = k[f]
  BY <1>1 DEF Shape, Fields
<1> HIDE DEF n
<1>3. k.sock \in [Conn -> Socket] /\ k.listed \in SUBSET Conn
  BY <1>1 DEF Shape
<1>4. "Calling" \in Socket
  BY DEF Socket
<1>5. n.sock \in [Conn -> Socket] /\ n.listed \in SUBSET Conn
  BY <1>2, <1>3, <1>4
<1>6. Plain(k, n)
  BY <1>1, <1>2, <1>5, ListPlain
<1> QED BY <1>1, <1>6, PlainTwice DEF k, n

LEMMA HandleConnPlain ==
  ASSUME NEW m, Shape(m), NEW c \in Conn
  PROVE  Plain(m, HandleConnNet(m, c)) /\ Shape(HandleConnNet(m, c)) /\ Plain(m, HandleConn(m, c))
<1> DEFINE k == Send(m, c, Simple("ConnRe"))
           l == SetStatus(k, c, "HalfAccepted")
           n == [l EXCEPT !.auto = @ \cup {c}]
<1> SUFFICES ASSUME isOpen(m, c)
             PROVE  Plain(m, HandleConnNet(m, c)) /\ Shape(HandleConnNet(m, c)) /\ Plain(m, HandleConn(m, c))
  BY SamePlain DEF HandleConnNet, HandleConn
<1>1. HandleConnNet(m, c) \in {m, n} /\ HandleConn(m, c) \in {m, l}
  BY DEF HandleConnNet, HandleConn
<1>2. Plain(m, k) /\ Shape(k) /\ k.status = m.status
  BY TransmitPlain DEF Simple
<1> HIDE DEF k
<1>3. Plain(k, l) /\ Shape(l)
  BY <1>2, StatusPlain DEF Status, isClosed, isOpen
<1> HIDE DEF l
<1>4. n = [f \in Fields |-> n[f]] /\ n.sock = l.sock /\ n.listed = l.listed /\ \A f \in Fields \ {"auto"} : n[f] = l[f]
  BY <1>3 DEF Shape, Fields
<1> HIDE DEF n
<1>5. n.sock \in [Conn -> Socket] /\ n.listed \in SUBSET Conn
  BY <1>3, <1>4 DEF Shape
<1>6. \A f \in Fields \ {"sock", "listed", "connSent", "auto"} : n[f] = l[f]
  BY <1>4
<1>7. Plain(l, n) /\ Shape(n)
  BY <1>3, <1>4, <1>5, <1>6, ListPlain
<1> QED BY <1>1, <1>2, <1>3, <1>7, SamePlain, PlainTwice

LEMMA HandleConnReNetPlain ==
  ASSUME NEW m, Shape(m), NEW c \in Conn
  PROVE  Plain(m, HandleConnReNet(m, c)) /\ Shape(HandleConnReNet(m, c))
<1>1. HandleConnReNet(m, c) \in {m, Close(m, c)} \/ (isOpen(m, c) /\ HandleConnReNet(m, c) = SetStatus(m, c, "Accepted"))
  BY DEF HandleConnReNet
<1>2. Plain(m, Close(m, c)) /\ Shape(Close(m, c))
  BY ClosePlain
<1>3. isOpen(m, c) => Plain(m, SetStatus(m, c, "Accepted")) /\ Shape(SetStatus(m, c, "Accepted"))
  BY StatusPlain DEF Status, isClosed, isOpen
<1> QED BY <1>1, <1>2, <1>3, SamePlain

LEMMA HandleConnRePlain ==
  ASSUME NEW m, Shape(m), NEW c \in Conn
  PROVE  Plain(m, HandleConnRe(m, c))
<1> DEFINE k == SetStatus(m, c, "Accepted")
           l == [k EXCEPT !.auto = @ \ {c}]
<1> SUFFICES ASSUME isOpen(m, c)
             PROVE  Plain(m, HandleConnRe(m, c))
  BY SamePlain DEF HandleConnRe
<1>1. HandleConnRe(m, c) \in {m, SetMsgConn(l, c), SetDataConn(l, c)}
  BY DEF HandleConnRe
<1>2. Plain(m, k) /\ Shape(k) /\ k.status[c] = "Accepted"
  BY StatusPlain DEF Status, isClosed, isOpen
<1> HIDE DEF k
<1>3. l = [f \in Fields |-> l[f]] /\ l.sock = k.sock /\ l.listed = k.listed /\ \A f \in Fields \ {"auto"} : l[f] = k[f]
  BY <1>2 DEF Shape, Fields
<1> HIDE DEF l
<1>7. l.sock \in [Conn -> Socket] /\ l.listed \in SUBSET Conn
  BY <1>2, <1>3 DEF Shape
<1>8. \A f \in Fields \ {"sock", "listed", "connSent", "auto"} : l[f] = k[f]
  BY <1>3
<1>4. Plain(k, l) /\ Shape(l) /\ l.status = k.status
  BY <1>2, <1>3, <1>7, <1>8, ListPlain
<1>5. ~isClosed(l, c)
  BY <1>2, <1>4 DEF isClosed
<1>6. Plain(l, SetMsgConn(l, c)) /\ Plain(l, SetDataConn(l, c))
  <2> DEFINE n == SetMsgConn(l, c)
             u == SetDataConn(l, c)
  <2>1. n.msg \in {l.msg, c} /\ n.data \in {l.data, c} /\ \A f \in Fields \ {"msg", "data"} : n[f] = l[f]
    BY <1>4 DEF Shape, Fields, SetMsgConn
  <2>2. u.msg \in {l.msg, c} /\ u.data \in {l.data, c} /\ \A f \in Fields \ {"msg", "data"} : u[f] = l[f]
    BY <1>4 DEF Shape, Fields, SetDataConn
  <2> HIDE DEF n, u
  <2>3. Plain(l, n)
    BY <1>5, <2>1, ChoicePlain
  <2>4. Plain(l, u)
    BY <1>5, <2>2, ChoicePlain
  <2> QED BY <2>3, <2>4 DEF n, u
<1> QED BY <1>1, <1>2, <1>4, <1>6, SamePlain, PlainTwice

LEMMA RemoveConnPlain ==
  ASSUME NEW m, Shape(m), NEW c
  PROVE  Plain(m, RemoveConn(m, c))
<1> DEFINE n == RemoveConn(m, c)
<1>1. n.msg \in {m.msg, m.data, NoConn} /\ n.data \in {m.msg, m.data, NoConn} /\ \A f \in Fields \ {"msg", "data"} : n[f] = m[f]
  BY DEF Shape, Fields, RemoveConn
<1> HIDE DEF n
<1>2. Plain(m, n)
  BY <1>1, ConnAssumption, ChoicePlain
<1> QED BY <1>2 DEF n

-----------------------------------------------------------------------------
(* What is acknowledged leaves the log.                                    *)

LEMMA EntryIs ==
  ASSUME NEW m, Logs(m), NEW c \in Conn, NEW k \in 1..Len(m.log[c])
  PROVE  /\ m.log[c][k].num = m.out[c] - Len(m.log[c]) + k - 1
         /\ m.log[c][k].pkt = m.sent[c][m.out[c] - Len(m.log[c]) + k]
<1> DEFINE e == [num |-> m.out[c] - Len(m.log[c]) + k - 1, pkt |-> m.sent[c][m.out[c] - Len(m.log[c]) + k]]
<1>1. m.log[c][k] = e
  BY DEF Logs
<1> QED BY <1>1

\* The log is cut to what has a number from until on.
LEMMA CutLength ==
  ASSUME NEW m, Shape(m), Logs(m), NEW c \in Conn, NEW until \in Nat
  PROVE  LET old == {k \in 1..Len(m.log[c]) : m.log[c][k].num < until}
         IN  Cardinality(old) \in 0..Len(m.log[c]) /\ old = 1..Cardinality(old)
<1> DEFINE l == m.log[c]
           first == m.out[c] - Len(l)
           old == {k \in 1..Len(l) : l[k].num < until}
           z == IF until <= first THEN 0 ELSE IF until - first <= Len(l) THEN until - first ELSE Len(l)
<1>1. Len(l) \in Nat /\ m.out[c] \in Nat /\ Len(l) <= m.out[c]
  BY SeqIs DEF Shape, IsSeqs, Logs
<1>2. \A k \in 1..Len(l) : l[k].num = first + k - 1
  BY EntryIs
<1> HIDE DEF l
<1>3. z \in 0..Len(l)
  BY <1>1
<1>4. old = 1..z
  <2>1. first \in Nat
    BY <1>1
  <2> HIDE DEF first
  <2>2. \A k \in 1..Len(l) : k \in old <=> k \in 1..z
    BY <1>1, <1>2, <2>1
  <2>3. old \subseteq 1..Len(l) /\ 1..z \subseteq 1..Len(l)
    BY <1>1, <1>3
  <2> HIDE DEF old, z
  <2> QED BY <2>2, <2>3
<1>5. Cardinality(1..z) = z
  <2> HIDE DEF z
  <2> QED BY <1>3, FS_Interval
<1> HIDE DEF z
<1> QED BY <1>3, <1>4, <1>5 DEF l

LEMMA ClearPacketLogSure ==
  ASSUME NEW m, Shape(m), Logs(m), NEW c \in Conn, NEW until \in Nat, NEW o, o.in \in [Conn -> Nat], until <= o.in[c],
         NEW H, Sure(m, o, H)
  PROVE  Sure(ClearPacketLog(m, c, until), o, H)
<1> DEFINE n == ClearPacketLog(m, c, until)
           old == {k \in 1..Len(m.log[c]) : m.log[c][k].num < until}
           z == Cardinality(old)
           l == m.log[c]
           v == SubSeq(l, z + 1, Len(l))
<1>1. z \in 0..Len(l) /\ old = 1..z
  BY CutLength
<1>2. n.log = [m.log EXCEPT ![c] = v] /\ \A f \in Fields \ {"log"} : n[f] = m[f]
  BY DEF Shape, Fields, ClearPacketLog
<1>3. IsSeq(l) /\ m.log = [d \in Conn |-> m.log[d]]
  BY DEF Shape, IsSeqs
<1>4. \A k \in 1..Len(l) : l[k].num = m.out[c] - Len(l) + k - 1
  BY EntryIs
<1>5. \A k \in 1..z : l[k].num < until
  BY <1>1
<1>6. \A k \in 1..Len(l) : l[k].num >= o.in[c] => k \notin 1..z
  <2>1. m.out[c] \in Nat /\ o.in[c] \in Nat /\ Len(l) \in Nat
    BY <1>3, SeqIs DEF Shape
  <2> HIDE DEF l, z, old
  <2>2. \A k \in 1..Len(l) : l[k].num \in Int
    BY <1>4, <2>1
  <2> QED BY <1>1, <1>5, <2>1, <2>2
<1> HIDE DEF z, old, l
<1>7. Len(l) \in Nat
  BY <1>3, SeqIs
<1>8. IsSeq(v) /\ Len(v) = Len(l) - z /\ \A k \in 1..Len(v) : v[k] = l[z + k]
  <2>1. z \in Nat /\ z <= Len(l)
    BY <1>1, <1>7
  <2>2. IsSeq(v) /\ Len(v) = (IF z <= Len(l) THEN Len(l) - z ELSE 0) /\ \A k \in 1..Len(v) : v[k] = l[z + k]
    BY <1>3, <2>1, EndIs
  <2> HIDE DEF v
  <2> QED BY <2>1, <2>2
<1> HIDE DEF n, v
<1>9. /\ n.in = m.in /\ n.out = m.out /\ n.todo = m.todo /\ n.pmSent = m.pmSent /\ n.events = m.events
      /\ n.sent = m.sent /\ n.handled = m.handled /\ n.wire = m.wire /\ n.status = m.status /\ n.dropped = m.dropped
      /\ n.gone = m.gone /\ n.clearing = m.clearing /\ n.msg = m.msg /\ n.data = m.data
  BY <1>2 DEF Fields
<1>10. n.log[c] = v /\ \A d \in Conn \ {c} : n.log[d] = m.log[d]
  BY <1>2, <1>3
<1>11. AsReceiver(m, n) /\ (Whole(m) => Whole(n))
  BY <1>9 DEF AsReceiver, Direct, Pings, Whole, isClosed
<1>12. ASSUME NEW x, InLog(m, o, x) PROVE InLog(n, o, x)
  <2>1. PICK d \in Conn : m.pmSent[d] = -1 /\ \E k \in 1..Len(m.log[d]) : m.log[d][k].num >= o.in[d] /\ x \in Ids(m.log[d][k].pkt)
    BY <1>12 DEF InLog
  <2>2. CASE d # c
    BY <1>9, <1>10, <2>1, <2>2 DEF InLog
  <2>3. CASE d = c
    <3>1. PICK k \in 1..Len(l) : l[k].num >= o.in[c] /\ x \in Ids(l[k].pkt)
      BY <2>1, <2>3 DEF l
    <3>2. k - z \in 1..Len(v) /\ z + (k - z) = k
      BY <1>1, <1>6, <1>7, <1>8, <3>1
    <3>3. v[k - z] = l[k]
      BY <1>8, <3>2
    <3> DEFINE y == k - z
    <3>4. y \in 1..Len(n.log[c]) /\ n.log[c][y] = l[k] /\ n.pmSent[c] = -1
      BY <1>9, <1>10, <2>1, <2>3, <3>2, <3>3
    <3> HIDE DEF y
    <3> QED BY <3>1, <3>4 DEF InLog
  <2> QED BY <2>2, <2>3
<1>13. ASSUME NEW d \in Conn, Counts(m, o, d) PROVE Counts(n, o, d)
  <2>1. CASE d # c
    BY <1>9, <1>10, <1>13, <2>1 DEF Counts
  <2>2. CASE d = c
    <3>1. m.out[c] \in Nat /\ o.in[c] \in Nat
      BY DEF Shape
    <3>2. z = 0 \/ (z \in 1..z /\ z \in 1..Len(l))
      BY <1>1, <1>7
    <3>3. m.out[c] - Len(l) <= o.in[c]
      BY <1>13, <2>2 DEF Counts, l
    <3>4. m.out[c] - Len(v) <= o.in[c]
      <4>1. CASE z = 0
        BY <1>7, <1>8, <3>1, <3>3, <4>1
      <4>2. CASE z # 0
        <5>1. l[z].num < until /\ l[z].num = m.out[c] - Len(l) + z - 1
          BY <1>4, <1>5, <3>2, <4>2
        <5>2. z \in Nat /\ Len(v) = Len(l) - z
          BY <1>1, <1>8
        <5> DEFINE O == m.out[c]
                   I == o.in[c]
                   L == Len(l)
                   V == Len(v)
        <5>3. O \in Nat /\ I \in Nat /\ L \in Nat /\ z \in Nat /\ V = L - z /\ O - L + z - 1 < until /\ until <= I
          BY <1>7, <3>1, <5>1, <5>2
        <5> HIDE DEF O, I, L, V
        <5>4. O - V <= I
          BY <5>3
        <5> QED BY <5>4 DEF O, I, V
      <4> QED BY <4>1, <4>2
    <3> QED BY <1>9, <1>10, <1>13, <2>2, <3>4 DEF Counts
  <2> QED BY <2>1, <2>2
<1>14. ASSUME NEW A, Kept(m, o, A, {}) PROVE Kept(n, o, A, {})
  <2>1. \A q : Safe(m, o, {}, q) => Safe(n, o, {}, q)
    BY <1>12 DEF Safe
  <2>2. ~o.gone /\ ~n.gone => \A d \in Conn : \A k \in 1..Len(n.sent[d]) : Safe(n, o, {}, n.sent[d][k])
    BY <1>9, <1>14, <2>1 DEF Kept
  <2> QED BY <1>9, <1>13, <1>14, <2>2 DEF Kept
<1>15. \A A : Kept(o, m, A, H) => Kept(o, n, A, H)
  BY <1>11, ReceiverKept
<1>16. Sure(n, o, H)
  BY <1>11, <1>14, <1>15 DEF Sure
<1> QED BY <1>16 DEF n

\* If nobody is between the two steps, that is all.
LEMMA SearchLogSure ==
  ASSUME AtomicClear, NEW m, Shape(m), Logs(m), NEW c \in Conn, NEW until \in Nat, NEW o, o.in \in [Conn -> Nat],
         until <= o.in[c], NEW H, Sure(m, o, H)
  PROVE  Sure(SearchLog(m, c, until), o, H)
BY ClearPacketLogSure DEF SearchLog

LEMMA PingPlain ==
  ASSUME NEW m, Shape(m), NEW S
  PROVE  Plain(m, Pinged(m, S))
<1> DEFINE n == Pinged(m, S)
           to(d) == d \in S /\ m.sock[d] = "Open"
<1>1. n.wire = [d \in Conn |-> IF to(d) THEN Append(m.wire[d], Ping(m.in[d])) ELSE m.wire[d]]
      /\ \A f \in Fields \ {"wire"} : n[f] = m[f]
  BY DEF Shape, Fields, Pinged
<1> HIDE DEF n
<1>2. /\ n.in = m.in /\ n.out = m.out /\ n.todo = m.todo /\ n.log = m.log /\ n.pmSent = m.pmSent /\ n.events = m.events
      /\ n.sent = m.sent /\ n.handled = m.handled /\ n.dropped = m.dropped /\ n.status = m.status
      /\ n.gone = m.gone /\ n.msg = m.msg /\ n.data = m.data /\ n.clearing = m.clearing
  BY <1>1 DEF Fields
<1>3. ASSUME Pings(m) PROVE Pings(n)
  <2> SUFFICES ASSUME NEW d \in Conn, NEW y \in 1..Len(n.wire[d]), n.wire[d][y].type = "Ping"
               PROVE  n.wire[d][y].counter \in Nat /\ n.wire[d][y].counter <= n.in[d]
    BY DEF Pings
  <2>1. CASE ~to(d)
    BY <1>1, <1>2, <1>3, <2>1 DEF Pings
  <2>2. CASE to(d)
    <3> DEFINE w == m.wire[d]
               v == Append(w, Ping(m.in[d]))
    <3>1. n.wire[d] = v /\ IsSeq(w)
      BY <1>1, <2>2 DEF Shape, IsSeqs
    <3>2. Len(v) = Len(w) + 1 /\ v[Len(w) + 1] = Ping(m.in[d]) /\ \A k \in 1..Len(w) : v[k] = w[k]
      BY <3>1, AppendIs
    <3>3. Len(w) \in Nat
      BY <3>1, SeqIs
    <3>4. m.in[d] \in Nat
      BY DEF Shape
    <3> HIDE DEF v, w
    <3>5. CASE y = Len(w) + 1
      BY <1>2, <3>1, <3>2, <3>4, <3>5 DEF Ping
    <3>6. CASE y # Len(w) + 1
      <4>1. y \in 1..Len(w)
        BY <3>1, <3>2, <3>3, <3>6
      <4>2. w[y].type = "Ping" => w[y].counter \in Nat /\ w[y].counter <= m.in[d]
        BY <1>3, <4>1 DEF Pings, w
      <4> QED BY <1>2, <3>1, <3>2, <4>1, <4>2
    <3> QED BY <3>5, <3>6
  <2> QED BY <2>1, <2>2
<1>4. Plain(m, n)
  BY <1>2, <1>3 DEF Plain, AsSender, AsReceiver, Direct, Whole, isClosed
<1> QED BY <1>4 DEF n

-----------------------------------------------------------------------------
(* What is sent and kept.                                                  *)

SentOn(m, n, c, p, P) ==
    /\ n = [f \in Fields |-> n[f]] /\ n.pmSent = P
    /\ n.log = [m.log EXCEPT ![c] = Append(@, [num |-> m.out[c], pkt |-> p])]
    /\ n.out = [m.out EXCEPT ![c] = @ + 1] /\ n.sent = [m.sent EXCEPT ![c] = Append(@, p)]
    /\ n.wire = (IF m.sock[c] = "Open" THEN [m.wire EXCEPT ![c] = Append(@, p)] ELSE m.wire)
    /\ \A f \in Fields \ {"log", "out", "sent", "wire", "pmSent"} : n[f] = m[f]

LEMMA SendFields ==
  ASSUME NEW m, Shape(m), NEW i, Sockets(m, i), NEW c \in Conn, NEW p, Logged(p), NEW P
  PROVE  SentOn(m, Send([m EXCEPT !.pmSent = P], c, p), c, p, P)
<1> DEFINE k == [m EXCEPT !.pmSent = P]
           n == Send(k, c, p)
<1>1. k = [f \in Fields |-> k[f]] /\ k.pmSent = P /\ \A f \in Fields \ {"pmSent"} : k[f] = m[f]
  BY DEF Shape, Fields
<1> HIDE DEF k
<1>2. /\ n = [f \in Fields |-> n[f]]
      /\ n.log = [k.log EXCEPT ![c] = Append(@, [num |-> k.out[c], pkt |-> p])]
      /\ n.out = [k.out EXCEPT ![c] = @ + 1] /\ n.sent = [k.sent EXCEPT ![c] = Append(@, p)]
      /\ n.wire = (IF isOpen(k, c) /\ k.sock[c] = "Open" THEN [k.wire EXCEPT ![c] = Append(@, p)] ELSE k.wire)
      /\ \A f \in Fields \ {"log", "out", "sent", "wire"} : n[f] = k[f]
  <2> DEFINE kept == [k EXCEPT !.log[c] = Append(@, [num |-> k.out[c], pkt |-> p]), !.out[c] = @ + 1,
                               !.sent[c] = Append(@, p)]
  <2>1. /\ kept = [f \in Fields |-> kept[f]]
        /\ kept.log = [k.log EXCEPT ![c] = Append(@, [num |-> k.out[c], pkt |-> p])]
        /\ kept.out = [k.out EXCEPT ![c] = @ + 1] /\ kept.sent = [k.sent EXCEPT ![c] = Append(@, p)]
        /\ \A f \in Fields \ {"log", "out", "sent"} : kept[f] = k[f]
    BY <1>1 DEF Fields
  <2>2. n = IF isOpen(k, c) THEN Transmit(kept, c, p) ELSE kept
    BY DEF Send
  <2> HIDE DEF kept
  <2> DEFINE sent == [kept EXCEPT !.wire[c] = Append(@, p)]
  <2>3. /\ sent = [f \in Fields |-> sent[f]] /\ sent.wire = [kept.wire EXCEPT ![c] = Append(@, p)]
        /\ \A f \in Fields \ {"wire"} : sent[f] = kept[f]
    BY <2>1 DEF Fields
  <2>4. Transmit(kept, c, p) = IF kept.sock[c] = "Open" THEN sent ELSE kept
    BY DEF Transmit
  <2> HIDE DEF sent, n
  <2>5. n = IF isOpen(k, c) /\ k.sock[c] = "Open" THEN sent ELSE kept
    BY <2>1, <2>2, <2>4 DEF Fields
  <2> QED BY <2>1, <2>3, <2>5 DEF Fields
<1> HIDE DEF n
<1>3. isOpen(k, c) <=> m.sock[c] = "Open"
  BY <1>1 DEF Sockets, SocketOf, isOpen, Fields
<1>4. SentOn(m, n, c, p, P)
  BY <1>1, <1>2, <1>3 DEF SentOn, Fields
<1> QED BY <1>4 DEF n, k

LEMMA SentRest ==
  ASSUME NEW m, NEW n, NEW c, NEW p, NEW P, SentOn(m, n, c, p, P)
  PROVE  /\ n.in = m.in /\ n.todo = m.todo /\ n.pmSent = P /\ n.events = m.events /\ n.handled = m.handled
         /\ n.status = m.status /\ n.dropped = m.dropped /\ n.gone = m.gone /\ n.clearing = m.clearing
         /\ n.msg = m.msg /\ n.data = m.data
BY DEF SentOn, Fields

\* What was sent and the log on c are longer by p, those of others are the same.
Longer(m, n, c, p) ==
    /\ Len(n.sent[c]) = Len(m.sent[c]) + 1 /\ n.sent[c][Len(m.sent[c]) + 1] = p
    /\ Len(m.sent[c]) \in Nat /\ Len(m.log[c]) \in Nat /\ m.out[c] \in Nat
    /\ Len(n.log[c]) = Len(m.log[c]) + 1 /\ n.log[c][Len(m.log[c]) + 1] = [num |-> m.out[c], pkt |-> p]
    /\ \A l \in 1..Len(m.log[c]) : n.log[c][l] = m.log[c][l]
    /\ \A l \in 1..Len(m.sent[c]) : n.sent[c][l] = m.sent[c][l]
    /\ n.out[c] = m.out[c] + 1
    /\ \A d \in Conn \ {c} : n.sent[d] = m.sent[d] /\ n.log[d] = m.log[d] /\ n.out[d] = m.out[d]

LEMMA SentIs ==
  ASSUME NEW m, Shape(m), NEW n, NEW c \in Conn, NEW p, NEW P, SentOn(m, n, c, p, P)
  PROVE  Longer(m, n, c, p)
<1>1. /\ \A d \in Conn : IsSeq(m.sent[d]) /\ IsSeq(m.log[d])
      /\ m.sent = [d \in Conn |-> m.sent[d]] /\ m.log = [d \in Conn |-> m.log[d]] /\ m.out \in [Conn -> Nat]
  BY DEF Shape, IsSeqs
<1>2. /\ n.log = [m.log EXCEPT ![c] = Append(@, [num |-> m.out[c], pkt |-> p])]
      /\ n.out = [m.out EXCEPT ![c] = @ + 1] /\ n.sent = [m.sent EXCEPT ![c] = Append(@, p)]
  BY DEF SentOn
<1>3. n.sent[c] = Append(m.sent[c], p) /\ n.log[c] = Append(m.log[c], [num |-> m.out[c], pkt |-> p])
  BY <1>1, <1>2
<1>4. n.out[c] = m.out[c] + 1 /\ \A d \in Conn \ {c} : n.sent[d] = m.sent[d] /\ n.log[d] = m.log[d] /\ n.out[d] = m.out[d]
  BY <1>1, <1>2
<1>5. /\ Len(n.sent[c]) = Len(m.sent[c]) + 1 /\ n.sent[c][Len(m.sent[c]) + 1] = p
      /\ Len(m.sent[c]) \in Nat /\ Len(m.log[c]) \in Nat
      /\ Len(n.log[c]) = Len(m.log[c]) + 1 /\ n.log[c][Len(m.log[c]) + 1] = [num |-> m.out[c], pkt |-> p]
      /\ \A l \in 1..Len(m.log[c]) : n.log[c][l] = m.log[c][l]
      /\ \A l \in 1..Len(m.sent[c]) : n.sent[c][l] = m.sent[c][l]
  BY <1>1, <1>3, AppendIs, SeqIs
<1> QED BY <1>1, <1>4, <1>5 DEF Longer

LEMMA SentReceiver ==
  ASSUME NEW m, Shape(m), NEW n, NEW c \in Conn, NEW p, Logged(p), NEW P, SentOn(m, n, c, p, P)
  PROVE  AsReceiver(m, n)
<1>1. /\ n.in = m.in /\ n.todo = m.todo /\ n.events = m.events /\ n.handled = m.handled
      /\ n.dropped = m.dropped /\ n.gone = m.gone
  BY SentRest
<1>2. n.wire \in {m.wire, [m.wire EXCEPT ![c] = Append(@, p)]}
  BY DEF SentOn
<1>3. m.wire = [d \in Conn |-> m.wire[d]] /\ IsSeq(m.wire[c])
  BY DEF Shape, IsSeqs
<1>4. ASSUME Pings(m) PROVE Pings(n)
  <2> DEFINE w == m.wire[c]
             v == Append(w, p)
  <2>1. n.wire[c] \in {w, v} /\ \A d \in Conn \ {c} : n.wire[d] = m.wire[d]
    BY <1>2, <1>3
  <2>2. Len(v) = Len(w) + 1 /\ v[Len(w) + 1] = p /\ Len(w) \in Nat /\ \A k \in 1..Len(w) : v[k] = w[k]
    BY <1>3, AppendIs, SeqIs
  <2> HIDE DEF v
  <2> SUFFICES ASSUME NEW d \in Conn, NEW y \in 1..Len(n.wire[d]), n.wire[d][y].type = "Ping"
               PROVE  n.wire[d][y].counter \in Nat /\ n.wire[d][y].counter <= n.in[d]
    BY DEF Pings
  <2>3. y \in 1..Len(m.wire[d]) /\ n.wire[d][y] = m.wire[d][y]
    <3>1. CASE n.wire[d] = m.wire[d]
      BY <3>1
    <3>2. CASE n.wire[d] # m.wire[d]
      <4>1. d = c /\ n.wire[d] = v
        BY <2>1, <3>2
      <4>2. y # Len(w) + 1
        BY <2>2, <4>1 DEF Logged
      <4> QED BY <2>2, <4>1, <4>2
    <3> QED BY <3>1, <3>2
  <2> QED BY <1>1, <1>4, <2>3 DEF Pings
<1> QED BY <1>1, <1>4 DEF AsReceiver, Direct

\* The new packet is in the log, and so is what was in a log.
LEMMA SendKept ==
  ASSUME NEW m, Shape(m), Logs(m), NEW n, NEW c \in Conn, NEW p, NEW P, SentOn(m, n, c, p, P), NEW o, o.in \in [Conn -> Nat],
         P[c] = -1, NEW A, NEW B, Kept(m, o, A, {}),
         \A d \in Conn : m.pmSent[d] = -1 => P[d] = -1 \/ \A k \in 1..Len(m.log[d]) : Ids(m.log[d][k].pkt) \subseteq Ids(p),
         Made(o, c, p, B), \A d \in Conn : \A k \in 1..Len(m.sent[d]) : Made(o, d, m.sent[d][k], B),
         \A q : Covered(o, {}, q, A) => Covered(o, {}, q, B)
  PROVE  Kept(n, o, B, {})
<1>0. n.pmSent = P /\ n.gone = m.gone
  BY SentRest
<1>1. /\ Len(n.sent[c]) = Len(m.sent[c]) + 1 /\ n.sent[c][Len(m.sent[c]) + 1] = p
      /\ Len(m.sent[c]) \in Nat /\ Len(m.log[c]) \in Nat /\ m.out[c] \in Nat
      /\ Len(n.log[c]) = Len(m.log[c]) + 1 /\ n.log[c][Len(m.log[c]) + 1] = [num |-> m.out[c], pkt |-> p]
      /\ \A l \in 1..Len(m.log[c]) : n.log[c][l] = m.log[c][l]
      /\ \A l \in 1..Len(m.sent[c]) : n.sent[c][l] = m.sent[c][l]
      /\ n.out[c] = m.out[c] + 1
      /\ \A d \in Conn \ {c} : n.sent[d] = m.sent[d] /\ n.log[d] = m.log[d] /\ n.out[d] = m.out[d]
  <2>1. Longer(m, n, c, p)
    BY SentIs
  <2> QED BY <2>1 DEF Longer
<1>2. m.out[c] = Len(m.sent[c]) /\ o.in[c] \in Nat /\ \A d \in Conn : Counts(m, o, d)
  BY DEF Logs, Kept
<1>3. ASSUME NEW d \in Conn PROVE Counts(n, o, d)
  <2>1. CASE d # c
    BY <1>1, <1>2, <2>1 DEF Counts
  <2>2. CASE d = c
    <3>1. o.in[c] <= Len(m.sent[c]) /\ m.out[c] - Len(m.log[c]) <= o.in[c]
      BY <1>2 DEF Counts
    <3>2. o.in[c] <= Len(n.sent[c])
      BY <1>1, <1>2, <3>1
    <3>3. n.out[c] - Len(n.log[c]) = m.out[c] - Len(m.log[c])
      <4> DEFINE a == m.out[c]
                 b == Len(m.log[c])
                 e == n.out[c]
                 l == Len(n.log[c])
      <4>1. a \in Nat /\ b \in Nat /\ e = a + 1 /\ l = b + 1
        BY <1>1
      <4> HIDE DEF a, b, e, l
      <4>2. e - l = a - b
        BY <4>1
      <4> QED BY <4>2 DEF a, b, e, l
    <3> QED BY <2>2, <3>1, <3>2, <3>3 DEF Counts
  <2> QED BY <2>1, <2>2
<1>4. \A x \in Ids(p) : InLog(n, o, x)
  <2> DEFINE e == n.log[c][Len(m.log[c]) + 1]
  <2>1. e.num = m.out[c] /\ e.pkt = p /\ Len(m.log[c]) + 1 \in 1..Len(n.log[c])
    BY <1>1
  <2>2. m.out[c] >= o.in[c]
    BY <1>1, <1>2 DEF Counts
  <2> QED BY <1>0, <2>1, <2>2 DEF InLog
<1>5. ASSUME NEW x, InLog(m, o, x) PROVE InLog(n, o, x)
  <2>1. PICK d \in Conn : m.pmSent[d] = -1 /\ \E k \in 1..Len(m.log[d]) : m.log[d][k].num >= o.in[d] /\ x \in Ids(m.log[d][k].pkt)
    BY <1>5 DEF InLog
  <2>2. PICK k \in 1..Len(m.log[d]) : m.log[d][k].num >= o.in[d] /\ x \in Ids(m.log[d][k].pkt)
    BY <2>1
  <2>3. CASE P[d] = -1
    <3>1. k \in 1..Len(n.log[d]) /\ n.log[d][k] = m.log[d][k]
      <4>1. CASE d = c
        BY <1>1, <4>1
      <4>2. CASE d # c
        BY <1>1, <4>2
      <4> QED BY <4>1, <4>2
    <3> QED BY <1>0, <2>2, <2>3, <3>1 DEF InLog
  <2>4. CASE P[d] # -1
    BY <1>4, <2>1, <2>2, <2>4
  <2> QED BY <2>3, <2>4
<1>6. \A d \in Conn : \A k \in 1..Len(n.sent[d]) :
         (k \in 1..Len(m.sent[d]) /\ n.sent[d][k] = m.sent[d][k]) \/ (d = c /\ n.sent[d][k] = p)
  <2> SUFFICES ASSUME NEW d \in Conn, NEW k \in 1..Len(n.sent[d])
               PROVE  (k \in 1..Len(m.sent[d]) /\ n.sent[d][k] = m.sent[d][k]) \/ (d = c /\ n.sent[d][k] = p)
    OBVIOUS
  <2>1. CASE d = c
    <3>1. k \in 1..Len(m.sent[c]) \/ k = Len(m.sent[c]) + 1
      BY <1>1, <2>1
    <3> QED BY <1>1, <2>1, <3>1
  <2>2. CASE d # c
    BY <1>1, <2>2
  <2> QED BY <2>1, <2>2
<1>7. \A d \in Conn : \A k \in 1..Len(n.sent[d]) : Made(o, d, n.sent[d][k], B)
  BY <1>6
<1>8. ASSUME ~o.gone, NEW d \in Conn, NEW k \in 1..o.in[d] PROVE Covered(o, {}, n.sent[d][k], B)
  <2>1. Covered(o, {}, m.sent[d][k], A)
    BY <1>8 DEF Kept
  <2>2. o.in[d] <= Len(m.sent[d]) /\ o.in[d] \in Nat
    BY <1>2 DEF Counts
  <2>3. Len(m.sent[d]) \in Nat
    BY SeqIs DEF Shape, IsSeqs
  <2>4. k \in 1..Len(m.sent[d])
    BY <2>2, <2>3
  <2>5. n.sent[d][k] = m.sent[d][k]
    BY <1>1, <2>4
  <2> QED BY <2>1, <2>5
<1>9. ASSUME ~o.gone, ~n.gone, NEW d \in Conn, NEW k \in 1..Len(n.sent[d]) PROVE Safe(n, o, {}, n.sent[d][k])
  <2>1. CASE k \in 1..Len(m.sent[d]) /\ n.sent[d][k] = m.sent[d][k]
    <3>1. Safe(m, o, {}, m.sent[d][k])
      BY <1>0, <1>9, <2>1 DEF Kept
    <3> QED BY <1>5, <2>1, <3>1 DEF Safe
  <2>2. CASE n.sent[d][k] = p
    BY <1>4, <2>2 DEF Safe
  <2> QED BY <1>6, <2>1, <2>2
<1>10. Pings(o)
  BY DEF Kept
<1> QED BY <1>3, <1>7, <1>8, <1>9, <1>10 DEF Kept

LEMMA SaySure ==
  ASSUME NEW m, Shape(m), Logs(m), NEW i, Sockets(m, i), NEW c \in Conn, m.pmSent[c] = -1, NEW p, IsMessage(p),
         NEW o, o.in \in [Conn -> Nat], NEW H, Sure(m, o, H)
  PROVE  Sure(Send(m, c, p), o, H)
<1> DEFINE P == m.pmSent
           k == [m EXCEPT !.pmSent = P]
           n == Send(k, c, p)
<1>1. k = m
  BY DEF Shape, Fields
<1>2. Logged(p)
  BY DEF Logged, IsMessage
<1>3. SentOn(m, n, c, p, P)
  BY <1>2, SendFields
<1> HIDE DEF n, k
<1>4. AsReceiver(m, n)
  BY <1>2, <1>3, SentReceiver
<1>5. n.pmSent = P /\ n.events = m.events /\ n.status = m.status /\ n.clearing = m.clearing /\ n.msg = m.msg /\ n.data = m.data
  BY <1>3, SentRest
<1>6. Whole(m) => Whole(n)
  BY <1>5 DEF Whole, isClosed, P
<1>7. \A d \in Conn : m.pmSent[d] = -1 => P[d] = -1
  BY DEF P
<1>8. P[c] = -1
  BY DEF P
<1> HIDE DEF P
<1>9. ASSUME NEW A, Kept(m, o, A, {}) PROVE Kept(n, o, A, {})
  <2>1. Made(o, c, p, A)
    BY DEF Made, IsMessage
  <2>2. \A d \in Conn : \A l \in 1..Len(m.sent[d]) : Made(o, d, m.sent[d][l], A)
    BY <1>9 DEF Kept
  <2> QED BY <1>3, <1>7, <1>8, <1>9, <2>1, <2>2, SendKept
<1>10. \A A : Kept(o, m, A, H) => Kept(o, n, A, H)
  BY <1>4, ReceiverKept
<1>11. Sure(n, o, H)
  BY <1>6, <1>9, <1>10 DEF Sure
<1> QED BY <1>1, <1>11 DEF n

-----------------------------------------------------------------------------
(* A post mortem takes over what the log holds.                            *)

LEMMA PostMortemIs ==
  ASSUME NEW m, NEW c, IsSeq(m.log[c])
  PROVE  LET p == PostMortem(m, c)
         IN  /\ p.type = "PostMortem" /\ p.conn = c /\ p.counter = m.out[c] /\ Len(p.pkts) = Len(m.log[c])
             /\ \A l \in 1..Len(m.log[c]) : p.pkts[l] = m.log[c][l].pkt
             /\ \A x : x \in p.ids <=> \E l \in 1..Len(m.log[c]) : x \in Ids(m.log[c][l].pkt)
<1> DEFINE p == PostMortem(m, c)
           S == {m.log[c][l].pkt : l \in 1..Len(m.log[c])}
           L == Len(m.log[c])
<1>1. p.type = "PostMortem" /\ p.conn = c /\ p.counter = m.out[c] /\ p.pkts = [l \in 1..Len(m.log[c]) |-> m.log[c][l].pkt]
  BY DEF PostMortem
<1>2. p.ids = UNION {Ids(e.pkt) : e \in {m.log[c][l] : l \in 1..Len(m.log[c])}}
  BY DEF PostMortem, IdsOf
<1> HIDE DEF p
<1>3. \A x : x \in p.ids <=> \E l \in 1..Len(m.log[c]) : x \in Ids(m.log[c][l].pkt)
  BY <1>2
<1>4. Len(p.pkts) = Len(m.log[c]) /\ \A l \in 1..Len(m.log[c]) : p.pkts[l] = m.log[c][l].pkt
  <2> DEFINE q == p.pkts
  <2>1. L \in Nat
    BY SeqIs
  <2>2. q = [l \in 1..L |-> m.log[c][l].pkt] /\ \A l \in 1..L : m.log[c][l].pkt \in S
    BY <1>1
  <2> HIDE DEF L, q, S
  <2>3. q \in [1..L -> S]
    BY <2>2
  <2>4. Len(q) = L
    BY <2>1, <2>3
  <2> QED BY <2>2, <2>4 DEF L, q
<1> QED BY <1>1, <1>3, <1>4 DEF p

\* Nobody is left to send it to.
LEMMA LastMarkSure ==
  ASSUME NEW m, Shape(m), NEW c \in Conn, isClosed(m, c), c # m.msg, c # m.data, NEW o, NEW H, Sure(m, o, H), ~isConnected(m)
  PROVE  Sure(OnClientDisconnect([m EXCEPT !.pmSent[c] = m.out[c]]), o, H)
<1> DEFINE k == [m EXCEPT !.pmSent[c] = m.out[c]]
           n == [k EXCEPT !.gone = TRUE, !.events = <<>>]
<1>1. /\ k = [f \in Fields |-> k[f]] /\ k.pmSent = [m.pmSent EXCEPT ![c] = m.out[c]]
      /\ \A f \in Fields \ {"pmSent"} : k[f] = m[f]
  BY DEF Shape, Fields
<1> HIDE DEF k
<1>2. n.gone = TRUE /\ n.events = <<>> /\ \A f \in Fields \ {"gone", "events"} : n[f] = k[f]
  BY <1>1 DEF Fields
<1>3. OnClientDisconnect(k) = n
  BY <1>1 DEF OnClientDisconnect, isConnected, Fields
<1> HIDE DEF n
<1>4. /\ n.in = m.in /\ n.out = m.out /\ n.todo = m.todo /\ n.log = m.log /\ n.pmSent = k.pmSent
      /\ n.sent = m.sent /\ n.wire = m.wire /\ n.status = m.status /\ n.clearing = m.clearing /\ n.msg = m.msg /\ n.data = m.data
  BY <1>1, <1>2 DEF Fields
<1>5. m.pmSent \in [Conn -> Nat \cup {-1}]
  BY DEF Shape
<1>6. \A d \in Conn \ {c} : n.pmSent[d] = m.pmSent[d]
  BY <1>1, <1>4, <1>5
<1>7. Whole(n)
  <2>1. Whole(m) /\ \A b \in 1..Len(n.events) : FALSE
    BY <1>2, EmptyIs DEF Sure
  <2>2. \A d \in Conn : n.pmSent[d] # -1 => isClosed(n, d) /\ d # n.msg /\ d # n.data
    BY <1>4, <1>6, <2>1 DEF Whole, isClosed
  <2> QED BY <1>4, <2>1, <2>2 DEF Whole
<1>8. AsReceiver(m, n)
  BY <1>2, <1>4 DEF AsReceiver, Pings
<1>9. \A A : Kept(o, m, A, H) => Kept(o, n, A, H)
  BY <1>8, ReceiverKept
<1>10. \A A : Kept(m, o, A, {}) => Kept(n, o, A, {})
  BY <1>2, <1>4 DEF Kept, Counts
<1>11. Sure(n, o, H)
  BY <1>7, <1>9, <1>10 DEF Sure
<1> QED BY <1>3, <1>11 DEF k

LEMMA PostMortemSure ==
  ASSUME NEW i, NEW m, NEW o, NEW x, Pair(i, m, o, x), NEW c \in Conn, isClosed(m, c), c # m.msg, c # m.data,
         NEW H, Sure(m, o, H), isConnected(m)
  PROVE  Sure(Send([m EXCEPT !.pmSent[c] = m.out[c]], m.msg, PostMortem(m, c)), o, H)
<1> DEFINE P == [m.pmSent EXCEPT ![c] = m.out[c]]
           d == m.msg
           p == PostMortem(m, c)
           k == [m EXCEPT !.pmSent = P]
           n == Send(k, d, p)
<1>1. Shape(m) /\ Sockets(m, i) /\ Logs(m) /\ Sendings(m) /\ Recovery(o, m)
  BY DEF Pair, Local, Link
<1>2. d \in Conn /\ c # d /\ m.pmSent[d] = -1
  BY <1>1 DEF Shape, isConnected, Sure, Whole
<1>3. o.in \in [Conn -> Nat]
  BY DEF Pair, Local, Shape
<1>4. IsSeq(m.log[c]) /\ m.pmSent \in [Conn -> Nat \cup {-1}]
  BY <1>1 DEF Shape, IsSeqs
<1>5. /\ p.type = "PostMortem" /\ p.conn = c /\ p.counter = m.out[c] /\ Len(p.pkts) = Len(m.log[c])
      /\ \A l \in 1..Len(m.log[c]) : p.pkts[l] = m.log[c][l].pkt
      /\ \A y : y \in p.ids <=> \E l \in 1..Len(m.log[c]) : y \in Ids(m.log[c][l].pkt)
  BY <1>4, PostMortemIs
<1>6. P[d] = -1 /\ \A e \in Conn \ {c} : P[e] = m.pmSent[e]
  BY <1>2, <1>4
<1> HIDE DEF p
<1>7. Logged(p) /\ Ids(p) = p.ids
  BY <1>5 DEF Logged, Ids
<1> HIDE DEF P
<1>8. SentOn(m, n, d, p, P)
  <2> HIDE DEF d
  <2> QED BY <1>1, <1>2, <1>7, SendFields
<1> HIDE DEF n, k, d
<1>9. AsReceiver(m, n)
  BY <1>1, <1>2, <1>7, <1>8, SentReceiver
<1>10. n.pmSent = P /\ n.events = m.events /\ n.status = m.status /\ n.clearing = m.clearing /\ n.msg = m.msg /\ n.data = m.data
  BY <1>8, SentRest
<1>11. Whole(m) => Whole(n)
  <2>1. ASSUME Whole(m), NEW e \in Conn, n.pmSent[e] # -1 PROVE isClosed(n, e) /\ e # n.msg /\ e # n.data
    BY <1>6, <1>10, <2>1 DEF Whole, isClosed
  <2> QED BY <1>10, <2>1 DEF Whole, isClosed
<1>12. ASSUME NEW A \in Ages, Kept(m, o, A, {}) PROVE \E B \in Ages : Kept(n, o, B, {})
  <2> DEFINE B == [A EXCEPT ![d] = A[d] + A[c] + 1]
  <2>1. B \in Ages /\ B[c] < B[d] /\ (\A e \in Conn : A[e] <= B[e]) /\ \A e \in Conn \ {d} : B[e] = A[e]
    BY <1>2 DEF Ages
  <2>2. \A e \in Conn : A[e] \in Nat /\ B[e] \in Nat
    BY <2>1 DEF Ages
  <2> HIDE DEF B
  \* There is no post mortem of d.
  <2>3. ASSUME NEW e, NEW l, NEW q, At(m, e, l, q), q.type = "PostMortem" PROVE q.conn \in Conn \ {d}
    <3>1. Proper(m, e, q)
      BY <1>1, <2>3 DEF At, Sendings
    <3> QED BY <1>2, <2>3, <3>1 DEF Proper, IsMessage, PieceOf
  <2>4. ASSUME NEW e \in Conn, NEW l \in 1..Len(m.sent[e]) PROVE Made(o, e, m.sent[e][l], B)
    <3> DEFINE q == m.sent[e][l]
    <3>1. Made(o, e, q, A)
      BY <1>12 DEF Kept
    <3>2. At(m, e, l, q)
      BY DEF At
    <3> HIDE DEF q
    <3>3. SUFFICES ASSUME q.type = "PostMortem" PROVE B[q.conn] < B[e]
      BY <3>1 DEF Made, q
    <3>4. q.conn \in Conn \ {d}
      BY <2>3, <3>2, <3>3
    <3>5. A[q.conn] < A[e] /\ B[q.conn] = A[q.conn] /\ A[e] <= B[e]
      BY <2>1, <3>1, <3>3, <3>4 DEF Made
    <3> QED BY <2>2, <3>4, <3>5
  <2>5. ASSUME NEW q, Covered(o, {}, q, A) PROVE Covered(o, {}, q, B)
    <3> SUFFICES ASSUME NEW y \in Ids(q), ~Direct(o, y)
                 PROVE  \E u : Waits(o, {}, y, u) /\ (u = q \/ Inside(u, q, B))
      BY DEF Covered
    <3>1. PICK u : Waits(o, {}, y, u) /\ (u = q \/ Inside(u, q, A))
      BY <2>5 DEF Covered
    <3>2. ASSUME Inside(u, q, A), u.type = "PostMortem", ~IsMessage(u) PROVE Inside(u, q, B)
      <4>1. PICK b \in 1..Len(o.todo) : o.todo[b].type = "Packet" /\ o.todo[b].pkt = u
        BY <3>1 DEF Waits
      <4>2. JobOf(o, m, b, o.todo[b])
        BY <1>1 DEF Recovery
      <4>3. At(m, o.todo[b].conn, o.todo[b].num + 1, u)
        BY <4>1, <4>2 DEF JobOf
      <4>4. u.conn \in Conn \ {d}
        BY <2>3, <3>2, <4>3
      <4>5. q.type = "PostMortem" /\ q.conn \in Conn /\ A[u.conn] < A[q.conn]
        BY <3>2 DEF Inside
      <4>6. B[u.conn] = A[u.conn] /\ A[q.conn] <= B[q.conn]
        BY <2>1, <4>4, <4>5
      <4>7. B[u.conn] < B[q.conn]
        BY <2>2, <4>4, <4>5, <4>6
      <4> QED BY <3>2, <4>4, <4>5, <4>7 DEF Inside
    <3>3. u = q \/ Inside(u, q, B)
      BY <3>1, <3>2 DEF Inside
    <3> QED BY <3>1, <3>3
  <2>6. Made(o, d, p, B)
    <3>1. Counts(m, o, c)
      BY <1>12 DEF Kept
    <3> QED BY <1>5, <2>1, <3>1 DEF Made, Counts
  <2>7. \A e \in Conn : m.pmSent[e] = -1 => P[e] = -1 \/ \A l \in 1..Len(m.log[e]) : Ids(m.log[e][l].pkt) \subseteq Ids(p)
    <3> SUFFICES ASSUME NEW e \in Conn, P[e] # m.pmSent[e], NEW l \in 1..Len(m.log[e]), NEW y \in Ids(m.log[e][l].pkt)
                 PROVE  y \in Ids(p)
      OBVIOUS
    <3>1. e = c
      BY <1>6
    <3> QED BY <1>5, <1>7, <3>1
  <2>8. Kept(n, o, B, {})
    BY <1>1, <1>2, <1>3, <1>6, <1>8, <1>12, <2>4, <2>5, <2>6, <2>7, SendKept
  <2> QED BY <2>1, <2>8
<1>13. \A A : Kept(o, m, A, H) => Kept(o, n, A, H)
  BY <1>9, ReceiverKept
<1>14. Sure(n, o, H)
  BY <1>11, <1>12, <1>13 DEF Sure
<1>15. k = [m EXCEPT !.pmSent[c] = m.out[c]]
  BY <1>1 DEF k, P, Shape, Fields
<1> QED BY <1>14, <1>15 DEF n, p, d

LEMMA OnDisconnMainSure ==
  ASSUME NEW i, NEW m, NEW o, NEW x, Pair(i, m, o, x), NEW c \in Conn, isClosed(m, c), NEW H, Sure(m, o, H)
  PROVE  Sure(OnDisconnMain(m, c), o, H)
<1> DEFINE k == RemoveConn(m, c)
           n == SendPostMortem(k, c)
<1>1. Pair(i, k, o, x) /\ Sure(k, o, H) /\ k.status = m.status
  <2>1. Shape(m)
    BY DEF Pair, Local
  <2>2. k.status = m.status
    BY <2>1 DEF RemoveConn, Shape, Fields
  <2>3. Pair(i, k, o, x)
    BY RemoveConnIs
  <2>4. Sure(k, o, H)
    BY <2>1, RemoveConnPlain, PlainSure
  <2> QED BY <2>2, <2>3, <2>4
<1>2. c # k.msg /\ c # k.data
  <2>1. k.msg # c /\ k.data # c
    BY ConnAssumption DEF RemoveConn, Pair, Local, Shape, Fields
  <2> QED BY <2>1
<1> HIDE DEF k
<1>3. Pair(i, n, o, x) /\ Shape(n) /\ Shape(m) /\ Shape(k)
  BY <1>1, SendPostMortemIs DEF Pair, Local
<1>4. isClosed(k, c)
  BY <1>1 DEF isClosed
<1>5. OnDisconnMain(m, c) \in {OnClientDisconnect(m), OnClientDisconnect(n)}
  BY DEF OnDisconnMain, k
<1>6. Sure(OnClientDisconnect(m), o, H)
  BY <1>3, GonePlain, PlainSure
<1>7. Sure(OnClientDisconnect(n), o, H)
  <2>1. CASE n = k
    BY <1>1, <1>3, <2>1, GonePlain, PlainSure
  <2>2. CASE n # k
    <3>1. n = IF isConnected(k) THEN Send([k EXCEPT !.pmSent[c] = k.out[c]], k.msg, PostMortem(k, c))
              ELSE [k EXCEPT !.pmSent[c] = k.out[c]]
      BY <2>2 DEF SendPostMortem
    <3> HIDE DEF n
    <3>2. CASE isConnected(k)
      <4>1. Sure(n, o, H)
        BY <1>1, <1>2, <1>4, <3>1, <3>2, PostMortemSure
      <4> QED BY <1>3, <4>1, GonePlain, PlainSure
    <3>3. CASE ~isConnected(k)
      BY <1>1, <1>2, <1>3, <1>4, <3>1, <3>3, LastMarkSure
    <3> QED BY <3>2, <3>3
  <2> QED BY <2>1, <2>2
<1> QED BY <1>5, <1>6, <1>7

-----------------------------------------------------------------------------
(* A packet in hand is dealt with.                                         *)

LEMMA SureMore ==
  ASSUME NEW m, NEW o, NEW p, Sure(m, o, {})
  PROVE  Sure(m, o, {p})
<1>1. \A x, u : Waits(m, {}, x, u) => Waits(m, {p}, x, u)
  BY DEF Waits
<1>2. \A A : Kept(o, m, A, {}) => Kept(o, m, A, {p})
  <2>1. \A q, A : Covered(m, {}, q, A) => Covered(m, {p}, q, A)
    BY <1>1 DEF Covered
  <2>2. \A q : Safe(o, m, {}, q) => Safe(o, m, {p}, q)
    BY <1>1 DEF Safe
  <2> QED BY <2>1, <2>2 DEF Kept
<1> QED BY <1>2 DEF Sure

LEMMA SureLess ==
  ASSUME NEW m, NEW o, NEW p, Sure(m, o, {p}), \A x \in Ids(p) : Direct(m, x)
  PROVE  Sure(m, o, {})
<1>1. \A x, u : Waits(m, {p}, x, u) => Waits(m, {}, x, u) \/ Direct(m, x)
  BY DEF Waits
<1>2. \A A : Kept(o, m, A, {p}) => Kept(o, m, A, {})
  <2>1. \A q, A : Covered(m, {p}, q, A) => Covered(m, {}, q, A)
    BY <1>1 DEF Covered
  <2>2. \A q : Safe(o, m, {p}, q) => Safe(o, m, {}, q)
    BY <1>1 DEF Safe
  <2> QED BY <2>1, <2>2 DEF Kept
<1> QED BY <1>2 DEF Sure

LEMMA SureBut ==
  ASSUME NEW m, NEW n, NEW o, NEW p, Plain(m, n), Sure(m, o, {p}), \A x \in Ids(p) : Direct(n, x)
  PROVE  Sure(n, o, {})
<1>1. Sure(n, o, {p})
  BY PlainSure
<1> QED BY <1>1, SureLess

LEMMA InsideTwice ==
  ASSUME NEW A \in Ages, NEW p, NEW q, NEW r, Inside(p, q, A), Inside(q, r, A)
  PROVE  Inside(p, r, A)
<1> SUFFICES ASSUME ~IsMessage(p) PROVE Inside(p, r, A)
  BY DEF Inside
<1>1. p.type = "PostMortem" /\ q.type = "PostMortem" /\ p.conn \in Conn /\ q.conn \in Conn /\ A[p.conn] < A[q.conn]
  BY DEF Inside
<1>2. r.type = "PostMortem" /\ r.conn \in Conn /\ A[q.conn] < A[r.conn]
  BY <1>1 DEF Inside, IsMessage
<1>3. A[p.conn] \in Nat /\ A[q.conn] \in Nat /\ A[r.conn] \in Nat
  BY <1>1, <1>2 DEF Ages
<1>4. A[p.conn] < A[r.conn]
  BY <1>1, <1>2, <1>3
<1> QED BY <1>1, <1>2, <1>4 DEF Inside

LEMMA InsideNot ==
  ASSUME NEW A \in Ages, NEW p, p.type = "PostMortem", Inside(p, p, A)
  PROVE  FALSE
<1>1. p.conn \in Conn /\ A[p.conn] < A[p.conn]
  BY DEF Inside, IsMessage
<1>2. A[p.conn] \in Nat
  BY <1>1 DEF Ages
<1> QED BY <1>1, <1>2

\* What is to be done comes first.
Into(p, t) == \A y \in 1..Len(p) : \E z \in 1..Len(t) : t[z] = p[y]

LEMMA FirstDone ==
  ASSUME NEW p, IsSeq(p), NEW e, IsSeq(e), NEW q, IsSeq(q), NEW t, t = p \o e \o q
  PROVE  Into(p, t) /\ Into(q, t)
<1> DEFINE f == p \o e
<1>1. IsSeq(f) /\ Len(f) = Len(p) + Len(e) /\ \A y \in 1..Len(p) : f[y] = p[y]
  BY ConcatIs
<1> HIDE DEF f
<1>2. /\ Len(t) = Len(f) + Len(q) /\ (\A y \in 1..Len(f) : t[y] = f[y])
      /\ \A y \in 1..Len(q) : t[Len(f) + y] = q[y]
  <2>1. IsSeq(f) /\ IsSeq(q) /\ t = f \o q
    BY <1>1 DEF f
  <2> QED BY ONLY <2>1, ConcatIs
<1>3. Len(p) \in Nat /\ Len(q) \in Nat /\ Len(e) \in Nat
  BY SeqIs
<1>4. ASSUME NEW y \in 1..Len(p) PROVE \E z \in 1..Len(t) : t[z] = p[y]
  <2>1. y \in 1..Len(f) /\ y \in 1..Len(t)
    BY <1>1, <1>2, <1>3
  <2> QED BY <1>1, <1>2, <2>1
<1>5. ASSUME NEW y \in 1..Len(q) PROVE \E z \in 1..Len(t) : t[z] = q[y]
  <2>1. Len(f) + y \in 1..Len(t)
    BY <1>1, <1>2, <1>3
  <2> QED BY <1>2, <2>1
<1> QED BY <1>4, <1>5 DEF Into

\* What was not counted is to be done.
LEMMA PacketsThere ==
  ASSUME NEW p, p.counter \in Nat, Len(p.pkts) \in Nat, NEW n \in Nat, p.counter - Len(p.pkts) <= n,
         NEW k \in 1..Len(p.pkts), n < p.counter - Len(p.pkts) + k
  PROVE  LET q == PacketsFrom(p, n) IN \E y \in 1..Len(q) : q[y].type = "Packet" /\ q[y].pkt = p.pkts[k]
<1> DEFINE C == p.counter
           L == Len(p.pkts)
           F == C - L
           D == C - n
           T == {Job(p.conn, n + y - 1, p.pkts[n - F + y]) : y \in 1..D}
           q == PacketsFrom(p, n)
           z == F + k - n
<1>1. C \in Nat /\ L \in Nat /\ k \in 1..L /\ F <= n /\ n < F + k
  OBVIOUS
<1> HIDE DEF C, L, q
<1>2. n \in F..C - 1 /\ D \in Nat
  BY <1>1
<1>3. z \in 1..D /\ n - F + z = k
  BY <1>1
<1>4. q = [y \in 1..D |-> Job(p.conn, n + y - 1, p.pkts[n - F + y])]
  BY <1>2 DEF PacketsFrom, C, L, q
<1>5. \A y \in 1..D : Job(p.conn, n + y - 1, p.pkts[n - F + y]) \in T
  OBVIOUS
<1> HIDE DEF D, F, T, z
<1>6. q \in Seq(T) /\ Len(q) = D
  <2>1. q \in [1..D -> T]
    BY <1>4, <1>5
  <2> QED BY <1>2, <1>4, <2>1
<1>7. q[z] = Job(p.conn, n + z - 1, p.pkts[k])
  BY <1>3, <1>4
<1>8. q[z].type = "Packet" /\ q[z].pkt = p.pkts[k]
  BY <1>7 DEF Job
<1> QED BY <1>3, <1>6, <1>8 DEF q

LEMMA HandlePostMortemSure ==
  ASSUME NEW m, Shape(m), NEW o, Shape(o), Sendings(o), NEW p, p.type = "PostMortem", NEW c, NEW l, At(o, c, l, p),
         Sure(m, o, {p})
  PROVE  Sure(HandlePostMortem(m, p), o, {})
<1> DEFINE d == p.conn
           N == m.in[d]
           new == PacketsFrom(p, N)
           todo == new \o <<Removal(d)>> \o m.todo
           n == [m EXCEPT !.todo = todo]
<1>1. /\ Shape(m) /\ Sendings(o) /\ IsSeqs(o.sent, Conn)
  BY DEF Shape
<1> SUFFICES ASSUME d \in m.listed PROVE Sure(n, o, {})
  <2>1. HandlePostMortem(m, p) = IF d \in m.listed THEN n ELSE Drop(m, p, "Unknown")
    BY DEF HandlePostMortem
  <2>2. Sure(Drop(m, p, "Unknown"), o, {})
    BY <1>1, DropPlain, SureBut
  <2> QED BY <2>1, <2>2
<1>2. PieceOf(o, p) /\ d \in Conn /\ N \in Nat
  <2>1. Proper(o, c, p)
    BY <1>1 DEF Sendings, At
  <2>2. PieceOf(o, p) /\ d \in Conn
    BY <2>1 DEF Proper, IsMessage, PieceOf
  <2> QED BY <1>1, <2>2 DEF Shape
<1>3. IsSeq(new) /\ IsSeq(m.todo)
  BY <1>1, <1>2, PacketsFromIs DEF Shape
<1>4. n.todo = todo /\ \A f \in Fields \ {"todo"} : n[f] = m[f]
  BY <1>1 DEF Shape, Fields
<1> HIDE DEF new
<1>5. /\ \A y \in 1..Len(new) : \E z \in 1..Len(todo) : todo[z] = new[y]
      /\ \A y \in 1..Len(m.todo) : \E z \in 1..Len(todo) : todo[z] = m.todo[y]
  <2> DEFINE e == <<Removal(d)>>
             q == m.todo
             t == new \o e \o q
  <2>1. IsSeq(e)
    <3>1. e \in Seq({Removal(d)})
      OBVIOUS
    <3> HIDE DEF e
    <3> QED BY <3>1 DEF IsSeq
  <2>2. IsSeq(new) /\ IsSeq(q)
    BY <1>3
  <2>4. t = new \o e \o q
    OBVIOUS
  <2> HIDE DEF e, q, t
  <2>3. Into(new, t) /\ Into(q, t)
    BY <2>1, <2>2, <2>4, FirstDone
  <2> QED BY <2>3 DEF q, e, t, Into
<1> HIDE DEF n, todo
<1>6. /\ n.in = m.in /\ n.out = m.out /\ n.log = m.log /\ n.pmSent = m.pmSent /\ n.events = m.events
      /\ n.sent = m.sent /\ n.handled = m.handled /\ n.wire = m.wire /\ n.status = m.status /\ n.dropped = m.dropped
      /\ n.gone = m.gone /\ n.msg = m.msg /\ n.data = m.data /\ n.clearing = m.clearing
  BY <1>4 DEF Fields
<1>7. AsSender(m, n) /\ (Whole(m) => Whole(n))
  BY <1>6 DEF AsSender, Whole, isClosed
<1>8. \A y : Direct(m, y) <=> Direct(n, y)
  BY <1>6 DEF Direct
<1>9. \A y, u : Waits(m, {p}, y, u) => Waits(n, {}, y, u) \/ u = p
  BY <1>4, <1>5 DEF Waits
<1>10. Ids(p) = p.ids
  BY DEF Ids
<1>11. ASSUME NEW A \in Ages, Kept(o, m, A, {p}) PROVE Kept(o, n, A, {})
  <2>1. /\ p.counter \in Nat /\ Len(p.pkts) \in Nat /\ p.counter - Len(p.pkts) <= N
        /\ \A y : y \in p.ids <=> \E k \in 1..Len(p.pkts) : y \in Ids(p.pkts[k])
    <3>1. Made(m, c, p, A)
      BY <1>11 DEF Kept, At
    <3> QED BY <1>2, <3>1, SeqIs DEF Made, PieceOf
  \* A piece of it.
  <2>2. ASSUME NEW k \in 1..Len(p.pkts) PROVE Inside(p.pkts[k], p, A)
    <3> DEFINE y == p.counter - Len(p.pkts) + k
               u == p.pkts[k]
    <3>1. u = o.sent[d][y] /\ y \in 1..Len(o.sent[d])
      <4>1. p.counter <= Len(o.sent[d]) /\ Len(p.pkts) <= p.counter /\ Len(o.sent[d]) \in Nat
        BY <1>1, <1>2, SeqIs DEF PieceOf, IsSeqs
      <4>2. u = o.sent[d][y]
        BY <1>2 DEF PieceOf
      <4> HIDE DEF u
      <4> DEFINE a == p.counter
                 b == Len(p.pkts)
                 g == Len(o.sent[d])
      <4>3. a \in Nat /\ b \in Nat /\ k \in 1..b /\ a <= g /\ b <= a /\ g \in Nat /\ y = a - b + k
        BY <2>1, <4>1
      <4> HIDE DEF a, b, g, y
      <4>4. y \in 1..g
        BY <4>3
      <4> QED BY <4>2, <4>4 DEF g, y
    <3> HIDE DEF u, y
    <3>2. Proper(o, d, u) /\ Made(m, d, u, A)
      BY <1>1, <1>2, <1>11, <3>1 DEF Sendings, Kept
    <3>3. Inside(u, p, A)
      BY <1>2, <3>2 DEF Proper, Made, Inside, PieceOf
    <3> QED BY <3>3 DEF u
  <2>3. ASSUME ~m.gone, NEW y \in p.ids, ~Direct(m, y) PROVE \E v : Waits(n, {}, y, v) /\ Inside(v, p, A)
    <3>1. PICK k \in 1..Len(p.pkts) : y \in Ids(p.pkts[k])
      BY <2>1, <2>3
    <3> DEFINE b == p.counter - Len(p.pkts) + k
               u == p.pkts[k]
    <3>2. CASE N < b
      <4>1. \E z \in 1..Len(new) : new[z].type = "Packet" /\ new[z].pkt = u
        BY <1>2, <2>1, <3>2, PacketsThere DEF new
      <4>2. Waits(n, {}, y, u)
        BY <1>4, <1>5, <3>1, <4>1 DEF Waits
      <4> QED BY <2>2, <4>2
    <3>3. CASE ~(N < b)
      <4>1. b \in 1..N
        <5>1. b >= 1 /\ b \in Int
          BY <1>2, <2>1 DEF PieceOf
        <5> QED BY <1>2, <3>3, <5>1
      <4>2. u = o.sent[d][b]
        BY <1>2 DEF PieceOf
      <4>3. Covered(m, {p}, u, A)
        BY <1>2, <1>11, <2>3, <4>1, <4>2 DEF Kept
      <4>4. PICK v : Waits(m, {p}, y, v) /\ (v = u \/ Inside(v, u, A))
        BY <2>3, <3>1, <4>3 DEF Covered
      <4>5. Inside(v, p, A)
        <5>1. Inside(u, p, A)
          BY <2>2
        <5> HIDE DEF u
        <5> QED BY <4>4, <5>1, InsideTwice
      <4>6. v # p
        BY <4>5, InsideNot
      <4> QED BY <1>9, <4>4, <4>5, <4>6
    <3> QED BY <3>2, <3>3
  <2>4. ASSUME ~m.gone, NEW q, Covered(m, {p}, q, A) PROVE Covered(n, {}, q, A)
    <3> SUFFICES ASSUME NEW y \in Ids(q), ~Direct(m, y)
                 PROVE  \E u : Waits(n, {}, y, u) /\ (u = q \/ Inside(u, q, A))
      BY <1>8 DEF Covered
    <3>1. PICK u : Waits(m, {p}, y, u) /\ (u = q \/ Inside(u, q, A))
      BY <2>4 DEF Covered
    <3>2. CASE u # p
      BY <1>9, <3>1, <3>2
    <3>3. CASE u = p
      <4>1. y \in p.ids
        BY <1>10, <3>1, <3>3 DEF Waits
      <4>2. PICK v : Waits(n, {}, y, v) /\ Inside(v, p, A)
        BY <2>3, <2>4, <4>1
      <4>3. v = q \/ Inside(v, q, A)
        BY <3>1, <3>3, <4>2, InsideTwice
      <4> QED BY <4>2, <4>3
    <3> QED BY <3>2, <3>3
  <2>5. ASSUME ~m.gone, NEW q, Safe(o, m, {p}, q) PROVE Safe(o, n, {}, q)
    <3> SUFFICES ASSUME NEW y \in Ids(q), ~Direct(m, y), ~InLog(o, m, y)
                 PROVE  \E u : Waits(n, {}, y, u)
      BY <1>6, <1>8 DEF Safe, InLog
    <3>1. PICK u : Waits(m, {p}, y, u)
      BY <2>5 DEF Safe
    <3>2. u = p => y \in p.ids
      BY <1>10, <3>1 DEF Waits
    <3> QED BY <1>9, <2>3, <2>5, <3>1, <3>2
  <2>6. Pings(n) /\ \A e \in Conn : Counts(o, n, e)
    BY <1>6, <1>11 DEF Kept, Pings, Counts
  <2>7. \A e \in Conn : \A k \in 1..Len(o.sent[e]) : Made(n, e, o.sent[e][k], A)
    BY <1>6, <1>11 DEF Kept, Made
  <2>8. ~n.gone => \A e \in Conn : \A k \in 1..n.in[e] : Covered(n, {}, o.sent[e][k], A)
    BY <1>6, <1>11, <2>4 DEF Kept
  <2>9. ~n.gone /\ ~o.gone => \A e \in Conn : \A k \in 1..Len(o.sent[e]) : Safe(o, n, {}, o.sent[e][k])
    BY <1>6, <1>11, <2>5 DEF Kept
  <2> QED BY <2>6, <2>7, <2>8, <2>9 DEF Kept
<1>12. \A A : Kept(m, o, A, {}) => Kept(n, o, A, {})
  BY <1>7, SenderKept
<1> QED BY <1>7, <1>11, <1>12 DEF Sure

LEMMA HandlePacketSure ==
  ASSUME AtomicClear, NEW m, Shape(m), Logs(m), NEW o, Shape(o), Sendings(o), NEW c \in Conn, NEW p, NEW way,
         \/ p.type \in {"Conn", "ConnRe"}
         \/ p.type = "Ping" /\ p.counter \in Nat /\ p.counter <= o.in[c]
         \/ \E l : At(o, c, l, p),
         Sure(m, o, {p})
  PROVE  Sure(HandlePacket(m, c, p, way), o, {})
<1> DEFINE n == HandlePacket(m, c, p, way)
<1>1. Shape(m) /\ Logs(m) /\ Sendings(o) /\ o.in \in [Conn -> Nat]
  BY DEF Shape
<1>2. Sure(Drop(m, p, way), o, {})
  BY <1>1, DropPlain, SureBut
<1>3. ASSUME p.type \in {"Conn", "ConnRe"} PROVE Sure(n, o, {})
  <2> DEFINE k == IF p.type = "Conn" THEN HandleConnNet(m, c) ELSE HandleConnReNet(m, c)
             e == Packet(c, p)
  <2>1. Plain(m, k) /\ Shape(k)
    BY <1>1, HandleConnPlain, HandleConnReNetPlain
  <2>2. n = PushEvent(k, e)
    BY <1>3 DEF HandlePacket
  <2> HIDE DEF k
  <2>3. Notice(e) /\ e.type = "Packet" /\ e.pkt = p
    BY <1>3 DEF Notice, Packet
  <2>4. e.type = "Disconn" => isClosed(k, e.conn)
    BY <2>3
  <2> HIDE DEF e
  <2>5. Plain(k, PushEvent(k, e)) /\ \A y \in Ids(p) : Direct(PushEvent(k, e), y)
    BY <2>1, <2>3, <2>4, EventPlain
  <2>6. Plain(m, n) /\ \A y \in Ids(p) : Direct(n, y)
    BY <2>1, <2>2, <2>5, PlainTwice
  <2> HIDE DEF n
  <2> QED BY <2>6, SureBut
<1>4. ASSUME p.type = "Ping" PROVE Sure(n, o, {})
  <2>1. n \in {m, SearchLog(m, c, p.counter)}
    BY <1>4 DEF HandlePacket
  <2>2. p.counter \in Nat /\ p.counter <= o.in[c]
    <3>1. ASSUME NEW l, At(o, c, l, p) PROVE FALSE
      <4>1. Proper(o, c, p)
        BY <1>1, <3>1 DEF Sendings, At
      <4> QED BY <1>4, <4>1 DEF Proper, IsMessage
    <3> QED BY <1>4, <3>1
  <2>3. Sure(SearchLog(m, c, p.counter), o, {p})
    BY <1>1, <2>2, SearchLogSure
  <2>4. Sure(n, o, {p})
    BY <2>1, <2>3
  <2>5. \A y \in Ids(p) : FALSE
    BY <1>4 DEF Ids
  <2> HIDE DEF n
  <2> QED BY <2>4, <2>5, SureLess
<1>5. ASSUME p.type = "PostMortem" PROVE Sure(n, o, {})
  <2>1. n \in {Drop(m, p, way), HandlePostMortem(m, p)}
    BY <1>5 DEF HandlePacket
  <2>2. PICK l : At(o, c, l, p)
    BY <1>5
  <2>3. Sure(HandlePostMortem(m, p), o, {})
    BY <1>5, <2>2, HandlePostMortemSure
  <2> QED BY <1>2, <2>1, <2>3
<1>6. ASSUME IsMessage(p), NEW l, At(o, c, l, p) PROVE Sure(n, o, {})
  <2>1. p.thread \in Thread /\ Ids(p) = {p.id}
    <3>1. Proper(o, c, p)
      BY <1>1, <1>6 DEF Sendings, At
    <3> QED BY <1>6, <3>1 DEF Proper, IsMessage, Ids
  <2>2. CASE p.thread = "Net"
    <3> DEFINE k == [m EXCEPT !.handled["Net"] = Append(@, p)]
    <3>1. n \in {Drop(m, p, way), k}
      BY <1>6, <2>2 DEF HandlePacket, Handle, IsMessage
    <3>2. Plain(m, k) /\ Direct(k, p.id)
      BY <1>1, HandledPlain DEF Thread
    <3> HIDE DEF k
    <3>3. Sure(k, o, {})
      BY <2>1, <3>2, SureBut
    <3> QED BY <1>2, <3>1, <3>3
  <2>3. CASE p.thread = "Main"
    <3> DEFINE e == Packet(c, p)
               k == PushEvent(m, e)
    <3>1. n \in {Drop(m, p, way), k}
      BY <1>6, <2>3 DEF HandlePacket, IsMessage
    <3>2. Notice(e) /\ e.type = "Packet" /\ e.pkt = p
      BY <1>6 DEF Notice, Packet, IsMessage
    <3>3. e.type = "Disconn" => isClosed(m, e.conn)
      BY <3>2
    <3> HIDE DEF e
    <3>4. Plain(m, k) /\ \A y \in Ids(p) : Direct(k, y)
      BY <1>1, <3>2, <3>3, EventPlain
    <3> HIDE DEF k
    <3>5. Sure(k, o, {})
      BY <3>4, SureBut
    <3> QED BY <1>2, <3>1, <3>5
  <2> QED BY <2>1, <2>2, <2>3 DEF Thread
<1>7. ASSUME NEW l, At(o, c, l, p) PROVE p.type = "PostMortem" \/ IsMessage(p)
  BY <1>1, <1>7 DEF Sendings, At, Proper
<1> QED BY <1>3, <1>4, <1>5, <1>6, <1>7

-----------------------------------------------------------------------------
(* The steps.                                                              *)

\* What is taken off the list is in hand.
LEMMA HandOver ==
  ASSUME NEW m, NEW k, \A f \in Fields \ {"todo"} : k[f] = m[f], NEW H, \A y, u : Waits(m, {}, y, u) => Waits(k, H, y, u),
         NEW o, Sure(m, o, {})
  PROVE  Sure(k, o, H)
<1>1. /\ k.in = m.in /\ k.out = m.out /\ k.log = m.log /\ k.pmSent = m.pmSent /\ k.events = m.events
      /\ k.sent = m.sent /\ k.handled = m.handled /\ k.wire = m.wire /\ k.status = m.status /\ k.dropped = m.dropped
      /\ k.gone = m.gone /\ k.msg = m.msg /\ k.data = m.data /\ k.clearing = m.clearing
  BY DEF Fields
<1>2. AsSender(m, k) /\ (Whole(m) => Whole(k)) /\ (Pings(m) => Pings(k))
  BY <1>1 DEF AsSender, Whole, isClosed, Pings
<1>3. (\A y : Direct(m, y) => Direct(k, y)) /\ \A y : InLog(o, m, y) => InLog(o, k, y)
  BY <1>1 DEF Direct, InLog
<1>4. ASSUME NEW A, Kept(o, m, A, {}) PROVE Kept(o, k, A, H)
  <2>1. \A q : Covered(m, {}, q, A) => Covered(k, H, q, A)
    BY <1>3 DEF Covered
  <2>2. \A q : Safe(o, m, {}, q) => Safe(o, k, H, q)
    BY <1>3 DEF Safe
  <2>3. \A e \in Conn : Counts(o, k, e)
    BY <1>1, <1>4 DEF Kept, Counts
  <2>4. \A e \in Conn : \A l \in 1..Len(o.sent[e]) : Made(k, e, o.sent[e][l], A)
    BY <1>1, <1>4 DEF Kept, Made
  <2>5. ~k.gone => \A e \in Conn : \A l \in 1..k.in[e] : Covered(k, H, o.sent[e][l], A)
    BY <1>1, <1>4, <2>1 DEF Kept
  <2>6. ~k.gone /\ ~o.gone => \A e \in Conn : \A l \in 1..Len(o.sent[e]) : Safe(o, k, H, o.sent[e][l])
    BY <1>1, <1>4, <2>2 DEF Kept
  <2> QED BY <1>2, <1>4, <2>3, <2>4, <2>5, <2>6 DEF Kept
<1> QED BY <1>2, <1>4, SenderKept DEF Sure

LEMMA DoJobSure ==
  ASSUME AtomicClear, NEW i, NEW m, NEW o, NEW x, Pair(i, m, o, x), m.todo # <<>>, Sure(m, o, {})
  PROVE  Sure(DoJob([m EXCEPT !.todo = Tail(@)], Head(m.todo)), o, {})
<1> DEFINE q == Tail(m.todo)
           k == [m EXCEPT !.todo = q]
           j == m.todo[1]
           c == j.conn
<1>1. Shape(m) /\ Logs(m) /\ Recovery(m, o) /\ Shape(o) /\ Sendings(o)
  BY DEF Pair, Local, Link
<1>2. /\ IsSeq(q) /\ Len(q) = Len(m.todo) - 1 /\ Len(m.todo) \in Nat /\ Len(m.todo) # 0
      /\ (\A y \in 1..Len(q) : q[y] = m.todo[y + 1]) /\ Head(m.todo) = j /\ 1 \in 1..Len(m.todo)
  BY <1>1, TailIs DEF Shape
<1>3. [m EXCEPT !.todo = Tail(@)] = k
  OBVIOUS
<1> HIDE DEF q
<1>4. k = [f \in Fields |-> k[f]] /\ k.todo = q /\ \A f \in Fields \ {"todo"} : k[f] = m[f]
  BY <1>1 DEF Shape, Fields
<1> HIDE DEF k
<1>5. /\ k.in = m.in /\ k.out = m.out /\ k.log = m.log /\ k.pmSent = m.pmSent /\ k.events = m.events
      /\ k.sock = m.sock /\ k.sent = m.sent /\ k.handled = m.handled /\ k.wire = m.wire /\ k.status = m.status
      /\ k.gone = m.gone /\ k.msg = m.msg /\ k.data = m.data /\ k.clearing = m.clearing /\ k.listed = m.listed
  BY <1>4 DEF Fields
<1>6. JobOf(m, o, 1, j)
  BY <1>1, <1>2 DEF Recovery
<1>7. c \in Conn /\ Shape(k) /\ Logs(k)
  <2>1. Shape(k)
    BY <1>1, <1>2, <1>4, <1>5 DEF Shape
  <2>2. Logs(k)
    BY <1>1, <1>5 DEF Logs
  <2>3. c \in Conn
    BY <1>1, <1>6 DEF JobOf, Shape
  <2> QED BY <2>1, <2>2, <2>3
<1>8. \A y \in 1..Len(m.todo) : y = 1 \/ \E z \in 1..Len(q) : q[z] = m.todo[y]
  <2> SUFFICES ASSUME NEW y \in 1..Len(m.todo), y # 1 PROVE \E z \in 1..Len(q) : q[z] = m.todo[y]
    OBVIOUS
  <2>1. y - 1 \in 1..Len(q) /\ y - 1 + 1 = y
    BY <1>2
  <2> QED BY <1>2, <2>1
<1>9. CASE j.type = "Packet"
  <2> DEFINE p == j.pkt
  <2>1. \A y, u : Waits(m, {}, y, u) => Waits(k, {p}, y, u)
    BY <1>4, <1>8 DEF Waits
  <2>2. \E l : At(o, c, l, p)
    BY <1>6, <1>9 DEF JobOf
  <2> HIDE DEF p, c, j
  <2>3. Sure(k, o, {p})
    BY <1>4, <2>1, HandOver
  <2>4. Sure(HandlePacket(k, c, p, "PostMortem"), o, {})
    BY <1>1, <1>7, <2>2, <2>3, HandlePacketSure
  <2> QED BY <1>2, <1>3, <1>9, <2>4 DEF DoJob, p, c
<1>10. CASE j.type # "Packet"
  <2>1. \A y, u : Waits(m, {}, y, u) => Waits(k, {}, y, u)
    BY <1>4, <1>8, <1>10 DEF Waits
  <2> HIDE DEF c, j
  <2>2. Sure(k, o, {})
    BY <1>4, <2>1, HandOver
  <2>3. Plain(k, Close(k, c)) /\ Shape(Close(k, c))
    BY <1>7, ClosePlain
  <2>4. Plain(k, RemoveConnection(Close(k, c), c))
    BY <2>3, RemovePlain, PlainTwice
  <2>5. Sure(RemoveConnection(Close(k, c), c), o, {})
    BY <2>2, <2>4, PlainSure
  <2> QED BY <1>2, <1>3, <1>10, <2>5 DEF DoJob, c
<1> QED BY <1>9, <1>10

\* What comes off the wire is counted and in hand.
LEMMA CountSure ==
  ASSUME NEW m, Shape(m), NEW k, NEW c \in Conn, \A f \in Fields \ {"in"} : k[f] = m[f],
         k.in = [m.in EXCEPT ![c] = m.in[c] + 1],
         NEW u, Shape(u), Logs(u), Sendings(u), m.in[c] + 1 <= Len(u.sent[c]), NEW p, p = u.sent[c][m.in[c] + 1], Sure(m, u, {})
  PROVE  Sure(k, u, {p})
<1>1. /\ k.todo = m.todo /\ k.out = m.out /\ k.log = m.log /\ k.pmSent = m.pmSent /\ k.events = m.events
      /\ k.sent = m.sent /\ k.handled = m.handled /\ k.wire = m.wire /\ k.status = m.status /\ k.dropped = m.dropped
      /\ k.gone = m.gone /\ k.msg = m.msg /\ k.data = m.data /\ k.clearing = m.clearing
  BY DEF Fields
<1>2. m.in \in [Conn -> Nat]
  BY DEF Shape
<1>3. k.in[c] = m.in[c] + 1 /\ m.in[c] \in Nat /\ \A d \in Conn \ {c} : k.in[d] = m.in[d]
  BY <1>2
<1>4. \A d \in Conn : m.in[d] <= k.in[d] /\ m.in[d] \in Nat /\ k.in[d] \in Nat
  BY <1>2, <1>3
<1>5. AsSender(m, k) /\ (Whole(m) => Whole(k))
  BY <1>1 DEF AsSender, Whole, isClosed
<1>6. ASSUME Pings(m) PROVE Pings(k)
  <2> SUFFICES ASSUME NEW d \in Conn, NEW y \in 1..Len(k.wire[d]), k.wire[d][y].type = "Ping"
               PROVE  k.wire[d][y].counter \in Nat /\ k.wire[d][y].counter <= k.in[d]
    BY DEF Pings
  <2>1. k.wire[d][y].counter \in Nat /\ k.wire[d][y].counter <= m.in[d]
    BY <1>1, <1>6 DEF Pings
  <2> QED BY <1>4, <2>1
<1>7. \A y : Direct(m, y) => Direct(k, y)
  BY <1>1 DEF Direct
<1>8. \A y, v : Waits(m, {}, y, v) => Waits(k, {p}, y, v)
  BY <1>1 DEF Waits
<1>9. ASSUME NEW y, InLog(u, m, y) PROVE InLog(u, k, y) \/ Waits(k, {p}, y, p)
  <2>1. PICK d \in Conn : u.pmSent[d] = -1 /\ \E l \in 1..Len(u.log[d]) : u.log[d][l].num >= m.in[d] /\ y \in Ids(u.log[d][l].pkt)
    BY <1>9 DEF InLog
  <2>2. PICK l \in 1..Len(u.log[d]) : u.log[d][l].num >= m.in[d] /\ y \in Ids(u.log[d][l].pkt)
    BY <2>1
  <2> DEFINE e == u.log[d][l]
             b == u.out[d] - Len(u.log[d]) + l
  <2>3. e.num = b - 1 /\ e.pkt = u.sent[d][b]
    <3>1. u.out[d] \in Nat /\ Len(u.log[d]) \in Nat
      BY SeqIs DEF Shape, IsSeqs
    <3>2. e.num = u.out[d] - Len(u.log[d]) + l - 1 /\ e.pkt = u.sent[d][b]
      BY EntryIs
    <3>3. e.num = b - 1
      BY <3>1, <3>2
    <3> QED BY <3>2, <3>3
  <2>4. b \in Int
    <3>1. u.out[d] \in Nat /\ Len(u.log[d]) \in Nat
      BY SeqIs DEF Shape, IsSeqs
    <3> QED BY <3>1
  <2> HIDE DEF b
  <2>5. CASE e.num >= k.in[d]
    BY <2>1, <2>2, <2>5 DEF InLog
  <2>6. CASE ~(e.num >= k.in[d])
    <3>1. d = c
      BY <1>3, <2>2, <2>6
    <3>2. b = m.in[c] + 1
      BY <1>3, <2>2, <2>3, <2>4, <2>6, <3>1
    <3>3. e.pkt = p
      BY <2>3, <3>1, <3>2
    <3> QED BY <2>2, <3>3 DEF Waits
  <2> QED BY <2>5, <2>6
<1>10. ASSUME NEW A, Kept(u, m, A, {}) PROVE Kept(u, k, A, {p})
  <2>1. \A q : Covered(m, {}, q, A) => Covered(k, {p}, q, A)
    BY <1>7, <1>8 DEF Covered
  <2>2. \A q : Safe(u, m, {}, q) => Safe(u, k, {p}, q)
    BY <1>7, <1>8, <1>9 DEF Safe
  <2>3. ASSUME NEW d \in Conn PROVE Counts(u, k, d)
    <3>1. u.out[d] - Len(u.log[d]) \in Int /\ u.out[d] - Len(u.log[d]) <= m.in[d] /\ m.in[d] <= Len(u.sent[d])
      <4>1. u.out[d] \in Nat /\ Len(u.log[d]) \in Nat
        BY SeqIs DEF Shape, IsSeqs
      <4> QED BY <1>10, <4>1 DEF Kept, Counts
    <3>2. u.out[d] - Len(u.log[d]) <= k.in[d]
      BY <1>4, <3>1
    <3>3. k.in[d] <= Len(u.sent[d])
      BY <1>3, <3>1
    <3> QED BY <3>2, <3>3 DEF Counts
  <2>4. ASSUME NEW d \in Conn, NEW l \in 1..Len(u.sent[d]) PROVE Made(k, d, u.sent[d][l], A)
    <3> DEFINE q == u.sent[d][l]
    <3>1. Made(m, d, q, A)
      BY <1>10 DEF Kept
    <3> HIDE DEF q
    <3>2. SUFFICES ASSUME q.type = "PostMortem" PROVE q.counter - Len(q.pkts) <= k.in[q.conn]
      BY <3>1 DEF Made, q
    <3>3. q.conn \in Conn /\ q.counter \in Nat /\ Len(q.pkts) \in Nat
      <4>1. Proper(u, d, q)
        BY DEF Sendings, q
      <4> QED BY <3>2, <4>1, SeqIs DEF Proper, PieceOf, IsMessage
    <3>4. q.counter - Len(q.pkts) <= m.in[q.conn]
      BY <3>1, <3>2 DEF Made
    <3> DEFINE a == q.counter - Len(q.pkts)
               y == m.in[q.conn]
               z == k.in[q.conn]
    <3>5. a \in Int /\ y \in Nat /\ z \in Nat /\ a <= y /\ y <= z
      BY <1>4, <3>3, <3>4
    <3> HIDE DEF a, y, z
    <3>6. a <= z
      BY <3>5
    <3> QED BY <3>6 DEF a, z
  <2>5. ASSUME ~k.gone, NEW d \in Conn, NEW l \in 1..k.in[d] PROVE Covered(k, {p}, u.sent[d][l], A)
    <3>1. CASE l \in 1..m.in[d]
      BY <1>1, <1>10, <2>1, <2>5, <3>1 DEF Kept
    <3>2. CASE l \notin 1..m.in[d]
      <4>1. d = c /\ l = m.in[c] + 1
        BY <1>3, <3>2
      <4>2. \A y \in Ids(p) : Waits(k, {p}, y, p)
        BY DEF Waits
      <4> QED BY <4>1, <4>2 DEF Covered
    <3> QED BY <3>1, <3>2
  <2>6. ~k.gone /\ ~u.gone => \A e \in Conn : \A l \in 1..Len(u.sent[e]) : Safe(u, k, {p}, u.sent[e][l])
    BY <1>1, <1>10, <2>2 DEF Kept
  <2>7. Pings(k)
    BY <1>6, <1>10 DEF Kept
  <2> QED BY <2>3, <2>4, <2>5, <2>6, <2>7 DEF Kept
<1> QED BY <1>5, <1>10, SenderKept DEF Sure

LEMMA TailPlain ==
  ASSUME NEW o, Shape(o), NEW c \in Conn, o.wire[c] # <<>>
  PROVE  LET u == [o EXCEPT !.wire[c] = Tail(@)]
         IN  Plain(o, u) /\ Shape(u) /\ u.sent = o.sent /\ u.out = o.out /\ u.log = o.log /\ u.pmSent = o.pmSent /\ u.in = o.in
<1> DEFINE w == o.wire[c]
           v == Tail(w)
           u == [o EXCEPT !.wire[c] = Tail(@)]
<1>1. u = [f \in Fields |-> u[f]] /\ u.wire = [o.wire EXCEPT ![c] = v] /\ \A f \in Fields \ {"wire"} : u[f] = o[f]
  BY DEF Shape, Fields
<1>2. o.wire = [d \in Conn |-> o.wire[d]] /\ \A d \in Conn : IsSeq(o.wire[d])
  BY DEF Shape, IsSeqs
<1>3. IsSeq(v) /\ Len(v) = Len(w) - 1 /\ Len(w) \in Nat /\ \A y \in 1..Len(v) : v[y] = w[y + 1]
  BY <1>2, TailIs
<1> HIDE DEF v, u
<1>4. u.wire[c] = v /\ u.wire = [d \in Conn |-> u.wire[d]] /\ \A d \in Conn \ {c} : u.wire[d] = o.wire[d]
  BY <1>1, <1>2
<1>5. /\ u.in = o.in /\ u.out = o.out /\ u.todo = o.todo /\ u.log = o.log /\ u.pmSent = o.pmSent /\ u.events = o.events
      /\ u.sent = o.sent /\ u.handled = o.handled /\ u.dropped = o.dropped /\ u.status = o.status /\ u.sock = o.sock
      /\ u.gone = o.gone /\ u.msg = o.msg /\ u.data = o.data /\ u.clearing = o.clearing /\ u.listed = o.listed
  BY <1>1 DEF Fields
<1>6. ASSUME Pings(o) PROVE Pings(u)
  <2> SUFFICES ASSUME NEW d \in Conn, NEW y \in 1..Len(u.wire[d]), u.wire[d][y].type = "Ping"
               PROVE  u.wire[d][y].counter \in Nat /\ u.wire[d][y].counter <= u.in[d]
    BY DEF Pings
  <2>1. \E z \in 1..Len(o.wire[d]) : o.wire[d][z] = u.wire[d][y]
    <3>1. CASE d # c
      BY <1>4, <3>1
    <3>2. CASE d = c
      <4>1. y + 1 \in 1..Len(w)
        BY <1>3, <1>4, <3>2
      <4> QED BY <1>3, <1>4, <3>2, <4>1
    <3> QED BY <3>1, <3>2
  <2> QED BY <1>5, <1>6, <2>1 DEF Pings
<1>7. Plain(o, u)
  BY <1>5, <1>6 DEF Plain, AsSender, AsReceiver, Direct, Whole, isClosed
<1>8. Shape(u)
  <2>1. IsSeqs(u.wire, Conn)
    BY <1>2, <1>3, <1>4 DEF IsSeqs
  <2> QED BY <1>1, <1>5, <2>1 DEF Shape
<1> QED BY <1>5, <1>7, <1>8 DEF u

LEMMA ReceiveSure ==
  ASSUME AtomicClear, NEW i \in Computer, NEW m, NEW o, NEW x, Pair(i, m, o, x), NEW c \in Conn,
         m.sock[c] = "Open", o.wire[c] # <<>>, Sure(m, o, {})
  PROVE  Sure(OnPacket(m, c, Head(o.wire[c])), [o EXCEPT !.wire[c] = Tail(@)], {})
<1> DEFINE w == o.wire[c]
           p == Head(w)
           k == [m EXCEPT !.in[c] = IF Logged(p) THEN @ + 1 ELSE @]
           u == [o EXCEPT !.wire[c] = Tail(@)]
<1>1. Shape(m) /\ Sockets(m, i) /\ Logs(m) /\ Shape(o) /\ Logs(o) /\ Sendings(o) /\ Wires(o, m)
  BY DEF Pair, Local, Link
<1>2. c \in m.listed
  BY <1>1 DEF Sockets, SocketOf
<1>3. OnPacket(m, c, p) = HandlePacket(k, c, p, "Wire")
  BY <1>2 DEF OnPacket
<1>4. IsSeq(w) /\ IsSeq(o.sent[c]) /\ m.in \in [Conn -> Nat]
  BY <1>1 DEF Shape, IsSeqs
<1>5. p = w[1] /\ 1 \in 1..Len(w)
  BY <1>4, TailIs
<1>6. IF Logged(p) THEN m.in[c] + 1 \in 1..Len(o.sent[c]) /\ p = o.sent[c][m.in[c] + 1] ELSE Control(p)
  <2>1. Follows(w, m.in[c], o.sent[c], o.sock[c] = "Open") /\ m.in[c] \in Nat
    BY <1>1, <1>4 DEF Wires
  <2> HIDE DEF w
  <2> QED BY <1>4, <2>1, WireTaken DEF w
<1>7. Plain(o, u) /\ Shape(u) /\ u.sent = o.sent /\ u.out = o.out /\ u.log = o.log /\ u.pmSent = o.pmSent /\ u.in = o.in
  BY <1>1, TailPlain
<1> HIDE DEF u
<1>8. Sure(m, u, {})
  <2>1. Sure(o, m, {})
    BY SureTurned
  <2>2. Sure(u, m, {})
    BY <1>7, <2>1, PlainSure
  <2> QED BY <2>2, SureTurned
<1>9. Logs(u) /\ Sendings(u)
  <2>1. Logs(o) /\ Sendings(o) /\ u.sent = o.sent /\ u.out = o.out /\ u.log = o.log /\ u.pmSent = o.pmSent
    BY <1>1, <1>7
  <2>2. Logs(u)
    BY ONLY <2>1 DEF Logs
  <2>3. \A d, y : Proper(o, d, y) => Proper(u, d, y)
    BY ONLY <2>1 DEF Proper, PieceOf
  <2> QED BY <2>1, <2>2, <2>3 DEF Sendings
<1>10. ASSUME p.type = "Ping" PROVE p.counter \in Nat /\ p.counter <= u.in[c]
  <2>1. Pings(o)
    BY DEF Sure, Kept
  <2> QED BY <1>5, <1>7, <1>10, <2>1 DEF Pings
<1>11. k = [f \in Fields |-> k[f]] /\ k.in = [m.in EXCEPT ![c] = IF Logged(p) THEN m.in[c] + 1 ELSE m.in[c]]
       /\ \A f \in Fields \ {"in"} : k[f] = m[f]
  BY <1>1 DEF Shape, Fields
<1> HIDE DEF k, p
<1>12. Sure(k, u, {p}) /\ Shape(k) /\ Logs(k)
  <2>1. CASE Logged(p)
    <3>1. k.in = [m.in EXCEPT ![c] = m.in[c] + 1]
      BY <1>11, <2>1
    <3>2. m.in[c] + 1 <= Len(u.sent[c]) /\ p = u.sent[c][m.in[c] + 1]
      <4>1. Len(o.sent[c]) \in Nat
        BY <1>4, SeqIs
      <4> QED BY <1>4, <1>6, <1>7, <2>1, <4>1
    <3>3. Sure(k, u, {p})
      BY <1>1, <1>7, <1>8, <1>9, <1>11, <3>1, <3>2, CountSure
    <3>4. k.in \in [Conn -> Nat]
      BY <1>4, <3>1
    <3>5. /\ k.todo = m.todo /\ k.out = m.out /\ k.log = m.log /\ k.pmSent = m.pmSent /\ k.events = m.events
          /\ k.sock = m.sock /\ k.sent = m.sent /\ k.handled = m.handled /\ k.wire = m.wire /\ k.status = m.status
          /\ k.gone = m.gone /\ k.msg = m.msg /\ k.data = m.data /\ k.clearing = m.clearing /\ k.listed = m.listed
      BY <1>11 DEF Fields
    <3>6. Shape(k)
      BY <1>1, <1>11, <3>4, <3>5 DEF Shape
    <3>7. Logs(k)
      BY <1>1, <3>5 DEF Logs
    <3> QED BY <3>3, <3>6, <3>7
  <2>2. CASE ~Logged(p)
    <3>1. k.in = m.in
      BY <1>4, <1>11, <2>2
    <3>2. \A f \in Fields : k[f] = m[f]
      BY <1>11, <3>1 DEF Fields
    <3>3. k = m
      BY <1>1, <1>11, <3>2 DEF Shape
    <3> QED BY <1>1, <1>8, <3>3, SureMore
  <2> QED BY <2>1, <2>2
<1>13. \/ p.type \in {"Conn", "ConnRe"}
       \/ p.type = "Ping" /\ p.counter \in Nat /\ p.counter <= u.in[c]
       \/ \E l : At(u, c, l, p)
  BY <1>6, <1>7, <1>10 DEF Control, At
<1>14. Sure(HandlePacket(k, c, p, "Wire"), u, {})
  BY <1>7, <1>9, <1>12, <1>13, HandlePacketSure
<1> QED BY <1>3, <1>14 DEF p, u, w

-----------------------------------------------------------------------------
(* The steps again.                                                        *)

\* The first event is taken off the queue.
LEMMA TakeEvent ==
  ASSUME NEW m, Shape(m), m.events # <<>>
  PROVE  LET k == [m EXCEPT !.events = Tail(@)]
             e == m.events[1]
         IN  /\ k = [f \in Fields |-> k[f]] /\ k.events = Tail(m.events) /\ \A f \in Fields \ {"events"} : k[f] = m[f]
             /\ Head(m.events) = e /\ Notice(e)
             /\ AsSender(m, k) /\ (Whole(m) => Whole(k) /\ (e.type = "Disconn" => isClosed(k, e.conn)))
             /\ k.in = m.in /\ k.todo = m.todo /\ k.gone = m.gone /\ (Pings(m) => Pings(k))
             /\ \A y : Direct(m, y) => Direct(k, y) \/ (e.type = "Packet" /\ y \in Ids(e.pkt))
<1> DEFINE k == [m EXCEPT !.events = Tail(@)]
           e == m.events[1]
<1>1. k = [f \in Fields |-> k[f]] /\ k.events = Tail(m.events) /\ \A f \in Fields \ {"events"} : k[f] = m[f]
  BY DEF Shape, Fields
<1> HIDE DEF k
<1>2. /\ k.in = m.in /\ k.out = m.out /\ k.todo = m.todo /\ k.log = m.log /\ k.pmSent = m.pmSent /\ k.wire = m.wire
      /\ k.sent = m.sent /\ k.handled = m.handled /\ k.dropped = m.dropped /\ k.status = m.status
      /\ k.gone = m.gone /\ k.msg = m.msg /\ k.data = m.data /\ k.clearing = m.clearing
  BY <1>1 DEF Fields
<1>3. /\ Len(m.events) \in Nat /\ Len(k.events) = Len(m.events) - 1 /\ Len(m.events) # 0
      /\ (\A b \in 1..Len(k.events) : k.events[b] = m.events[b + 1])
      /\ Head(m.events) = e /\ 1 \in 1..Len(m.events)
  <2> DEFINE v == Tail(m.events)
  <2>1. IsSeq(m.events)
    BY DEF Shape
  <2>2. /\ Len(v) = Len(m.events) - 1 /\ (\A b \in 1..Len(v) : v[b] = m.events[b + 1])
        /\ Head(m.events) = e /\ 1 \in 1..Len(m.events)
    BY <2>1, TailIs
  <2>3. Len(m.events) \in Nat /\ Len(m.events) # 0
    BY <2>1, SeqIs
  <2> HIDE DEF v
  <2>4. k.events = v
    BY <1>1 DEF v
  <2> QED BY <2>2, <2>3, <2>4
<1>4. \A b \in 1..Len(m.events) : m.events[b] = e \/ \E a \in 1..Len(k.events) : k.events[a] = m.events[b]
  <2> SUFFICES ASSUME NEW b \in 1..Len(m.events), b # 1 PROVE \E a \in 1..Len(k.events) : k.events[a] = m.events[b]
    OBVIOUS
  <2>1. b - 1 \in 1..Len(k.events) /\ (b - 1) + 1 = b
    BY <1>3
  <2>2. k.events[b - 1] = m.events[b]
    BY <1>3, <2>1
  <2> QED BY <2>1, <2>2
<1>5. \A a \in 1..Len(k.events) : a + 1 \in 1..Len(m.events) /\ k.events[a] = m.events[a + 1]
  BY <1>3
<1>6. Notice(e)
  BY <1>3 DEF Shape
<1>7. Whole(m) => Whole(k) /\ (e.type = "Disconn" => isClosed(k, e.conn))
  BY <1>2, <1>3, <1>5 DEF Whole, isClosed
<1> HIDE DEF e
<1>8. \A y : Direct(m, y) => Direct(k, y) \/ (e.type = "Packet" /\ y \in Ids(e.pkt))
  BY <1>2, <1>4 DEF Direct
<1> QED BY <1>1, <1>2, <1>3, <1>6, <1>7, <1>8 DEF AsSender, Pings, k, e

LEMMA ProcessEventSure ==
  ASSUME NEW i, NEW m, NEW o, NEW x, Pair(i, m, o, x), m.events # <<>>, Sure(m, o, {})
  PROVE  Sure(OnThreadEvent([m EXCEPT !.events = Tail(@)], Head(m.events)), o, {})
<1> DEFINE k == [m EXCEPT !.events = Tail(@)]
           e == m.events[1]
<1>1. Shape(m) /\ Whole(m)
  BY DEF Pair, Local, Sure
<1>2. /\ k = [f \in Fields |-> k[f]] /\ k.events = Tail(m.events) /\ \A f \in Fields \ {"events"} : k[f] = m[f]
      /\ Head(m.events) = e /\ Notice(e)
      /\ AsSender(m, k) /\ Whole(k) /\ (e.type = "Disconn" => isClosed(k, e.conn))
      /\ k.in = m.in /\ k.todo = m.todo /\ k.gone = m.gone /\ (Pings(m) => Pings(k))
      /\ \A y : Direct(m, y) => Direct(k, y) \/ (e.type = "Packet" /\ y \in Ids(e.pkt))
  BY <1>1, TakeEvent
<1>3. OnThreadEvent([m EXCEPT !.events = Tail(@)], Head(m.events)) = OnThreadEvent(k, e)
  BY <1>2
<1> HIDE DEF k, e
<1>4. Pair(i, k, o, x)
  <2>1. k.gone \in BOOLEAN /\ \A f \in Fields \ {"events", "gone"} : k[f] = m[f]
    BY <1>1, <1>2 DEF Shape
  <2> QED BY <1>2, <2>1, LessNewsIs
<1>5. Shape(k) /\ e.conn \in Conn
  BY <1>2, <1>4 DEF Pair, Local, Notice
<1>6. CASE e.type = "Disconn"
  <2>1. Plain(m, k)
    BY <1>2, <1>6 DEF Plain, AsReceiver
  <2>2. Sure(k, o, {})
    BY <2>1, PlainSure
  <2>3. Sure(OnDisconnMain(k, e.conn), o, {})
    BY <1>2, <1>4, <1>5, <1>6, <2>2, OnDisconnMainSure
  <2> QED BY <1>3, <1>6, <2>3 DEF OnThreadEvent
<1>7. CASE e.type = "Packet"
  <2> DEFINE p == e.pkt
             n == HandlePacketMain(k, e.conn, p)
  <2>1. p.type \in {"Conn", "ConnRe", "Message"}
    BY <1>2, <1>7 DEF Notice
  <2> HIDE DEF p
  <2>2. Plain(k, n) /\ \A y \in Ids(p) : Direct(n, y)
    <3>1. CASE p.type = "Conn"
      <4>1. Ids(p) = {} /\ n = HandleConn(k, e.conn)
        BY <3>1 DEF Ids, HandlePacketMain
      <4> QED BY <1>5, <4>1, HandleConnPlain
    <3>2. CASE p.type = "ConnRe"
      <4>1. Ids(p) = {} /\ n = HandleConnRe(k, e.conn)
        BY <3>2 DEF Ids, HandlePacketMain
      <4> QED BY <1>5, <4>1, HandleConnRePlain
    <3>3. CASE p.type = "Message"
      <4> DEFINE h == [k EXCEPT !.handled["Main"] = Append(@, p)]
      <4>1. Ids(p) = {p.id} /\ n \in {h, Drop(k, p, "Queue")}
        BY <3>3 DEF Ids, HandlePacketMain
      <4>2. Plain(k, h) /\ Direct(h, p.id)
        <5>1. "Main" \in Thread
          BY DEF Thread
        <5> QED BY <1>5, <5>1, HandledPlain
      <4> HIDE DEF h, n
      <4>3. Plain(k, Drop(k, p, "Queue")) /\ \A y \in Ids(p) : Direct(Drop(k, p, "Queue"), y)
        BY <1>5, DropPlain
      <4> QED BY <4>1, <4>2, <4>3
    <3> QED BY <2>1, <3>1, <3>2, <3>3
  <2> HIDE DEF n
  <2>3. \A y : ~n.gone /\ Direct(m, y) => Direct(n, y)
    BY <1>2, <2>2 DEF Plain, AsReceiver, p
  <2>4. AsSender(m, n)
    BY <1>2, <2>2 DEF Plain, AsSender
  <2>5. AsReceiver(m, n)
    BY <1>2, <2>2, <2>3 DEF Plain, AsReceiver
  <2>6. Plain(m, n)
    BY <1>2, <2>2, <2>4, <2>5 DEF Plain
  <2>7. Sure(n, o, {})
    BY <2>6, PlainSure
  <2> QED BY <1>3, <1>7, <2>7 DEF OnThreadEvent, n, p
<1> QED BY <1>2, <1>6, <1>7 DEF Notice

LEMMA BothSure ==
  ASSUME NEW i \in Computer, NEW n, NEW u, node' = [j \in Computer |-> IF j = i THEN n ELSE u], Sure(n, u, {})
  PROVE  VInv'
<1>1. node'[i] = n /\ node'[Other(i)] = u
  BY OtherIs
<1>2. Sure(u, n, {})
  BY SureTurned
<1>3. ASSUME NEW j \in Computer PROVE Sure(node'[j], node'[Other(j)], {})
  <2>1. CASE j = i
    BY <1>1, <2>1
  <2>2. CASE j = Other(i)
    <3>1. Other(j) = i
      BY <2>2, OtherIs
    <3> QED BY <1>1, <1>2, <2>2, <3>1
  <2> QED BY <2>1, <2>2, OtherIs
<1> QED BY <1>3 DEF VInv

LEMMA ChangeSure ==
  ASSUME IInv, NEW i \in Computer, NEW n, Change(i, n), Sure(n, node[Other(i)], {})
  PROVE  VInv'
<1>1. node' = [j \in Computer |-> IF j = i THEN n ELSE node[Other(i)]]
  <2>1. node = [j \in Computer |-> node[j]] /\ node' = [node EXCEPT ![i] = n]
    BY DEF IInv, Change
  <2> QED BY <2>1, OtherIs
<1> QED BY <1>1, BothSure

\* VInv is inductive, given IInv.
LEMMA SureStays ==
  ASSUME AtomicClear, IInv, VInv, [Next]_vars
  PROVE  VInv'
<1> DEFINE x == MaxTraffic - budget.traffic
<1>1. ASSUME NEW i \in Computer
      PROVE  /\ Pair(i, node[i], node[Other(i)], x) /\ Shape(node[i]) /\ Sockets(node[i], i) /\ Logs(node[i])
             /\ Shape(node[Other(i)]) /\ Whole(node[i]) /\ Sure(node[i], node[Other(i)], {})
  BY DEF IInv, VInv, Pair, Local, Sure
<1> HIDE DEF x
<1>2. ASSUME NEW i \in Computer, NEW n, Change(i, n), Plain(node[i], n) PROVE VInv'
  BY <1>1, <1>2, PlainSure, ChangeSure
<1>3. CASE UNCHANGED vars
  BY <1>3 DEF VInv, vars
<1>4. ASSUME NEW i \in Computer, ProcessEvent(i) PROVE VInv'
  BY <1>1, <1>4, ProcessEventSure, ChangeSure DEF ProcessEvent
<1>5. ASSUME NEW i \in Computer, GoOn(i) PROVE VInv'
  <2>1. node[i].clearing = {}
    BY <1>1 DEF Whole
  <2>2. node[i].todo # <<>> /\ Change(i, DoJob([node[i] EXCEPT !.todo = Tail(@)], Head(node[i].todo)))
    BY <1>5, <2>1 DEF GoOn
  <2> QED BY <1>1, <2>2, DoJobSure, ChangeSure
<1>6. ASSUME NEW i \in Computer, PingAll(i) PROVE VInv'
  <2> DEFINE n == Pinged(node[i], {c \in node[i].listed : isOpen(node[i], c)})
  <2>1. Change(i, n)
    BY <1>6 DEF PingAll, Pinged
  <2>2. Plain(node[i], n)
    BY <1>1, PingPlain
  <2> HIDE DEF n
  <2> QED BY <1>2, <2>1, <2>2
<1>7. ASSUME NEW i \in Computer, NEW c \in Conn, NEW t, Say(i, c, t), node[i].pmSent[c] = -1 PROVE VInv'
  <2> DEFINE p == Message(i, MaxTraffic - budget.traffic, t, c)
  <2>1. Change(i, Send(node[i], c, p))
    BY <1>7 DEF Say
  <2>2. IsMessage(p)
    BY DEF Message, IsMessage
  <2>3. node[Other(i)].in \in [Conn -> Nat]
    BY <1>1 DEF Shape
  <2> HIDE DEF p
  <2>4. Sure(Send(node[i], c, p), node[Other(i)], {})
    BY <1>1, <1>7, <2>2, <2>3, SaySure
  <2> QED BY <2>1, <2>4, ChangeSure
<1>8. ASSUME NEW i \in Computer, NEW t \in {"Net", "Main"}, Speak(i, t) PROVE VInv'
  <2>1. isConnected(node[i]) /\ Say(i, node[i].msg, t)
    BY <1>8 DEF Speak
  <2>2. node[i].msg \in Conn
    BY <1>1, <2>1 DEF Shape, isConnected
  <2>3. node[i].pmSent[node[i].msg] = -1
    BY <1>1, <2>2 DEF Whole
  <2> QED BY <1>7, <2>1, <2>2, <2>3
<1>9. ASSUME NEW i \in Computer, SpeakData(i) PROVE VInv'
  <2>1. PICK c \in DataConnections(node[i]) : Say(i, c, "Net")
    BY <1>9 DEF SpeakData
  <2>2. c \in node[i].listed /\ isAccepted(node[i], c)
    BY <2>1 DEF DataConnections
  <2>3. c \in Conn
    BY <1>1, <2>2 DEF Shape
  <2>4. node[i].pmSent[c] = -1
    BY <1>1, <2>2, <2>3 DEF Whole, isAccepted, isClosed
  <2> QED BY <1>7, <2>1, <2>3, <2>4
<1>10. ASSUME NEW i \in Computer, NEW c \in Conn, Connect(i, c) PROVE VInv'
  <2> DEFINE n == [SetStatus(node[i], c, "Connect") EXCEPT !.listed = @ \cup {c}, !.sock[c] = "Calling"]
  <2>1. Change(i, n) /\ node[i].status[c] = "None"
    BY <1>10 DEF Connect
  <2>2. Plain(node[i], n)
    BY <1>1, <2>1, ConnectPlain
  <2> HIDE DEF n
  <2> QED BY <1>2, <2>1, <2>2
<1>11. ASSUME NEW i \in Computer, NEW c \in Conn, Connected(i, c) PROVE VInv'
  <2>1. node[i].sock[c] \in {"Calling", "None"} /\ Change(i, OnConn(node[i], i, c))
    BY <1>11 DEF Connected
  <2>2. ~isClosed(node[i], c)
    BY <1>1, <2>1 DEF Sockets, SocketOf
  <2>3. Plain(node[i], OnConn(node[i], i, c))
    BY <1>1, <2>2, OnConnPlain
  <2> QED BY <1>2, <2>1, <2>3
<1>12. ASSUME NEW i \in Computer, NEW c \in Conn, Receive(i, c) PROVE VInv'
  <2> DEFINE j == Other(i)
             n == OnPacket(node[i], c, Head(node[j].wire[c]))
             u == [node[j] EXCEPT !.wire[c] = Tail(@)]
  <2>1. /\ node[i].sock[c] = "Open" /\ node[j].wire[c] # <<>>
        /\ node' = [node EXCEPT ![j].wire[c] = Tail(@), ![i] = n]
    BY <1>12 DEF Receive
  <2>2. Sure(n, u, {})
    BY <1>1, <2>1, ReceiveSure
  <2>3. node' = [node EXCEPT ![j] = u, ![i] = n]
    BY <2>1
  <2> HIDE DEF n, u
  <2>4. node' = [k \in Computer |-> IF k = i THEN n ELSE u]
    <3>1. node = [k \in Computer |-> node[k]]
      BY DEF IInv
    <3> QED BY <2>3, <3>1, OtherIs
  <2> QED BY <2>2, <2>4, BothSure
<1>13. ASSUME NEW i \in Computer, NEW c \in Conn, Break(i, c) PROVE VInv'
  BY <1>1, <1>2, <1>13, CloseSocketPlain DEF Break
<1>14. ASSUME NEW i \in Computer, NEW c \in Conn, Timeout(i, c) PROVE VInv'
  BY <1>1, <1>2, <1>14, ClosePlain DEF Timeout
<1>15. ASSUME NEW i \in Computer, NEW c \in Conn, Forget(i, c) PROVE VInv'
  BY <1>1, <1>2, <1>15, RemovePlain DEF Forget
<1> QED BY <1>3, <1>4, <1>5, <1>6, <1>8, <1>9, <1>10, <1>11, <1>12, <1>13, <1>14, <1>15 DEF Next

\* At first nothing was sent.
LEMMA NewSure ==
  ASSUME NEW i, NEW j
  PROVE  Sure(New(i), New(j), {})
<1>1. ASSUME NEW k PROVE Whole(New(k))
  <2> DEFINE m == New(k)
  <2>1. m.clearing = {} /\ m.events = <<>> /\ \A c \in Conn : m.pmSent[c] = -1
    BY DEF New
  <2> HIDE DEF m
  <2>2. 1..Len(m.events) = {}
    BY <2>1, EmptyIs
  <2>3. Whole(m)
    BY <2>1, <2>2 DEF Whole
  <2> QED BY <2>3 DEF m
<1>2. ASSUME NEW a, NEW b PROVE \E A \in Ages : Kept(New(a), New(b), A, {})
  <2> DEFINE s == New(a)
             r == New(b)
             A == [c \in Conn |-> 0]
  <2>1. \A c \in Conn : s.sent[c] = <<>> /\ s.log[c] = <<>> /\ s.out[c] = 0 /\ r.in[c] = 0 /\ r.wire[c] = <<>>
    BY DEF New
  <2> HIDE DEF s, r
  <2>2. \A c \in Conn : Len(s.sent[c]) = 0 /\ Len(s.log[c]) = 0 /\ Len(r.wire[c]) = 0
    BY <2>1, EmptyIs
  <2>3. 1..0 = {}
    OBVIOUS
  <2>4. A \in Ages
    BY DEF Ages
  <2> HIDE DEF A
  <2>5. \A c \in Conn : Counts(s, r, c)
    BY <2>1, <2>2 DEF Counts
  <2>6. Pings(r)
    BY <2>2, <2>3 DEF Pings
  <2>7. Kept(s, r, A, {})
    BY <2>1, <2>2, <2>3, <2>5, <2>6 DEF Kept
  <2> QED BY <2>4, <2>7 DEF s, r
<1> QED BY <1>1, <1>2 DEF Sure

LEMMA InitSure ==
  ASSUME Init
  PROVE  VInv
<1>1. \A i \in Computer : node[i] = New(i) /\ node[Other(i)] = New(Other(i))
  BY OtherIs DEF Init
<1> QED BY <1>1, NewSure DEF VInv

\* What is safe is not lost.
LEMMA SureSaid ==
  ASSUME IInv, VInv
  PROVE  NothingVanishes
<1> SUFFICES ASSUME NEW i \in Computer, Together, NEW x \in Said(i)
             PROVE  x \in Arrived(Other(i)) \/ x \in Recoverable(i)
  BY DEF NothingVanishes
<1> DEFINE s == node[i]
           r == node[Other(i)]
<1>1. Shape(s) /\ Shape(r) /\ Sure(s, r, {}) /\ ~s.gone /\ ~r.gone
  BY OtherIs DEF IInv, VInv, Pair, Local, Together
<1>2. ASSUME NEW q, IsSeq(q) PROVE ToSet(q) = {q[a] : a \in 1..Len(q)}
  BY <1>2, SeqIs DEF ToSet
<1>3. /\ \A c \in Conn : IsSeq(s.sent[c]) /\ IsSeq(s.log[c])
      /\ IsSeq(r.todo) /\ IsSeq(r.events) /\ \A t \in Thread : IsSeq(r.handled[t])
  BY <1>1 DEF Shape, IsSeqs
<1>4. PICK c \in Conn : \E p \in ToSet(s.sent[c]) : p.type = "Message" /\ p.id = x
  BY DEF Said
<1>5. PICK k \in 1..Len(s.sent[c]) : IsMessage(s.sent[c][k]) /\ s.sent[c][k].id = x
  BY <1>2, <1>3, <1>4 DEF IsMessage
<1>6. Safe(s, r, {}, s.sent[c][k])
  BY <1>1 DEF Sure, Kept
<1>7. x \in Ids(s.sent[c][k])
  BY <1>5 DEF Ids, IsMessage
<1>8. Direct(r, x) \/ InLog(s, r, x) \/ \E p : Waits(r, {}, x, p)
  BY <1>6, <1>7 DEF Safe
<1> DEFINE H == UNION {{m.id : m \in ToSet(r.handled[t])} : t \in {"Net", "Main"}}
           D == {d[1] : d \in r.dropped}
           E == {e \in ToSet(r.events) \cup ToSet(r.todo) : e.type = "Packet"}
<1>9. Arrived(Other(i)) = (H \cup D) \cup IdsOf(E)
  BY DEF Arrived
<1>10. ASSUME NEW e \in ToSet(r.events) \cup ToSet(r.todo), e.type = "Packet", x \in Ids(e.pkt) PROVE x \in Arrived(Other(i))
  <2>1. e \in E
    BY <1>10
  <2> HIDE DEF E
  <2>2. x \in IdsOf(E)
    BY <1>10, <2>1 DEF IdsOf
  <2> HIDE DEF H, D
  <2> QED BY <1>9, <2>2
<1>11. CASE Direct(r, x)
  <2>1. CASE \E t \in Thread : \E a \in 1..Len(r.handled[t]) : r.handled[t][a].id = x
    <3>1. PICK t \in Thread : \E h \in ToSet(r.handled[t]) : h.id = x
      BY <1>2, <1>3, <2>1
    <3>2. x \in H
      BY <3>1 DEF Thread
    <3> HIDE DEF H, D, E
    <3> QED BY <1>9, <3>2
  <2>2. CASE \E d \in r.dropped : d[1] = x
    <3>1. x \in D
      BY <2>2
    <3> HIDE DEF H, D, E
    <3> QED BY <1>9, <3>1
  <2>3. CASE \E b \in 1..Len(r.events) : r.events[b].type = "Packet" /\ x \in Ids(r.events[b].pkt)
    BY <1>2, <1>3, <1>10, <2>3
  <2> QED BY <1>11, <2>1, <2>2, <2>3 DEF Direct
<1>12. CASE InLog(s, r, x)
  <2>1. PICK d \in Conn : s.pmSent[d] = -1 /\ \E l \in 1..Len(s.log[d]) : s.log[d][l].num >= r.in[d] /\ x \in Ids(s.log[d][l].pkt)
    BY <1>12 DEF InLog
  <2>2. \E e \in ToSet(s.log[d]) : e.num >= r.in[d] /\ x \in Ids(e.pkt)
    BY <1>2, <1>3, <2>1
  <2> QED BY <2>1, <2>2 DEF Recoverable, IdsOf
<1>13. CASE \E p : Waits(r, {}, x, p)
  <2>1. \E y \in 1..Len(r.todo) : r.todo[y].type = "Packet" /\ x \in Ids(r.todo[y].pkt)
    BY <1>13 DEF Waits
  <2> QED BY <1>2, <1>3, <1>10, <2>1
<1> QED BY <1>8, <1>11, <1>12, <1>13

-----------------------------------------------------------------------------
\* No message vanishes, as long as no Send runs between the two steps of
\* ClearPacketLog: until the client is given up, what one side has sent came to the
\* other one, is in a post mortem that this one is about to handle, or is in the log
\* of a connection whose post mortem is still to be made.  A ping acknowledges no
\* more than what was counted, a post mortem begins no later than there, and a post
\* mortem that travels on a connection that breaks is itself in the log of that one.
THEOREM NothingLost == ASSUME AtomicClear PROVE Spec => []NothingVanishes
<1>1. Init => IInv
  BY InitIs
<1>2. Init => VInv
  BY InitSure
<1>3. IInv /\ [Next]_vars => IInv'
  BY Inductive
<1>4. IInv /\ VInv /\ [Next]_vars => VInv'
  BY SureStays
<1>5. IInv /\ VInv => NothingVanishes
  BY SureSaid
<1> QED BY <1>1, <1>2, <1>3, <1>4, <1>5, PTL DEF Spec

-----------------------------------------------------------------------------
(* Nobody speaks too early if SameAddress.                                 *)

\* The Conn is sent when a connection opens, a connection that is accepted by halves will
\* be accepted by the network thread, and only those that were accepted are used.
Ready(m, c) ==
    /\ isOpen(m, c) => c \in m.connSent
    /\ m.sock[c] \in {"None", "Calling"} => c \notin m.connSent
    /\ m.status[c] = "HalfAccepted" => c \in m.auto
    /\ c \in {m.msg, m.data} => isAccepted(m, c) \/ isClosed(m, c)

\* What comes to the main thread is no news to the network thread.
Known(m, e) ==
    e.type = "Packet" => /\ e.pkt.type = "Conn" => isHalfAccepted(m, e.conn) \/ isClosed(m, e.conn)
                         /\ e.pkt.type = "ConnRe" => isAccepted(m, e.conn) \/ isClosed(m, e.conn)

Hand(m) == /\ \A c \in Conn : Ready(m, c)
           /\ \A b \in 1..Len(m.events) : Known(m, m.events[b])
           /\ \A d \in m.dropped : d[2] # "Wire"

Has(w, t) == \E x \in 1..Len(w) : w[x].type = t

\* On the wire w, first comes the Conn, before anything but pings; packets that are
\* numbered come after the ConnRe.
ConnFirst(w)   == \A x \in 1..Len(w) : w[x].type # "Ping" => \E y \in 1..x : w[y].type = "Conn"
AnswerFirst(w) == \A x \in 1..Len(w) : Logged(w[x]) => \E y \in 1..x : w[y].type = "ConnRe"
OneConn(w)     == \A x, y \in 1..Len(w) : w[x].type = "Conn" /\ w[y].type = "Conn" => x = y

\* What s has said to r on c, and what r knows of it.
Greets(s, r, c) ==
    LET w == s.wire[c]
    IN  /\ s.sock[c] \in {"None", "Calling"} => ~isHalfAccepted(r, c) /\ w = <<>>
        /\ r.sock[c] # "Closed" =>
              /\ IF isHalfAccepted(r, c) THEN ~Has(w, "Conn") ELSE ConnFirst(w)
              /\ isAccepted(r, c) \/ AnswerFirst(w)
              /\ OneConn(w)
              /\ isOpen(s, c) => isHalfAccepted(r, c) \/ Has(w, "Conn")
              /\ isHalfAccepted(s, c) => isAccepted(r, c) \/ Has(w, "ConnRe")

Meet(m, o) == Hand(m) /\ Hand(o) /\ \A c \in Conn : Greets(m, o, c) /\ Greets(o, m, c)

HInv == \A i \in Computer : Meet(node[i], node[Other(i)])

-----------------------------------------------------------------------------
(* Steps in which no Conn or ConnRe is taken.                              *)

LEMMA HasMore ==
  ASSUME NEW w, IsSeq(w), NEW p
  PROVE  LET v == Append(w, p) IN \A t : Has(v, t) <=> Has(w, t) \/ p.type = t
<1> DEFINE v == Append(w, p)
           L == Len(w)
<1>1. /\ Len(v) = L + 1 /\ (\A k \in 1..L : v[k] = w[k]) /\ v[L + 1] = p /\ L \in Nat
  BY AppendIs, SeqIs
<1> HIDE DEF v
<1>2. \A x \in 1..L : x \in 1..Len(v)
  BY <1>1
<1>3. L + 1 \in 1..Len(v) /\ \A x \in 1..Len(v) : x \in 1..L \/ x = L + 1
  BY <1>1
<1> HIDE DEF L
<1>4. \A t : Has(v, t) <=> Has(w, t) \/ p.type = t
  BY <1>1, <1>2, <1>3 DEF Has, L
<1> QED BY <1>4 DEF v

LEMMA FirstMore ==
  ASSUME NEW w, IsSeq(w), NEW p
  PROVE  LET v == Append(w, p)
         IN  /\ ConnFirst(w) /\ (p.type = "Ping" \/ p.type = "Conn" \/ Has(w, "Conn")) => ConnFirst(v)
             /\ AnswerFirst(w) /\ (~Logged(p) \/ Has(w, "ConnRe")) => AnswerFirst(v)
             /\ OneConn(w) /\ (p.type # "Conn" \/ ~Has(w, "Conn")) => OneConn(v)
<1> DEFINE v == Append(w, p)
           L == Len(w)
<1>1. /\ Len(v) = L + 1 /\ (\A k \in 1..L : v[k] = w[k]) /\ v[L + 1] = p /\ L \in Nat
  BY AppendIs, SeqIs
<1> HIDE DEF v
<1>2. \A x \in 1..Len(v) : x \in 1..L \/ x = L + 1
  BY <1>1
<1>3. \A x \in 1..L : \A y \in 1..x : y \in 1..L /\ y \in 1..(L + 1)
  BY <1>1
<1>4. \A y \in 1..L : y \in 1..(L + 1)
  BY <1>1
<1>5. L + 1 \in 1..(L + 1)
  BY <1>1
<1> HIDE DEF L
<1>6. ASSUME ConnFirst(w), p.type = "Ping" \/ p.type = "Conn" \/ Has(w, "Conn") PROVE ConnFirst(v)
  <2> SUFFICES ASSUME NEW x \in 1..Len(v), v[x].type # "Ping" PROVE \E y \in 1..x : v[y].type = "Conn"
    BY DEF ConnFirst
  <2>1. CASE x \in 1..L
    BY <1>1, <1>3, <1>6, <2>1 DEF ConnFirst, L
  <2>2. CASE x = L + 1
    BY <1>1, <1>4, <1>5, <1>6, <2>2 DEF Has, L
  <2> QED BY <1>2, <2>1, <2>2
<1>7. ASSUME AnswerFirst(w), ~Logged(p) \/ Has(w, "ConnRe") PROVE AnswerFirst(v)
  <2> SUFFICES ASSUME NEW x \in 1..Len(v), Logged(v[x]) PROVE \E y \in 1..x : v[y].type = "ConnRe"
    BY DEF AnswerFirst
  <2>1. CASE x \in 1..L
    BY <1>1, <1>3, <1>7, <2>1 DEF AnswerFirst, L
  <2>2. CASE x = L + 1
    BY <1>1, <1>4, <1>5, <1>7, <2>2 DEF Has, L
  <2> QED BY <1>2, <2>1, <2>2
<1>8. ASSUME OneConn(w), p.type # "Conn" \/ ~Has(w, "Conn") PROVE OneConn(v)
  <2> SUFFICES ASSUME NEW x \in 1..Len(v), NEW y \in 1..Len(v), v[x].type = "Conn", v[y].type = "Conn" PROVE x = y
    BY DEF OneConn
  <2>1. CASE p.type # "Conn"
    <3>1. x \in 1..L /\ y \in 1..L
      BY <1>1, <1>2, <2>1
    <3> QED BY <1>1, <1>8, <3>1 DEF OneConn, L
  <2>2. CASE ~Has(w, "Conn")
    <3>1. x \notin 1..L /\ y \notin 1..L
      BY <1>1, <2>2 DEF Has, L
    <3> QED BY <1>2, <3>1
  <2> QED BY <1>8, <2>1, <2>2
<1> QED BY <1>6, <1>7, <1>8 DEF v

\* Numbered packets are sent on connections that are accepted, pings on open ones.
Turn(m, n, c) ==
    \/ /\ n.status[c] = m.status[c] /\ n.sock[c] = m.sock[c]
       /\ \/ n.wire[c] = m.wire[c]
          \/ \E p : /\ n.wire[c] = Append(m.wire[c], p) /\ isOpen(m, c)
                    /\ p.type = "Ping" \/ (Logged(p) /\ isHalfAccepted(m, c))
    \/ /\ n.sock[c] = "Closed" /\ ~isOpen(n, c) /\ n.wire[c] = m.wire[c]
       /\ isClosed(n, c) \/ m.sock[c] \in {"None", "Calling"}
    \/ /\ {m.sock[c], n.sock[c]} \subseteq {"None", "Calling"} /\ ~isOpen(n, c) /\ n.wire[c] = m.wire[c]
    \/ /\ m.sock[c] \in {"None", "Calling"} /\ n.sock[c] = "Open" /\ n.status[c] = "Connected"
       /\ n.wire[c] = Append(m.wire[c], Simple("Conn"))

LEMMA HalfIs ==
  ASSUME NEW m, NEW c
  PROVE  (isAccepted(m, c) => isHalfAccepted(m, c)) /\ (isHalfAccepted(m, c) => isOpen(m, c)) /\ (isOpen(m, c) => ~isClosed(m, c))
BY DEF isAccepted, isHalfAccepted, isOpen, isClosed

LEMMA TurnGreets ==
  ASSUME NEW i, NEW m, NEW n, NEW o, Shape(m), Sockets(m, i), NEW c \in Conn, Turn(m, n, c), Greets(m, o, c), Greets(o, m, c)
  PROVE  Greets(n, o, c) /\ Greets(o, n, c)
<1> DEFINE w == m.wire[c]
<1>1. IsSeq(w) /\ SocketOf(m, i, c)
  BY DEF Shape, IsSeqs, Sockets
<1>2. m.sock[c] \in {"None", "Calling"} => ~isOpen(m, c) /\ ~isHalfAccepted(m, c) /\ ~isAccepted(m, c) /\ m.sock[c] # "Closed"
  BY <1>1, HalfIs DEF SocketOf
<1>3. ASSUME n.status[c] = m.status[c], n.sock[c] = m.sock[c], n.wire[c] = w
      PROVE  Greets(n, o, c) /\ Greets(o, n, c)
  BY <1>3 DEF Greets, isAccepted, isHalfAccepted, isOpen
<1>4. ASSUME n.status[c] = m.status[c], n.sock[c] = m.sock[c], NEW p, n.wire[c] = Append(w, p), isOpen(m, c),
             p.type = "Ping" \/ (Logged(p) /\ isHalfAccepted(m, c))
      PROVE  Greets(n, o, c) /\ Greets(o, n, c)
  <2> DEFINE v == Append(w, p)
  <2>1. p.type # "Conn" /\ p.type # "ConnRe" /\ (p.type = "Ping" => ~Logged(p))
    BY <1>4 DEF Logged
  <2>2. \A t : Has(v, t) <=> Has(w, t) \/ p.type = t
    BY <1>1, HasMore
  <2>3. /\ ConnFirst(w) /\ (p.type = "Ping" \/ p.type = "Conn" \/ Has(w, "Conn")) => ConnFirst(v)
        /\ AnswerFirst(w) /\ (~Logged(p) \/ Has(w, "ConnRe")) => AnswerFirst(v)
        /\ OneConn(w) /\ (p.type # "Conn" \/ ~Has(w, "Conn")) => OneConn(v)
    BY <1>1, FirstMore
  <2> HIDE DEF v
  <2>4. n.wire[c] = v
    BY <1>4 DEF v
  <2>5. n.sock[c] \notin {"None", "Calling"}
    BY <1>2, <1>4
  <2>6. Greets(o, n, c)
    BY <1>4 DEF Greets, isAccepted, isHalfAccepted, isOpen
  <2>7. ASSUME o.sock[c] # "Closed"
        PROVE  /\ IF isHalfAccepted(o, c) THEN ~Has(v, "Conn") ELSE ConnFirst(v)
               /\ isAccepted(o, c) \/ AnswerFirst(v)
               /\ OneConn(v)
               /\ isHalfAccepted(o, c) \/ Has(v, "Conn")
               /\ isHalfAccepted(m, c) => isAccepted(o, c) \/ Has(v, "ConnRe")
    <3>1. /\ IF isHalfAccepted(o, c) THEN ~Has(w, "Conn") ELSE ConnFirst(w)
          /\ isAccepted(o, c) \/ AnswerFirst(w)
          /\ OneConn(w)
          /\ isHalfAccepted(o, c) \/ Has(w, "Conn")
          /\ isHalfAccepted(m, c) => isAccepted(o, c) \/ Has(w, "ConnRe")
      BY <1>4, <2>7 DEF Greets
    <3> QED BY <1>4, <2>1, <2>2, <2>3, <3>1
  <2>8. Greets(n, o, c)
    BY <1>4, <2>4, <2>5, <2>7 DEF Greets, isHalfAccepted
  <2> QED BY <2>6, <2>8
<1>5. ASSUME n.sock[c] = "Closed", ~isOpen(n, c), n.wire[c] = w
      PROVE  Greets(n, o, c) /\ Greets(o, n, c)
  BY <1>5, HalfIs DEF Greets
<1>6. ASSUME {m.sock[c], n.sock[c]} \subseteq {"None", "Calling"}, ~isOpen(n, c), n.wire[c] = w
      PROVE  Greets(n, o, c) /\ Greets(o, n, c)
  <2>1. ~isHalfAccepted(n, c) /\ ~isAccepted(n, c) /\ n.sock[c] # "Closed"
    BY <1>6, HalfIs
  <2> QED BY <1>2, <1>6, <2>1 DEF Greets
<1>7. ASSUME m.sock[c] \in {"None", "Calling"}, n.sock[c] = "Open", n.status[c] = "Connected",
             n.wire[c] = Append(w, Simple("Conn"))
      PROVE  Greets(n, o, c) /\ Greets(o, n, c)
  <2> DEFINE p == Simple("Conn")
             v == Append(w, p)
  <2>1. p.type = "Conn" /\ ~Logged(p) /\ w = <<>> /\ ~isHalfAccepted(o, c)
    BY <1>7 DEF Simple, Logged, Greets
  <2> HIDE DEF p
  <2>2. \A t : ~Has(w, t)
    BY <2>1, EmptyIs DEF Has
  <2>3. ConnFirst(w) /\ AnswerFirst(w) /\ OneConn(w)
    BY <2>1, EmptyIs DEF ConnFirst, AnswerFirst, OneConn
  <2>4. Has(v, "Conn")
    BY <1>1, <2>1, HasMore
  <2>5. ConnFirst(v) /\ AnswerFirst(v) /\ OneConn(v)
    BY <1>1, <2>1, <2>2, <2>3, FirstMore
  <2> HIDE DEF v
  <2>6. n.wire[c] = v /\ ~isHalfAccepted(n, c) /\ ~isAccepted(n, c)
    BY <1>7 DEF v, p, isHalfAccepted, isAccepted
  <2> QED BY <1>2, <1>7, <2>1, <2>4, <2>5, <2>6 DEF Greets
<1> QED BY <1>3, <1>4, <1>5, <1>6, <1>7 DEF Turn

\* Events that are left, or say nothing of Conn and ConnRe.
Silent(e)  == e.type = "Packet" => e.pkt.type \notin {"Conn", "ConnRe"}
News(m, n) == \A b \in 1..Len(n.events) : Silent(n.events[b]) \/ \E a \in 1..Len(m.events) : n.events[b] = m.events[a]

Mild(m, n) ==
    /\ \A c \in Conn : Turn(m, n, c)
    /\ m.connSent \subseteq n.connSent
    /\ \A c \in Conn : isOpen(n, c) /\ ~isOpen(m, c) => c \in n.connSent
    /\ \A c \in n.connSent : c \in m.connSent \/ n.sock[c] = "Open"
    /\ \A c \in m.auto : n.status[c] = "HalfAccepted" => c \in n.auto
    /\ \A c \in Conn : c \in {n.msg, n.data} => c \in {m.msg, m.data} \/ isAccepted(n, c)
    /\ News(m, n)
    /\ \A d \in n.dropped : d \in m.dropped \/ d[2] # "Wire"

LEMMA MildReady ==
  ASSUME NEW i, NEW m, NEW n, Sockets(m, i), Mild(m, n), NEW c \in Conn, Ready(m, c)
  PROVE  Ready(n, c)
<1>1. SocketOf(m, i, c) /\ Turn(m, n, c)
  BY DEF Sockets, Mild
<1>2. isOpen(n, c) => c \in n.connSent
  BY DEF Mild, Ready
<1>3. ASSUME n.sock[c] \in {"None", "Calling"} PROVE c \notin n.connSent
  <2>1. m.sock[c] \in {"None", "Calling"}
    BY <1>1, <1>3 DEF Turn
  <2> QED BY <1>3, <2>1 DEF Mild, Ready
<1>4. ASSUME n.status[c] = "HalfAccepted" PROVE c \in n.auto
  <2>1. isOpen(n, c)
    BY <1>4 DEF isOpen
  <2>2. m.status[c] = "HalfAccepted"
    BY <1>1, <1>4, <2>1 DEF Turn
  <2> QED BY <1>4, <2>2 DEF Mild, Ready
<1>5. ASSUME c \in {n.msg, n.data} PROVE isAccepted(n, c) \/ isClosed(n, c)
  <2> SUFFICES ASSUME c \in {m.msg, m.data} PROVE isAccepted(n, c) \/ isClosed(n, c)
    BY <1>5 DEF Mild
  <2>1. m.sock[c] \notin {"None", "Calling"} /\ (isAccepted(m, c) \/ isClosed(m, c))
    BY <1>1 DEF SocketOf, Ready
  <2> QED BY <1>1, <2>1 DEF Turn, isAccepted, isClosed
<1> QED BY <1>2, <1>3, <1>4, <1>5 DEF Ready

LEMMA MildKnown ==
  ASSUME NEW i, NEW m, NEW n, Sockets(m, i), Mild(m, n), NEW e, e.conn \in Conn, Known(m, e)
  PROVE  Known(n, e)
<1> DEFINE c == e.conn
<1>1. SocketOf(m, i, c) /\ Turn(m, n, c)
  BY DEF Sockets, Mild
<1>2. isHalfAccepted(m, c) \/ isClosed(m, c) => m.sock[c] \notin {"None", "Calling"}
  BY <1>1, HalfIs DEF SocketOf
<1> HIDE DEF c
<1>3. isHalfAccepted(m, c) \/ isClosed(m, c) => isHalfAccepted(n, c) \/ isClosed(n, c)
  BY <1>1, <1>2 DEF Turn, isHalfAccepted, isClosed
<1>4. isAccepted(m, c) \/ isClosed(m, c) => isAccepted(n, c) \/ isClosed(n, c)
  <2>1. isAccepted(m, c) => isHalfAccepted(m, c)
    BY HalfIs
  <2> QED BY <1>1, <1>2, <2>1 DEF Turn, isAccepted, isClosed
<1> QED BY <1>3, <1>4 DEF Known, c

LEMMA MildHand ==
  ASSUME NEW i, NEW m, NEW n, Shape(m), Sockets(m, i), Mild(m, n), Hand(m)
  PROVE  Hand(n)
<1>1. \A c \in Conn : Ready(n, c)
  BY MildReady DEF Hand
<1>2. ASSUME NEW b \in 1..Len(n.events) PROVE Known(n, n.events[b])
  <2>1. CASE Silent(n.events[b])
    BY <2>1 DEF Silent, Known
  <2>2. CASE \E a \in 1..Len(m.events) : n.events[b] = m.events[a]
    <3>1. PICK a \in 1..Len(m.events) : n.events[b] = m.events[a]
      BY <2>2
    <3>2. Known(m, m.events[a]) /\ m.events[a].conn \in Conn
      BY DEF Hand, Shape, Notice
    <3>3. Known(n, m.events[a])
      BY <3>2, MildKnown
    <3> QED BY <3>1, <3>3
  <2> QED BY <2>1, <2>2 DEF Mild, News
<1>3. \A d \in n.dropped : d[2] # "Wire"
  BY DEF Mild, Hand
<1> QED BY <1>1, <1>2, <1>3 DEF Hand

LEMMA MildMeet ==
  ASSUME NEW i, NEW m, NEW n, NEW o, Shape(m), Sockets(m, i), Mild(m, n), Meet(m, o)
  PROVE  Meet(n, o)
<1>1. Hand(n)
  BY MildHand DEF Meet
<1>2. ASSUME NEW c \in Conn PROVE Greets(n, o, c) /\ Greets(o, n, c)
  BY TurnGreets DEF Mild, Meet
<1> QED BY <1>1, <1>2 DEF Meet

\* Nothing is sent, opened or closed.
Still(m, n) ==
    /\ n.status = m.status /\ n.sock = m.sock /\ n.wire = m.wire /\ n.connSent = m.connSent /\ n.auto = m.auto
    /\ {n.msg, n.data} \subseteq {m.msg, m.data, NoConn}
    /\ News(m, n)
    /\ \A d \in n.dropped : d \in m.dropped \/ d[2] # "Wire"

LEMMA StillMild ==
  ASSUME NEW m, NEW n, Still(m, n)
  PROVE  Mild(m, n)
<1>1. \A c \in Conn : Turn(m, n, c)
  BY DEF Still, Turn
<1>2. \A c \in Conn : c # NoConn /\ (isOpen(n, c) <=> isOpen(m, c))
  BY ConnAssumption DEF Still, isOpen
<1>3. m.connSent \subseteq n.connSent /\ (\A c \in n.connSent : c \in m.connSent) /\ \A c \in m.auto : c \in n.auto
  BY DEF Still
<1>4. \A c \in Conn : c \in {n.msg, n.data} => c \in {m.msg, m.data}
  BY <1>2 DEF Still
<1> QED BY <1>1, <1>2, <1>3, <1>4 DEF Mild, Still

LEMMA StillMeet ==
  ASSUME NEW i, NEW m, NEW n, NEW o, Shape(m), Sockets(m, i), Still(m, n), Meet(m, o)
  PROVE  Meet(n, o)
BY StillMild, MildMeet

LEMMA SameEvents ==
  ASSUME NEW m, NEW n, n.events = m.events
  PROVE  News(m, n)
BY DEF News

LEMMA MoreEvents ==
  ASSUME NEW m, NEW n, IsSeq(m.events), NEW e, Silent(e), n.events = Append(m.events, e)
  PROVE  News(m, n)
<1> DEFINE q == m.events
           v == Append(q, e)
<1>1. Len(v) = Len(q) + 1 /\ Len(q) \in Nat /\ v[Len(q) + 1] = e /\ \A a \in 1..Len(q) : v[a] = q[a]
  BY AppendIs, SeqIs
<1> HIDE DEF v, q
<1>2. ASSUME NEW b \in 1..Len(v) PROVE v[b] = e \/ \E a \in 1..Len(q) : v[b] = q[a]
  <2>1. b \in 1..Len(q) \/ b = Len(q) + 1
    BY <1>1
  <2> QED BY <1>1, <2>1
<1> QED BY <1>2 DEF News, v, q

\* Other fields do not matter.
Aside == {"listed", "in", "out", "log", "clearing", "todo", "pmSent", "msg", "data", "gone", "sent", "handled"}

LEMMA AsideStill ==
  ASSUME NEW m, NEW n, \A f \in Fields \ Aside : n[f] = m[f], {n.msg, n.data} \subseteq {m.msg, m.data, NoConn}
  PROVE  Still(m, n)
<1>1. /\ n.status = m.status /\ n.sock = m.sock /\ n.wire = m.wire /\ n.connSent = m.connSent /\ n.auto = m.auto
      /\ n.events = m.events /\ n.dropped = m.dropped
  BY DEF Fields, Aside
<1> QED BY <1>1, SameEvents DEF Still

LEMMA DropStill ==
  ASSUME NEW m, Shape(m), NEW p, NEW way, way # "Wire"
  PROVE  Still(m, Drop(m, p, way))
<1> DEFINE D == {<<id, way>> : id \in Ids(p)}
           n == Drop(m, p, way)
<1>1. n.dropped = m.dropped \cup D /\ \A f \in Fields \ {"dropped"} : n[f] = m[f]
  BY DEF Shape, Fields, Drop
<1>2. \A d \in D : d[2] # "Wire"
  OBVIOUS
<1> HIDE DEF D, n
<1>3. /\ n.status = m.status /\ n.sock = m.sock /\ n.wire = m.wire /\ n.connSent = m.connSent /\ n.auto = m.auto
      /\ n.events = m.events /\ n.msg = m.msg /\ n.data = m.data
  BY <1>1 DEF Fields
<1>4. Still(m, n)
  BY <1>1, <1>2, <1>3, SameEvents DEF Still
<1> QED BY <1>4 DEF n

LEMMA EventStill ==
  ASSUME NEW m, Shape(m), NEW e, Silent(e)
  PROVE  Still(m, PushEvent(m, e))
<1> DEFINE n == PushEvent(m, e)
<1>1. n.events = Append(m.events, e) /\ \A f \in Fields \ {"events"} : n[f] = m[f]
  BY DEF Shape, Fields, PushEvent
<1> HIDE DEF n
<1>2. /\ n.status = m.status /\ n.sock = m.sock /\ n.wire = m.wire /\ n.connSent = m.connSent /\ n.auto = m.auto
      /\ n.dropped = m.dropped /\ n.msg = m.msg /\ n.data = m.data
  BY <1>1 DEF Fields
<1>3. IsSeq(m.events)
  BY DEF Shape
<1>4. News(m, n)
  BY <1>1, <1>3, MoreEvents
<1>5. Still(m, n)
  BY <1>2, <1>4 DEF Still
<1> QED BY <1>5 DEF n

LEMMA LessStill ==
  ASSUME NEW m, Shape(m), NEW n, \A f \in Fields \ {"events", "gone"} : n[f] = m[f],
         n.events = <<>> \/ (m.events # <<>> /\ n.events = Tail(m.events))
  PROVE  Still(m, n)
<1>1. /\ n.status = m.status /\ n.sock = m.sock /\ n.wire = m.wire /\ n.connSent = m.connSent /\ n.auto = m.auto
      /\ n.dropped = m.dropped /\ n.msg = m.msg /\ n.data = m.data
  BY DEF Fields
<1>2. IsSeq(m.events)
  BY DEF Shape
<1>3. ASSUME NEW b \in 1..Len(n.events) PROVE \E a \in 1..Len(m.events) : n.events[b] = m.events[a]
  <2>1. CASE n.events = <<>>
    BY <1>3, <2>1, EmptyIs
  <2>2. CASE m.events # <<>> /\ n.events = Tail(m.events)
    <3> DEFINE L == Len(m.events)
               K == Len(n.events)
    <3>1. K = L - 1 /\ L \in Nat /\ n.events[b] = m.events[b + 1] /\ b \in 1..K
      BY <1>2, <1>3, <2>2, TailIs
    <3> HIDE DEF L, K
    <3>2. b + 1 \in 1..L
      BY <3>1
    <3> QED BY <3>1, <3>2 DEF L
  <2> QED BY <2>1, <2>2
<1>4. News(m, n)
  BY <1>3 DEF News
<1> QED BY <1>1, <1>4 DEF Still

LEMMA PairMeet ==
  ASSUME NEW i, NEW m, NEW o, NEW x, Pair(i, m, o, x), Meet(m, o), NEW n, Still(m, n) \/ Mild(m, n)
  PROVE  Meet(n, o)
BY StillMild, MildMeet DEF Pair, Local

-----------------------------------------------------------------------------
(* The main thread *)

LEMMA SentMild ==
  ASSUME NEW i, NEW m, Shape(m), Sockets(m, i), NEW n, NEW c \in Conn, NEW p, Logged(p), NEW P, SentOn(m, n, c, p, P),
         isOpen(m, c) => isHalfAccepted(m, c)
  PROVE  Mild(m, n)
<1>1. /\ n.status = m.status /\ n.events = m.events /\ n.dropped = m.dropped /\ n.msg = m.msg /\ n.data = m.data
      /\ n.sock = m.sock /\ n.connSent = m.connSent /\ n.auto = m.auto
  BY DEF SentOn, Fields
<1>2. n.wire = (IF m.sock[c] = "Open" THEN [m.wire EXCEPT ![c] = Append(@, p)] ELSE m.wire)
  BY DEF SentOn
<1>3. m.wire = [d \in Conn |-> m.wire[d]] /\ (m.sock[c] = "Open" <=> isOpen(m, c))
  BY DEF Shape, IsSeqs, Sockets, SocketOf
<1>4. ASSUME NEW d \in Conn PROVE Turn(m, n, d)
  <2>1. n.wire[d] = m.wire[d] \/ (d = c /\ isOpen(m, c) /\ n.wire[d] = Append(m.wire[d], p))
    BY <1>2, <1>3
  <2> QED BY <1>1, <2>1 DEF Turn
<1>5. News(m, n)
  BY <1>1, SameEvents
<1>6. \A d \in Conn : isOpen(n, d) <=> isOpen(m, d)
  BY <1>1 DEF isOpen
<1> QED BY <1>1, <1>4, <1>5, <1>6 DEF Mild

LEMMA OnClientDisconnectStill ==
  ASSUME NEW m, Shape(m)
  PROVE  Still(m, OnClientDisconnect(m))
<1> DEFINE n == [m EXCEPT !.gone = TRUE, !.events = <<>>]
<1>1. n.events = <<>> /\ \A f \in Fields \ {"events", "gone"} : n[f] = m[f]
  BY DEF Shape, Fields
<1>2. \A f \in Fields \ Aside : m[f] = m[f]
  OBVIOUS
<1>3. Still(m, m)
  BY <1>2, AsideStill
<1> HIDE DEF n
<1>4. Still(m, n)
  BY <1>1, LessStill
<1> QED BY <1>3, <1>4 DEF OnClientDisconnect, n

LEMMA RemoveConnStill ==
  ASSUME NEW m, Shape(m), NEW c
  PROVE  Still(m, RemoveConn(m, c))
<1> DEFINE n == RemoveConn(m, c)
<1>1. (\A f \in Fields \ {"msg", "data"} : n[f] = m[f]) /\ {n.msg, n.data} \subseteq {m.msg, m.data, NoConn}
  BY DEF RemoveConn, Shape, Fields
<1> HIDE DEF n
<1>2. Still(m, n)
  BY <1>1, AsideStill DEF Aside
<1> QED BY <1>2 DEF n

LEMMA SendPostMortemMeet ==
  ASSUME NEW i, NEW m, NEW o, NEW x, Pair(i, m, o, x), Meet(m, o), NEW c \in Conn
  PROVE  Meet(SendPostMortem(m, c), o)
<1> DEFINE k == [m EXCEPT !.pmSent[c] = m.out[c]]
           P == [m.pmSent EXCEPT ![c] = m.out[c]]
           p == PostMortem(m, c)
           n == Send(k, m.msg, p)
<1>1. Shape(m) /\ Sockets(m, i)
  BY DEF Pair, Local
<1>2. \A f \in Fields \ {"pmSent"} : k[f] = m[f]
  BY <1>1 DEF Shape, Fields
<1>3. k = [m EXCEPT !.pmSent = P]
  BY <1>1 DEF Shape, Fields
<1>4. SendPostMortem(m, c) \in {m, k} \/ (isConnected(m) /\ SendPostMortem(m, c) = n)
  BY <1>2 DEF SendPostMortem, isConnected, Fields
<1> HIDE DEF k
<1>5. Meet(k, o)
  <2>1. k.msg = m.msg /\ k.data = m.data
    BY <1>2 DEF Fields
  <2>2. Still(m, k)
    BY <1>2, <2>1, AsideStill DEF Aside
  <2> QED BY <2>2, PairMeet
<1>6. ASSUME isConnected(m) PROVE Meet(n, o)
  <2>1. m.msg \in Conn
    BY <1>1, <1>6 DEF Shape, isConnected
  <2>2. Ready(m, m.msg)
    BY <2>1 DEF Meet, Hand
  <2>3. isOpen(m, m.msg) => isHalfAccepted(m, m.msg)
    BY <2>2, HalfIs DEF Ready
  <2>4. Logged(p)
    BY DEF PostMortem, Logged
  <2> HIDE DEF p, P
  <2>5. SentOn(m, n, m.msg, p, P)
    BY <1>1, <1>3, <2>1, <2>4, SendFields
  <2> HIDE DEF n
  <2>6. Mild(m, n)
    BY <1>1, <2>1, <2>3, <2>4, <2>5, SentMild
  <2> QED BY <2>6, PairMeet
<1> QED BY <1>4, <1>5, <1>6

LEMMA OnDisconnMainMeet ==
  ASSUME NEW i, NEW m, NEW o, NEW x, Pair(i, m, o, x), Meet(m, o), NEW c \in Conn
  PROVE  Meet(OnDisconnMain(m, c), o)
<1>1. ASSUME NEW k, Pair(i, k, o, x), Meet(k, o) PROVE Meet(OnClientDisconnect(k), o)
  BY <1>1, OnClientDisconnectStill, PairMeet DEF Pair, Local
<1> DEFINE k == RemoveConn(m, c)
           l == SendPostMortem(k, c)
<1>2. Pair(i, k, o, x) /\ Meet(k, o)
  BY RemoveConnIs, RemoveConnStill, PairMeet DEF Pair, Local
<1> HIDE DEF k
<1>3. Pair(i, l, o, x) /\ Meet(l, o)
  BY <1>2, SendPostMortemIs, SendPostMortemMeet
<1> HIDE DEF l
<1> QED BY <1>1, <1>3 DEF OnDisconnMain, k, l

LEMMA HandleConnReMild ==
  ASSUME NEW m, Shape(m), NEW c \in Conn, isAccepted(m, c) \/ isClosed(m, c)
  PROVE  Mild(m, HandleConnRe(m, c))
<1> DEFINE k == SetStatus(m, c, "Accepted")
           a == [k EXCEPT !.auto = @ \ {c}]
           n == HandleConnRe(m, c)
<1>1. \A f \in Fields \ Aside : m[f] = m[f]
  OBVIOUS
<1>2. CASE n = m
  BY <1>1, <1>2, AsideStill, StillMild
<1>3. CASE n # m
  <2>1. isOpen(m, c) /\ isAccepted(m, c) /\ n \in {SetMsgConn(a, c), SetDataConn(a, c)}
    BY <1>3, HalfIs DEF HandleConnRe
  <2>2. m.status = [d \in Conn |-> m.status[d]] /\ m.status[c] = "Accepted"
    BY <2>1 DEF Shape, isAccepted
  <2>3. /\ a = [f \in Fields |-> a[f]] /\ a.status = m.status /\ a.auto = m.auto \ {c}
        /\ \A f \in Fields \ {"status", "auto"} : a[f] = m[f]
    <3>1. /\ k = [f \in Fields |-> k[f]] /\ k.status = [m.status EXCEPT ![c] = "Accepted"]
          /\ \A f \in Fields \ {"status"} : k[f] = m[f]
      BY DEF Shape, Fields, SetStatus
    <3> HIDE DEF k
    <3>2. a = [f \in Fields |-> a[f]] /\ a.auto = k.auto \ {c} /\ \A f \in Fields \ {"auto"} : a[f] = k[f]
      BY <3>1 DEF Fields
    <3> HIDE DEF a
    <3>3. k.status = m.status
      BY <2>2, <3>1
    <3>4. a.status = k.status /\ k.auto = m.auto
      BY <3>1, <3>2 DEF Fields
    <3> QED BY <3>1, <3>2, <3>3, <3>4
  <2> HIDE DEF a
  <2>4. \A f \in Fields \ {"msg", "data"} : n[f] = a[f]
    BY <2>1, <2>3 DEF SetMsgConn, SetDataConn, Fields
  <2>5. {n.msg, n.data} \subseteq {a.msg, a.data, c}
    BY <2>1, <2>3 DEF SetMsgConn, SetDataConn, Fields
  <2> HIDE DEF n
  <2>6. /\ n.status = m.status /\ n.sock = m.sock /\ n.wire = m.wire /\ n.connSent = m.connSent /\ n.auto = m.auto \ {c}
        /\ n.events = m.events /\ n.dropped = m.dropped /\ a.msg = m.msg /\ a.data = m.data
    BY <2>3, <2>4 DEF Fields
  <2>7. \A d \in Conn : Turn(m, n, d)
    BY <2>6 DEF Turn
  <2>8. \A d \in Conn : d \in {n.msg, n.data} => d \in {m.msg, m.data} \/ isAccepted(n, d)
    BY <2>1, <2>5, <2>6 DEF isAccepted
  <2>9. News(m, n)
    BY <2>6, SameEvents
  <2>10. \A d \in m.auto : n.status[d] = "HalfAccepted" => d \in n.auto
    BY <2>2, <2>6
  <2>11. \A d \in Conn : isOpen(n, d) => isOpen(m, d)
    BY <2>6 DEF isOpen
  <2>12. m.connSent \subseteq n.connSent /\ (\A d \in n.connSent : d \in m.connSent) /\ \A d \in n.dropped : d \in m.dropped
    BY <2>6
  <2>13. Mild(m, n)
    BY <2>7, <2>8, <2>9, <2>10, <2>11, <2>12 DEF Mild
  <2> QED BY <2>13 DEF n
<1> QED BY <1>2, <1>3

LEMMA ProcessEventMeet ==
  ASSUME NEW i, NEW m, NEW o, NEW x, Pair(i, m, o, x), Meet(m, o), m.events # <<>>
  PROVE  Meet(OnThreadEvent([m EXCEPT !.events = Tail(@)], Head(m.events)), o)
<1> DEFINE k == [m EXCEPT !.events = Tail(@)]
           e == m.events[1]
           c == e.conn
           p == e.pkt
<1>1. Shape(m)
  BY DEF Pair, Local
<1>2. /\ k = [f \in Fields |-> k[f]] /\ k.events = Tail(m.events) /\ \A f \in Fields \ {"events"} : k[f] = m[f]
      /\ Head(m.events) = e /\ Notice(e)
  BY <1>1, TakeEvent
<1>3. OnThreadEvent([m EXCEPT !.events = Tail(@)], Head(m.events)) = OnThreadEvent(k, e)
  BY <1>2
<1>4. Known(m, e)
  <2>1. 1 \in 1..Len(m.events)
    BY <1>1, TailIs DEF Shape
  <2> QED BY <2>1 DEF Meet, Hand
<1> HIDE DEF k, e
<1>5. Pair(i, k, o, x)
  <2>1. k.gone \in BOOLEAN /\ \A f \in Fields \ {"events", "gone"} : k[f] = m[f]
    BY <1>1, <1>2 DEF Shape, Fields
  <2> QED BY <1>2, <2>1, LessNewsIs
<1>6. Meet(k, o) /\ Known(k, e)
  <2>1. Still(m, k)
    BY <1>1, <1>2, LessStill
  <2>2. k.status = m.status
    BY <2>1 DEF Still
  <2> QED BY <1>4, <2>1, <2>2, PairMeet DEF Known, isHalfAccepted, isAccepted, isClosed
<1>7. Shape(k) /\ c \in Conn
  BY <1>2, <1>5 DEF Pair, Local, Notice
<1>8. CASE e.type = "Disconn"
  BY <1>3, <1>5, <1>6, <1>7, <1>8, OnDisconnMainMeet DEF OnThreadEvent
<1>9. CASE e.type = "Packet"
  <2>1. OnThreadEvent(k, e) = HandlePacketMain(k, c, p)
    BY <1>9 DEF OnThreadEvent
  <2>2. p.type \in {"Conn", "ConnRe", "Message"}
    BY <1>2, <1>9 DEF Notice
  <2> HIDE DEF c, p
  <2>3. CASE p.type = "Conn"
    <3>1. isHalfAccepted(k, c) \/ isClosed(k, c)
      BY <1>6, <1>9, <2>3 DEF Known, c, p
    <3>2. HandlePacketMain(k, c, p) = k
      BY <2>3, <3>1, HalfIs DEF HandlePacketMain, HandleConn
    <3> QED BY <1>3, <1>6, <2>1, <3>2
  <2>4. CASE p.type = "ConnRe"
    <3>1. isAccepted(k, c) \/ isClosed(k, c)
      BY <1>6, <1>9, <2>4 DEF Known, c, p
    <3>2. HandlePacketMain(k, c, p) = HandleConnRe(k, c)
      BY <2>4 DEF HandlePacketMain
    <3> QED BY <1>3, <1>5, <1>6, <1>7, <2>1, <3>1, <3>2, HandleConnReMild, PairMeet
  <2>5. CASE p.type = "Message"
    <3> DEFINE h == [k EXCEPT !.handled["Main"] = Append(@, p)]
    <3>1. HandlePacketMain(k, c, p) \in {h, Drop(k, p, "Queue")}
      BY <2>5 DEF HandlePacketMain
    <3>2. \A f \in Fields \ {"handled"} : h[f] = k[f]
      BY <1>7 DEF Shape, Fields
    <3> HIDE DEF h
    <3>3. h.msg = k.msg /\ h.data = k.data
      BY <3>2 DEF Fields
    <3>4. Still(k, h)
      BY <3>2, <3>3, AsideStill DEF Aside
    <3>5. Still(k, Drop(k, p, "Queue"))
      BY <1>7, DropStill
    <3> QED BY <1>3, <1>5, <1>6, <2>1, <3>1, <3>4, <3>5, PairMeet
  <2> QED BY <2>2, <2>3, <2>4, <2>5
<1> QED BY <1>2, <1>8, <1>9 DEF Notice

-----------------------------------------------------------------------------
(* The network thread *)

LEMMA HandledStill ==
  ASSUME NEW m, Shape(m), NEW t, NEW p
  PROVE  Still(m, [m EXCEPT !.handled[t] = Append(@, p)])
<1> DEFINE n == [m EXCEPT !.handled[t] = Append(@, p)]
<1>1. \A f \in Fields \ {"handled"} : n[f] = m[f]
  BY DEF Shape, Fields
<1> HIDE DEF n
<1>2. n.msg = m.msg /\ n.data = m.data
  BY <1>1 DEF Fields
<1>3. Still(m, n)
  BY <1>1, <1>2, AsideStill DEF Aside
<1> QED BY <1>3 DEF n

LEMMA LogStill ==
  ASSUME NEW m, NEW n, \A f \in Fields \ {"log", "clearing"} : n[f] = m[f]
  PROVE  Still(m, n)
<1>1. n.msg = m.msg /\ n.data = m.data
  BY DEF Fields
<1> QED BY <1>1, AsideStill DEF Aside

LEMMA SearchLogStill ==
  ASSUME NEW m, Shape(m), NEW c, NEW until
  PROVE  Still(m, ClearPacketLog(m, c, until)) /\ Still(m, SearchLog(m, c, until))
<1> DEFINE a == ClearPacketLog(m, c, until)
           b == SearchLog(m, c, until)
<1>1. \A f \in Fields \ {"log", "clearing"} : a[f] = m[f]
  BY DEF Shape, Fields, ClearPacketLog
<1>2. \A f \in Fields \ {"log", "clearing"} : b[f] = m[f]
  BY <1>1 DEF Shape, Fields, SearchLog
<1> HIDE DEF a, b
<1>3. Still(m, a) /\ Still(m, b)
  BY <1>1, <1>2, LogStill
<1> QED BY <1>3 DEF a, b

LEMMA CutLogStill ==
  ASSUME NEW m, Shape(m)
  PROVE  Still(m, CutLog(m))
<1> DEFINE q == CHOOSE q \in m.clearing : TRUE
           d == [m EXCEPT !.clearing = {}]
           n == CutLog(m)
<1>1. d = [f \in Fields |-> d[f]] /\ \A f \in Fields \ {"clearing"} : d[f] = m[f]
  BY DEF Shape, Fields
<1>2. n \in {[d EXCEPT !.log[q.conn] = <<>>], ClearPacketLog(d, q.conn, q.until)}
  BY DEF CutLog
<1> HIDE DEF d, q, n
<1>3. \A f \in Fields \ {"log", "clearing"} : n[f] = m[f]
  BY <1>1, <1>2 DEF Fields, ClearPacketLog
<1>4. Still(m, n)
  BY <1>3, LogStill
<1> QED BY <1>4 DEF n

LEMMA HandlePacketStill ==
  ASSUME NEW m, Shape(m), NEW c, NEW p, NEW way,
         \/ p.type = "Ping"
         \/ /\ Logged(p) /\ (IsMessage(p) => p.thread \in Thread)
            /\ way # "Wire" \/ isAccepted(m, c)
  PROVE  Still(m, HandlePacket(m, c, p, way))
<1> DEFINE n == HandlePacket(m, c, p, way)
<1>1. Still(m, m)
  BY AsideStill
<1>2. way # "Wire" => Still(m, Drop(m, p, way))
  BY DropStill
<1>3. isAccepted(m, c) => isHalfAccepted(m, c)
  BY HalfIs
<1>4. CASE p.type = "Ping"
  <2>1. n = SearchLog(m, c, p.counter) \/ n = m
    BY <1>4 DEF HandlePacket
  <2> HIDE DEF n
  <2>2. Still(m, n)
    BY <1>1, <2>1, SearchLogStill
  <2> QED BY <2>2 DEF n
<1>5. CASE Logged(p) /\ ~isHalfAccepted(m, c)
  <2>1. way # "Wire" /\ n = Drop(m, p, way)
    BY <1>3, <1>5 DEF HandlePacket, Logged
  <2> QED BY <1>2, <2>1
<1>6. CASE p.type = "PostMortem" /\ isHalfAccepted(m, c)
  <2> DEFINE l == [m EXCEPT !.todo = PacketsFrom(p, m.in[p.conn]) \o <<Removal(p.conn)>> \o @]
  <2>1. (n = Drop(m, p, way) /\ way # "Wire") \/ n = Drop(m, p, "Unknown") \/ n = l
    BY <1>6 DEF HandlePacket, HandlePostMortem, Logged
  <2>2. \A f \in Fields \ {"todo"} : l[f] = m[f]
    BY DEF Shape, Fields
  <2> HIDE DEF l, n
  <2>3. l.msg = m.msg /\ l.data = m.data
    BY <2>2 DEF Fields
  <2>4. Still(m, l)
    BY <2>2, <2>3, AsideStill DEF Aside
  <2>5. Still(m, Drop(m, p, "Unknown"))
    BY DropStill
  <2>6. Still(m, n)
    BY <1>2, <2>1, <2>4, <2>5
  <2> QED BY <2>6 DEF n
<1>7. CASE IsMessage(p) /\ isHalfAccepted(m, c)
  <2> DEFINE h == [m EXCEPT !.handled[p.thread] = Append(@, p)]
             v == PushEvent(m, Packet(c, p))
  <2>1. p.type = "Message" /\ p.thread \in {"Net", "Main"}
    BY <1>4, <1>7 DEF IsMessage, Logged, Thread
  <2>2. way # "Wire" \/ isAccepted(m, c)
    BY <2>1
  <2>3. n = v \/ n = Handle(m, c, p, way)
    BY <1>7, <2>1 DEF HandlePacket
  <2>4. n = v \/ n = h \/ (way # "Wire" /\ n = Drop(m, p, way))
    BY <2>2, <2>3 DEF Handle
  <2> HIDE DEF h, n
  <2>5. Still(m, h)
    BY HandledStill DEF h
  <2>6. Still(m, v)
    <3>1. Silent(Packet(c, p))
      BY <2>1 DEF Silent, Packet
    <3> QED BY <3>1, EventStill
  <2>7. Still(m, n)
    BY <1>2, <2>4, <2>5, <2>6
  <2> QED BY <2>7 DEF n
<1> QED BY <1>4, <1>5, <1>6, <1>7 DEF Logged, IsMessage

LEMMA ShutMild ==
  ASSUME NEW m, Shape(m), NEW n, NEW c \in Conn, \A f \in Fields \ {"status", "sock", "events", "listed"} : n[f] = m[f],
         \A d \in Conn \ {c} : n.status[d] = m.status[d] /\ n.sock[d] = m.sock[d],
         n.sock[c] = "Closed", ~isOpen(n, c), isClosed(n, c) \/ m.sock[c] \in {"None", "Calling"},
         n.events = m.events \/ n.events = Append(m.events, Disconn(c))
  PROVE  Mild(m, n)
<1>1. /\ n.wire = m.wire /\ n.connSent = m.connSent /\ n.auto = m.auto /\ n.dropped = m.dropped /\ n.msg = m.msg /\ n.data = m.data
  BY DEF Fields
<1>2. \A d \in Conn : Turn(m, n, d)
  BY <1>1 DEF Turn
<1>3. News(m, n)
  <2>1. Silent(Disconn(c)) /\ IsSeq(m.events)
    BY DEF Silent, Disconn, Shape
  <2> HIDE DEF Disconn
  <2> QED BY <2>1, SameEvents, MoreEvents
<1>4. \A d \in Conn : isOpen(n, d) => isOpen(m, d)
  BY DEF isOpen
<1>5. m.connSent \subseteq n.connSent /\ (\A d \in n.connSent : d \in m.connSent) /\ (\A d \in m.auto : d \in n.auto)
      /\ \A d \in n.dropped : d \in m.dropped
  BY <1>1
<1>6. \A d \in Conn : d \in {n.msg, n.data} => d \in {m.msg, m.data}
  BY <1>1
<1> QED BY <1>2, <1>3, <1>4, <1>5, <1>6 DEF Mild

LEMMA CloseMild ==
  ASSUME NEW i, NEW m, Shape(m), Sockets(m, i), NEW c \in Conn, c \in m.listed
  PROVE  /\ Mild(m, Close(m, c)) /\ Close(m, c) = [f \in Fields |-> Close(m, c)[f]]
         /\ \A f \in Fields \ {"status", "sock", "events"} : Close(m, c)[f] = m[f]
<1> DEFINE n == Close(m, c)
           open == ~isClosed(m, c) /\ m.sock[c] \in {"Calling", "Open"}
<1>1. /\ n = [f \in Fields |-> n[f]]
      /\ n.status = IF isClosed(m, c) THEN m.status ELSE [m.status EXCEPT ![c] = "Closed"]
      /\ n.sock = IF open THEN [m.sock EXCEPT ![c] = "Closed"] ELSE m.sock
      /\ n.events = IF open THEN Append(m.events, Disconn(c)) ELSE m.events
      /\ \A f \in Fields \ {"status", "sock", "events"} : n[f] = m[f]
  BY CloseFields
<1> HIDE DEF n
<1>2. SocketOf(m, i, c) /\ m.status \in [Conn -> Status] /\ m.sock \in [Conn -> Socket]
  BY DEF Sockets, Shape
<1>3. \A d \in Conn \ {c} : n.status[d] = m.status[d] /\ n.sock[d] = m.sock[d]
  BY <1>1, <1>2
<1>4. isClosed(n, c)
  BY <1>1, <1>2 DEF isClosed
<1>5. n.sock[c] = "Closed"
  BY <1>1, <1>2 DEF SocketOf, Socket
<1>6. ~isOpen(n, c)
  BY <1>4, HalfIs
<1>7. n.events = m.events \/ n.events = Append(m.events, Disconn(c))
  BY <1>1
<1>8. \A f \in Fields \ {"status", "sock", "events", "listed"} : n[f] = m[f]
  BY <1>1
<1>9. Mild(m, n)
  BY <1>3, <1>4, <1>5, <1>6, <1>7, <1>8, ShutMild
<1> QED BY <1>1, <1>2, <1>9 DEF n

LEMMA CloseSocketMild ==
  ASSUME NEW i, NEW m, Shape(m), Sockets(m, i), NEW c \in Conn, m.sock[c] \in {"Calling", "Open"}
  PROVE  Mild(m, CloseSocket(m, c))
<1> DEFINE k == [m EXCEPT !.sock[c] = "Closed"]
           st == IF isHalfAccepted(k, c) THEN "Closed" ELSE "ConnectFail"
           l == SetStatus(k, c, st)
           n == PushEvent(l, Disconn(c))
<1>1. SocketOf(m, i, c) /\ m.status \in [Conn -> Status] /\ m.sock \in [Conn -> Socket]
  BY DEF Sockets, Shape
<1>2. k = [f \in Fields |-> k[f]] /\ k.sock = [m.sock EXCEPT ![c] = "Closed"] /\ \A f \in Fields \ {"sock"} : k[f] = m[f]
  BY DEF Shape, Fields
<1>3. CloseSocket(m, c) = OnDisconn(k, c)
  BY DEF CloseSocket
<1> HIDE DEF k
<1>4. ~isClosed(k, c) /\ c \in k.listed
  BY <1>1, <1>2 DEF SocketOf, isClosed, Fields
<1>5. CloseSocket(m, c) = n
  BY <1>3, <1>4 DEF OnDisconn
<1>6. l = [f \in Fields |-> l[f]] /\ l.status = [k.status EXCEPT ![c] = st] /\ \A f \in Fields \ {"status"} : l[f] = k[f]
  BY <1>2 DEF Fields, SetStatus
<1>7. st \in {"Closed", "ConnectFail"}
  OBVIOUS
<1> HIDE DEF l, st
<1>8. n.events = Append(l.events, Disconn(c)) /\ \A f \in Fields \ {"events"} : n[f] = l[f]
  BY <1>6 DEF Fields, PushEvent
<1> HIDE DEF n
<1>9. /\ n.status = [m.status EXCEPT ![c] = st] /\ n.sock = [m.sock EXCEPT ![c] = "Closed"]
      /\ n.events = Append(m.events, Disconn(c))
      /\ \A f \in Fields \ {"status", "sock", "events", "listed"} : n[f] = m[f]
  BY <1>2, <1>6, <1>8 DEF Fields
<1>10. \A d \in Conn \ {c} : n.status[d] = m.status[d] /\ n.sock[d] = m.sock[d]
  BY <1>1, <1>9
<1>11. n.sock[c] = "Closed" /\ n.status[c] = st
  BY <1>1, <1>9
<1>12. isClosed(n, c)
  BY <1>7, <1>11 DEF isClosed
<1>13. ~isOpen(n, c)
  BY <1>12, HalfIs
<1>14. n.events = m.events \/ n.events = Append(m.events, Disconn(c))
  BY <1>9
<1>15. \A f \in Fields \ {"status", "sock", "events", "listed"} : n[f] = m[f]
  BY <1>9
<1> HIDE DEF st
<1>16. Mild(m, n)
  BY <1>10, <1>11, <1>12, <1>13, <1>14, <1>15, ShutMild
<1> QED BY <1>5, <1>16

LEMMA MildAside ==
  ASSUME NEW m, NEW l, Mild(m, l), NEW n, \A f \in Fields \ {"listed"} : n[f] = l[f]
  PROVE  Mild(m, n)
<1>1. /\ n.status = l.status /\ n.sock = l.sock /\ n.wire = l.wire /\ n.connSent = l.connSent /\ n.auto = l.auto
      /\ n.events = l.events /\ n.dropped = l.dropped /\ n.msg = l.msg /\ n.data = l.data
  BY DEF Fields
<1>2. \A c \in Conn : (isOpen(n, c) <=> isOpen(l, c)) /\ (isClosed(n, c) <=> isClosed(l, c)) /\ (isAccepted(n, c) <=> isAccepted(l, c))
  BY <1>1 DEF isOpen, isClosed, isAccepted
<1>3. \A c \in Conn : Turn(m, n, c)
  <2> SUFFICES ASSUME NEW c \in Conn PROVE Turn(m, n, c)
    OBVIOUS
  <2>1. Turn(m, l, c)
    BY DEF Mild
  <2> QED BY <1>1, <1>2, <2>1 DEF Turn
<1>4. News(m, n)
  BY <1>1 DEF Mild, News
<1> QED BY <1>1, <1>2, <1>3, <1>4 DEF Mild

LEMMA DoJobMeet ==
  ASSUME NEW i, NEW m, NEW o, NEW x, Pair(i, m, o, x), Meet(m, o), m.todo # <<>>
  PROVE  Meet(DoJob([m EXCEPT !.todo = Tail(@)], Head(m.todo)), o)
<1> DEFINE q == Tail(m.todo)
           k == [m EXCEPT !.todo = q]
           j == m.todo[1]
           c == j.conn
<1>1. Shape(m) /\ Sockets(m, i) /\ Link(o, m) /\ Sendings(o)
  BY DEF Pair, Local
<1>2. IsSeq(q) /\ Head(m.todo) = j /\ 1 \in 1..Len(m.todo)
  BY <1>1, TailIs DEF Shape
<1>3. [m EXCEPT !.todo = Tail(@)] = k
  OBVIOUS
<1> HIDE DEF q
<1>4. k = [f \in Fields |-> k[f]] /\ k.todo = q /\ \A f \in Fields \ {"todo"} : k[f] = m[f]
  BY <1>1 DEF Shape, Fields
<1>5. /\ k.in = m.in /\ k.out = m.out /\ k.log = m.log /\ k.pmSent = m.pmSent /\ k.events = m.events
      /\ k.sock = m.sock /\ k.sent = m.sent /\ k.handled = m.handled /\ k.wire = m.wire /\ k.status = m.status
      /\ k.gone = m.gone /\ k.msg = m.msg /\ k.data = m.data /\ k.clearing = m.clearing /\ k.listed = m.listed
  BY <1>4 DEF Fields
<1> HIDE DEF k
<1>6. JobOf(m, o, 1, j)
  BY <1>1, <1>2 DEF Link, Recovery
<1>7. c \in Conn /\ c \in k.listed
  BY <1>1, <1>5, <1>6 DEF JobOf, Shape
<1>8. Shape(k) /\ Sockets(k, i)
  <2>1. Shape(k)
    BY <1>1, <1>2, <1>4, <1>5 DEF Shape
  <2>2. Sockets(k, i)
    BY <1>1, <1>5 DEF Sockets, SocketOf, isOpen, isClosed
  <2> QED BY <2>1, <2>2
<1>9. Meet(k, o)
  <2>1. Still(m, k)
    BY <1>4, <1>5, AsideStill DEF Aside
  <2> QED BY <1>1, <2>1, StillMeet
<1>10. CASE j.type = "Packet"
  <2> DEFINE p == j.pkt
  <2>1. At(o, c, j.num + 1, p)
    BY <1>6, <1>10 DEF JobOf
  <2>2. Proper(o, c, p)
    BY <1>1, <2>1 DEF At, Sendings
  <2>3. Logged(p) /\ (IsMessage(p) => p.thread \in Thread)
    BY <2>2 DEF Proper, Logged, IsMessage
  <2> HIDE DEF p, c
  <2>4. Still(k, HandlePacket(k, c, p, "PostMortem"))
    BY <1>8, <2>3, HandlePacketStill
  <2>5. Meet(HandlePacket(k, c, p, "PostMortem"), o)
    BY <1>8, <1>9, <2>4, StillMeet
  <2> QED BY <1>2, <1>3, <1>10, <2>5 DEF DoJob, p, c
<1>11. CASE j.type # "Packet"
  <2> DEFINE b == Close(k, c)
             n == RemoveConnection(b, c)
  <2>1. Mild(k, b) /\ b = [f \in Fields |-> b[f]]
    BY <1>7, <1>8, CloseMild
  <2> HIDE DEF b
  <2>3. \A f \in Fields \ {"listed"} : n[f] = b[f]
    BY <2>1 DEF RemoveConnection, Fields
  <2> HIDE DEF n
  <2>4. Mild(k, n)
    BY <2>1, <2>3, MildAside
  <2>5. Meet(n, o)
    BY <1>8, <1>9, <2>4, MildMeet
  <2> QED BY <1>2, <1>3, <1>11, <2>5 DEF DoJob, b, n
<1> QED BY <1>10, <1>11

LEMMA PingMild ==
  ASSUME NEW m, Shape(m), NEW S, \A c \in S : isOpen(m, c)
  PROVE  Mild(m, Pinged(m, S))
<1> DEFINE n == Pinged(m, S)
<1>1. /\ n.wire = [c \in Conn |-> IF c \in S /\ m.sock[c] = "Open" THEN Append(m.wire[c], Ping(m.in[c])) ELSE m.wire[c]]
      /\ \A f \in Fields \ {"wire"} : n[f] = m[f]
  BY DEF Shape, Fields, Pinged
<1> HIDE DEF n
<1>2. /\ n.status = m.status /\ n.sock = m.sock /\ n.connSent = m.connSent /\ n.auto = m.auto
      /\ n.events = m.events /\ n.dropped = m.dropped /\ n.msg = m.msg /\ n.data = m.data
  BY <1>1 DEF Fields
<1>3. \A c \in Conn : Turn(m, n, c)
  <2> SUFFICES ASSUME NEW c \in Conn PROVE Turn(m, n, c)
    OBVIOUS
  <2>1. CASE c \in S /\ m.sock[c] = "Open"
    <3> DEFINE p == Ping(m.in[c])
    <3>1. n.wire[c] = Append(m.wire[c], p) /\ isOpen(m, c) /\ p.type = "Ping"
      BY <1>1, <2>1 DEF Ping
    <3> HIDE DEF p
    <3> QED BY <1>2, <3>1 DEF Turn
  <2>2. CASE ~(c \in S /\ m.sock[c] = "Open")
    BY <1>1, <1>2, <2>2 DEF Turn
  <2> QED BY <2>1, <2>2
<1>4. News(m, n)
  BY <1>2, SameEvents
<1>5. \A c \in Conn : isOpen(n, c) => isOpen(m, c)
  BY <1>2 DEF isOpen
<1>6. m.connSent \subseteq n.connSent /\ (\A d \in n.connSent : d \in m.connSent) /\ (\A d \in m.auto : d \in n.auto)
      /\ \A d \in n.dropped : d \in m.dropped
  BY <1>2
<1>7. Mild(m, n)
  BY <1>2, <1>3, <1>4, <1>5, <1>6 DEF Mild
<1> QED BY <1>7 DEF n

LEMMA ConnectMild ==
  ASSUME NEW i, NEW m, Shape(m), Sockets(m, i), NEW c \in Conn, Caller[c] = i, m.status[c] = "None"
  PROVE  Mild(m, [SetStatus(m, c, "Connect") EXCEPT !.listed = @ \cup {c}, !.sock[c] = "Calling"])
<1> DEFINE k == SetStatus(m, c, "Connect")
           n == [k EXCEPT !.listed = @ \cup {c}, !.sock[c] = "Calling"]
<1>1. k = [f \in Fields |-> k[f]] /\ k.status = [m.status EXCEPT ![c] = "Connect"] /\ \A f \in Fields \ {"status"} : k[f] = m[f]
  BY DEF Shape, Fields, SetStatus
<1> HIDE DEF k
<1>2. n.sock = [k.sock EXCEPT ![c] = "Calling"] /\ \A f \in Fields \ {"listed", "sock"} : n[f] = k[f]
  BY <1>1 DEF Fields
<1> HIDE DEF n
<1>3. /\ n.status = [m.status EXCEPT ![c] = "Connect"] /\ n.sock = [m.sock EXCEPT ![c] = "Calling"]
      /\ n.wire = m.wire /\ n.connSent = m.connSent /\ n.auto = m.auto
      /\ n.events = m.events /\ n.dropped = m.dropped /\ n.msg = m.msg /\ n.data = m.data
  BY <1>1, <1>2 DEF Fields
<1>4. m.status \in [Conn -> Status] /\ m.sock \in [Conn -> Socket] /\ SocketOf(m, i, c)
  BY DEF Shape, Sockets
<1>5. /\ n.status[c] = "Connect" /\ n.sock[c] = "Calling" /\ m.sock[c] = "None"
      /\ \A d \in Conn \ {c} : n.status[d] = m.status[d] /\ n.sock[d] = m.sock[d]
  BY <1>3, <1>4 DEF SocketOf
<1>6. \A d \in Conn : isOpen(n, d) => isOpen(m, d)
  BY <1>5 DEF isOpen
<1>7. ~isOpen(n, c)
  BY <1>5 DEF isOpen
<1>8. \A d \in Conn : Turn(m, n, d)
  BY <1>3, <1>5, <1>7 DEF Turn
<1>9. News(m, n)
  BY <1>3, SameEvents
<1>10. m.connSent \subseteq n.connSent /\ (\A d \in n.connSent : d \in m.connSent) /\ (\A d \in m.auto : d \in n.auto)
       /\ \A d \in n.dropped : d \in m.dropped
  BY <1>3
<1>11. Mild(m, n)
  BY <1>3, <1>6, <1>8, <1>9, <1>10 DEF Mild
<1> QED BY <1>11 DEF n, k

LEMMA OpenMild ==
  ASSUME NEW i, NEW m, Shape(m), Sockets(m, i), NEW c \in Conn, m.sock[c] \in {"None", "Calling"}, NEW n,
         \A f \in Fields \ {"status", "sock", "listed", "wire", "connSent"} : n[f] = m[f],
         n.status = [m.status EXCEPT ![c] = "Connected"], n.sock = [m.sock EXCEPT ![c] = "Open"],
         n.wire = [m.wire EXCEPT ![c] = Append(@, Simple("Conn"))], n.connSent = m.connSent \cup {c}
  PROVE  Mild(m, n)
<1>1. n.auto = m.auto /\ n.events = m.events /\ n.dropped = m.dropped /\ n.msg = m.msg /\ n.data = m.data
  BY DEF Fields
<1>2. /\ m.status \in [Conn -> Status] /\ m.sock \in [Conn -> Socket]
      /\ m.wire = [d \in Conn |-> m.wire[d]]
  BY DEF Shape, IsSeqs
<1>3. /\ n.status[c] = "Connected" /\ n.sock[c] = "Open" /\ n.wire[c] = Append(m.wire[c], Simple("Conn"))
      /\ \A d \in Conn \ {c} : n.status[d] = m.status[d] /\ n.sock[d] = m.sock[d] /\ n.wire[d] = m.wire[d]
  BY <1>2
<1>4. \A d \in Conn : Turn(m, n, d)
  BY <1>3 DEF Turn
<1>5. \A d \in Conn : isOpen(n, d) => isOpen(m, d) \/ d = c
  BY <1>3 DEF isOpen
<1>6. News(m, n)
  BY <1>1, SameEvents
<1>7. m.connSent \subseteq n.connSent /\ c \in n.connSent /\ (\A d \in n.connSent : d \in m.connSent \/ n.sock[d] = "Open")
  BY <1>3
<1>8. (\A d \in m.auto : d \in n.auto) /\ (\A d \in n.dropped : d \in m.dropped)
      /\ \A d \in Conn : d \in {n.msg, n.data} => d \in {m.msg, m.data}
  BY <1>1
<1> QED BY <1>4, <1>5, <1>6, <1>7, <1>8 DEF Mild

LEMMA OnConnMild ==
  ASSUME NEW i, NEW m, Shape(m), Sockets(m, i), Hand(m), NEW c \in Conn, m.sock[c] \in {"None", "Calling"}
  PROVE  Mild(m, OnConn(m, i, c))
<1> DEFINE r == [m EXCEPT !.sock[c] = "Closed"]
           k == [m EXCEPT !.sock[c] = "Open"]
           l == [k EXCEPT !.listed = @ \cup {c}]
           v == SetStatus(l, c, "Connected")
           w == [v EXCEPT !.wire[c] = Append(@, Simple("Conn"))]
           n == [w EXCEPT !.connSent = @ \cup {c}]
<1>1. SocketOf(m, i, c) /\ Ready(m, c) /\ m.status \in [Conn -> Status] /\ m.sock \in [Conn -> Socket]
  BY DEF Sockets, Hand, Shape
<1>2. Mild(m, r)
  <2>1. r.sock = [m.sock EXCEPT ![c] = "Closed"] /\ \A f \in Fields \ {"sock"} : r[f] = m[f]
    BY DEF Shape, Fields
  <2> HIDE DEF r
  <2>2. r.status = m.status /\ r.events = m.events
    BY <2>1 DEF Fields
  <2>3. r.sock[c] = "Closed" /\ \A d \in Conn \ {c} : r.status[d] = m.status[d] /\ r.sock[d] = m.sock[d]
    BY <1>1, <2>1, <2>2
  <2>4. ~isOpen(r, c)
    BY <1>1, <2>2 DEF SocketOf, isOpen
  <2>5. \A f \in Fields \ {"status", "sock", "events", "listed"} : r[f] = m[f]
    BY <2>1
  <2> QED BY <2>2, <2>3, <2>4, <2>5, ShutMild
<1>3. v = [f \in Fields |-> v[f]] /\ v.status = [m.status EXCEPT ![c] = "Connected"] /\ v.sock = [m.sock EXCEPT ![c] = "Open"]
      /\ \A f \in Fields \ {"status", "sock", "listed"} : v[f] = m[f]
  <2>1. k = [f \in Fields |-> k[f]] /\ k.sock = [m.sock EXCEPT ![c] = "Open"] /\ \A f \in Fields \ {"sock"} : k[f] = m[f]
    BY DEF Shape, Fields
  <2> HIDE DEF k
  <2>2. l = [f \in Fields |-> l[f]] /\ \A f \in Fields \ {"listed"} : l[f] = k[f]
    BY <2>1 DEF Fields
  <2> HIDE DEF l
  <2>3. v = [f \in Fields |-> v[f]] /\ v.status = [l.status EXCEPT ![c] = "Connected"] /\ \A f \in Fields \ {"status"} : v[f] = l[f]
    BY <2>2 DEF Fields, SetStatus
  <2> HIDE DEF v
  <2> QED BY <2>1, <2>2, <2>3 DEF Fields
<1>4. OnConn(m, i, c) \in {r, SendConnPacket(v, c)}
  <2>1. SetStatus([m EXCEPT !.sock[c] = "Open", !.listed = @ \cup {c}], c, "Connected") = v
    OBVIOUS
  <2> HIDE DEF v, r
  <2> QED BY <2>1 DEF OnConn, r
<1> HIDE DEF r, v
<1>5. v.connSent = m.connSent /\ v.wire = m.wire /\ v.status[c] = "Connected" /\ v.sock[c] = "Open" /\ c \notin m.connSent
  BY <1>1, <1>3 DEF Fields, Ready
<1>6. SendConnPacket(v, c) = n
  <2>1. Send(v, c, Simple("Conn")) = w
    BY <1>5 DEF Send, Transmit, Simple, Logged
  <2> HIDE DEF w
  <2>2. isOpen(v, c) /\ c \notin v.connSent
    BY <1>5 DEF isOpen
  <2> QED BY <2>1, <2>2 DEF SendConnPacket
<1>7. w = [f \in Fields |-> w[f]] /\ w.wire = [v.wire EXCEPT ![c] = Append(@, Simple("Conn"))] /\ \A f \in Fields \ {"wire"} : w[f] = v[f]
  BY <1>3 DEF Fields
<1> HIDE DEF w
<1>8. n.connSent = w.connSent \cup {c} /\ \A f \in Fields \ {"connSent"} : n[f] = w[f]
  BY <1>7 DEF Fields
<1> HIDE DEF n
<1>9. /\ n.status = [m.status EXCEPT ![c] = "Connected"] /\ n.sock = [m.sock EXCEPT ![c] = "Open"]
      /\ n.wire = [m.wire EXCEPT ![c] = Append(@, Simple("Conn"))] /\ n.connSent = m.connSent \cup {c}
  <2>1. n.status = w.status /\ n.sock = w.sock /\ n.wire = w.wire
    BY <1>8 DEF Fields
  <2>2. w.status = v.status /\ w.sock = v.sock /\ w.connSent = v.connSent
    BY <1>7 DEF Fields
  <2>3. n.status = v.status /\ n.sock = v.sock
    BY <2>1, <2>2
  <2>4. n.wire = [m.wire EXCEPT ![c] = Append(@, Simple("Conn"))]
    BY <1>5, <1>7, <2>1
  <2>5. n.connSent = m.connSent \cup {c}
    BY <1>5, <1>8, <2>2
  <2> QED BY <1>3, <2>3, <2>4, <2>5
<1>10. \A f \in Fields \ {"status", "sock", "listed", "wire", "connSent"} : n[f] = m[f]
  BY <1>3, <1>7, <1>8
<1>11. Mild(m, n)
  BY <1>9, <1>10, OpenMild
<1> QED BY <1>2, <1>4, <1>6, <1>11

-----------------------------------------------------------------------------
(* What arrives.                                                           *)

\* What is left on the wire when the first packet is taken off.
LEMMA RestOfWire ==
  ASSUME NEW w, IsSeq(w), w # <<>>
  PROVE  LET p == w[1]
             q == Tail(w)
         IN  /\ Head(w) = p /\ Has(w, p.type)
             /\ \A t : (Has(q, t) => Has(w, t)) /\ (Has(w, t) => t = p.type \/ Has(q, t))
             /\ OneConn(w) => OneConn(q) /\ (p.type = "Conn" => ~Has(q, "Conn"))
             /\ ConnFirst(w) => p.type \in {"Ping", "Conn"} /\ (p.type # "Conn" => ConnFirst(q))
             /\ AnswerFirst(w) => ~Logged(p) /\ (p.type # "ConnRe" => AnswerFirst(q))
<1> DEFINE p == w[1]
           q == Tail(w)
           L == Len(w)
           K == Len(q)
<1>1. Head(w) = p /\ K = L - 1 /\ L \in Nat /\ L # 0 /\ \A y \in 1..K : q[y] = w[y + 1]
  BY TailIs
<1> HIDE DEF p, q, K
<1>2. 1 \in 1..L /\ (\A y \in 1..K : y + 1 \in 1..L) /\ (\A y \in 1..L : y # 1 => y - 1 \in 1..K /\ y - 1 + 1 = y)
  BY <1>1
<1> HIDE DEF L
<1>3. p = w[1] /\ Has(w, p.type)
  BY <1>2 DEF Has, L, p
<1>4. \A t : (Has(q, t) => Has(w, t)) /\ (Has(w, t) => t = p.type \/ Has(q, t))
  <2> SUFFICES ASSUME NEW t PROVE (Has(q, t) => Has(w, t)) /\ (Has(w, t) => t = p.type \/ Has(q, t))
    OBVIOUS
  <2>1. ASSUME Has(q, t) PROVE Has(w, t)
    BY <1>1, <1>2, <2>1 DEF Has, L, K
  <2>2. ASSUME Has(w, t), t # p.type PROVE Has(q, t)
    <3>1. PICK y \in 1..L : w[y].type = t
      BY <2>2 DEF Has, L
    <3>2. y # 1
      BY <1>3, <2>2, <3>1
    <3>3. y - 1 \in 1..K /\ q[y - 1] = w[y]
      BY <1>1, <1>2, <3>2
    <3> QED BY <3>1, <3>3 DEF Has, K
  <2> QED BY <2>1, <2>2
<1>5. ASSUME OneConn(w) PROVE OneConn(q) /\ (p.type = "Conn" => ~Has(q, "Conn"))
  <2>1. ASSUME NEW y \in 1..K, NEW z \in 1..K, q[y].type = "Conn", q[z].type = "Conn" PROVE y = z
    <3>1. y + 1 \in 1..L /\ z + 1 \in 1..L /\ w[y + 1].type = "Conn" /\ w[z + 1].type = "Conn"
      BY <1>1, <1>2, <2>1
    <3>2. y + 1 = z + 1
      BY <1>5, <3>1 DEF OneConn, L
    <3> QED BY <3>2
  <2>2. ASSUME p.type = "Conn", NEW y \in 1..K, q[y].type = "Conn" PROVE FALSE
    <3>1. y + 1 \in 1..L /\ w[y + 1].type = "Conn"
      BY <1>1, <1>2, <2>2
    <3>2. y + 1 = 1
      BY <1>2, <1>3, <1>5, <2>2, <3>1 DEF OneConn, L
    <3> QED BY <3>2
  <2> QED BY <2>1, <2>2 DEF OneConn, Has, K
<1>6. \A z \in 1..1 : z = 1
  OBVIOUS
<1>7. ASSUME NEW y \in 1..K, NEW t, NEW z \in 1..(y + 1), w[z].type = t, t # p.type PROVE \E v \in 1..y : q[v].type = t
  <2>1. z # 1
    BY <1>3, <1>7
  <2>2. z - 1 \in 1..y /\ z - 1 + 1 = z /\ z - 1 \in 1..K
    BY <1>1, <1>7, <2>1
  <2> QED BY <1>1, <1>7, <2>2
<1>8. ASSUME ConnFirst(w) PROVE p.type \in {"Ping", "Conn"} /\ (p.type # "Conn" => ConnFirst(q))
  <2>1. p.type \in {"Ping", "Conn"}
    BY <1>2, <1>3, <1>6, <1>8 DEF ConnFirst, L
  <2>2. ASSUME p.type # "Conn", NEW y \in 1..K, q[y].type # "Ping" PROVE \E v \in 1..y : q[v].type = "Conn"
    <3>1. y + 1 \in 1..L /\ w[y + 1].type # "Ping"
      BY <1>1, <1>2, <2>2
    <3>2. PICK z \in 1..(y + 1) : w[z].type = "Conn"
      BY <1>8, <3>1 DEF ConnFirst, L
    <3> QED BY <1>7, <2>2, <3>2
  <2> QED BY <2>1, <2>2 DEF ConnFirst, K
<1>9. ASSUME AnswerFirst(w) PROVE ~Logged(p) /\ (p.type # "ConnRe" => AnswerFirst(q))
  <2>1. ~Logged(p)
    <3> SUFFICES ASSUME Logged(p) PROVE FALSE
      OBVIOUS
    <3>1. p.type = "ConnRe"
      BY <1>2, <1>3, <1>6, <1>9 DEF AnswerFirst, L
    <3> QED BY <3>1 DEF Logged
  <2>2. ASSUME p.type # "ConnRe", NEW y \in 1..K, Logged(q[y]) PROVE \E v \in 1..y : q[v].type = "ConnRe"
    <3>1. y + 1 \in 1..L /\ Logged(w[y + 1])
      BY <1>1, <1>2, <2>2
    <3>2. PICK z \in 1..(y + 1) : w[z].type = "ConnRe"
      BY <1>9, <3>1 DEF AnswerFirst, L
    <3> QED BY <1>7, <2>2, <3>2
  <2> QED BY <2>1, <2>2 DEF AnswerFirst, K
<1> QED BY <1>1, <1>3, <1>4, <1>5, <1>8, <1>9 DEF p, q

\* Only one wire is shorter.
Shorter(o, u, c) ==
    /\ \A f \in Fields \ {"wire"} : u[f] = o[f]
    /\ o.wire[c] # <<>> /\ u.wire[c] = Tail(o.wire[c]) /\ \A d \in Conn \ {c} : u.wire[d] = o.wire[d]

LEMMA ShorterHand ==
  ASSUME NEW o, NEW u, NEW c, Shorter(o, u, c), Hand(o)
  PROVE  Hand(u)
<1>1. /\ u.status = o.status /\ u.sock = o.sock /\ u.connSent = o.connSent /\ u.auto = o.auto
      /\ u.events = o.events /\ u.dropped = o.dropped /\ u.msg = o.msg /\ u.data = o.data
  BY DEF Shorter, Fields
<1>2. \A d : (isOpen(u, d) <=> isOpen(o, d)) /\ (isClosed(u, d) <=> isClosed(o, d)) /\ (isAccepted(u, d) <=> isAccepted(o, d))
             /\ (isHalfAccepted(u, d) <=> isHalfAccepted(o, d))
  BY <1>1 DEF isOpen, isClosed, isAccepted, isHalfAccepted
<1>3. \A d \in Conn : Ready(u, d)
  BY <1>1, <1>2 DEF Hand, Ready
<1>4. \A b \in 1..Len(u.events) : Known(u, u.events[b])
  BY <1>1, <1>2 DEF Hand, Known
<1>5. \A d \in u.dropped : d[2] # "Wire"
  BY <1>1 DEF Hand
<1> QED BY <1>3, <1>4, <1>5 DEF Hand

\* Something else is taken off.
LEMMA ShorterMeet ==
  ASSUME NEW n, NEW o, Shape(o), Meet(n, o), NEW c \in Conn, NEW u, Shorter(o, u, c), o.wire[c][1].type \notin {"Conn", "ConnRe"}
  PROVE  Meet(n, u)
<1> DEFINE w == o.wire[c]
           q == Tail(w)
<1>1. u.status = o.status /\ u.sock = o.sock
  BY DEF Shorter, Fields
<1>2. \A d : (isOpen(u, d) <=> isOpen(o, d)) /\ (isAccepted(u, d) <=> isAccepted(o, d)) /\ (isHalfAccepted(u, d) <=> isHalfAccepted(o, d))
  BY <1>1 DEF isOpen, isAccepted, isHalfAccepted
<1>3. Hand(n) /\ Hand(u)
  BY ShorterHand DEF Meet
<1>4. \A d \in Conn : Greets(n, o, d) /\ Greets(o, n, d)
  BY DEF Meet
<1>5. \A d \in Conn : Greets(n, u, d)
  BY <1>1, <1>2, <1>4 DEF Greets
<1>6. \A d \in Conn \ {c} : Greets(u, n, d)
  BY <1>1, <1>2, <1>4 DEF Greets, Shorter
<1>7. u.wire[c] = q /\ w # <<>> /\ IsSeq(w)
  BY DEF Shorter, Shape, IsSeqs
<1>8. /\ \A t : (Has(q, t) => Has(w, t)) /\ (Has(w, t) => t = w[1].type \/ Has(q, t))
      /\ OneConn(w) => OneConn(q)
      /\ ConnFirst(w) => (w[1].type # "Conn" => ConnFirst(q))
      /\ AnswerFirst(w) => (w[1].type # "ConnRe" => AnswerFirst(q))
  BY <1>7, RestOfWire
<1>9. w[1].type # "Conn" /\ w[1].type # "ConnRe"
  OBVIOUS
<1> HIDE DEF q
<1>10. u.sock[c] \notin {"None", "Calling"}
  BY <1>1, <1>4, <1>7 DEF Greets
<1>11. ASSUME n.sock[c] # "Closed"
       PROVE  /\ IF isHalfAccepted(n, c) THEN ~Has(q, "Conn") ELSE ConnFirst(q)
              /\ isAccepted(n, c) \/ AnswerFirst(q)
              /\ OneConn(q)
              /\ isOpen(o, c) => isHalfAccepted(n, c) \/ Has(q, "Conn")
              /\ isHalfAccepted(o, c) => isAccepted(n, c) \/ Has(q, "ConnRe")
  <2>1. /\ IF isHalfAccepted(n, c) THEN ~Has(w, "Conn") ELSE ConnFirst(w)
        /\ isAccepted(n, c) \/ AnswerFirst(w)
        /\ OneConn(w)
        /\ isOpen(o, c) => isHalfAccepted(n, c) \/ Has(w, "Conn")
        /\ isHalfAccepted(o, c) => isAccepted(n, c) \/ Has(w, "ConnRe")
    BY <1>4, <1>11 DEF Greets
  <2> HIDE DEF w
  <2> QED BY <1>8, <1>9, <2>1
<1>12. Greets(u, n, c)
  BY <1>2, <1>7, <1>10, <1>11 DEF Greets
<1> QED BY <1>3, <1>5, <1>6, <1>12 DEF Meet

\* Conn or ConnRe is taken off: m has come to n.
Answers(m, n, c, p, st) ==
    /\ \A f \in Fields \ {"status", "wire", "auto", "events", "in"} : n[f] = m[f]
    /\ n.status = [m.status EXCEPT ![c] = st] /\ n.events = Append(m.events, Packet(c, p))
    /\ m.auto \subseteq n.auto /\ \A d \in Conn \ {c} : n.wire[d] = m.wire[d]

LEMMA AnswersHand ==
  ASSUME NEW i, NEW m, Shape(m), Sockets(m, i), Hand(m), NEW c \in Conn, m.sock[c] = "Open", NEW n, NEW p, NEW st,
         Answers(m, n, c, p, st), st = "Accepted" \/ (st = "HalfAccepted" /\ ~isHalfAccepted(m, c) /\ c \in n.auto),
         p.type = "ConnRe" => st = "Accepted"
  PROVE  Hand(n) /\ isHalfAccepted(n, c) /\ isOpen(n, c) /\ n.sock = m.sock /\ \A d \in Conn \ {c} : n.status[d] = m.status[d]
<1>1. /\ n.sock = m.sock /\ n.connSent = m.connSent /\ n.dropped = m.dropped /\ n.msg = m.msg /\ n.data = m.data
      /\ n.events = Append(m.events, Packet(c, p)) /\ m.auto \subseteq n.auto
  BY DEF Answers, Fields
<1>2. m.status \in [Conn -> Status] /\ SocketOf(m, i, c) /\ IsSeq(m.events)
  BY DEF Shape, Sockets
<1>3. n.status[c] = st /\ \A d \in Conn \ {c} : n.status[d] = m.status[d]
  BY <1>2 DEF Answers
<1>4. isOpen(m, c) /\ isHalfAccepted(n, c) /\ isOpen(n, c) /\ ~isClosed(m, c)
  BY <1>2, <1>3, HalfIs DEF SocketOf, isHalfAccepted, isOpen
<1>5. isAccepted(m, c) => isAccepted(n, c)
  BY <1>3, HalfIs DEF isAccepted
<1>6. \A d \in Conn \ {c} : /\ (isOpen(n, d) <=> isOpen(m, d)) /\ (isClosed(n, d) <=> isClosed(m, d))
                           /\ (isAccepted(n, d) <=> isAccepted(m, d)) /\ (isHalfAccepted(n, d) <=> isHalfAccepted(m, d))
  BY <1>3 DEF isOpen, isClosed, isAccepted, isHalfAccepted
<1>7. ASSUME NEW d \in Conn PROVE Ready(n, d)
  <2>1. Ready(m, d)
    BY DEF Hand
  <2>2. CASE d = c
    <3>1. c \in n.connSent /\ n.sock[c] = "Open" /\ (n.status[c] = "HalfAccepted" => c \in n.auto)
      BY <1>1, <1>3, <1>4, <2>1, <2>2 DEF Ready
    <3>2. c \in {n.msg, n.data} => isAccepted(n, c) \/ isClosed(n, c)
      BY <1>1, <1>4, <1>5, <2>1, <2>2 DEF Ready
    <3> QED BY <2>2, <3>1, <3>2 DEF Ready
  <2>3. CASE d # c
    BY <1>1, <1>3, <1>6, <2>1, <2>3 DEF Ready
  <2> QED BY <2>2, <2>3
<1>8. ASSUME NEW e, e.conn \in Conn, Known(m, e) PROVE Known(n, e)
  <2>1. CASE e.conn = c
    BY <1>4, <1>5, <1>8, <2>1 DEF Known
  <2>2. CASE e.conn # c
    BY <1>6, <1>8, <2>2 DEF Known
  <2> QED BY <2>1, <2>2
<1>9. Known(n, Packet(c, p))
  BY <1>3, <1>4 DEF Known, Packet, isAccepted
<1>10. ASSUME NEW b \in 1..Len(n.events) PROVE Known(n, n.events[b])
  <2> DEFINE L == Len(m.events)
             e == Packet(c, p)
  <2>1. Len(n.events) = L + 1 /\ L \in Nat /\ n.events[L + 1] = e /\ \A a \in 1..L : n.events[a] = m.events[a]
    BY <1>1, <1>2, AppendIs, SeqIs
  <2>2. \A a \in 1..L : m.events[a].conn \in Conn /\ Known(m, m.events[a])
    BY DEF Hand, Shape, Notice
  <2> HIDE DEF L, e
  <2>3. b \in 1..L \/ b = L + 1
    BY <1>10, <2>1
  <2>4. CASE b \in 1..L
    BY <1>8, <2>1, <2>2, <2>4
  <2>5. CASE b = L + 1
    BY <1>9, <2>1, <2>5 DEF e
  <2> QED BY <2>3, <2>4, <2>5
<1>11. \A d \in n.dropped : d[2] # "Wire"
  BY <1>1 DEF Hand
<1> QED BY <1>1, <1>3, <1>4, <1>7, <1>10, <1>11 DEF Hand

LEMMA AnswersMeet ==
  ASSUME NEW i, NEW m, NEW o, Shape(m), Sockets(m, i), Meet(m, o), NEW c \in Conn, m.sock[c] = "Open", NEW n, NEW p, NEW st,
         Answers(m, n, c, p, st), st = "Accepted" \/ (st = "HalfAccepted" /\ ~isHalfAccepted(m, c) /\ c \in n.auto),
         p.type = "ConnRe" => st = "Accepted", NEW u, Shorter(o, u, c), Greets(n, u, c), Greets(u, n, c)
  PROVE  Meet(n, u)
<1>1. Hand(n) /\ Hand(u) /\ n.sock = m.sock /\ \A d \in Conn \ {c} : n.status[d] = m.status[d]
  BY AnswersHand, ShorterHand DEF Meet
<1>2. u.status = o.status /\ u.sock = o.sock /\ \A d \in Conn \ {c} : u.wire[d] = o.wire[d] /\ n.wire[d] = m.wire[d]
  BY DEF Shorter, Fields, Answers
<1>3. ASSUME NEW d \in Conn \ {c} PROVE Greets(n, u, d) /\ Greets(u, n, d)
  <2>1. Greets(m, o, d) /\ Greets(o, m, d)
    BY DEF Meet
  <2>2. /\ (isOpen(n, d) <=> isOpen(m, d)) /\ (isAccepted(n, d) <=> isAccepted(m, d)) /\ (isHalfAccepted(n, d) <=> isHalfAccepted(m, d))
        /\ (isOpen(u, d) <=> isOpen(o, d)) /\ (isAccepted(u, d) <=> isAccepted(o, d)) /\ (isHalfAccepted(u, d) <=> isHalfAccepted(o, d))
    BY <1>1, <1>2 DEF isOpen, isAccepted, isHalfAccepted
  <2> QED BY <1>1, <1>2, <2>1, <2>2 DEF Greets
<1> QED BY <1>1, <1>3 DEF Meet

\* The Conn is answered at once.
LEMMA ConnMeet ==
  ASSUME NEW i, NEW m, NEW o, Shape(m), Sockets(m, i), Shape(o), Meet(m, o), NEW c \in Conn, m.sock[c] = "Open",
         NEW u, Shorter(o, u, c), NEW p, p = o.wire[c][1], p.type = "Conn", NEW n, Answers(m, n, c, p, "HalfAccepted"),
         n.wire[c] = Append(m.wire[c], Simple("ConnRe")), c \in n.auto
  PROVE  Meet(n, u)
<1> DEFINE w == o.wire[c]
           q == Tail(w)
           a == Simple("ConnRe")
           v == Append(m.wire[c], a)
<1>1. IsSeq(w) /\ w # <<>> /\ u.wire[c] = q /\ IsSeq(m.wire[c]) /\ SocketOf(m, i, c)
  BY DEF Shape, IsSeqs, Shorter, Sockets
<1>2. isOpen(m, c) /\ Greets(m, o, c) /\ Greets(o, m, c)
  BY <1>1 DEF Meet, SocketOf
<1>3. /\ Has(w, "Conn") /\ (Has(w, "ConnRe") => Has(q, "ConnRe"))
      /\ OneConn(w) => OneConn(q) /\ ~Has(q, "Conn")
      /\ AnswerFirst(w) => AnswerFirst(q)
  BY <1>1, RestOfWire
<1>4. ~isHalfAccepted(m, c) /\ ~isAccepted(m, c)
  BY <1>2, <1>3, HalfIs DEF Greets
<1>5. Hand(n) /\ isHalfAccepted(n, c) /\ isOpen(n, c) /\ n.sock = m.sock
  BY <1>4, AnswersHand DEF Meet
<1>6. u.status = o.status /\ u.sock = o.sock
  BY DEF Shorter, Fields
<1>7. (isOpen(u, c) <=> isOpen(o, c)) /\ (isAccepted(u, c) <=> isAccepted(o, c)) /\ (isHalfAccepted(u, c) <=> isHalfAccepted(o, c))
  BY <1>6 DEF isOpen, isAccepted, isHalfAccepted
<1>8. o.sock[c] \notin {"None", "Calling"}
  BY <1>1, <1>2 DEF Greets
<1>9. a.type = "ConnRe" /\ ~Logged(a)
  BY DEF Simple, Logged
<1> HIDE DEF a
<1>10. \A t : Has(v, t) <=> Has(m.wire[c], t) \/ a.type = t
  BY <1>1, HasMore
<1>11. /\ ConnFirst(m.wire[c]) /\ Has(m.wire[c], "Conn") => ConnFirst(v)
       /\ AnswerFirst(m.wire[c]) => AnswerFirst(v)
       /\ OneConn(m.wire[c]) => OneConn(v)
  BY <1>1, <1>9, FirstMore
<1> HIDE DEF v, q
<1>12. n.wire[c] = v
  BY DEF v, a
<1>13. Greets(u, n, c)
  <2>1. /\ AnswerFirst(w) /\ OneConn(w) /\ (isHalfAccepted(o, c) => Has(w, "ConnRe"))
    BY <1>2, <1>4 DEF Greets
  <2> HIDE DEF w
  <2>2. ~Has(q, "Conn") /\ AnswerFirst(q) /\ OneConn(q) /\ (isHalfAccepted(o, c) => Has(q, "ConnRe"))
    BY <1>3, <2>1
  <2> QED BY <1>1, <1>5, <1>6, <1>7, <1>8, <2>2 DEF Greets
<1>14. Greets(n, u, c)
  <2>1. ASSUME o.sock[c] # "Closed"
        PROVE  /\ IF isHalfAccepted(o, c) THEN ~Has(v, "Conn") ELSE ConnFirst(v)
               /\ isAccepted(o, c) \/ AnswerFirst(v)
               /\ OneConn(v)
               /\ isHalfAccepted(o, c) \/ Has(v, "Conn")
               /\ Has(v, "ConnRe")
    <3>1. /\ IF isHalfAccepted(o, c) THEN ~Has(m.wire[c], "Conn") ELSE ConnFirst(m.wire[c])
          /\ isAccepted(o, c) \/ AnswerFirst(m.wire[c])
          /\ OneConn(m.wire[c])
          /\ isHalfAccepted(o, c) \/ Has(m.wire[c], "Conn")
      BY <1>2, <2>1 DEF Greets
    <3> QED BY <1>9, <1>10, <1>11, <3>1
  <2> QED BY <1>5, <1>6, <1>7, <1>12, <2>1 DEF Greets
<1> QED BY <1>4, <1>13, <1>14, AnswersMeet

\* The ConnRe comes to a connection that is accepted by halves, at least.
LEMMA ConnReMeet ==
  ASSUME NEW i, NEW m, NEW o, Shape(m), Sockets(m, i), Shape(o), Meet(m, o), NEW c \in Conn, m.sock[c] = "Open",
         isHalfAccepted(m, c),
         NEW u, Shorter(o, u, c), NEW p, p = o.wire[c][1], p.type = "ConnRe", NEW n, Answers(m, n, c, p, "Accepted"),
         n.wire[c] = m.wire[c]
  PROVE  Meet(n, u)
<1> DEFINE w == o.wire[c]
           q == Tail(w)
<1>1. IsSeq(w) /\ w # <<>> /\ u.wire[c] = q
  BY DEF Shape, IsSeqs, Shorter
<1>2. Greets(m, o, c) /\ Greets(o, m, c)
  BY DEF Meet
<1>3. (Has(q, "Conn") => Has(w, "Conn")) /\ (OneConn(w) => OneConn(q))
  BY <1>1, RestOfWire
<1>4. Hand(n) /\ isHalfAccepted(n, c) /\ isOpen(n, c) /\ n.sock = m.sock
  BY AnswersHand DEF Meet
<1>5. u.status = o.status /\ u.sock = o.sock
  BY DEF Shorter, Fields
<1>6. (isOpen(u, c) <=> isOpen(o, c)) /\ (isAccepted(u, c) <=> isAccepted(o, c)) /\ (isHalfAccepted(u, c) <=> isHalfAccepted(o, c))
  BY <1>5 DEF isOpen, isAccepted, isHalfAccepted
<1>7. o.sock[c] \notin {"None", "Calling"} /\ isOpen(m, c)
  BY <1>1, <1>2, HalfIs DEF Greets
<1>8. isAccepted(n, c)
  <2>1. n.status = [m.status EXCEPT ![c] = "Accepted"] /\ m.status \in [Conn -> Status]
    BY DEF Answers, Shape
  <2> QED BY <2>1 DEF isAccepted
<1> HIDE DEF q
<1>9. Greets(u, n, c)
  <2>1. ~Has(w, "Conn") /\ OneConn(w)
    BY <1>2 DEF Greets
  <2> HIDE DEF w
  <2>2. ~Has(q, "Conn") /\ OneConn(q)
    BY <1>3, <2>1
  <2> QED BY <1>1, <1>4, <1>5, <1>7, <1>8, <2>2 DEF Greets
<1>10. Greets(n, u, c)
  BY <1>2, <1>4, <1>5, <1>6, <1>7 DEF Greets
<1>11. p.type = "ConnRe" => "Accepted" = "Accepted"
  OBVIOUS
<1> QED BY <1>9, <1>10, <1>11, AnswersMeet

LEMMA HandleConnNetIsAnswer ==
  ASSUME SameAddress, NEW m, Shape(m), NEW c \in Conn, isOpen(m, c), m.sock[c] = "Open", NEW p
  PROVE  LET n == PushEvent(HandleConnNet(m, c), Packet(c, p))
         IN  Answers(m, n, c, p, "HalfAccepted") /\ n.wire[c] = Append(m.wire[c], Simple("ConnRe")) /\ c \in n.auto
<1> DEFINE k == [m EXCEPT !.wire[c] = Append(@, Simple("ConnRe"))]
           l == SetStatus(k, c, "HalfAccepted")
           h == [l EXCEPT !.auto = @ \cup {c}]
           n == PushEvent(h, Packet(c, p))
<1>1. Send(m, c, Simple("ConnRe")) = k
  BY DEF Send, Transmit, Simple, Logged
<1>2. k = [f \in Fields |-> k[f]] /\ k.wire = [m.wire EXCEPT ![c] = Append(@, Simple("ConnRe"))] /\ \A f \in Fields \ {"wire"} : k[f] = m[f]
  BY DEF Shape, Fields
<1>3. HandleConnNet(m, c) = h
  BY <1>1 DEF HandleConnNet, AutoAccept
<1> HIDE DEF k
<1>4. l = [f \in Fields |-> l[f]] /\ l.status = [k.status EXCEPT ![c] = "HalfAccepted"] /\ \A f \in Fields \ {"status"} : l[f] = k[f]
  BY <1>2 DEF Fields, SetStatus
<1> HIDE DEF l
<1>5. h = [f \in Fields |-> h[f]] /\ h.auto = l.auto \cup {c} /\ \A f \in Fields \ {"auto"} : h[f] = l[f]
  BY <1>4 DEF Fields
<1> HIDE DEF h
<1>6. n.events = Append(h.events, Packet(c, p)) /\ \A f \in Fields \ {"events"} : n[f] = h[f]
  BY <1>5 DEF Fields, PushEvent
<1> HIDE DEF n
<1>7. /\ n.status = [m.status EXCEPT ![c] = "HalfAccepted"] /\ n.events = Append(m.events, Packet(c, p))
      /\ n.auto = m.auto \cup {c} /\ n.wire = [m.wire EXCEPT ![c] = Append(@, Simple("ConnRe"))]
  BY <1>2, <1>4, <1>5, <1>6 DEF Fields
<1>8. \A f \in Fields \ {"status", "wire", "auto", "events", "in"} : n[f] = m[f]
  BY <1>2, <1>4, <1>5, <1>6
<1>9. m.wire = [d \in Conn |-> m.wire[d]]
  BY DEF Shape, IsSeqs
<1>10. n.wire[c] = Append(m.wire[c], Simple("ConnRe")) /\ \A d \in Conn \ {c} : n.wire[d] = m.wire[d]
  BY <1>7, <1>9
<1>11. Answers(m, n, c, p, "HalfAccepted")
  BY <1>7, <1>8, <1>10 DEF Answers
<1> QED BY <1>3, <1>7, <1>10, <1>11 DEF n

LEMMA HandleConnReNetIsAnswer ==
  ASSUME NEW m, Shape(m), NEW c \in Conn, isHalfAccepted(m, c), Ready(m, c), NEW p
  PROVE  LET n == PushEvent(HandleConnReNet(m, c), Packet(c, p))
         IN  Answers(m, n, c, p, "Accepted") /\ n.wire[c] = m.wire[c]
<1> DEFINE k == HandleConnReNet(m, c)
           n == PushEvent(k, Packet(c, p))
<1>1. isOpen(m, c) /\ c \in m.connSent /\ m.status \in [Conn -> Status]
  BY HalfIs DEF Ready, Shape
<1>2. k = SetStatus(m, c, "Accepted") \/ (k = m /\ m.status[c] = "Accepted")
  BY <1>1 DEF HandleConnReNet, Ready, isHalfAccepted
<1>3. k = [f \in Fields |-> k[f]] /\ k.status = [m.status EXCEPT ![c] = "Accepted"] /\ \A f \in Fields \ {"status"} : k[f] = m[f]
  <2>1. CASE k = SetStatus(m, c, "Accepted")
    <3> HIDE DEF k
    <3> QED BY <2>1 DEF Shape, Fields, SetStatus
  <2>2. CASE k = m /\ m.status[c] = "Accepted"
    <3> HIDE DEF k
    <3>1. m.status = [m.status EXCEPT ![c] = "Accepted"]
      BY <1>1, <2>2
    <3> QED BY <2>2, <3>1 DEF Shape
  <2> QED BY <1>2, <2>1, <2>2
<1> HIDE DEF k
<1>4. n.events = Append(k.events, Packet(c, p)) /\ \A f \in Fields \ {"events"} : n[f] = k[f]
  BY <1>3 DEF Fields, PushEvent
<1> HIDE DEF n
<1>5. n.status = [m.status EXCEPT ![c] = "Accepted"] /\ n.events = Append(m.events, Packet(c, p)) /\ n.auto = m.auto /\ n.wire = m.wire
  BY <1>3, <1>4 DEF Fields
<1>6. \A f \in Fields \ {"status", "wire", "auto", "events", "in"} : n[f] = m[f]
  BY <1>3, <1>4
<1>7. Answers(m, n, c, p, "Accepted") /\ n.wire[c] = m.wire[c]
  BY <1>5, <1>6 DEF Answers
<1> QED BY <1>7 DEF n, k

LEMMA ReceiveMeet ==
  ASSUME SameAddress, NEW i \in Computer, NEW m, NEW o, NEW x, Pair(i, m, o, x), Meet(m, o), NEW c \in Conn,
         m.sock[c] = "Open", o.wire[c] # <<>>
  PROVE  Meet(OnPacket(m, c, Head(o.wire[c])), [o EXCEPT !.wire[c] = Tail(@)])
<1> DEFINE w == o.wire[c]
           p == w[1]
           k == [m EXCEPT !.in[c] = IF Logged(p) THEN @ + 1 ELSE @]
           u == [o EXCEPT !.wire[c] = Tail(@)]
           n == HandlePacket(k, c, p, "Wire")
<1>1. Shape(m) /\ Sockets(m, i) /\ Shape(o) /\ Sendings(o) /\ Wires(o, m)
  BY DEF Pair, Local, Link
<1>2. SocketOf(m, i, c) /\ isOpen(m, c) /\ c \in m.listed
  BY <1>1 DEF Sockets, SocketOf
<1>3. /\ o.wire = [d \in Conn |-> o.wire[d]] /\ IsSeq(w) /\ IsSeq(o.sent[c]) /\ m.in \in [Conn -> Nat]
  BY <1>1 DEF Shape, IsSeqs
<1>4. Head(w) = p
  BY <1>3, TailIs
<1>5. OnPacket(m, c, Head(w)) = n
  BY <1>2, <1>4 DEF OnPacket
<1>6. IF Logged(p) THEN m.in[c] + 1 \in 1..Len(o.sent[c]) /\ p = o.sent[c][m.in[c] + 1] ELSE Control(p)
  <2>1. Follows(w, m.in[c], o.sent[c], o.sock[c] = "Open") /\ m.in[c] \in Nat
    BY <1>1, <1>3 DEF Wires
  <2> HIDE DEF w
  <2> QED BY <1>3, <1>4, <2>1, WireTaken DEF w, p
<1>7. Shorter(o, u, c)
  <2>1. u.wire = [o.wire EXCEPT ![c] = Tail(@)] /\ \A f \in Fields \ {"wire"} : u[f] = o[f]
    BY <1>1 DEF Shape, Fields
  <2> HIDE DEF u
  <2> QED BY <1>3, <2>1 DEF Shorter
<1>8. /\ k = [f \in Fields |-> k[f]] /\ k.in = [m.in EXCEPT ![c] = IF Logged(p) THEN m.in[c] + 1 ELSE m.in[c]]
      /\ \A f \in Fields \ {"in"} : k[f] = m[f]
  BY <1>1 DEF Shape, Fields
<1> HIDE DEF k, p, u
<1>9. Still(m, k) /\ k.sock = m.sock /\ k.status = m.status
  <2>1. k.msg = m.msg /\ k.data = m.data /\ k.sock = m.sock /\ k.status = m.status
    BY <1>8 DEF Fields
  <2> QED BY <1>8, <2>1, AsideStill DEF Aside
<1>10. Shape(k) /\ Sockets(k, i)
  <2>1. k.in \in [Conn -> Nat]
    <3> DEFINE N == IF Logged(p) THEN m.in[c] + 1 ELSE m.in[c]
    <3>1. N \in Nat
      BY <1>3
    <3>2. k.in = [m.in EXCEPT ![c] = N]
      BY <1>8
    <3> HIDE DEF N
    <3> QED BY <1>3, <3>1, <3>2
  <2>2. /\ k.todo = m.todo /\ k.out = m.out /\ k.log = m.log /\ k.pmSent = m.pmSent /\ k.events = m.events
        /\ k.sock = m.sock /\ k.sent = m.sent /\ k.handled = m.handled /\ k.wire = m.wire /\ k.status = m.status
        /\ k.gone = m.gone /\ k.msg = m.msg /\ k.data = m.data /\ k.clearing = m.clearing /\ k.listed = m.listed
    BY <1>8 DEF Fields
  <2>3. Shape(k)
    BY <1>1, <1>8, <2>1, <2>2 DEF Shape
  <2>4. Sockets(k, i)
    BY <1>1, <2>2 DEF Sockets, SocketOf, isOpen, isClosed
  <2> QED BY <2>3, <2>4
<1>11. Meet(k, o)
  BY <1>1, <1>9, StillMeet
<1>12. Greets(o, k, c) /\ Ready(k, c) /\ k.sock[c] = "Open" /\ isOpen(k, c)
  BY <1>2, <1>9, <1>11 DEF Meet, Hand, isOpen
<1>13. /\ Has(w, p.type)
       /\ ConnFirst(w) => p.type \in {"Ping", "Conn"}
       /\ AnswerFirst(w) => ~Logged(p)
  BY <1>3, RestOfWire DEF p
<1>14. p = o.wire[c][1]
  BY DEF p
<1>15. CASE p.type = "Ping" \/ Logged(p)
  <2>1. Logged(p) => isAccepted(k, c) /\ (IsMessage(p) => p.thread \in Thread)
    <3>1. Logged(p) => isAccepted(k, c)
      BY <1>12, <1>13 DEF Greets
    <3>2. Logged(p) => Proper(o, c, p)
      BY <1>1, <1>6 DEF Sendings
    <3> QED BY <3>1, <3>2 DEF Proper, IsMessage
  <2>2. Still(k, n)
    BY <1>10, <1>15, <2>1, HandlePacketStill
  <2>3. Meet(n, o)
    BY <1>10, <1>11, <2>2, StillMeet
  <2>4. o.wire[c][1].type \notin {"Conn", "ConnRe"}
    BY <1>14, <1>15 DEF Logged
  <2> HIDE DEF n
  <2> QED BY <1>1, <1>5, <1>7, <2>3, <2>4, ShorterMeet DEF u
<1>16. CASE p.type = "Conn"
  <2>1. n = PushEvent(HandleConnNet(k, c), Packet(c, p))
    BY <1>16 DEF HandlePacket
  <2> HIDE DEF n
  <2>2. Answers(k, n, c, p, "HalfAccepted") /\ n.wire[c] = Append(k.wire[c], Simple("ConnRe")) /\ c \in n.auto
    BY <1>10, <1>12, <2>1, HandleConnNetIsAnswer
  <2>3. Meet(n, u)
    BY <1>1, <1>7, <1>10, <1>11, <1>12, <1>14, <1>16, <2>2, ConnMeet
  <2> QED BY <1>5, <2>3 DEF u
<1>17. CASE p.type = "ConnRe"
  <2>1. isHalfAccepted(k, c)
    BY <1>12, <1>13, <1>17 DEF Greets
  <2>2. n = PushEvent(HandleConnReNet(k, c), Packet(c, p))
    BY <1>17 DEF HandlePacket
  <2> HIDE DEF n
  <2>3. Answers(k, n, c, p, "Accepted") /\ n.wire[c] = k.wire[c]
    BY <1>10, <1>12, <2>1, <2>2, HandleConnReNetIsAnswer
  <2>4. Meet(n, u)
    BY <1>1, <1>7, <1>10, <1>11, <1>12, <1>14, <1>17, <2>1, <2>3, ConnReMeet
  <2> QED BY <1>5, <2>4 DEF u
<1> QED BY <1>6, <1>15, <1>16, <1>17 DEF Control

-----------------------------------------------------------------------------
(* All steps.                                                              *)

LEMMA BothMeet ==
  ASSUME NEW i \in Computer, NEW n, NEW u, node' = [j \in Computer |-> IF j = i THEN n ELSE u], Meet(n, u)
  PROVE  HInv'
<1>1. node'[i] = n /\ node'[Other(i)] = u
  BY OtherIs
<1>2. Meet(u, n)
  BY DEF Meet
<1>3. ASSUME NEW j \in Computer PROVE Meet(node'[j], node'[Other(j)])
  <2>1. CASE j = i
    BY <1>1, <2>1
  <2>2. CASE j = Other(i)
    <3>1. Other(j) = i
      BY <2>2, OtherIs
    <3> QED BY <1>1, <1>2, <2>2, <3>1
  <2> QED BY <2>1, <2>2, OtherIs
<1> QED BY <1>3 DEF HInv

LEMMA ChangeMeet ==
  ASSUME IInv, NEW i \in Computer, NEW n, Change(i, n), Meet(n, node[Other(i)])
  PROVE  HInv'
<1>1. node' = [j \in Computer |-> IF j = i THEN n ELSE node[Other(i)]]
  <2>1. node = [j \in Computer |-> node[j]] /\ node' = [node EXCEPT ![i] = n]
    BY DEF IInv, Change
  <2> QED BY <2>1, OtherIs
<1> QED BY <1>1, BothMeet

\* HInv is inductive, given IInv.
LEMMA MeetStays ==
  ASSUME SameAddress, IInv, HInv, [Next]_vars
  PROVE  HInv'
<1> DEFINE x == MaxTraffic - budget.traffic
<1>1. ASSUME NEW i \in Computer
      PROVE  /\ Pair(i, node[i], node[Other(i)], x) /\ Shape(node[i]) /\ Sockets(node[i], i)
             /\ Meet(node[i], node[Other(i)]) /\ Hand(node[i])
  BY DEF IInv, HInv, Pair, Local, Meet
<1> HIDE DEF x
<1>2. ASSUME NEW i \in Computer, NEW n, Change(i, n), Still(node[i], n) \/ Mild(node[i], n) PROVE HInv'
  BY <1>1, <1>2, PairMeet, ChangeMeet
<1>3. CASE UNCHANGED vars
  BY <1>3 DEF HInv, vars
<1>4. ASSUME NEW i \in Computer, ProcessEvent(i) PROVE HInv'
  BY <1>1, <1>4, ProcessEventMeet, ChangeMeet DEF ProcessEvent
<1>5. ASSUME NEW i \in Computer, GoOn(i) PROVE HInv'
  <2>1. CASE Change(i, CutLog(node[i]))
    BY <1>1, <1>2, <2>1, CutLogStill
  <2>2. CASE node[i].todo # <<>> /\ Change(i, DoJob([node[i] EXCEPT !.todo = Tail(@)], Head(node[i].todo)))
    BY <1>1, <2>2, DoJobMeet, ChangeMeet
  <2> QED BY <1>5, <2>1, <2>2 DEF GoOn
<1>6. ASSUME NEW i \in Computer, PingAll(i) PROVE HInv'
  <2> DEFINE S == {c \in node[i].listed : isOpen(node[i], c)}
             n == Pinged(node[i], S)
  <2>1. Change(i, n)
    BY <1>6 DEF PingAll, Pinged
  <2>2. Mild(node[i], n)
    BY <1>1, PingMild
  <2> HIDE DEF n
  <2> QED BY <1>2, <2>1, <2>2
<1>7. ASSUME NEW i \in Computer, NEW c \in Conn, NEW t, Say(i, c, t), isOpen(node[i], c) => isHalfAccepted(node[i], c) PROVE HInv'
  <2> DEFINE m == node[i]
             p == Message(i, MaxTraffic - budget.traffic, t, c)
             n == Send(m, c, p)
  <2>1. Change(i, n)
    BY <1>7 DEF Say
  <2>2. Logged(p)
    BY DEF Message, Logged
  <2> HIDE DEF p
  <2>3. m = [m EXCEPT !.pmSent = m.pmSent]
    BY <1>1 DEF Shape, Fields
  <2>4. SentOn(m, Send([m EXCEPT !.pmSent = m.pmSent], c, p), c, p, m.pmSent)
    BY <1>1, <2>2, SendFields
  <2>5. SentOn(m, n, c, p, m.pmSent)
    BY <2>3, <2>4
  <2> HIDE DEF n
  <2>6. Mild(m, n)
    BY <1>1, <1>7, <2>2, <2>5, SentMild
  <2> QED BY <1>2, <2>1, <2>6
<1>8. ASSUME NEW i \in Computer, NEW t \in {"Net", "Main"}, Speak(i, t) PROVE HInv'
  <2>1. isConnected(node[i]) /\ Say(i, node[i].msg, t)
    BY <1>8 DEF Speak
  <2>2. node[i].msg \in Conn
    BY <1>1, <2>1 DEF Shape, isConnected
  <2>3. isOpen(node[i], node[i].msg) => isHalfAccepted(node[i], node[i].msg)
    BY <1>1, <2>2, HalfIs DEF Hand, Ready
  <2> QED BY <1>7, <2>1, <2>2, <2>3
<1>9. ASSUME NEW i \in Computer, SpeakData(i) PROVE HInv'
  <2>1. PICK c \in DataConnections(node[i]) : Say(i, c, "Net")
    BY <1>9 DEF SpeakData
  <2>2. c \in node[i].listed /\ isAccepted(node[i], c)
    BY <2>1 DEF DataConnections
  <2>3. c \in Conn
    BY <1>1, <2>2 DEF Shape
  <2> QED BY <1>7, <2>1, <2>2, <2>3, HalfIs
<1>10. ASSUME NEW i \in Computer, NEW c \in Conn, Connect(i, c) PROVE HInv'
  <2> DEFINE n == [SetStatus(node[i], c, "Connect") EXCEPT !.listed = @ \cup {c}, !.sock[c] = "Calling"]
  <2>1. Change(i, n) /\ node[i].status[c] = "None" /\ Caller[c] = i
    BY <1>10 DEF Connect
  <2>2. Mild(node[i], n)
    BY <1>1, <2>1, ConnectMild
  <2> HIDE DEF n
  <2> QED BY <1>2, <2>1, <2>2
<1>11. ASSUME NEW i \in Computer, NEW c \in Conn, Connected(i, c) PROVE HInv'
  <2>1. node[i].sock[c] \in {"None", "Calling"} /\ Change(i, OnConn(node[i], i, c))
    BY <1>11 DEF Connected
  <2>2. Mild(node[i], OnConn(node[i], i, c))
    BY <1>1, <2>1, OnConnMild
  <2> QED BY <1>2, <2>1, <2>2
<1>12. ASSUME NEW i \in Computer, NEW c \in Conn, Receive(i, c) PROVE HInv'
  <2> DEFINE j == Other(i)
             n == OnPacket(node[i], c, Head(node[j].wire[c]))
             u == [node[j] EXCEPT !.wire[c] = Tail(@)]
  <2>1. /\ node[i].sock[c] = "Open" /\ node[j].wire[c] # <<>>
        /\ node' = [node EXCEPT ![j].wire[c] = Tail(@), ![i] = n]
    BY <1>12 DEF Receive
  <2>2. Meet(n, u)
    BY <1>1, <2>1, ReceiveMeet
  <2>3. node' = [node EXCEPT ![j] = u, ![i] = n]
    BY <2>1
  <2> HIDE DEF n, u
  <2>4. node' = [k \in Computer |-> IF k = i THEN n ELSE u]
    <3>1. node = [k \in Computer |-> node[k]]
      BY DEF IInv
    <3> QED BY <2>3, <3>1, OtherIs
  <2> QED BY <2>2, <2>4, BothMeet
<1>13. ASSUME NEW i \in Computer, NEW c \in Conn, Break(i, c) PROVE HInv'
  BY <1>1, <1>2, <1>13, CloseSocketMild DEF Break
<1>14. ASSUME NEW i \in Computer, NEW c \in Conn, Timeout(i, c) PROVE HInv'
  BY <1>1, <1>2, <1>14, CloseMild DEF Timeout
<1>15. ASSUME NEW i \in Computer, NEW c \in Conn, Forget(i, c) PROVE HInv'
  <2> DEFINE n == RemoveConnection(node[i], c)
  <2>1. Change(i, n)
    BY <1>15 DEF Forget
  <2>2. \A f \in Fields \ {"listed"} : n[f] = node[i][f]
    BY <1>1 DEF Shape, Fields, RemoveConnection
  <2> HIDE DEF n
  <2>3. n.msg = node[i].msg /\ n.data = node[i].data
    BY <2>2 DEF Fields
  <2>4. Still(node[i], n)
    BY <2>2, <2>3, AsideStill DEF Aside
  <2> QED BY <1>2, <2>1, <2>4
<1> QED BY <1>3, <1>4, <1>5, <1>6, <1>8, <1>9, <1>10, <1>11, <1>12, <1>13, <1>14, <1>15 DEF Next

\* At first both have accepted the same connections, and nothing is under way.
LEMMA InitMeet ==
  ASSUME Init
  PROVE  HInv
<1>1. ASSUME NEW i PROVE Hand(New(i))
  <2> DEFINE m == New(i)
  <2>1. /\ m.events = <<>> /\ m.dropped = {} /\ m.connSent = Established /\ m.msg \in Established \cup {NoConn}
        /\ m.data \in Established \cup {NoConn}
        /\ \A c \in Conn : /\ m.status[c] = (IF c \in Established THEN "Accepted" ELSE "None")
                           /\ m.sock[c] = (IF c \in Established THEN "Open" ELSE "None")
    BY FirstIs DEF New
  <2> HIDE DEF m
  <2>2. 1..Len(m.events) = {}
    BY <2>1, EmptyIs
  <2>3. \A c \in Conn : c # NoConn
    BY ConnAssumption
  <2>4. \A c \in Conn : Ready(m, c)
    BY <2>1, <2>3 DEF Ready, isOpen, isAccepted
  <2>5. Hand(m)
    BY <2>1, <2>2, <2>4 DEF Hand
  <2> QED BY <2>5 DEF m
<1>2. ASSUME NEW i, NEW j, NEW c \in Conn PROVE Greets(New(i), New(j), c)
  <2> DEFINE s == New(i)
             r == New(j)
  <2>1. /\ s.wire[c] = <<>> /\ s.status[c] = r.status[c] /\ s.sock[c] = r.sock[c]
        /\ s.status[c] = (IF c \in Established THEN "Accepted" ELSE "None")
        /\ s.sock[c] = (IF c \in Established THEN "Open" ELSE "None")
    BY DEF New
  <2> HIDE DEF s, r
  <2>2. ~Has(<<>>, "Conn") /\ ConnFirst(<<>>) /\ AnswerFirst(<<>>) /\ OneConn(<<>>)
    BY EmptyIs DEF Has, ConnFirst, AnswerFirst, OneConn
  <2>3. Greets(s, r, c)
    BY <2>1, <2>2 DEF Greets, isHalfAccepted, isAccepted, isOpen
  <2> QED BY <2>3 DEF s, r
<1>3. \A i \in Computer : node[i] = New(i) /\ node[Other(i)] = New(Other(i))
  BY OtherIs DEF Init
<1> QED BY <1>1, <1>2, <1>3 DEF HInv, Meet

-----------------------------------------------------------------------------
\* Nobody speaks too early, as long as all connections come from one address of the
\* peer: what a computer sends on a connection it has accepted is not thrown away
\* by the other side.  The Conn is the first packet of a connection and the ConnRe
\* comes before anything that is numbered; the network thread accepts at once, so it
\* is ready when such a packet comes, whatever the main thread does.
THEOREM NeverEarly == ASSUME SameAddress PROVE Spec => []NeverTooEarly
<1>1. Init => IInv
  BY InitIs
<1>2. Init => HInv
  BY InitMeet
<1>3. IInv /\ [Next]_vars => IInv'
  BY Inductive
<1>4. IInv /\ HInv /\ [Next]_vars => HInv'
  BY MeetStays
<1>5. HInv => NeverTooEarly
  BY DEF HInv, Meet, Hand, NeverTooEarly
<1> QED BY <1>1, <1>2, <1>3, <1>4, <1>5, PTL DEF Spec
=============================================================================
