--------------------------- MODULE NetIOUDP_proofs ---------------------------
(***************************************************************************)
(* Whatever the network does to the datagrams, the user of a connection    *)
(* gets packets without a gap.  The invariant relates what was given to    *)
(* the user to iI, the number of the fragment that is expected next.  It is*)
(* an invariant of one Peer, for every datagram that may arrive, so nothing*)
(* is said of the network.                                                 *)
(*                                                                         *)
(* While datagrams do not overtake each other and no computer opens a      *)
(* second Peer, these are the packets of one connection from the first one *)
(* on, and no connection ends because something that was thrown away is    *)
(* asked for.  These invariants relate both Peers and all datagrams that   *)
(* are under way between them.                                             *)
(***************************************************************************)
EXTENDS NetIOUDP, BoundedRecursion, SequenceTheorems, FiniteSetTheorems, TLAPS

Fields == {"status", "retries", "O", "I", "iO", "iI", "iRI", "noReCheck", "lastAsked",
           "session", "start", "got", "reason"}

\* What was given is a sequence of packets, each follows the one before it.
Chain(got) ==
    /\ \E S : got \in Seq(S)
    /\ \A i \in 2 .. Len(got) : got[i].nr = got[i - 1].nr + got[i - 1].cnt

\* While the connection works, the next one will follow the last one, too.
FollowsOn(p) ==
    p.status = "Works" /\ p.got # <<>>
    => p.iI = p.got[Len(p.got)].nr + p.got[Len(p.got)].cnt

PeerInv(p) == p = [f \in Fields |-> p[f]] /\ IsFiniteSet(p.I) /\ Chain(p.got) /\ FollowsOn(p)

\* A step of a Peer, which keeps the invariant.
Fine(s) == s = [f \in {"p", "out"} |-> s[f]] /\ PeerInv(s.p)

\* A packet that is given to the user is the next one.
LEMMA GiveFirstIs ==
  ASSUME NEW s, Fine(s), s.p.status = "Works"
  PROVE  Fine(GiveFirst(s)) /\ GiveFirst(s).p.status = "Works"
<1> DEFINE complete == {q \in s.p.I : q.have = Fragments(q.pkt)}
           next == {q \in complete : q.pkt.nr = s.p.iI /\ \A r \in complete : q.pkt.nr <= r.pkt.nr}
           q == CHOOSE q \in next : TRUE
           got == s.p.got
           t == [s EXCEPT !.p.got = Append(@, q.pkt), !.p.iI = q.pkt.nr + q.pkt.cnt, !.p.I = @ \ {q}]
<1>1. CASE next = {}
  BY <1>1 DEF GiveFirst
<1>2. CASE next # {}
  <2>1. GiveFirst(s) = t /\ q.pkt.nr = s.p.iI
    BY <1>2 DEF GiveFirst
  <2> HIDE DEF complete, next, q
  <2>2. t = [f \in {"p", "out"} |-> t[f]] /\ t.p = [f \in Fields |-> t.p[f]]
    BY DEF Fine, PeerInv, Fields
  <2>3. t.p.got = Append(got, q.pkt) /\ t.p.iI = q.pkt.nr + q.pkt.cnt /\ t.p.status = "Works" /\ t.p.I = s.p.I \ {q}
    BY DEF Fine, PeerInv, Fields
  <2> HIDE DEF t
  <2>4. IsFiniteSet(t.p.I)
    BY <2>3, FS_Subset DEF Fine, PeerInv
  <2>5. PICK S : got \in Seq(S)
    BY DEF Fine, PeerInv, Chain
  <2> HIDE DEF got
  <2>6. /\ Append(got, q.pkt) \in Seq(S \cup {q.pkt})
        /\ Len(Append(got, q.pkt)) = Len(got) + 1
        /\ \A i \in 1 .. Len(got) : Append(got, q.pkt)[i] = got[i]
        /\ Append(got, q.pkt)[Len(got) + 1] = q.pkt
    <3>1. got \in Seq(S \cup {q.pkt}) /\ q.pkt \in S \cup {q.pkt}
      BY <2>5, SeqMonotonic
    <3> QED BY <3>1, AppendProperties
  <2>7. Len(got) \in Nat
    BY <2>5
  <2>8. \A i \in 2 .. Len(got) + 1 :
            Append(got, q.pkt)[i].nr = Append(got, q.pkt)[i - 1].nr + Append(got, q.pkt)[i - 1].cnt
    <3> SUFFICES ASSUME NEW i \in 2 .. Len(got) + 1
                 PROVE  Append(got, q.pkt)[i].nr = Append(got, q.pkt)[i - 1].nr + Append(got, q.pkt)[i - 1].cnt
      OBVIOUS
    <3>1. i - 1 \in 1 .. Len(got)
      BY <2>7
    <3>2. CASE i \in 2 .. Len(got)
      <4>1. got[i].nr = got[i - 1].nr + got[i - 1].cnt
        BY <3>2 DEF Fine, PeerInv, Chain, got
      <4>2. i \in 1 .. Len(got)
        BY <3>2, <2>7
      <4> QED BY <3>1, <4>1, <4>2, <2>6
    <3>3. CASE i = Len(got) + 1
      <4>1. got # <<>> /\ i - 1 = Len(got)
        BY <3>1, <3>3, <2>5, <2>7
      <4>2. s.p.iI = got[Len(got)].nr + got[Len(got)].cnt
        BY <4>1 DEF Fine, PeerInv, FollowsOn, got
      <4> QED BY <2>1, <2>6, <3>1, <3>3, <4>1, <4>2
    <3> QED BY <3>2, <3>3, <2>7
  <2>9. Chain(t.p.got) /\ FollowsOn(t.p)
    BY <2>3, <2>6, <2>7, <2>8 DEF Chain, FollowsOn, got
  <2> QED BY <2>1, <2>2, <2>3, <2>4, <2>9 DEF Fine, PeerInv
<1> QED BY <1>1, <1>2

\* What a Peer may come to by giving packets to the user, as a set.
Given(s)  == UNION {{s.p.got[i] : i \in 1 .. Len(s.p.got)}, {q.pkt : q \in s.p.I}}
Passed(s) == {s.p.iI} \cup {q.pkt.nr + q.pkt.cnt : q \in s.p.I}
Steps(s) ==
    [p : [status : {s.p.status}, retries : {s.p.retries}, O : {s.p.O}, I : SUBSET s.p.I, iO : {s.p.iO},
          iI : Passed(s), iRI : {s.p.iRI}, noReCheck : {s.p.noReCheck}, lastAsked : {s.p.lastAsked},
          session : {s.p.session}, start : {s.p.start}, got : Seq(Given(s)), reason : {s.p.reason}],
     out : {s.out}]

LEMMA StepsStart ==
  ASSUME NEW s, s = [f \in {"p", "out"} |-> s[f]], s.p = [f \in Fields |-> s.p[f]], NEW S, s.p.got \in Seq(S)
  PROVE  s \in Steps(s)
<1>1. s.p.got \in Seq(Given(s))
  <2>1. \A i \in 1 .. Len(s.p.got) : s.p.got[i] \in Given(s)
    BY DEF Given
  <2>2. Len(s.p.got) \in Nat /\ s.p.got \in [1 .. Len(s.p.got) -> S]
    BY LenProperties
  <2>3. s.p.got = [i \in 1 .. Len(s.p.got) |-> s.p.got[i]]
    BY <2>2
  <2> QED BY <2>1, <2>2, <2>3, IsASeq
<1> DEFINE p == s.p
           P == [status : {p.status}, retries : {p.retries}, O : {p.O}, I : SUBSET p.I, iO : {p.iO},
                 iI : Passed(s), iRI : {p.iRI}, noReCheck : {p.noReCheck}, lastAsked : {p.lastAsked},
                 session : {p.session}, start : {p.start}, got : Seq(Given(s)), reason : {p.reason}]
<1>2. p \in P
  <2>1. p.iI \in Passed(s) /\ p.got \in Seq(Given(s)) /\ p = [f \in Fields |-> p[f]]
    BY <1>1 DEF Passed
  <2> HIDE DEF p
  <2> QED BY <2>1 DEF Fields
<1>3. Steps(s) = [p : P, out : {s.out}]
  BY DEF Steps
<1>4. s.p \in P
  BY <1>2
<1> HIDE DEF p, P
<1> QED BY <1>3, <1>4

LEMMA StepsNext ==
  ASSUME NEW s, NEW t \in Steps(s)
  PROVE  GiveFirst(t) \in Steps(s)
<1> DEFINE complete == {q \in t.p.I : q.have = Fragments(q.pkt)}
           next == {q \in complete : q.pkt.nr = t.p.iI /\ \A r \in complete : q.pkt.nr <= r.pkt.nr}
           q == CHOOSE q \in next : TRUE
<1>1. CASE next = {}
  BY <1>1 DEF GiveFirst
<1>2. CASE next # {}
  <2>1. GiveFirst(t) = [t EXCEPT !.p.got = Append(@, q.pkt), !.p.iI = q.pkt.nr + q.pkt.cnt, !.p.I = @ \ {q}]
    BY <1>2 DEF GiveFirst
  <2>2. q \in s.p.I
    BY <1>2 DEF Steps
  <2> HIDE DEF complete, next, q
  <2>3. q.pkt \in Given(s) /\ q.pkt.nr + q.pkt.cnt \in Passed(s)
    BY <2>2 DEF Given, Passed
  <2>4. t.p.got \in Seq(Given(s)) /\ Append(t.p.got, q.pkt) \in Seq(Given(s))
    <3>1. t.p.got \in Seq(Given(s))
      BY DEF Steps
    <3> QED BY <3>1, <2>3, AppendProperties
  <2>5. t.p.I \ {q} \in SUBSET s.p.I
    BY DEF Steps
  <2> DEFINE got == Append(t.p.got, q.pkt)
             iI  == q.pkt.nr + q.pkt.cnt
             I   == t.p.I \ {q}
             u   == [t EXCEPT !.p.got = got, !.p.iI = iI, !.p.I = I]
  <2>6. GiveFirst(t) = u
    BY <2>1, Zenon DEF Steps
  <2> HIDE DEF got, iI, I
  <2>7. u \in Steps(s)
    BY <2>3, <2>4, <2>5 DEF Steps, got, iI, I
  <2> QED BY <2>6, <2>7
<1> QED BY <1>1, <1>2

\* What is kept by giving one packet is kept by giving all that are complete.
LEMMA CheckCompleteKeeps ==
  ASSUME NEW s, IsFiniteSet(s.p.I), NEW W, s \in W, \A t \in W : GiveFirst(t) \in W
  PROVE  CheckCompleteIPackets(s) \in W
<1>1. CASE s.p.status # "Works"
  BY <1>1 DEF CheckCompleteIPackets
<1>2. CASE s.p.status = "Works"
  <2> DEFINE limit == Cardinality(s.p.I)
             G == [x \in W \X (1 .. limit) |-> GiveFirst(x[1])]
             given == CHOOSE f : f = [k \in 0 .. limit |-> IF k = 0 THEN s ELSE GiveFirst(f[k - 1])]
  <2>1. limit \in Nat
    BY FS_CardinalityType
  <2>2. G \in [W \X (1 .. limit) -> W] /\ \A t \in W, k \in 1 .. limit : G[<<t, k>>] = GiveFirst(t)
    <3> HIDE DEF limit
    <3> QED OBVIOUS
  <2> HIDE DEF limit, G
  <2>3. PICK f : Loop(f, W, s, limit, G)
    BY <2>1, <2>2, Recursion
  <2>4. f \in [0 .. limit -> W] /\ f[0] = s /\ \A k \in 1 .. limit : f[k] = GiveFirst(f[k - 1])
    <3>1. f \in [0 .. limit -> W] /\ f[0] = s /\ \A k \in 1 .. limit : f[k] = G[<<f[k - 1], k>>]
      BY <2>3 DEF Loop
    <3> SUFFICES ASSUME NEW k \in 1 .. limit PROVE f[k] = GiveFirst(f[k - 1])
      BY <3>1
    <3>2. k - 1 \in 0 .. limit
      BY <2>1
    <3> QED BY <3>1, <3>2, <2>2
  <2>5. f = [k \in 0 .. limit |-> IF k = 0 THEN s ELSE GiveFirst(f[k - 1])]
    <3>1. ASSUME NEW k \in 0 .. limit PROVE f[k] = IF k = 0 THEN s ELSE GiveFirst(f[k - 1])
      BY <2>1, <2>4
    <3> QED BY <2>4, <3>1
  <2>6. given = [k \in 0 .. limit |-> IF k = 0 THEN s ELSE GiveFirst(given[k - 1])]
    BY <2>5
  <2> HIDE DEF given
  <2>7. 0 .. limit \subseteq {k \in 0 .. limit : given[k] \in W}
    <3> DEFINE T == {k \in 0 .. limit : given[k] \in W}
    <3>1. 0 \in T
      BY <2>1, <2>6
    <3>2. ASSUME NEW k \in 1 .. limit, k - 1 \in T PROVE k \in T
      <4>1. given[k] = GiveFirst(given[k - 1])
        BY <2>1, <2>6
      <4> QED BY <2>1, <3>2, <4>1
    <3> HIDE DEF T
    <3>3. 0 .. limit \subseteq T
      BY <2>1, <3>1, <3>2, Induction
    <3> QED BY <3>3 DEF T
  <2>8. given[limit] \in W
    BY <2>1, <2>7
  <2>9. CheckCompleteIPackets(s) = given[limit]
    BY <1>2 DEF CheckCompleteIPackets, given, limit
  <2> QED BY <2>8, <2>9
<1> QED BY <1>1, <1>2

LEMMA CheckCompleteIs ==
  ASSUME NEW s, Fine(s)
  PROVE  Fine(CheckCompleteIPackets(s)) /\ CheckCompleteIPackets(s).p.status = s.p.status
<1>1. CASE s.p.status # "Works"
  BY <1>1 DEF CheckCompleteIPackets
<1>2. CASE s.p.status = "Works"
  <2> DEFINE Working == {t \in Steps(s) : Fine(t) /\ t.p.status = "Works"}
  <2>1. s \in Working
    BY <1>2, StepsStart DEF Fine, PeerInv, Chain
  <2>2. ASSUME NEW t \in Working PROVE GiveFirst(t) \in Working
    <3>1. Fine(t) /\ t.p.status = "Works" /\ t \in Steps(s)
      OBVIOUS
    <3> HIDE DEF Working
    <3>2. GiveFirst(t) \in Steps(s)
      BY <3>1, StepsNext
    <3>3. Fine(GiveFirst(t)) /\ GiveFirst(t).p.status = "Works"
      BY <3>1, GiveFirstIs
    <3> QED BY <3>2, <3>3 DEF Working
  <2>3. IsFiniteSet(s.p.I)
    BY DEF Fine, PeerInv
  <2> HIDE DEF Working
  <2>4. CheckCompleteIPackets(s) \in Working
    BY <2>1, <2>2, <2>3, CheckCompleteKeeps
  <2> QED BY <1>2, <2>4 DEF Working
<1> QED BY <1>1, <1>2

-----------------------------------------------------------------------------
(* The handlers of a Peer.                                                 *)

\* What leaves the received packets alone.
LEMMA Quiet ==
  ASSUME NEW s, Fine(s), NEW t,
         t = [f \in {"p", "out"} |-> t[f]], t.p = [f \in Fields |-> t.p[f]],
         t.p.got = s.p.got, t.p.I = s.p.I, t.p.iI = s.p.iI,
         t.p.status = "Works" => s.p.status = "Works"
  PROVE  Fine(t)
BY DEF Fine, PeerInv, FollowsOn

LEMMA PutIs ==
  ASSUME NEW s, Fine(s), NEW m
  PROVE  Fine(Put(s, m)) /\ Put(s, m).p = s.p
BY DEF Put, Fine

LEMMA DoConnIs ==
  ASSUME NEW s, Fine(s)
  PROVE  Fine(DoConn(s)) /\ DoConn(s).p.status = "Conn"
<1> DEFINE t == [s EXCEPT !.p.status = "Conn", !.p.retries = ConnectRetries]
<1>1. /\ t = [f \in {"p", "out"} |-> t[f]] /\ t.p = [f \in Fields |-> t.p[f]]
      /\ t.p.got = s.p.got /\ t.p.I = s.p.I /\ t.p.iI = s.p.iI /\ t.p.status = "Conn"
  BY DEF Fine, PeerInv, Fields
<1> HIDE DEF t
<1>2. Fine(t)
  BY <1>1, Quiet
<1>3. DoConn(s) = Put(t, Conn(s.p))
  BY DEF DoConn, t
<1> QED BY <1>1, <1>2, <1>3, PutIs

LEMMA OnCloseIs ==
  ASSUME NEW s, Fine(s), NEW reason
  PROVE  Fine(OnClose(s, reason)) /\ OnClose(s, reason).p.status = "Closed"
<1> DEFINE t == OnClose(s, reason)
<1>1. /\ t = [f \in {"p", "out"} |-> t[f]] /\ t.p = [f \in Fields |-> t.p[f]]
      /\ t.p.got = s.p.got /\ t.p.I = s.p.I /\ t.p.iI = s.p.iI /\ t.p.status = "Closed"
  BY DEF OnClose, Fine, PeerInv, Fields
<1> HIDE DEF t
<1>2. Fine(t)
  BY <1>1, Quiet
<1> QED BY <1>1, <1>2 DEF t

LEMMA CloseIs ==
  ASSUME NEW s, Fine(s), NEW reason
  PROVE  Fine(Close(s, reason))
BY PutIs, OnCloseIs DEF Close

\* A new connection starts with no packets given to the user.
LEMMA OnConnIs ==
  ASSUME NEW s, Fine(s)
  PROVE  Fine(OnConn(s))
<1> DEFINE t == [s EXCEPT !.p.status = "Works", !.p.retries = 0,
                          !.p.start = IF s.p.status = "Works" THEN @ ELSE s.p.iO,
                          !.p.got = IF s.p.status = "Works" THEN @ ELSE <<>>]
<1>1. /\ t = [f \in {"p", "out"} |-> t[f]] /\ t.p = [f \in Fields |-> t.p[f]]
      /\ t.p.got = (IF s.p.status = "Works" THEN s.p.got ELSE <<>>)
      /\ t.p.I = s.p.I /\ t.p.iI = s.p.iI /\ t.p.status = "Works"
  BY DEF Fine, PeerInv, Fields
<1> HIDE DEF t
<1>2. Fine(t)
  <2>1. CASE s.p.status = "Works"
    BY <1>1, <2>1, Quiet
  <2>2. CASE s.p.status # "Works"
    <3>1. t.p.got = <<>>
      BY <1>1, <2>2
    <3>2. Chain(t.p.got) /\ FollowsOn(t.p)
      BY <3>1 DEF Chain, FollowsOn
    <3> QED BY <1>1, <3>2 DEF Fine, PeerInv
  <2> QED BY <2>1, <2>2
<1>3. OnConn(s) = CheckCompleteIPackets(t)
  BY DEF OnConn, t
<1> QED BY <1>2, <1>3, CheckCompleteIs

LEMMA CheckIs ==
  ASSUME NEW s, Fine(s), NEW force
  PROVE  Fine(Check(s, force))
<1> SUFFICES ASSUME NEW asked, NEW last, NEW m
             PROVE  LET t == [s EXCEPT !.p.noReCheck = asked, !.p.lastAsked = last]
                    IN  Fine(t) /\ Fine(Put(t, m))
  BY DEF Check
<1> DEFINE t == [s EXCEPT !.p.noReCheck = asked, !.p.lastAsked = last]
<1>1. /\ t = [f \in {"p", "out"} |-> t[f]] /\ t.p = [f \in Fields |-> t.p[f]]
      /\ t.p.got = s.p.got /\ t.p.I = s.p.I /\ t.p.iI = s.p.iI /\ t.p.status = s.p.status
  BY DEF Fine, PeerInv, Fields
<1> HIDE DEF t
<1>2. Fine(t)
  BY <1>1, Quiet
<1> QED BY <1>2, PutIs DEF t

\* A Conn makes the connection start again, or confirms where it stands.
LEMMA RecvConnIs ==
  ASSUME NEW s, Fine(s), NEW m
  PROVE  Fine(RecvConn(s, m))
<1> DEFINE again == s.p.status = "Works" /\ s.p.iI # m.nr
           s1 == IF again THEN DoConn(OnClose(s, "reconnect")) ELSE s
           t == [s1 EXCEPT !.p.iI = m.nr, !.p.iRI = m.nr, !.p.I = {},
                           !.p.noReCheck = FALSE, !.p.lastAsked = 0]
<1>1. Fine(s1) /\ (s1.p.status = "Works" => s1.p.iI = m.nr)
  <2>1. CASE again
    <3>1. s1 = DoConn(OnClose(s, "reconnect"))
      BY <2>1
    <3> QED BY <3>1, OnCloseIs, DoConnIs
  <2>2. CASE ~again
    BY <2>2
  <2> QED BY <2>1, <2>2
<1> HIDE DEF s1
<1>2. /\ t = [f \in {"p", "out"} |-> t[f]] /\ t.p = [f \in Fields |-> t.p[f]]
      /\ t.p.got = s1.p.got /\ t.p.I = {} /\ t.p.iI = m.nr /\ t.p.status = s1.p.status
  <2> DEFINE p1 == s1.p
             p2 == [p1 EXCEPT !.iI = m.nr, !.iRI = m.nr, !.I = {}, !.noReCheck = FALSE, !.lastAsked = 0]
  <2>1. s1 = [f \in {"p", "out"} |-> s1[f]] /\ p1 = [f \in Fields |-> p1[f]]
    BY <1>1 DEF Fine, PeerInv
  <2>2. t = [s1 EXCEPT !.p = p2]
    BY <2>1
  <2> HIDE DEF p1
  <2>3. /\ p2 = [f \in Fields |-> p2[f]]
        /\ p2.got = p1.got /\ p2.I = {} /\ p2.iI = m.nr /\ p2.status = p1.status
    BY <2>1 DEF Fields
  <2> HIDE DEF p2, t
  <2>4. t = [f \in {"p", "out"} |-> t[f]] /\ t.p = p2
    BY <2>1, <2>2
  <2> QED BY <2>3, <2>4 DEF p1
<1> HIDE DEF t
<1>3. IsFiniteSet(t.p.I) /\ Chain(t.p.got) /\ FollowsOn(t.p)
  BY <1>1, <1>2, FS_EmptySet DEF Fine, PeerInv, FollowsOn
<1>4. Fine(t)
  BY <1>2, <1>3 DEF Fine, PeerInv
<1>5. RecvConn(s, m) = OnConn(Put(t, ConnOK(s1.p)))
  BY DEF RecvConn, t, s1
<1> QED BY <1>4, <1>5, PutIs, OnConnIs

LEMMA RecvConnOKIs ==
  ASSUME NEW s, Fine(s), NEW m
  PROVE  Fine(RecvConnOK(s, m))
BY OnConnIs DEF RecvConnOK

LEMMA RecvDataIs ==
  ASSUME NEW s, Fine(s), NEW m
  PROVE  Fine(RecvData(s, m))
<1> DEFINE old == {q \in s.p.I : q.pkt.nr = m.pkt.nr}
           fits == \A q \in s.p.I : Fragments(q.pkt) \cap Fragments(m.pkt) = {}
           added == {q \in {[pkt |-> m.pkt, have |-> {m.nr}]} : fits}
           More(q) == [q EXCEPT !.have = IF q \in old /\ q.pkt.cnt = m.pkt.cnt THEN @ \cup {m.nr} ELSE @]
           I1 == IF old = {} THEN s.p.I \cup added ELSE {More(q) : q \in s.p.I}
           t == [s EXCEPT !.p.I = I1]
<1>1. IsFiniteSet(s.p.I)
  BY DEF Fine, PeerInv
<1>2. IsFiniteSet(I1)
  <2>1. IsFiniteSet(added)
    <3>1. IsFiniteSet({[pkt |-> m.pkt, have |-> {m.nr}]})
      BY FS_Singleton
    <3>2. added \subseteq {[pkt |-> m.pkt, have |-> {m.nr}]}
      OBVIOUS
    <3> HIDE DEF added
    <3> QED BY <3>1, <3>2, FS_Subset
  <2>2. IsFiniteSet(s.p.I \cup added)
    <3> HIDE DEF added
    <3> QED BY <1>1, <2>1, FS_Union
  <2>3. IsFiniteSet({More(q) : q \in s.p.I})
    <3> DEFINE f == [q \in s.p.I |-> More(q)]
               T == {More(q) : q \in s.p.I}
    <3>1. f \in Surjection(s.p.I, T)
      <4> HIDE DEF More
      <4> QED BY DEF Surjection
    <3> HIDE DEF f, T
    <3>2. IsFiniteSet(T)
      BY <1>1, <3>1, FS_Surjection
    <3> QED BY <3>2 DEF T
  <2> HIDE DEF old, added, More
  <2> QED BY <2>2, <2>3
<1> HIDE DEF I1
<1>3. /\ t = [f \in {"p", "out"} |-> t[f]] /\ t.p = [f \in Fields |-> t.p[f]]
      /\ t.p.got = s.p.got /\ t.p.I = I1 /\ t.p.iI = s.p.iI /\ t.p.status = s.p.status
  BY DEF Fine, PeerInv, Fields
<1> HIDE DEF t
<1>4. Fine(t)
  BY <1>2, <1>3 DEF Fine, PeerInv, FollowsOn
<1>5. RecvData(s, m) = IF m.nr < s.p.iI THEN s ELSE CheckCompleteIPackets(t)
  BY DEF RecvData, t, I1
<1> QED BY <1>4, <1>5, CheckCompleteIs

LEMMA RecvCheckIs ==
  ASSUME NEW s, Fine(s), NEW m
  PROVE  Fine(RecvCheck(s, m))
<1> SUFFICES ASSUME NEW kept, NEW resent
             PROVE  LET t == [s EXCEPT !.p.O = kept, !.out = @ \o resent]
                    IN  Fine(t) /\ Fine(Close(t, "starvation"))
  BY DEF RecvCheck
<1> DEFINE t == [s EXCEPT !.p.O = kept, !.out = @ \o resent]
<1>1. /\ t = [f \in {"p", "out"} |-> t[f]] /\ t.p = [f \in Fields |-> t.p[f]]
      /\ t.p.got = s.p.got /\ t.p.I = s.p.I /\ t.p.iI = s.p.iI /\ t.p.status = s.p.status
  BY DEF Fine, PeerInv, Fields
<1> HIDE DEF t
<1>2. Fine(t)
  BY <1>1, Quiet
<1> QED BY <1>2, CloseIs DEF t

LEMMA OnRecvIs ==
  ASSUME NEW s, Fine(s), NEW m
  PROVE  Fine(OnRecv(s, m))
<1> DEFINE s1 == [s EXCEPT !.p.iRI = Reached(s.p, m)]
           t == Check(s1, FALSE)
<1>1. /\ s1 = [f \in {"p", "out"} |-> s1[f]] /\ s1.p = [f \in Fields |-> s1.p[f]]
      /\ s1.p.got = s.p.got /\ s1.p.I = s.p.I /\ s1.p.iI = s.p.iI /\ s1.p.status = s.p.status
  BY DEF Fine, PeerInv, Fields
<1> HIDE DEF s1
<1>2. Fine(t)
  BY <1>1, Quiet, CheckIs
<1> HIDE DEF t
<1>3. OnRecv(s, m) = CASE m.type = "Conn"   -> RecvConn(t, m)
                       [] m.type = "ConnOK" -> RecvConnOK(t, m)
                       [] m.type = "Data"   -> RecvData(t, m)
                       [] m.type = "Check"  -> RecvCheck(t, m)
                       [] m.type = "Close"  -> OnClose(t, "closed by peer")
                       [] OTHER             -> t
  BY DEF OnRecv, t, s1
<1>4. Fine(OnClose(t, "closed by peer"))
  BY <1>2, OnCloseIs
<1> QED BY <1>2, <1>3, <1>4, RecvConnIs, RecvConnOKIs, RecvDataIs, RecvCheckIs

LEMMA NothingGiven ==
  ASSUME NEW p, p = [f \in Fields |-> p[f]], p.got = <<>>, p.I = {}
  PROVE  PeerInv(p)
<1>1. <<>> \in Seq({}) /\ Len(<<>>) = 0 /\ 2 .. 0 = {}
  OBVIOUS
<1>2. Chain(<<>>)
  BY <1>1 DEF Chain
<1>3. IsFiniteSet({})
  BY FS_EmptySet
<1>4. FollowsOn(p)
  BY DEF FollowsOn
<1> QED BY <1>2, <1>3, <1>4 DEF PeerInv

\* A new Peer has given nothing to its user, and has not received anything.
LEMMA NewPeerIs ==
  ASSUME NEW session
  PROVE  PeerInv(NewPeer(session)) /\ NewPeer(session).got = <<>>
<1>1. NewPeer(session) = [f \in Fields |-> NewPeer(session)[f]] /\ NewPeer(session).got = <<>> /\ NewPeer(session).I = {}
  BY DEF NewPeer, Fields
<1> QED BY <1>1, NothingGiven

LEMMA FirstStep ==
  ASSUME NEW p, PeerInv(p)
  PROVE  Fine([p |-> p, out |-> <<>>])
BY DEF Fine

LEMMA ConnectPeerIs ==
  ASSUME NEW p
  PROVE  Fine(ConnectPeer(p))
BY NewPeerIs, FirstStep, DoConnIs DEF ConnectPeer

LEMMA OnPacketIs ==
  ASSUME NEW p, PeerInv(p), NEW m
  PROVE  Fine(OnPacket(p, m))
BY FirstStep, OnRecvIs, ConnectPeerIs DEF OnPacket

LEMMA OnShareFreeIs ==
  ASSUME NEW p, PeerInv(p)
  PROVE  PeerInv(OnShareFree(p))
<1> DEFINE q == [NewPeer(p.session) EXCEPT !.status = "Closed", !.reason = p.reason]
<1>1. q = [f \in Fields |-> q[f]] /\ q.got = <<>> /\ q.I = {} /\ q.status = "Closed"
  BY DEF NewPeer, Fields
<1> HIDE DEF q
<1>2. PeerInv(q)
  BY <1>1, NothingGiven
<1> QED BY <1>2 DEF OnShareFree, q

-----------------------------------------------------------------------------
(* The computers.                                                          *)

PeersInv == /\ peer = [n \in Computers |-> peer[n]]
            /\ \A n \in Computers : PeerInv(peer[n])

\* A step of a computer changes its own Peer only.
LEMMA StepIs ==
  ASSUME PeersInv, NEW n \in Computers, NEW s, Fine(s), NEW left, Step(n, s, left)
  PROVE  PeersInv'
<1>1. PeerInv(OnShareFree(s.p))
  BY OnShareFreeIs DEF Fine
<1>2. peer' = [peer EXCEPT ![n] = OnShareFree(s.p)]
  BY DEF Step
<1> QED BY <1>1, <1>2 DEF PeersInv

LEMMA SendIs ==
  ASSUME PeersInv, NEW n \in Computers, Send(n)
  PROVE  PeersInv'
<1>1. PICK kept, iO, out :
          Step(n, [p |-> [peer[n] EXCEPT !.O = kept, !.iO = iO], out |-> out], net[n])
  BY DEF Send
<1> DEFINE p == peer[n]
           t == [p |-> [p EXCEPT !.O = kept, !.iO = iO], out |-> out]
<1>2. PeerInv(p)
  BY DEF PeersInv
<1>3. Fine([p |-> p, out |-> <<>>])
  BY <1>2, FirstStep
<1>4. /\ t = [f \in {"p", "out"} |-> t[f]] /\ t.p = [f \in Fields |-> t.p[f]]
      /\ t.p.got = p.got /\ t.p.I = p.I /\ t.p.iI = p.iI /\ t.p.status = p.status
  BY <1>2 DEF PeerInv, Fields
<1>5. Step(n, t, net[n])
  BY <1>1
<1> HIDE DEF t, p
<1>6. Fine(t)
  BY <1>3, <1>4, Quiet
<1> QED BY <1>5, <1>6, StepIs

LEMMA OnTimeoutIs ==
  ASSUME PeersInv, NEW n \in Computers, OnTimeout(n)
  PROVE  PeersInv'
<1> DEFINE s == Now(n)
           retries == peer[n].retries
           d == DoConn(s)
           t == [d EXCEPT !.p.retries = retries - 1]
<1>1. Fine(s)
  BY FirstStep DEF PeersInv, Now
<1> HIDE DEF s
<1>2. Fine(d) /\ d.p.status = "Conn"
  BY <1>1, DoConnIs
<1> HIDE DEF d
<1>3. /\ t = [f \in {"p", "out"} |-> t[f]] /\ t.p = [f \in Fields |-> t.p[f]]
      /\ t.p.got = d.p.got /\ t.p.I = d.p.I /\ t.p.iI = d.p.iI /\ t.p.status = d.p.status
  BY <1>2 DEF Fine, PeerInv, Fields
<1> HIDE DEF t
<1>4. Fine(t)
  BY <1>2, <1>3, Quiet
<1>5. Fine(Close(s, "connection timeout"))
  BY <1>1, CloseIs
<1>6. Step(n, IF retries > 0 THEN t ELSE Close(s, "connection timeout"), net[n])
  BY DEF OnTimeout, t, d, s
<1> QED BY <1>4, <1>5, <1>6, StepIs

LEMMA NextKeeps == PeersInv /\ [Next]_vars => PeersInv'
<1> SUFFICES ASSUME PeersInv, [Next]_vars PROVE PeersInv'
  OBVIOUS
<1>1. CASE UNCHANGED vars
  BY <1>1 DEF PeersInv, vars
<1>2. ASSUME NEW n \in Computers, Connect(n) PROVE PeersInv'
  BY <1>2, ConnectPeerIs, StepIs DEF Connect
<1>3. ASSUME NEW n \in Computers, UserClose(n) PROVE PeersInv'
  <2>1. Fine(Close(Now(n), "closed"))
    BY FirstStep, CloseIs DEF PeersInv, Now
  <2> QED BY <1>3, <2>1, StepIs DEF UserClose
<1>4. ASSUME NEW n \in Computers, DoCheck(n) PROVE PeersInv'
  <2>1. Fine(Check(Now(n), TRUE))
    BY FirstStep, CheckIs DEF PeersInv, Now
  <2> QED BY <1>4, <2>1, StepIs DEF DoCheck
<1>5. ASSUME NEW n \in Computers, ReCheckAllowed(n) PROVE PeersInv'
  <2> DEFINE p == peer[n]
             q == [p EXCEPT !.noReCheck = FALSE]
  <2>1. PeerInv(p)
    BY DEF PeersInv
  <2>2. /\ q = [f \in Fields |-> q[f]]
        /\ q.got = p.got /\ q.I = p.I /\ q.iI = p.iI /\ q.status = p.status
    BY <2>1 DEF PeerInv, Fields
  <2>3. peer' = [peer EXCEPT ![n] = q]
    BY <1>5 DEF ReCheckAllowed
  <2> HIDE DEF p, q
  <2>4. PeerInv(q)
    BY <2>1, <2>2 DEF PeerInv, FollowsOn
  <2> QED BY <2>3, <2>4 DEF PeersInv
<1>6. ASSUME NEW n \in Computers, Receive(n) PROVE PeersInv'
  <2>1. PICK i \in Arriving(n) : Step(n, OnPacket(peer[n], net[n][i]), RemoveAt(net[n], i))
    BY <1>6 DEF Receive
  <2>2. Fine(OnPacket(peer[n], net[n][i]))
    BY OnPacketIs DEF PeersInv
  <2> QED BY <2>1, <2>2, StepIs
<1>7. ASSUME NEW n \in Computers, Duplicate(n) PROVE PeersInv'
  <2>1. PICK i \in Arriving(n) : Step(n, OnPacket(peer[n], net[n][i]), net[n])
    BY <1>7 DEF Duplicate
  <2>2. Fine(OnPacket(peer[n], net[n][i]))
    BY OnPacketIs DEF PeersInv
  <2> QED BY <2>1, <2>2, StepIs
<1>8. ASSUME NEW n \in Computers, Lose(n) PROVE PeersInv'
  BY <1>8 DEF Lose, PeersInv
<1> QED BY <1>1, <1>2, <1>3, <1>4, <1>5, <1>6, <1>7, <1>8, SendIs, OnTimeoutIs DEF Next

\* Every packet the user of a connection gets follows the one before it
\* (Peer::CheckCompleteIPackets), for any number of datagrams that are lost,
\* repeated or overtaken, and any number of connections.
THEOREM GaplessHolds == Spec => []Gapless
<1>1. Init => PeersInv
  <2>1. \A n \in Computers : PeerInv([NewPeer(0) EXCEPT !.status = "Closed"])
    <3> DEFINE q == [NewPeer(0) EXCEPT !.status = "Closed"]
    <3>1. q = [f \in Fields |-> q[f]] /\ q.got = <<>> /\ q.I = {}
      BY DEF NewPeer, Fields
    <3> HIDE DEF q
    <3>2. PeerInv(q)
      BY <3>1, NothingGiven
    <3> QED BY <3>2 DEF q
  <2> QED BY <2>1, OnShareFreeIs DEF Init, PeersInv
<1>2. PeersInv => Gapless
  BY DEF PeersInv, PeerInv, Chain, Gapless
<1> QED BY <1>1, <1>2, NextKeeps, PTL DEF Spec

-----------------------------------------------------------------------------
(* When the network keeps the order of the datagrams and no computer opens *)
(* a second Peer, what is given was sent on the one connection there is,   *)
(* from the first packet on.                                               *)

OnePeerEach == \A n \in Computers : peer[n].session <= 1

Packet == [nr : Nat, cnt : Nat \ {0}, from : {<<1, 0>>}]
EndOf(k) == k.nr + k.cnt
Datagram ==
    [type : {"Conn"}, nr : {0}] \cup [type : {"ConnOK", "Close"}, nr : Nat]
    \cup [type : {"Data"}, nr : Nat, pkt : Packet]
    \cup [type : {"Check"}, nr : Nat, ack : Nat, ask : Seq(Nat)]
Are(w, types) == {i \in 1 .. Len(w) : w[i].type \in types}

\* Nothing was sent on the connection yet, or nothing will be sent any more.
Young(p) == p.session = 0 \/ p.status = "Conn"
Gone(p)  == p.session # 0 /\ p.status = "Closed"

PeerType(p) ==
    /\ p = [f \in Fields |-> p[f]] /\ IsFiniteSet(p.I)
    /\ p.status \in {"Closed", "Conn", "Works"} /\ p.session \in Nat /\ p.start = 0
    /\ p.iO \in Nat /\ p.iI \in Nat /\ p.iRI \in Nat /\ p.lastAsked \in Nat
    /\ p.O \subseteq Packet /\ p.I \subseteq [pkt : Packet, have : SUBSET Nat] /\ p.got \in Seq(Packet)

\* Packets are counted from 0, and nothing is sent or given before the connection works.
Begun(p) ==
    /\ p.got = <<>> => p.iI = 0
    /\ p.got # <<>> => p.got[1].nr = 0
    /\ p.status = "Conn" => p.iO = 0 /\ p.O = {} /\ p.got = <<>>

Idle(p) ==
    /\ p.session = 0 => p.status = "Closed"
    /\ p.status = "Closed" => p.iO = 0 /\ p.O = {} /\ p.got = <<>> /\ p.I = {} /\ p.iRI = 0

\* While Conn datagrams of p are under way in w to q, or may be sent, there is no
\* datagram of the connection that could come before them.
Flow(p, w, q) ==
    /\ w \in Seq(Datagram)
    /\ p.session = 0 => w = <<>>
    /\ Young(p) => Are(w, {"Data", "Check"}) = {}
    /\ \A i \in Are(w, {"Conn"}), j \in Are(w, {"Data"}) : i < j
    /\ Young(p) \/ Are(w, {"Conn"}) # {} => q.I = {} /\ q.got = <<>>

OneConnection ==
    /\ peer = [n \in Computers |-> peer[n]] /\ net = [n \in Computers |-> net[n]]
    /\ \A n \in Computers : /\ PeerType(peer[n]) /\ Begun(peer[n]) /\ Idle(peer[n])
                            /\ Flow(peer[Other(n)], net[n], peer[n])

LEMMA OtherIs ==
  ASSUME NEW n \in Computers
  PROVE  Other(n) \in Computers /\ Other(n) # n /\ Other(Other(n)) = n /\ \A m \in Computers : m = n \/ m = Other(n)
<1>1. PICK a \in Computers, b \in Computers : a # b /\ Computers = {a, b}
  <2>1. IsFiniteSet(Computers) /\ Cardinality(Computers) = 2
    BY TwoComputers
  <2>2. PICK a \in Computers : TRUE
    <3>1. Computers # {}
      BY <2>1, FS_EmptySet
    <3> QED BY <3>1
  <2>3. IsFiniteSet(Computers \ {a}) /\ Cardinality(Computers \ {a}) = 1
    BY <2>1, FS_RemoveElement
  <2>4. PICK b : Computers \ {a} = {b}
    BY <2>3, FS_Singleton
  <2> QED BY <2>4
<1>2. \A m \in Computers : \E k \in Computers : k # m
  BY <1>1
<1> QED BY <1>1, <1>2 DEF Other

LEMMA ConcatIs ==
  ASSUME NEW v \in Seq(Datagram), NEW w \in Seq(Datagram)
  PROVE  /\ v \o w \in Seq(Datagram) /\ Len(v) \in Nat /\ Len(w) \in Nat
         /\ \A i \in 1 .. Len(v \o w) : \/ i \in 1 .. Len(v) /\ (v \o w)[i] = v[i]
                                        \/ i > Len(v) /\ i - Len(v) \in 1 .. Len(w) /\ (v \o w)[i] = w[i - Len(v)]
<1> DEFINE x == v \o w
<1>1. Len(v) \in Nat /\ Len(w) \in Nat
  BY LenProperties
<1>2. /\ x \in Seq(Datagram) /\ Len(x) = Len(v) + Len(w)
      /\ \A i \in 1 .. Len(v) + Len(w) : x[i] = IF i <= Len(v) THEN v[i] ELSE w[i - Len(v)]
  BY ConcatProperties
<1> HIDE DEF x
<1>3. ASSUME NEW i \in 1 .. Len(x)
      PROVE  \/ i \in 1 .. Len(v) /\ x[i] = v[i]
             \/ i > Len(v) /\ i - Len(v) \in 1 .. Len(w) /\ x[i] = w[i - Len(v)]
  <2>1. CASE i <= Len(v)
    BY <1>1, <1>2, <2>1
  <2>2. CASE ~(i <= Len(v))
    <3>1. i \in 1 .. Len(v) + Len(w) /\ i > Len(v) /\ i - Len(v) \in 1 .. Len(w)
      BY <1>1, <1>2, <2>2
    <3>2. x[i] = w[i - Len(v)]
      BY <1>2, <2>2, <3>1
    <3> QED BY <3>1, <3>2
  <2> QED BY <2>1, <2>2
<1> QED BY <1>1, <1>2, <1>3 DEF x

-----------------------------------------------------------------------------
(* What is received and given.                                             *)

Still == {"O", "iO", "iRI", "noReCheck", "lastAsked", "session", "start", "reason"}

\* s becomes t by giving packets to the user, when the connection works at last.
Takes(s, t) ==
    /\ t = [f \in {"p", "out"} |-> t[f]] /\ t.out = s.out /\ s.p.iI \in Nat
    /\ PeerType(t.p) /\ Begun(t.p)
    /\ t.p.status \in {s.p.status, "Works"}
    /\ \A f \in Still : t.p[f] = s.p[f]
    /\ t.p.I \subseteq s.p.I /\ (s.p.I = {} => t.p.got = s.p.got /\ t.p.iI = s.p.iI)
    /\ t.p.iI >= s.p.iI /\ (t.p.iI = s.p.iI \/ \E r \in s.p.I : t.p.iI = EndOf(r.pkt))

LEMMA GiveFirstTakes ==
  ASSUME NEW s, NEW t, Takes(s, t), t.p.status = "Works"
  PROVE  Takes(s, GiveFirst(t)) /\ GiveFirst(t).p.status = "Works"
<1> DEFINE complete == {q \in t.p.I : q.have = Fragments(q.pkt)}
           next == {q \in complete : q.pkt.nr = t.p.iI /\ \A r \in complete : q.pkt.nr <= r.pkt.nr}
           q == CHOOSE q \in next : TRUE
           u == [t EXCEPT !.p.got = Append(@, q.pkt), !.p.iI = q.pkt.nr + q.pkt.cnt, !.p.I = @ \ {q}]
<1>1. CASE next = {}
  BY <1>1 DEF GiveFirst
<1>2. CASE next # {}
  <2>1. GiveFirst(t) = u /\ q.pkt.nr = t.p.iI /\ q \in t.p.I
    BY <1>2 DEF GiveFirst
  <2> HIDE DEF complete, next, q
  <2>2. q \in s.p.I /\ q.pkt \in Packet /\ s.p.I # {}
    BY <2>1 DEF Takes, PeerType
  <2> DEFINE p == t.p
             got == Append(p.got, q.pkt)
             v == [p EXCEPT !.got = got, !.iI = EndOf(q.pkt), !.I = @ \ {q}]
  <2>3. u = [t EXCEPT !.p = v]
    BY DEF Takes, EndOf
  <2>4. got \in Seq(Packet) /\ got # <<>> /\ got[1] = IF p.got = <<>> THEN q.pkt ELSE p.got[1]
    <3>1. p.got \in Seq(Packet)
      BY DEF Takes, PeerType
    <3> HIDE DEF p
    <3>2. got \in Seq(Packet) /\ Len(got) = Len(p.got) + 1 /\ got[Len(p.got) + 1] = q.pkt
          /\ \A i \in 1 .. Len(p.got) : got[i] = p.got[i]
      BY <3>1, <2>2, AppendProperties
    <3>3. Len(p.got) \in Nat /\ (p.got = <<>> <=> Len(p.got) = 0)
      BY <3>1, EmptySeq
    <3>4. got # <<>>
      BY <3>2, <3>3
    <3> QED BY <3>2, <3>3, <3>4
  <2>5. p = [f \in Fields |-> p[f]] /\ PeerType(p) /\ Begun(p) /\ p.status = "Works"
    BY DEF Takes, PeerType
  <2>6. EndOf(q.pkt) \in Nat /\ EndOf(q.pkt) >= p.iI
    BY <2>1, <2>2, <2>5 DEF Packet, EndOf, PeerType
  <2>7. IsFiniteSet(p.I \ {q})
    BY <2>5, FS_Subset DEF PeerType
  <2> DEFINE I == p.I \ {q}
             iI == EndOf(q.pkt)
  <2>8. v = [p EXCEPT !.got = got, !.iI = iI, !.I = I]
    OBVIOUS
  <2> HIDE DEF got, I, iI, v, p
  <2>9. /\ v = [f \in Fields |-> v[f]] /\ v.got = got /\ v.iI = iI /\ v.I = I
        /\ \A f \in Fields \ {"got", "iI", "I"} : v[f] = p[f]
    BY <2>5, <2>8 DEF Fields
  <2>10. v.status = "Works" /\ \A f \in Still : v[f] = p[f]
    BY <2>5, <2>9 DEF Fields, Still
  <2>11. PeerType(v)
    BY <2>4, <2>5, <2>6, <2>7, <2>9, <2>10 DEF PeerType, Still, I, iI
  <2>12. Begun(v)
    <3>1. v.got # <<>> /\ v.got[1].nr = 0
      BY <2>1, <2>4, <2>5, <2>9 DEF Begun, p
    <3> QED BY <3>1, <2>10 DEF Begun
  <2>13. u = [f \in {"p", "out"} |-> u[f]] /\ u.p = v /\ u.out = t.out
    BY <2>3 DEF Takes
  <2> HIDE DEF u
  <2>14. \A f \in Still : v[f] = s.p[f]
    BY <2>10 DEF Takes, p
  <2>15. v.I \subseteq s.p.I /\ v.iI >= s.p.iI /\ v.iI = EndOf(q.pkt)
    <3>1. p.iI \in Nat /\ s.p.iI \in Nat /\ p.I \subseteq s.p.I /\ p.iI >= s.p.iI
      BY DEF Takes, PeerType, p
    <3> QED BY <2>6, <2>9, <3>1 DEF I, iI
  <2> QED BY <2>1, <2>2, <2>10, <2>11, <2>12, <2>13, <2>14, <2>15 DEF Takes, p
<1> QED BY <1>1, <1>2

LEMMA CheckCompleteTakes ==
  ASSUME NEW s, NEW t, Takes(s, t)
  PROVE  Takes(s, CheckCompleteIPackets(t)) /\ CheckCompleteIPackets(t).p.status = t.p.status
<1>1. CASE t.p.status # "Works"
  BY <1>1 DEF CheckCompleteIPackets
<1>2. CASE t.p.status = "Works"
  <2> DEFINE W == {u \in Steps(t) : Takes(s, u) /\ u.p.status = "Works"}
  <2>1. t \in W
    BY <1>2, StepsStart DEF Takes, PeerType
  <2>2. ASSUME NEW u \in W PROVE GiveFirst(u) \in W
    <3>1. Takes(s, u) /\ u.p.status = "Works" /\ u \in Steps(t)
      OBVIOUS
    <3> HIDE DEF W
    <3>2. GiveFirst(u) \in Steps(t)
      BY <3>1, StepsNext
    <3>3. Takes(s, GiveFirst(u)) /\ GiveFirst(u).p.status = "Works"
      BY <3>1, GiveFirstTakes
    <3> QED BY <3>2, <3>3 DEF W
  <2>3. IsFiniteSet(t.p.I)
    BY DEF Takes, PeerType
  <2> HIDE DEF W
  <2>4. CheckCompleteIPackets(t) \in W
    BY <2>1, <2>2, <2>3, CheckCompleteKeeps
  <2> QED BY <1>2, <2>4 DEF W
<1> QED BY <1>1, <1>2

\* A Peer in the middle of a step, with the datagrams it has sent.
Well(s) == s = [f \in {"p", "out"} |-> s[f]] /\ PeerType(s.p) /\ Begun(s.p)

LEMMA TakesNothing ==
  ASSUME NEW s, Well(s)
  PROVE  Takes(s, s)
BY DEF Well, Takes, PeerType

LEMMA OnConnTakes ==
  ASSUME NEW s, Well(s), s.p.status # "Closed"
  PROVE  Takes(s, OnConn(s)) /\ OnConn(s).p.status = "Works"
<1> DEFINE p == s.p
           v == [p EXCEPT !.status = "Works", !.retries = 0, !.start = IF p.status = "Works" THEN @ ELSE p.iO,
                          !.got = IF p.status = "Works" THEN @ ELSE <<>>]
           t == [s EXCEPT !.p = v]
<1>1. OnConn(s) = CheckCompleteIPackets(t)
  BY DEF OnConn, Well
<1>2. p = [f \in Fields |-> p[f]] /\ PeerType(p) /\ Begun(p) /\ p.status \in {"Conn", "Works"}
  BY DEF Well, PeerType
<1>3. t = [f \in {"p", "out"} |-> t[f]] /\ t.p = v /\ t.out = s.out
  BY DEF Well
<1> HIDE DEF p, t
<1>4. /\ v = [f \in Fields |-> v[f]] /\ v.status = "Works" /\ v.got = p.got /\ v.start = 0
      /\ \A f \in Fields \ {"status", "retries", "start", "got"} : v[f] = p[f]
  BY <1>2 DEF Fields, PeerType, Begun
<1> HIDE DEF v
<1>5. v.start = p.start /\ v.iI = p.iI /\ v.I = p.I /\ \A f \in Still : v[f] = p[f]
  BY <1>2, <1>4 DEF Fields, Still, PeerType
<1>6. PeerType(v) /\ Begun(v)
  BY <1>2, <1>4, <1>5 DEF PeerType, Begun, Still
<1>7. Takes(s, t) /\ t.p.status = "Works"
  <2>1. p.iI \in Nat
    BY <1>2 DEF PeerType
  <2> QED BY <1>3, <1>4, <1>5, <1>6, <2>1 DEF Takes, p
<1> QED BY <1>1, <1>7, CheckCompleteTakes

-----------------------------------------------------------------------------
(* Asking for what is missing.                                             *)

LEMMA MissingIs ==
  ASSUME NEW p, p.iRI \in Nat, NEW start \in Nat
  PROVE  Missing(p, start) \in Seq({i \in Nat : start <= i /\ i < p.iRI})
<1> DEFINE n == p.iRI
           S == {i \in Nat : start <= i /\ i < n}
           more(a, i) == IF i - 1 < start \/ FragmentPresent(p, i - 1) \/ Len(a) = MaxAsk THEN a ELSE Append(a, i - 1)
           G == [x \in Seq(S) \X (1 .. n) |-> more(x[1], x[2])]
           found == CHOOSE f : f = [i \in 0 .. n |-> IF i = 0 THEN <<>> ELSE more(f[i - 1], i)]
<1>1. n \in Nat /\ <<>> \in Seq(S)
  OBVIOUS
<1>2. Missing(p, start) = found[n]
  BY DEF Missing
<1>3. ASSUME NEW a \in Seq(S), NEW i \in 1 .. n PROVE more(a, i) \in Seq(S)
  <2>1. CASE i - 1 < start
    BY <2>1
  <2>2. CASE ~(i - 1 < start)
    <3>1. i - 1 \in S
      BY <1>1, <2>2
    <3> HIDE DEF S
    <3>2. Append(a, i - 1) \in Seq(S)
      BY <3>1, AppendProperties
    <3> QED BY <3>2
  <2> QED BY <2>1, <2>2
<1> HIDE DEF S, n, more
<1>4. G \in [Seq(S) \X (1 .. n) -> Seq(S)] /\ \A a \in Seq(S), i \in 1 .. n : G[<<a, i>>] = more(a, i)
  BY <1>3
<1> HIDE DEF G
<1>5. PICK f : Loop(f, Seq(S), <<>>, n, G)
  BY <1>1, <1>4, Recursion
<1>6. f \in [0 .. n -> Seq(S)] /\ f[0] = <<>> /\ \A i \in 1 .. n : f[i] = more(f[i - 1], i)
  <2>1. f \in [0 .. n -> Seq(S)] /\ f[0] = <<>> /\ \A i \in 1 .. n : f[i] = G[<<f[i - 1], i>>]
    BY <1>5 DEF Loop
  <2> SUFFICES ASSUME NEW i \in 1 .. n PROVE f[i] = more(f[i - 1], i)
    BY <2>1
  <2>2. i - 1 \in 0 .. n
    BY <1>1
  <2> QED BY <2>1, <2>2, <1>4
<1>7. f = [i \in 0 .. n |-> IF i = 0 THEN <<>> ELSE more(f[i - 1], i)]
  <2>1. ASSUME NEW i \in 0 .. n PROVE f[i] = IF i = 0 THEN <<>> ELSE more(f[i - 1], i)
    BY <1>1, <1>6
  <2> QED BY <1>6, <2>1
<1>8. found = [i \in 0 .. n |-> IF i = 0 THEN <<>> ELSE more(found[i - 1], i)]
  BY <1>7
<1> HIDE DEF found
<1>9. 0 .. n \subseteq {i \in 0 .. n : found[i] \in Seq(S)}
  <2> DEFINE T == {i \in 0 .. n : found[i] \in Seq(S)}
  <2>1. 0 \in T
    BY <1>1, <1>8
  <2>2. ASSUME NEW i \in 1 .. n, i - 1 \in T PROVE i \in T
    <3>1. found[i] = more(found[i - 1], i)
      BY <1>1, <1>8
    <3> QED BY <1>1, <1>3, <2>2, <3>1
  <2> HIDE DEF T
  <2>3. 0 .. n \subseteq T
    BY <1>1, <2>1, <2>2, Induction
  <2> QED BY <2>3 DEF T
<1> QED BY <1>1, <1>2, <1>9 DEF S, n

\* What a Peer knows of packets when it handles the datagrams of M, a set of at most one.
Here(a, M) == {r.pkt : r \in a.I} \cup {m.pkt : m \in {d \in M : d.type = "Data"}}
Missed(a, m) == m.type = "Check" /\ \E j \in 1 .. Len(m.ask) : \A k \in ClearPackets(a.O, m.ack) : m.ask[j] \notin Fragments(k)

\* What a Peer a that keeps the packets O may send then.
Says(a, M, O, d) ==
    /\ d \in Datagram
    /\ d.type # "Data" => d.nr <= a.iO
    /\ d.type = "Data" => d.pkt \in O /\ d.nr \in Fragments(d.pkt)
    /\ d.type = "Check" => /\ d.ack = a.iI /\ a.status = "Works"
                           /\ \A j \in 1 .. Len(d.ask) : a.iI <= d.ask[j] /\ (d.ask[j] < a.iRI \/ \E m \in M : d.ask[j] < m.nr)
SaysAll(a, M, s) == s.out \in Seq(Datagram) /\ \A i \in 1 .. Len(s.out) : Says(a, M, s.p.O, s.out[i])

\* What a step does that a Peer a makes when it handles M.
Effect(a, M, s) ==
    /\ Well(s) /\ SaysAll(a, M, s)
    /\ s.p.iO = a.iO /\ s.p.session >= a.session
    /\ s.p.session = 0 => s.p.status = "Closed" /\ s.out = <<>>
    /\ s.p.status # "Closed" => ~Gone(a)
    /\ s.p.status = "Conn" => Young(a)
    /\ Are(s.out, {"Data", "Check"}) # {} => ~Young(s.p)
    /\ Are(s.out, {"Conn"}) # {} => Young(a) /\ s.p.status = "Conn"
    /\ a.I = {} /\ a.got = <<>> /\ (\A m \in M : m.type # "Data") => s.p.I = {} /\ s.p.got = <<>>
    /\ s.p.iRI <= a.iRI \/ \E m \in M : s.p.iRI <= m.nr
    /\ {r.pkt : r \in s.p.I} \subseteq Here(a, M)
    /\ s.p.iI >= a.iI /\ (s.p.iI = a.iI \/ \E k \in Here(a, M) : s.p.iI = EndOf(k))
    /\ s.p.O = a.O \/ \E m \in M : m.type = "Check" /\ s.p.O = ClearPackets(a.O, m.ack)
    /\ s.p.reason = "starvation" => a.reason = "starvation" \/ (a.status # "Closed" /\ \E m \in M : Missed(a, m))

LEMMA AppendSays ==
  ASSUME NEW a, NEW M, NEW s, SaysAll(a, M, s), NEW d, Says(a, M, s.p.O, d), NEW t, t.out = Append(s.out, d), t.p.O = s.p.O
  PROVE  SaysAll(a, M, t) /\ \A types : Are(t.out, types) # {} <=> Are(s.out, types) # {} \/ d.type \in types
<1>1. s.out \in Seq(Datagram) /\ d \in Datagram
  BY DEF SaysAll, Says
<1>2. /\ t.out \in Seq(Datagram) /\ Len(t.out) = Len(s.out) + 1
      /\ \A i \in 1 .. Len(s.out) : t.out[i] = s.out[i]
      /\ t.out[Len(s.out) + 1] = d /\ Len(s.out) \in Nat
  BY <1>1, AppendProperties, LenProperties
<1>3. \A i \in 1 .. Len(t.out) : i \in 1 .. Len(s.out) \/ i = Len(s.out) + 1
  BY <1>2
<1>4. SaysAll(a, M, t)
  BY <1>2, <1>3 DEF SaysAll
<1>5. \A types : Are(t.out, types) # {} <=> Are(s.out, types) # {} \/ d.type \in types
  <2> SUFFICES ASSUME NEW types
               PROVE (\E i \in 1 .. Len(t.out) : t.out[i].type \in types)
                     <=> (\E i \in 1 .. Len(s.out) : s.out[i].type \in types) \/ d.type \in types
    BY DEF Are
  <2> QED BY <1>2, <1>3
<1> QED BY <1>4, <1>5

\* Nothing but what is known of the other side, and what was asked for, has changed.
Checked(a, M, t) ==
    /\ Well(t) /\ SaysAll(a, M, t)
    /\ \A f \in Fields \ {"iRI", "noReCheck", "lastAsked"} : t.p[f] = a[f]
    /\ t.p.iRI <= a.iRI \/ \E m \in M : t.p.iRI <= m.nr
    /\ \A i \in 1 .. Len(t.out) : t.out[i].type = "Check"
    /\ t.out # <<>> => a.status = "Works"

LEMMA CheckAsks ==
  ASSUME NEW a, PeerType(a), NEW M \in SUBSET Datagram, NEW s, Checked(a, M, s), s.out = <<>>, NEW force
  PROVE  Checked(a, M, Check(s, force))
<1> DEFINE p == s.p
           start == IF p.noReCheck THEN Larger(p.lastAsked + 1, p.iI) ELSE p.iI
           ask == Missing(p, start)
           noReCheck == p.noReCheck \/ ask # <<>>
           last == IF ask # <<>> THEN Last(ask) ELSE IF p.noReCheck THEN p.lastAsked ELSE 0
           v == [p EXCEPT !.noReCheck = noReCheck, !.lastAsked = last]
           t == [s EXCEPT !.p = v]
           d == CheckPacket(p, ask)
           S == {i \in Nat : start <= i /\ i < p.iRI}
<1>1. p = [f \in Fields |-> p[f]] /\ s = [f \in {"p", "out"} |-> s[f]] /\ PeerType(p) /\ Begun(p)
  BY DEF Checked, Well, PeerType
<1>2. Check(s, force) = IF p.status # "Works" THEN s
                        ELSE IF ask # <<>> \/ force THEN Put(t, d) ELSE t
  BY <1>1 DEF Check
<1>3. start \in Nat /\ p.iI <= start /\ p.iRI \in Nat /\ p.iI \in Nat
  BY <1>1 DEF PeerType, Larger
<1>4. ask \in Seq(S)
  <2> HIDE DEF start, p
  <2> QED BY <1>3, MissingIs
<1>5. last \in Nat
  <2>1. p.lastAsked \in Nat
    BY <1>1 DEF PeerType
  <2>2. ask # <<>> => Last(ask) \in S
    <3> HIDE DEF ask, S
    <3>1. ask # <<>> => Len(ask) \in 1 .. Len(ask)
      BY <1>4, EmptySeq
    <3> QED BY <1>4, <3>1, ElementOfSeq DEF Last
  <2> HIDE DEF ask, p
  <2>3. \A i \in S : i \in Nat
    OBVIOUS
  <2> HIDE DEF S
  <2> QED BY <2>1, <2>2, <2>3
<1> HIDE DEF noReCheck, last, ask
<1>6. /\ v = [f \in Fields |-> v[f]] /\ v.lastAsked = last
      /\ \A f \in Fields \ {"noReCheck", "lastAsked"} : v[f] = p[f]
  BY <1>1 DEF Fields
<1>7. t = [f \in {"p", "out"} |-> t[f]] /\ t.p = v /\ t.out = <<>>
  BY <1>1
<1> HIDE DEF v, t
<1>8. PeerType(v) /\ Begun(v) /\ v.O = p.O /\ v.iRI = p.iRI
  <2>1. \A f \in {"status", "session", "start", "iO", "iI", "iRI", "O", "I", "got"} : v[f] = p[f]
    BY <1>6 DEF Fields
  <2> QED BY <1>1, <1>5, <1>6, <2>1 DEF PeerType, Begun
<1>9. Len(<<>>) = 0 /\ 1 .. 0 = {} /\ <<>> \in Seq(Datagram)
  OBVIOUS
<1>10. Checked(a, M, t)
  <2>1. SaysAll(a, M, t)
    BY <1>7, <1>9 DEF SaysAll
  <2>2. \A f \in Fields \ {"iRI", "noReCheck", "lastAsked"} : v[f] = a[f]
    BY <1>6 DEF Checked, p
  <2>3. v.iRI <= a.iRI \/ \E m \in M : v.iRI <= m.nr
    BY <1>8 DEF Checked, p
  <2> QED BY <1>7, <1>8, <1>9, <2>1, <2>2, <2>3 DEF Checked, Well
<1>11. CASE p.status = "Works" /\ (ask # <<>> \/ force)
  <2> DEFINE u == Put(t, d)
  <2>1. u = [f \in {"p", "out"} |-> u[f]] /\ u.p = v /\ u.out = Append(t.out, d)
    BY <1>7 DEF Put
  <2>2. d = [type |-> "Check", nr |-> p.iO, ack |-> p.iI, ask |-> ask]
    BY DEF CheckPacket
  <2>3. a.iO = p.iO /\ a.iI = p.iI /\ a.status = "Works" /\ p.iO \in Nat /\ p.iI \in Nat
    BY <1>1, <1>11 DEF Checked, Fields, PeerType, p
  <2>4. ask \in Seq(Nat) /\ \A j \in 1 .. Len(ask) : ask[j] \in S
    BY <1>4, SeqMonotonic, ElementOfSeq
  <2>5. \A j \in 1 .. Len(ask) : p.iI <= ask[j] /\ (ask[j] < a.iRI \/ \E m \in M : ask[j] < m.nr)
    <3> SUFFICES ASSUME NEW j \in 1 .. Len(ask)
                 PROVE  p.iI <= ask[j] /\ (ask[j] < a.iRI \/ \E m \in M : ask[j] < m.nr)
      OBVIOUS
    <3>1. ask[j] \in Nat /\ start <= ask[j] /\ ask[j] < p.iRI
      BY <2>4
    <3>2. a.iRI \in Nat /\ \A m \in M : m.nr \in Nat
      BY DEF PeerType, Datagram
    <3>3. p.iRI <= a.iRI \/ \E m \in M : p.iRI <= m.nr
      BY DEF Checked, p
    <3> QED BY <1>3, <3>1, <3>2, <3>3
  <2>6. Says(a, M, t.p.O, d)
    BY <2>2, <2>3, <2>4, <2>5 DEF Says, Datagram
  <2> HIDE DEF u, d
  <2>7. SaysAll(a, M, u) /\ u.out \in Seq(Datagram) /\ Len(u.out) = 1 /\ u.out[1] = d
    <3>1. SaysAll(a, M, t)
      BY <1>10 DEF Checked
    <3>2. SaysAll(a, M, u)
      BY <2>1, <2>6, <1>7, <3>1, AppendSays
    <3>3. u.out = Append(<<>>, d)
      BY <1>7, <2>1
    <3> QED BY <3>2, <3>3 DEF SaysAll
  <2>8. Checked(a, M, u)
    BY <1>10, <1>7, <2>1, <2>2, <2>3, <2>7 DEF Checked, Well, d
  <2> QED BY <1>2, <1>11, <2>8 DEF u
<1>12. CASE p.status # "Works"
  BY <1>2, <1>12
<1> QED BY <1>2, <1>10, <1>11, <1>12

-----------------------------------------------------------------------------
(* The handlers of datagrams.                                              *)

Ready(a) == PeerType(a) /\ Begun(a) /\ Idle(a)

\* About to look for packets to give to the user.
Taking(a, M, u) ==
    /\ Well(u) /\ SaysAll(a, M, u)
    /\ \A f \in {"O", "iO", "iI", "session", "status", "reason"} : u.p[f] = a[f]
    /\ u.p.iRI <= a.iRI \/ \E m \in M : u.p.iRI <= m.nr
    /\ {r.pkt : r \in u.p.I} \subseteq Here(a, M)
    /\ a.I = {} /\ a.got = <<>> /\ (\A m \in M : m.type # "Data") => u.p.I = {} /\ u.p.got = <<>>
    /\ \A i \in 1 .. Len(u.out) : u.out[i].type \in {"Check", "ConnOK"}

LEMMA CheckedTaking ==
  ASSUME NEW a, NEW M, NEW t, Checked(a, M, t)
  PROVE  Taking(a, M, t)
<1>1. \A f \in {"O", "iO", "iI", "session", "status", "reason", "I", "got"} : t.p[f] = a[f]
  BY DEF Checked, Fields
<1>2. {r.pkt : r \in t.p.I} \subseteq Here(a, M)
  BY <1>1 DEF Here
<1>3. \A i \in 1 .. Len(t.out) : t.out[i].type = "Check"
  BY DEF Checked
<1>4. Well(t) /\ SaysAll(a, M, t) /\ (t.p.iRI <= a.iRI \/ \E m \in M : t.p.iRI <= m.nr)
  BY DEF Checked
<1> QED BY <1>1, <1>2, <1>3, <1>4 DEF Taking

LEMMA TakesEffect ==
  ASSUME NEW a, Ready(a), a.status # "Closed", NEW M \in SUBSET Datagram, NEW u, Taking(a, M, u),
         NEW t, Takes(u, t)
  PROVE  Effect(a, M, t)
<1>1. /\ \A f \in {"O", "iO", "iI", "session", "status", "reason"} : u.p[f] = a[f]
      /\ \A f \in Still : t.p[f] = u.p[f]
  BY DEF Taking, Takes
<1>2. /\ t.p.O = a.O /\ t.p.iO = a.iO /\ t.p.session = a.session /\ t.p.reason = a.reason /\ t.p.iRI = u.p.iRI
      /\ u.p.iI = a.iI /\ u.p.status = a.status /\ t.out = u.out /\ u.p.O = a.O
  BY <1>1 DEF Still, Takes
<1>3. a.session # 0 /\ ~Gone(a) /\ a.session \in Nat /\ a.status \in {"Conn", "Works"} /\ a.iI \in Nat
  BY DEF Ready, Idle, Gone, PeerType
<1>4. Well(t) /\ t.p.status \in {a.status, "Works"}
  BY <1>2 DEF Takes, Well
<1>5. SaysAll(a, M, t)
  BY <1>2 DEF Taking, SaysAll
<1>6. \A i \in 1 .. Len(t.out) : t.out[i].type \in {"Check", "ConnOK"}
  BY <1>2 DEF Taking
<1>7. Are(t.out, {"Data", "Check"}) # {} => ~Young(t.p)
  <2> SUFFICES ASSUME NEW i \in 1 .. Len(t.out), t.out[i].type \in {"Data", "Check"} PROVE ~Young(t.p)
    BY DEF Are
  <2>1. t.out[i].type = "Check"
    BY <1>6
  <2>2. a.status = "Works"
    BY <1>5, <2>1 DEF SaysAll, Says
  <2> QED BY <1>2, <1>3, <1>4, <2>2 DEF Young
<1>8. Are(t.out, {"Conn"}) = {}
  BY <1>6 DEF Are
<1>9. t.p.I \subseteq u.p.I /\ (u.p.I = {} => t.p.got = u.p.got)
      /\ t.p.iI >= a.iI /\ (t.p.iI = a.iI \/ \E r \in u.p.I : t.p.iI = EndOf(r.pkt))
  BY <1>2 DEF Takes
<1>10. t.p.status = "Conn" => Young(a)
  BY <1>4 DEF Young
<1>11. /\ u.p.iRI <= a.iRI \/ \E m \in M : u.p.iRI <= m.nr
       /\ {r.pkt : r \in u.p.I} \subseteq Here(a, M)
       /\ a.I = {} /\ a.got = <<>> /\ (\A m \in M : m.type # "Data") => u.p.I = {} /\ u.p.got = <<>>
  BY DEF Taking
<1>12. {r.pkt : r \in t.p.I} \subseteq Here(a, M) /\ (t.p.iI = a.iI \/ \E k \in Here(a, M) : t.p.iI = EndOf(k))
  BY <1>9, <1>11
<1>13. a.I = {} /\ a.got = <<>> /\ (\A m \in M : m.type # "Data") => t.p.I = {} /\ t.p.got = <<>>
  BY <1>9, <1>11
<1>14. t.p.session >= a.session /\ t.p.session # 0
  BY <1>2, <1>3
<1> QED BY <1>2, <1>3, <1>4, <1>5, <1>7, <1>8, <1>9, <1>10, <1>11, <1>12, <1>13, <1>14 DEF Effect

\* A Conn of a Peer that has sent nothing yet starts nothing again.
LEMMA RecvConnEffect ==
  ASSUME NEW a, Ready(a), a.status # "Closed", NEW m \in Datagram, m.type = "Conn", a.I = {}, a.got = <<>>,
         NEW t, Checked(a, {m}, t)
  PROVE  Effect(a, {m}, RecvConn(t, m))
<1> DEFINE p == t.p
           v == [p EXCEPT !.iI = 0, !.iRI = 0, !.I = {}, !.noReCheck = FALSE, !.lastAsked = 0]
           u == [t EXCEPT !.p = v]
           w == Put(u, ConnOK(p))
<1>1. m.nr = 0 /\ a.iI = 0 /\ a.iO \in Nat /\ a.iRI \in Nat
  BY DEF Datagram, Ready, Begun, PeerType
<1>2. p = [f \in Fields |-> p[f]] /\ t = [f \in {"p", "out"} |-> t[f]] /\ PeerType(p) /\ Begun(p)
      /\ \A f \in {"O", "iO", "iI", "session", "status", "reason", "I", "got", "start"} : p[f] = a[f]
  BY DEF Checked, Well, PeerType, Fields
<1>3. RecvConn(t, m) = OnConn(w)
  BY <1>1, <1>2 DEF RecvConn
<1>4. /\ v = [f \in Fields |-> v[f]] /\ v.iI = 0 /\ v.iRI = 0 /\ v.I = {} /\ v.lastAsked = 0
      /\ \A f \in {"O", "iO", "session", "status", "reason", "got", "start"} : v[f] = a[f]
  BY <1>2 DEF Fields
<1>5. u = [f \in {"p", "out"} |-> u[f]] /\ u.p = v /\ u.out = t.out
  BY <1>2
<1> HIDE DEF v, u
<1>6. w = [f \in {"p", "out"} |-> w[f]] /\ w.p = v /\ w.out = Append(u.out, ConnOK(p))
  BY <1>5 DEF Put
<1> HIDE DEF w, p
<1>7. PeerType(v) /\ Begun(v)
  BY <1>1, <1>4, FS_EmptySet DEF PeerType, Begun, Ready
<1>8. ConnOK(p) = [type |-> "ConnOK", nr |-> a.iO] /\ v.O = a.O
  BY <1>2, <1>4 DEF ConnOK
<1>9. SaysAll(a, {m}, w)
  <2>1. Says(a, {m}, u.p.O, ConnOK(p))
    BY <1>1, <1>8 DEF Says, Datagram
  <2>2. SaysAll(a, {m}, u)
    <3>1. t.p.O = u.p.O
      BY <1>2, <1>4, <1>5 DEF p
    <3>2. SaysAll(a, {m}, t)
      BY DEF Checked
    <3> QED BY <1>5, <3>1, <3>2 DEF SaysAll
  <2> QED BY <1>5, <1>6, <2>1, <2>2, AppendSays
<1>10. \A i \in 1 .. Len(w.out) : w.out[i].type \in {"Check", "ConnOK"}
  <2>1. t.out \in Seq(Datagram) /\ ConnOK(p) \in Datagram
    BY <1>1, <1>8 DEF Checked, SaysAll, Datagram
  <2>2. /\ Len(w.out) = Len(t.out) + 1 /\ w.out[Len(t.out) + 1] = ConnOK(p) /\ Len(t.out) \in Nat
        /\ \A i \in 1 .. Len(t.out) : w.out[i] = t.out[i]
    BY <1>5, <1>6, <2>1, AppendProperties, LenProperties
  <2>3. \A i \in 1 .. Len(t.out) : t.out[i].type = "Check"
    BY DEF Checked
  <2> SUFFICES ASSUME NEW i \in 1 .. Len(w.out) PROVE w.out[i].type \in {"Check", "ConnOK"}
    OBVIOUS
  <2>4. CASE i \in 1 .. Len(t.out)
    <3>1. w.out[i].type = "Check"
      BY <2>2, <2>3, <2>4
    <3> QED BY <3>1
  <2>5. CASE i = Len(t.out) + 1
    <3>1. w.out[i] = [type |-> "ConnOK", nr |-> a.iO]
      BY <1>8, <2>2, <2>5
    <3> QED BY <3>1
  <2>6. i \in 1 .. Len(t.out) \/ i = Len(t.out) + 1
    BY <2>2
  <2> QED BY <2>4, <2>5, <2>6
<1>11. Taking(a, {m}, w)
  <2>1. \A f \in {"O", "iO", "iI", "session", "status", "reason"} : w.p[f] = a[f]
    BY <1>1, <1>4, <1>6
  <2>2. w.p.I = {} /\ w.p.got = <<>> /\ w.p.iRI <= a.iRI
    <3>1. w.p.got = a.got /\ w.p.I = {} /\ w.p.iRI = 0
      BY <1>4, <1>6
    <3> QED BY <1>1, <3>1
  <2>3. {r.pkt : r \in w.p.I} \subseteq Here(a, {m})
    BY <2>2
  <2> QED BY <1>6, <1>7, <1>9, <1>10, <2>1, <2>2, <2>3 DEF Taking, Well
<1>12. Takes(w, OnConn(w))
  <2>1. Well(w) /\ w.p.status # "Closed"
    BY <1>4, <1>6, <1>7 DEF Well
  <2> QED BY <2>1, OnConnTakes
<1> QED BY <1>3, <1>11, <1>12, TakesEffect

LEMMA RecvConnOKEffect ==
  ASSUME NEW a, Ready(a), a.status # "Closed", NEW m \in Datagram, NEW t, Checked(a, {m}, t)
  PROVE  Effect(a, {m}, RecvConnOK(t, m))
<1>1. Taking(a, {m}, t) /\ Well(t) /\ t.p.status = a.status
  BY CheckedTaking DEF Checked, Fields
<1>2. Takes(t, RecvConnOK(t, m))
  BY <1>1, TakesNothing, OnConnTakes DEF RecvConnOK
<1> QED BY <1>1, <1>2, TakesEffect

\* What is received with a datagram m.
Received(I, m) ==
    LET old == {q \in I : q.pkt.nr = m.pkt.nr}
        fits == \A q \in I : Fragments(q.pkt) \cap Fragments(m.pkt) = {}
    IN  IF old = {} THEN I \cup {q \in {[pkt |-> m.pkt, have |-> {m.nr}]} : fits}
        ELSE {[q EXCEPT !.have = IF q \in old /\ q.pkt.cnt = m.pkt.cnt THEN @ \cup {m.nr} ELSE @] : q \in I}

LEMMA ReceivedIs ==
  ASSUME NEW I, IsFiniteSet(I), NEW m
  PROVE  IsFiniteSet(Received(I, m))
<1> DEFINE old == {q \in I : q.pkt.nr = m.pkt.nr}
           fits == \A q \in I : Fragments(q.pkt) \cap Fragments(m.pkt) = {}
           added == {q \in {[pkt |-> m.pkt, have |-> {m.nr}]} : fits}
           More(q) == [q EXCEPT !.have = IF q \in old /\ q.pkt.cnt = m.pkt.cnt THEN @ \cup {m.nr} ELSE @]
<1>1. IsFiniteSet(added)
  <2>1. IsFiniteSet({[pkt |-> m.pkt, have |-> {m.nr}]})
    BY FS_Singleton
  <2>2. added \subseteq {[pkt |-> m.pkt, have |-> {m.nr}]}
    OBVIOUS
  <2> HIDE DEF added
  <2> QED BY <2>1, <2>2, FS_Subset
<1>2. IsFiniteSet(I \cup added)
  <2> HIDE DEF added
  <2> QED BY <1>1, FS_Union
<1>3. IsFiniteSet({More(q) : q \in I})
  <2> DEFINE f == [q \in I |-> More(q)]
             T == {More(q) : q \in I}
  <2>1. f \in Surjection(I, T)
    <3> HIDE DEF More
    <3> QED BY DEF Surjection
  <2> HIDE DEF f, T
  <2>2. IsFiniteSet(T)
    BY <2>1, FS_Surjection
  <2> QED BY <2>2 DEF T
<1>4. Received(I, m) = IF old = {} THEN I \cup added ELSE {More(q) : q \in I}
  BY DEF Received
<1> HIDE DEF old, added, More
<1> QED BY <1>2, <1>3, <1>4

LEMMA ReceivedType ==
  ASSUME NEW I \in SUBSET [pkt : Packet, have : SUBSET Nat], NEW m, m.pkt \in Packet, m.nr \in Nat
  PROVE  /\ Received(I, m) \subseteq [pkt : Packet, have : SUBSET Nat]
         /\ \A r \in Received(I, m) : r.pkt = m.pkt \/ \E q \in I : r.pkt = q.pkt
<1> SUFFICES ASSUME NEW r \in Received(I, m)
             PROVE  r \in [pkt : Packet, have : SUBSET Nat] /\ (r.pkt = m.pkt \/ \E q \in I : r.pkt = q.pkt)
  OBVIOUS
<1>1. r \in I \/ r = [pkt |-> m.pkt, have |-> {m.nr}] \/ \E q \in I : \E h \in {q.have, q.have \cup {m.nr}} : r = [q EXCEPT !.have = h]
  BY DEF Received
<1>2. ASSUME NEW q \in I, NEW h \in {q.have, q.have \cup {m.nr}}, r = [q EXCEPT !.have = h]
      PROVE  r \in [pkt : Packet, have : SUBSET Nat] /\ r.pkt = q.pkt
  <2>1. q \in [pkt : Packet, have : SUBSET Nat]
    OBVIOUS
  <2>2. h \in SUBSET Nat
    BY <2>1
  <2> HIDE DEF Packet
  <2> QED BY <1>2, <2>1, <2>2
<1> QED BY <1>1, <1>2

LEMMA RecvDataEffect ==
  ASSUME NEW a, Ready(a), a.status # "Closed", NEW m \in Datagram, m.type = "Data", NEW t, Checked(a, {m}, t)
  PROVE  Effect(a, {m}, RecvData(t, m))
<1> DEFINE p == t.p
           I == Received(p.I, m)
           v == [p EXCEPT !.I = I]
           u == [t EXCEPT !.p = v]
<1>1. m.pkt \in Packet /\ m.nr \in Nat
  BY DEF Datagram
<1>2. p = [f \in Fields |-> p[f]] /\ t = [f \in {"p", "out"} |-> t[f]] /\ PeerType(p) /\ Begun(p)
      /\ \A f \in {"O", "iO", "iI", "session", "status", "reason", "I", "got", "start"} : p[f] = a[f]
  BY DEF Checked, Well, PeerType, Fields
<1>3. RecvData(t, m) = IF m.nr < p.iI THEN t ELSE CheckCompleteIPackets(u)
  BY <1>2 DEF RecvData, Received
<1>4. IsFiniteSet(I) /\ I \subseteq [pkt : Packet, have : SUBSET Nat] /\ \A r \in I : r.pkt = m.pkt \/ \E q \in p.I : r.pkt = q.pkt
  <2>1. IsFiniteSet(p.I) /\ p.I \in SUBSET [pkt : Packet, have : SUBSET Nat]
    BY <1>2 DEF PeerType
  <2> HIDE DEF p
  <2> QED BY <1>1, <2>1, ReceivedIs, ReceivedType
<1> HIDE DEF I
<1>5. v = [f \in Fields |-> v[f]] /\ v.I = I /\ \A f \in Fields \ {"I"} : v[f] = p[f]
  BY <1>2 DEF Fields
<1>6. u = [f \in {"p", "out"} |-> u[f]] /\ u.p = v /\ u.out = t.out
  BY <1>2
<1> HIDE DEF v, u
<1>7. /\ \A f \in {"status", "session", "start", "iO", "iI", "iRI", "lastAsked", "O", "got", "reason"} : v[f] = p[f]
      /\ \A f \in {"O", "iO", "iI", "session", "status", "reason"} : v[f] = a[f]
  BY <1>2, <1>5 DEF Fields
<1>8. PeerType(v) /\ Begun(v)
  BY <1>2, <1>4, <1>5, <1>7 DEF PeerType, Begun
<1>9. Taking(a, {m}, t)
  BY CheckedTaking
<1>10. Taking(a, {m}, u)
  <2>1. SaysAll(a, {m}, u)
    <3>1. SaysAll(a, {m}, t) /\ u.p.O = t.p.O
      BY <1>6, <1>7 DEF Checked, p
    <3> QED BY <1>6, <3>1 DEF SaysAll
  <2>2. {r.pkt : r \in u.p.I} \subseteq Here(a, {m})
    <3> SUFFICES ASSUME NEW r \in I PROVE r.pkt \in Here(a, {m})
      BY <1>5, <1>6
    <3>1. p.I = a.I
      BY <1>2
    <3>2. r.pkt = m.pkt \/ \E q \in a.I : r.pkt = q.pkt
      BY <1>4, <3>1
    <3> QED BY <3>2 DEF Here
  <2>3. Well(u)
    BY <1>6, <1>8 DEF Well
  <2>4. u.p.iRI <= a.iRI \/ \E d \in {m} : u.p.iRI <= d.nr
    BY <1>6, <1>7 DEF Checked, p
  <2>5. \A i \in 1 .. Len(u.out) : u.out[i].type \in {"Check", "ConnOK"}
    BY <1>6, <1>9 DEF Taking
  <2> QED BY <1>6, <1>7, <2>1, <2>2, <2>3, <2>4, <2>5 DEF Taking
<1>11. Takes(u, CheckCompleteIPackets(u)) /\ Takes(t, t)
  <2>1. Well(u) /\ Well(t)
    BY <1>10 DEF Taking, Checked
  <2> QED BY <2>1, TakesNothing, CheckCompleteTakes
<1>12. Effect(a, {m}, CheckCompleteIPackets(u)) /\ Effect(a, {m}, t)
  BY <1>9, <1>10, <1>11, TakesEffect
<1> QED BY <1>3, <1>12

\* A step that ends with the connection.
LEMMA ClosedEffect ==
  ASSUME NEW a, Ready(a), a.status # "Closed", NEW M, NEW u, Effect(a, M, u), Are(u.out, {"Conn"}) = {},
         NEW reason, reason = "starvation" => \E m \in M : Missed(a, m)
  PROVE  Effect(a, M, OnClose(u, reason)) /\ Effect(a, M, Close(u, reason))
<1>1. a.session \in Nat \ {0} /\ a.iO \in Nat
  BY DEF Ready, Idle, PeerType
<1>2. ASSUME NEW s, Effect(a, M, s), Are(s.out, {"Conn"}) = {} PROVE Effect(a, M, OnClose(s, reason))
  <2> DEFINE p == s.p
             why == IF p.status = "Works" THEN reason ELSE p.reason
             v == [p EXCEPT !.status = "Closed", !.reason = why]
             t == [s EXCEPT !.p = v]
  <2>1. OnClose(s, reason) = t
    BY <1>2 DEF OnClose, Effect, Well
  <2>2. p = [f \in Fields |-> p[f]] /\ s = [f \in {"p", "out"} |-> s[f]] /\ PeerType(p) /\ Begun(p)
    BY <1>2 DEF Effect, Well, PeerType
  <2> HIDE DEF why
  <2>3. v = [f \in Fields |-> v[f]] /\ v.status = "Closed" /\ v.reason = why /\ \A f \in Fields \ {"status", "reason"} : v[f] = p[f]
    BY <2>2 DEF Fields
  <2>4. t = [f \in {"p", "out"} |-> t[f]] /\ t.p = v /\ t.out = s.out
    BY <2>2
  <2> HIDE DEF v, t
  <2>5. \A f \in {"session", "start", "iO", "iI", "iRI", "lastAsked", "O", "I", "got"} : v[f] = p[f]
    BY <2>3 DEF Fields
  <2>6. PeerType(v) /\ Begun(v)
    BY <2>2, <2>3, <2>5 DEF PeerType, Begun
  <2>7. SaysAll(a, M, t)
    <3>1. SaysAll(a, M, s) /\ t.p.O = s.p.O
      BY <1>2, <2>4, <2>5 DEF Effect, p
    <3> QED BY <2>4, <3>1 DEF SaysAll
  <2>8. v.reason = "starvation" => a.reason = "starvation" \/ \E m \in M : Missed(a, m)
    BY <1>2, <2>3 DEF why, p, Effect
  <2>9. s.p.session \in Nat /\ s.p.session >= a.session /\ s.p.session # 0
    BY <1>1, <1>2, <2>2 DEF Effect, PeerType, p
  <2>10. ~Young(v)
    BY <2>3, <2>5, <2>9 DEF Young, p
  <2>11. /\ s.p.iO = a.iO
         /\ a.I = {} /\ a.got = <<>> /\ (\A m \in M : m.type # "Data") => s.p.I = {} /\ s.p.got = <<>>
         /\ s.p.iRI <= a.iRI \/ \E m \in M : s.p.iRI <= m.nr
         /\ {r.pkt : r \in s.p.I} \subseteq Here(a, M)
         /\ s.p.iI >= a.iI /\ (s.p.iI = a.iI \/ \E k \in Here(a, M) : s.p.iI = EndOf(k))
         /\ s.p.O = a.O \/ \E m \in M : m.type = "Check" /\ s.p.O = ClearPackets(a.O, m.ack)
    BY <1>2 DEF Effect
  <2>12. \A f \in {"session", "iO", "iI", "iRI", "O", "I", "got"} : t.p[f] = s.p[f]
    BY <2>4, <2>5 DEF p
  <2>13. Effect(a, M, t)
    BY <1>2, <2>3, <2>4, <2>6, <2>7, <2>8, <2>9, <2>10, <2>11, <2>12 DEF Effect, Well
  <2> QED BY <2>1, <2>13
<1>3. Effect(a, M, Put(u, Close0)) /\ Are(Put(u, Close0).out, {"Conn"}) = {}
  <2> DEFINE t == Put(u, Close0)
  <2>1. t = [f \in {"p", "out"} |-> t[f]] /\ t.p = u.p /\ t.out = Append(u.out, Close0)
    BY DEF Put, Effect, Well
  <2> HIDE DEF t
  <2>2. Close0.type = "Close" /\ Close0.nr = 0 /\ Close0 \in Datagram
    BY DEF Close0, Datagram
  <2>3. Says(a, M, u.p.O, Close0)
    BY <1>1, <2>2 DEF Says
  <2>4. SaysAll(a, M, t) /\ \A types : Are(t.out, types) # {} <=> Are(u.out, types) # {} \/ Close0.type \in types
    <3>1. SaysAll(a, M, u)
      BY DEF Effect
    <3> QED BY <2>1, <2>3, <3>1, AppendSays
  <2>5. Are(t.out, {"Conn"}) = {} /\ (Are(t.out, {"Data", "Check"}) # {} <=> Are(u.out, {"Data", "Check"}) # {})
    BY <2>2, <2>4
  <2>6. u.p.session # 0
    BY <1>1 DEF Effect
  <2>7. Effect(a, M, t)
    BY <2>1, <2>4, <2>5, <2>6 DEF Effect, Well
  <2> QED BY <2>5, <2>7 DEF t
<1> QED BY <1>2, <1>3 DEF Close

LEMMA CheckedEffect ==
  ASSUME NEW a, Ready(a), a.status # "Closed", NEW M \in SUBSET Datagram, NEW t, Checked(a, M, t)
  PROVE  Effect(a, M, t) /\ Are(t.out, {"Conn"}) = {}
<1>1. Taking(a, M, t) /\ Takes(t, t)
  BY CheckedTaking, TakesNothing DEF Checked
<1>2. Are(t.out, {"Conn"}) = {}
  BY DEF Checked, Are
<1> QED BY <1>1, <1>2, TakesEffect

\* A Check is answered with fragments that are kept.
LEMMA RecvCheckEffect ==
  ASSUME NEW a, Ready(a), a.status # "Closed", NEW m \in Datagram, m.type = "Check", NEW t, Checked(a, {m}, t)
  PROVE  Effect(a, {m}, RecvCheck(t, m))
<1> DEFINE p == t.p
           kept == ClearPackets(p.O, m.ack)
           Holder(i) == CHOOSE q \in kept : i \in Fragments(q)
           lost == {j \in 1 .. Len(m.ask) : \A q \in kept : m.ask[j] \notin Fragments(q)}
           first == CHOOSE j \in lost : \A k \in lost : j <= k
           count == IF lost = {} THEN Len(m.ask) ELSE first - 1
           resent == [j \in 1 .. count |-> Fragment(Holder(m.ask[j]), m.ask[j])]
           out == t.out \o resent
           v == [p EXCEPT !.O = kept]
           u == [t EXCEPT !.p = v, !.out = out]
<1>1. p = [f \in Fields |-> p[f]] /\ t = [f \in {"p", "out"} |-> t[f]] /\ PeerType(p) /\ Begun(p)
      /\ \A f \in {"O", "iO", "iI", "session", "status", "reason", "I", "got", "start"} : p[f] = a[f]
  BY DEF Checked, Well, PeerType, Fields
<1>2. RecvCheck(t, m) = IF lost # {} THEN Close(u, "starvation") ELSE u
  BY <1>1 DEF RecvCheck
<1>3. m.ask \in Seq(Nat) /\ Len(m.ask) \in Nat
  BY LenProperties DEF Datagram
<1>4. kept \subseteq p.O /\ kept \subseteq Packet /\ kept = ClearPackets(a.O, m.ack)
  BY <1>1 DEF ClearPackets, PeerType
<1> HIDE DEF kept
<1>5. count \in Nat /\ \A j \in 1 .. count : j \in 1 .. Len(m.ask) /\ j \notin lost
  <2>1. CASE lost = {}
    BY <1>3, <2>1
  <2>2. CASE lost # {}
    <3>1. lost \subseteq Nat
      BY <1>3
    <3> HIDE DEF lost
    <3>2. first \in lost /\ \A k \in lost : first <= k
      BY <2>2, <3>1, LeastNat
    <3>3. first \in 1 .. Len(m.ask) /\ count = first - 1
      BY <2>2, <3>2 DEF lost
    <3> HIDE DEF first, count
    <3> QED BY <1>3, <3>2, <3>3
  <2> QED BY <2>1, <2>2
<1> HIDE DEF count
<1>6. \A j \in 1 .. count : /\ Holder(m.ask[j]) \in kept /\ m.ask[j] \in Fragments(Holder(m.ask[j]))
                            /\ m.ask[j] \in Nat
  <2> SUFFICES ASSUME NEW j \in 1 .. count
               PROVE  Holder(m.ask[j]) \in kept /\ m.ask[j] \in Fragments(Holder(m.ask[j])) /\ m.ask[j] \in Nat
    OBVIOUS
  <2>1. \E q \in kept : m.ask[j] \in Fragments(q)
    BY <1>5
  <2>2. m.ask[j] \in Nat
    BY <1>3, <1>5, ElementOfSeq
  <2> QED BY <2>1, <2>2
<1> HIDE DEF Holder
<1>7. \A j \in 1 .. count : /\ Fragment(Holder(m.ask[j]), m.ask[j]) \in Datagram
                            /\ Says(a, {m}, kept, Fragment(Holder(m.ask[j]), m.ask[j]))
                            /\ Fragment(Holder(m.ask[j]), m.ask[j]).type = "Data"
  <2> SUFFICES ASSUME NEW i \in Nat, NEW k \in kept, i \in Fragments(k)
               PROVE  Fragment(k, i) \in Datagram /\ Says(a, {m}, kept, Fragment(k, i)) /\ Fragment(k, i).type = "Data"
    BY <1>6
  <2>1. Fragment(k, i).type = "Data" /\ Fragment(k, i).nr = i /\ Fragment(k, i).pkt = k /\ Fragment(k, i) \in Datagram
    BY <1>4 DEF Fragment, Datagram
  <2> QED BY <2>1 DEF Says
<1>8. resent \in Seq(Datagram) /\ Len(resent) = count /\ \A j \in 1 .. count : resent[j] = Fragment(Holder(m.ask[j]), m.ask[j])
  <2>1. resent \in Seq(Datagram)
    BY <1>5, <1>7, IsASeq
  <2> QED BY <1>5, <2>1
<1> HIDE DEF resent
<1>9. t.out \in Seq(Datagram) /\ Len(t.out) \in Nat /\ \A i \in 1 .. Len(t.out) : Says(a, {m}, p.O, t.out[i]) /\ t.out[i].type = "Check"
  <2>1. SaysAll(a, {m}, t)
    BY DEF Checked
  <2> QED BY <2>1, LenProperties DEF Checked, SaysAll
<1>10. /\ out \in Seq(Datagram)
       /\ \A i \in 1 .. Len(out) : \/ i \in 1 .. Len(t.out) /\ out[i] = t.out[i]
                                   \/ i - Len(t.out) \in 1 .. count /\ out[i] = resent[i - Len(t.out)]
  BY <1>8, <1>9, ConcatIs
<1> HIDE DEF out
<1>11. \A i \in 1 .. Len(out) : Says(a, {m}, kept, out[i]) /\ out[i].type \in {"Check", "Data"}
  <2> SUFFICES ASSUME NEW i \in 1 .. Len(out) PROVE Says(a, {m}, kept, out[i]) /\ out[i].type \in {"Check", "Data"}
    OBVIOUS
  <2>1. CASE i \in 1 .. Len(t.out) /\ out[i] = t.out[i]
    <3>1. Says(a, {m}, p.O, out[i]) /\ out[i].type = "Check"
      BY <1>9, <2>1
    <3> QED BY <3>1 DEF Says
  <2>2. CASE i - Len(t.out) \in 1 .. count /\ out[i] = resent[i - Len(t.out)]
    BY <1>7, <1>8, <2>2
  <2> QED BY <1>10, <2>1, <2>2
<1>12. /\ v = [f \in Fields |-> v[f]] /\ v.O = kept /\ \A f \in Fields \ {"O"} : v[f] = p[f]
  BY <1>1 DEF Fields
<1>13. u = [f \in {"p", "out"} |-> u[f]] /\ u.p = v /\ u.out = out
  BY <1>1
<1> HIDE DEF u, v
<1>14. /\ \A f \in {"status", "session", "start", "iO", "iI", "iRI", "lastAsked", "I", "got", "reason"} : v[f] = p[f]
       /\ \A f \in {"iO", "iI", "session", "status", "reason", "I", "got"} : v[f] = a[f]
  BY <1>1, <1>12 DEF Fields
<1>15. PeerType(v) /\ Begun(v)
  <2>1. PeerType(v)
    BY <1>1, <1>4, <1>12, <1>14 DEF PeerType
  <2>2. p.O = {} => kept = {}
    BY <1>4
  <2> QED BY <1>1, <2>1, <2>2, <1>12, <1>14 DEF Begun
<1>16. a.session \in Nat \ {0} /\ ~Gone(a) /\ a.status \in {"Conn", "Works"}
  BY DEF Ready, Idle, PeerType, Gone
<1>17. Are(u.out, {"Conn"}) = {}
  BY <1>11, <1>13 DEF Are
<1>18. Are(u.out, {"Data", "Check"}) # {} => ~Young(u.p)
  <2> SUFFICES ASSUME NEW i \in 1 .. Len(out), u.p.status = "Conn" PROVE FALSE
    BY <1>13, <1>14, <1>16 DEF Are, Young
  <2>1. a.status = "Conn" /\ a.O = {}
    BY <1>13, <1>14 DEF Ready, Begun
  <2>2. kept = {}
    BY <1>1, <1>4, <2>1
  <2>3. Says(a, {m}, kept, out[i]) /\ out[i].type \in {"Check", "Data"}
    BY <1>11
  <2> QED BY <2>1, <2>2, <2>3 DEF Says
<1>19. Effect(a, {m}, u)
  <2>1. SaysAll(a, {m}, u)
    BY <1>10, <1>11, <1>12, <1>13 DEF SaysAll
  <2>2. {r.pkt : r \in u.p.I} \subseteq Here(a, {m})
    BY <1>13, <1>14 DEF Here
  <2>3. u.p.iRI <= a.iRI \/ \E d \in {m} : u.p.iRI <= d.nr
    BY <1>13, <1>14 DEF Checked, p
  <2>4. u.p.iI >= a.iI /\ u.p.iI = a.iI
    BY <1>13, <1>14 DEF Ready, PeerType
  <2>5. \E d \in {m} : d.type = "Check" /\ u.p.O = ClearPackets(a.O, d.ack)
    BY <1>4, <1>12, <1>13
  <2>6. Well(u)
    BY <1>13, <1>15 DEF Well
  <2>7. u.p.status = "Conn" => Young(a)
    BY <1>13, <1>14 DEF Young
  <2>8. u.p.session = a.session /\ u.p.iO = a.iO /\ u.p.reason = a.reason /\ u.p.I = a.I /\ u.p.got = a.got
    BY <1>13, <1>14
  <2>9. u.p.session >= a.session /\ u.p.session # 0
    BY <1>16, <2>8
  <2> HIDE DEF kept
  <2> QED BY <1>16, <1>17, <1>18, <2>1, <2>2, <2>3, <2>4, <2>5, <2>6, <2>7, <2>8, <2>9 DEF Effect
<1>20. ASSUME lost # {} PROVE Effect(a, {m}, Close(u, "starvation"))
  <2>1. Missed(a, m)
    BY <1>4, <1>20 DEF Missed
  <2>2. \E d \in {m} : Missed(a, d)
    BY <2>1
  <2> QED BY <1>17, <1>19, <2>2, ClosedEffect
<1> HIDE DEF lost
<1> QED BY <1>2, <1>19, <1>20

\* Any datagram; a Conn comes only when nothing was received.
LEMMA OnRecvEffect ==
  ASSUME NEW a, Ready(a), a.status # "Closed", NEW m \in Datagram, m.type = "Conn" => a.I = {} /\ a.got = <<>>
  PROVE  Effect(a, {m}, OnRecv([p |-> a, out |-> <<>>], m))
<1> DEFINE nr == Reached(a, m)
           v == [a EXCEPT !.iRI = nr]
           s == [p |-> v, out |-> <<>>]
           t == Check(s, FALSE)
<1>1. a = [f \in Fields |-> a[f]] /\ PeerType(a) /\ Begun(a) /\ m.nr \in Nat /\ a.iRI \in Nat
  <2>1. PeerType(a) /\ Begun(a)
    BY DEF Ready
  <2>2. m.nr \in Nat
    BY DEF Datagram
  <2> QED BY <2>1, <2>2 DEF PeerType
<1>2. nr \in Nat /\ (nr <= a.iRI \/ nr <= m.nr)
  BY <1>1 DEF Reached, Larger
<1>3. v = [f \in Fields |-> v[f]] /\ v.iRI = nr /\ \A f \in Fields \ {"iRI"} : v[f] = a[f]
  BY <1>1 DEF Fields
<1>4. s = [f \in {"p", "out"} |-> s[f]] /\ s.p = v /\ s.out = <<>>
  OBVIOUS
<1>5. OnRecv([p |-> a, out |-> <<>>], m) = CASE m.type = "Conn"   -> RecvConn(t, m)
                                             [] m.type = "ConnOK" -> RecvConnOK(t, m)
                                             [] m.type = "Data"   -> RecvData(t, m)
                                             [] m.type = "Check"  -> RecvCheck(t, m)
                                             [] m.type = "Close"  -> OnClose(t, "closed by peer")
                                             [] OTHER             -> t
  <2>1. [[p |-> a, out |-> <<>>] EXCEPT !.p.iRI = Reached(a, m)] = s
    OBVIOUS
  <2> QED BY <2>1 DEF OnRecv
<1> HIDE DEF nr, v, s
<1>6. \A f \in {"status", "session", "start", "iO", "iI", "lastAsked", "O", "I", "got"} : v[f] = a[f]
  BY <1>3 DEF Fields
<1>7. PeerType(v) /\ Begun(v)
  BY <1>1, <1>2, <1>3, <1>6 DEF PeerType, Begun
<1>8. Checked(a, {m}, s)
  <2>1. Len(<<>>) = 0 /\ 1 .. 0 = {} /\ <<>> \in Seq(Datagram)
    OBVIOUS
  <2>2. SaysAll(a, {m}, s)
    BY <1>4, <2>1 DEF SaysAll
  <2>3. \A f \in Fields \ {"iRI", "noReCheck", "lastAsked"} : s.p[f] = a[f]
    BY <1>3, <1>4
  <2>4. s.p.iRI <= a.iRI \/ \E d \in {m} : s.p.iRI <= d.nr
    BY <1>2, <1>3, <1>4
  <2> QED BY <1>4, <1>7, <2>1, <2>2, <2>3, <2>4 DEF Checked, Well
<1>9. Checked(a, {m}, t)
  BY <1>1, <1>4, <1>8, CheckAsks
<1> HIDE DEF t
<1>10. Effect(a, {m}, t) /\ Are(t.out, {"Conn"}) = {}
  BY <1>9, CheckedEffect
<1>11. Effect(a, {m}, OnClose(t, "closed by peer"))
  BY <1>10, ClosedEffect
<1>12. m.type = "Conn" => Effect(a, {m}, RecvConn(t, m))
  BY <1>9, RecvConnEffect
<1>13. Effect(a, {m}, RecvConnOK(t, m))
  BY <1>9, RecvConnOKEffect
<1>14. m.type = "Data" => Effect(a, {m}, RecvData(t, m))
  BY <1>9, RecvDataEffect
<1>15. m.type = "Check" => Effect(a, {m}, RecvCheck(t, m))
  BY <1>9, RecvCheckEffect
<1> QED BY <1>5, <1>10, <1>11, <1>12, <1>13, <1>14, <1>15

-----------------------------------------------------------------------------
(* The steps a computer makes on its own.                                  *)

LEMMA NothingDone ==
  ASSUME NEW a, Ready(a), NEW M \in SUBSET Datagram
  PROVE  Checked(a, M, [p |-> a, out |-> <<>>])
<1> DEFINE s == [p |-> a, out |-> <<>>]
<1>1. s = [f \in {"p", "out"} |-> s[f]] /\ s.p = a /\ s.out = <<>>
  OBVIOUS
<1> HIDE DEF s
<1>2. Len(<<>>) = 0 /\ 1 .. 0 = {} /\ <<>> \in Seq(Datagram)
  OBVIOUS
<1>3. SaysAll(a, M, s)
  BY <1>1, <1>2 DEF SaysAll
<1>4. a.iRI <= a.iRI
  BY DEF Ready, PeerType
<1>5. Checked(a, M, s)
  BY <1>1, <1>2, <1>3, <1>4 DEF Checked, Well, Ready
<1> QED BY <1>5 DEF s

\* A closed Peer takes no notice of a datagram.
LEMMA IgnoredEffect ==
  ASSUME NEW a, Ready(a), a.status = "Closed", NEW M \in SUBSET Datagram
  PROVE  Effect(a, M, [p |-> a, out |-> <<>>])
<1> DEFINE s == [p |-> a, out |-> <<>>]
<1>1. s = [f \in {"p", "out"} |-> s[f]] /\ s.p = a /\ s.out = <<>>
  OBVIOUS
<1> HIDE DEF s
<1>2. Well(s) /\ SaysAll(a, M, s) /\ s.p.iRI <= a.iRI
  <2>1. Checked(a, M, s)
    BY NothingDone DEF s
  <2>2. a.iRI <= a.iRI
    BY DEF Ready, PeerType
  <2> QED BY <1>1, <2>1, <2>2 DEF Checked
<1>3. Are(s.out, {"Data", "Check"}) = {} /\ Are(s.out, {"Conn"}) = {}
  BY <1>1 DEF Are
<1>4. a.session >= a.session /\ a.iI >= a.iI
  BY DEF Ready, PeerType
<1>5. a.I = {} /\ a.got = <<>>
  BY DEF Ready, Idle
<1>6. {r.pkt : r \in a.I} \subseteq Here(a, M)
  BY DEF Here
<1>7. Effect(a, M, s)
  BY <1>1, <1>2, <1>3, <1>4, <1>5, <1>6 DEF Effect
<1> QED BY <1>7 DEF s

LEMMA DoConnDoes ==
  ASSUME NEW a, a = [f \in Fields |-> a[f]]
  PROVE  DoConn([p |-> a, out |-> <<>>])
           = [p |-> [a EXCEPT !.status = "Conn", !.retries = ConnectRetries], out |-> Append(<<>>, Conn(a))]
<1> DEFINE s == [p |-> a, out |-> <<>>]
           v == [a EXCEPT !.status = "Conn", !.retries = ConnectRetries]
           t == [s EXCEPT !.p = v]
           u == [s EXCEPT !.p.status = "Conn", !.p.retries = ConnectRetries]
<1>1. s = [f \in {"p", "out"} |-> s[f]] /\ s.p = a /\ s.out = <<>>
  OBVIOUS
<1>2. DoConn(s) = Put(u, Conn(a))
  BY <1>1 DEF DoConn
<1> HIDE DEF s
<1>3. u = t
  BY <1>1
<1>4. t = [p |-> v, out |-> <<>>]
  BY <1>1
<1> HIDE DEF v, t, u
<1>5. Put(t, Conn(a)) = [p |-> v, out |-> Append(<<>>, Conn(a))]
  BY <1>4 DEF Put
<1> QED BY <1>2, <1>3, <1>5 DEF s, v

\* A Peer that asks for a connection has nothing to tell but that.
LEMMA AskingEffect ==
  ASSUME NEW a, Ready(a), Young(a), NEW M, NEW v, PeerType(v), Begun(v), v.status = "Conn",
         v.session # 0, v.session >= a.session, v.reason \in {a.reason, "none"},
         \A f \in {"iO", "O", "I", "got", "iI", "iRI"} : v[f] = a[f], v.iO = 0
  PROVE  Effect(a, M, [p |-> v, out |-> Append(<<>>, [type |-> "Conn", nr |-> 0])])
<1> DEFINE d == [type |-> "Conn", nr |-> 0]
           out == Append(<<>>, d)
           s == [p |-> v, out |-> out]
<1>1. d \in Datagram /\ d.type = "Conn" /\ d.nr = 0
  BY DEF Datagram
<1> HIDE DEF d
<1>2. out \in Seq(Datagram) /\ Len(out) = 1 /\ out[1] = d
  BY <1>1
<1> HIDE DEF out
<1>3. s = [f \in {"p", "out"} |-> s[f]] /\ s.p = v /\ s.out = out
  OBVIOUS
<1> HIDE DEF s
<1>4. v.iO = a.iO /\ v.O = a.O /\ v.I = a.I /\ v.got = a.got /\ v.iI = a.iI /\ v.iRI = a.iRI
  OBVIOUS
<1>5. Says(a, M, v.O, d)
  BY <1>1, <1>4 DEF Says
<1>6. SaysAll(a, M, s)
  BY <1>2, <1>3, <1>5 DEF SaysAll
<1>7. Are(s.out, {"Data", "Check"}) = {}
  BY <1>1, <1>2, <1>3 DEF Are
<1>8. ~Gone(a)
  BY DEF Young, Gone
<1>9. v.iI >= a.iI /\ v.iRI <= a.iRI
  BY <1>4 DEF PeerType
<1>10. {r.pkt : r \in v.I} \subseteq Here(a, M)
  BY <1>4 DEF Here
<1>11. Effect(a, M, s)
  BY <1>3, <1>4, <1>6, <1>7, <1>8, <1>9, <1>10 DEF Effect, Well
<1> QED BY <1>11 DEF s, out, d

\* The first Peer of a computer asks for the connection it counts from 0.
LEMMA ConnectPeerEffect ==
  ASSUME NEW a, Ready(a), a.session = 0, NEW M
  PROVE  Effect(a, M, ConnectPeer(a))
<1> DEFINE q == NewPeer(1)
           v == [q EXCEPT !.status = "Conn", !.retries = ConnectRetries]
<1>1. /\ a.status = "Closed" /\ a.iO = 0 /\ a.O = {} /\ a.got = <<>> /\ a.I = {} /\ a.iRI = 0 /\ a.iI = 0
      /\ a.session + 1 = 1
  BY DEF Ready, Idle, Begun
<1>2. /\ v = [f \in Fields |-> v[f]] /\ v.status = "Conn" /\ v.iO = 0 /\ v.O = {} /\ v.got = <<>> /\ v.I = {}
      /\ v.iRI = 0 /\ v.iI = 0 /\ v.lastAsked = 0 /\ v.start = 0 /\ v.session = 1 /\ v.reason = "none"
  BY DEF NewPeer, Fields
<1>3. ConnectPeer(a) = [p |-> v, out |-> Append(<<>>, [type |-> "Conn", nr |-> 0])]
  <2>0. q.iO = 0 /\ q = [f \in Fields |-> q[f]]
    BY DEF NewPeer, Fields
  <2>1. Conn(q) = [type |-> "Conn", nr |-> 0]
    BY <2>0 DEF Conn
  <2>2. ConnectPeer(a) = DoConn([p |-> q, out |-> <<>>])
    BY <1>1 DEF ConnectPeer
  <2> HIDE DEF q
  <2>3. DoConn([p |-> q, out |-> <<>>]) = [p |-> v, out |-> Append(<<>>, Conn(q))]
    BY <2>0, DoConnDoes
  <2> QED BY <2>1, <2>2, <2>3
<1> HIDE DEF v, q
<1>4. PeerType(v) /\ Begun(v)
  <2>1. IsFiniteSet({}) /\ <<>> \in Seq(Packet)
    BY FS_EmptySet
  <2>2. v.O \subseteq Packet /\ v.I \subseteq [pkt : Packet, have : SUBSET Nat] /\ v.got \in Seq(Packet) /\ IsFiniteSet(v.I)
    BY <1>2, <2>1
  <2>3. PeerType(v)
    <3>1. v = [f \in Fields |-> v[f]]
      BY <1>2
    <3>2. /\ v.status \in {"Closed", "Conn", "Works"} /\ v.session \in Nat /\ v.start = 0
          /\ v.iO \in Nat /\ v.iI \in Nat /\ v.iRI \in Nat /\ v.lastAsked \in Nat
      BY <1>2
    <3> QED BY <2>2, <3>1, <3>2 DEF PeerType
  <2> QED BY <1>2, <2>3 DEF Begun
<1>5. Effect(a, M, ConnectPeer(a))
  <2>1. Young(a)
    BY DEF Young
  <2>2. v.session >= a.session /\ v.reason \in {a.reason, "none"}
    BY <1>2
  <2>3. /\ v.session # 0 /\ v.iO = 0 /\ v.status = "Conn"
        /\ v.iO = a.iO /\ v.iI = a.iI /\ v.iRI = a.iRI
    BY <1>1, <1>2
  <2>5. v.O = a.O /\ v.I = a.I
    BY <1>1, <1>2
  <2>6. v.got = a.got
    BY <1>1, <1>2
  <2>4. Effect(a, M, [p |-> v, out |-> Append(<<>>, [type |-> "Conn", nr |-> 0])])
    BY <1>4, <2>1, <2>2, <2>3, <2>5, <2>6, AskingEffect
  <2> QED BY <1>3, <2>4
<1> QED BY <1>5

LEMMA DoConnEffect ==
  ASSUME NEW a, Ready(a), a.status = "Conn", NEW M, NEW retries
  PROVE  Effect(a, M, [DoConn([p |-> a, out |-> <<>>]) EXCEPT !.p.retries = retries])
<1> DEFINE v == [a EXCEPT !.status = "Conn", !.retries = retries]
           w == [a EXCEPT !.status = "Conn", !.retries = ConnectRetries]
           s == [DoConn([p |-> a, out |-> <<>>]) EXCEPT !.p.retries = retries]
<1>1. a = [f \in Fields |-> a[f]] /\ PeerType(a) /\ Begun(a) /\ a.session \in Nat \ {0}
      /\ a.iO = 0 /\ a.O = {} /\ a.got = <<>>
  BY DEF Ready, Idle, Begun, PeerType
<1>2. v = [f \in Fields |-> v[f]] /\ (\A f \in Fields \ {"retries"} : v[f] = a[f]) /\ v = [w EXCEPT !.retries = retries]
  BY <1>1 DEF Fields
<1>3. s = [p |-> v, out |-> Append(<<>>, [type |-> "Conn", nr |-> 0])]
  <2>1. Conn(a) = [type |-> "Conn", nr |-> 0]
    BY <1>1 DEF Conn
  <2>2. DoConn([p |-> a, out |-> <<>>]) = [p |-> w, out |-> Append(<<>>, Conn(a))]
    BY <1>1, DoConnDoes
  <2> HIDE DEF v, w
  <2> QED BY <1>2, <2>1, <2>2
<1> HIDE DEF v, w, s
<1>4. \A f \in {"status", "session", "start", "iO", "iI", "iRI", "lastAsked", "O", "I", "got", "reason"} : v[f] = a[f]
  BY <1>2 DEF Fields
<1>5. PeerType(v) /\ Begun(v)
  <2>1. PeerType(v)
    BY <1>1, <1>2, <1>4 DEF PeerType
  <2> QED BY <1>1, <1>4, <2>1 DEF Begun
<1>6. Young(a) /\ v.session >= a.session
  BY <1>1, <1>4 DEF Young
<1>7. Effect(a, M, s)
  BY <1>1, <1>3, <1>4, <1>5, <1>6, AskingEffect
<1> QED BY <1>7 DEF s

-----------------------------------------------------------------------------
(* The datagrams under way.                                                *)

LEMMA RestIs ==
  ASSUME NEW w \in Seq(Datagram), w # <<>>
  PROVE  /\ RemoveAt(w, 1) \in Seq(Datagram) /\ Len(RemoveAt(w, 1)) = Len(w) - 1
         /\ \A j \in 1 .. Len(w) - 1 : RemoveAt(w, 1)[j] = w[j + 1]
<1> DEFINE b == SubSeq(w, 2, Len(w))
<1>1. Len(w) \in Nat \ {0}
  BY EmptySeq, LenProperties
<1>2. RemoveAt(w, 1) = SubSeq(w, 1, 0) \o b
  BY DEF RemoveAt
<1>3. SubSeq(w, 1, 0) = <<>>
  BY <1>1
<1>4. b \in Seq(Datagram) /\ Len(b) = Len(w) - 1 /\ \A j \in 1 .. Len(w) - 1 : b[j] = w[j + 1]
  <2>1. \A i \in 2 .. Len(w) : w[i] \in Datagram
    BY <1>1, ElementOfSeq
  <2>2. /\ b \in Seq(Datagram) /\ Len(b) = IF 2 <= Len(w) THEN Len(w) - 2 + 1 ELSE 0
        /\ \A i \in 1 .. Len(w) - 2 + 1 : b[i] = w[2 + i - 1]
    BY <1>1, <2>1, SubSeqProperties
  <2>3. Len(w) - 2 + 1 = Len(w) - 1 /\ \A i \in 1 .. Len(w) - 1 : 2 + i - 1 = i + 1
    BY <1>1
  <2> HIDE DEF b
  <2>4. Len(b) = Len(w) - 1
    <3>1. Len(w) \in Nat /\ Len(w) # 0 /\ (2 <= Len(w) => Len(b) = Len(w) - 2 + 1) /\ (~(2 <= Len(w)) => Len(b) = 0)
      BY <1>1, <2>2
    <3> QED BY <3>1
  <2>5. ASSUME NEW j \in 1 .. Len(w) - 1 PROVE b[j] = w[j + 1]
    <3>1. b[j] = w[2 + j - 1]
      BY <2>2, <2>3
    <3> QED BY <2>3, <3>1
  <2> QED BY <2>2, <2>4, <2>5
<1> HIDE DEF b
<1>5. <<>> \o b = b
  BY <1>4
<1> QED BY <1>2, <1>3, <1>4, <1>5

\* What is left when the datagrams of M are handled: M is empty, or the first
\* datagram is handled, and may be repeated.
Leaves(w, M, left) == \/ M = {} /\ left = w
                      \/ w # <<>> /\ M \in {{}, {w[1]}} /\ left \in {w, RemoveAt(w, 1)}

\* A later place in the queue.
LEMMA LeftIs ==
  ASSUME NEW w \in Seq(Datagram), NEW M, NEW left, Leaves(w, M, left)
  PROVE  /\ left \in Seq(Datagram) /\ Len(left) \in {Len(w), Len(w) - 1} /\ Len(w) \in Nat
         /\ \A j \in 1 .. Len(left) : j + (Len(w) - Len(left)) \in 1 .. Len(w)
                                      /\ left[j] = w[j + (Len(w) - Len(left))]
         /\ (w = <<>> => left = <<>> /\ M = {}) /\ M \subseteq Datagram
<1>1. Len(w) \in Nat
  BY LenProperties
<1>2. CASE left = w
  <2>1. M \subseteq Datagram /\ (w = <<>> => M = {})
    <3>1. w # <<>> => 1 \in 1 .. Len(w)
      BY <1>1, EmptySeq
    <3>2. w # <<>> => w[1] \in Datagram
      BY <3>1, ElementOfSeq
    <3> QED BY <3>2 DEF Leaves
  <2> QED BY <1>1, <1>2, <2>1
<1>3. CASE w # <<>> /\ M \in {{}, {w[1]}} /\ left = RemoveAt(w, 1)
  <2>1. Len(w) \in Nat \ {0}
    BY <1>3, EmptySeq, LenProperties
  <2>2. left \in Seq(Datagram) /\ Len(left) = Len(w) - 1 /\ \A j \in 1 .. Len(w) - 1 : left[j] = w[j + 1]
    BY <1>3, RestIs
  <2>3. w[1] \in Datagram
    BY <2>1, ElementOfSeq
  <2>4. Len(w) - Len(left) = 1
    BY <2>1, <2>2
  <2>5. \A j \in 1 .. Len(left) : j + 1 \in 1 .. Len(w) /\ left[j] = w[j + 1]
    BY <2>1, <2>2
  <2> QED BY <1>1, <1>3, <2>2, <2>3, <2>4, <2>5
<1> QED BY <1>2, <1>3 DEF Leaves

\* The Peer that is left at the end of a step.
LEMMA FreeIs ==
  ASSUME NEW p, PeerType(p), Begun(p), p.session = 0 => p.status = "Closed"
  PROVE  LET q == OnShareFree(p) IN
         /\ Ready(q) /\ q.session = p.session /\ q.status = p.status /\ q.reason = p.reason
         /\ p.I = {} => q.I = {}
         /\ p.got = <<>> => q.got = <<>>
         /\ p.status # "Closed" => q = p
<1>1. CASE p.status # "Closed"
  <2>1. OnShareFree(p) = p
    BY <1>1 DEF OnShareFree
  <2> QED BY <1>1, <2>1 DEF Ready, Idle
<1>2. CASE p.status = "Closed"
  <2> DEFINE q == [NewPeer(p.session) EXCEPT !.status = "Closed", !.reason = p.reason]
  <2>1. OnShareFree(p) = q
    BY <1>2 DEF OnShareFree
  <2>2. /\ q = [f \in Fields |-> q[f]] /\ q.status = "Closed" /\ q.session = p.session /\ q.reason = p.reason
        /\ q.start = 0 /\ q.iO = 0 /\ q.iI = 0 /\ q.iRI = 0 /\ q.lastAsked = 0
    BY DEF NewPeer, Fields
  <2>3. q.O = {} /\ q.I = {} /\ q.got = <<>>
    BY DEF NewPeer
  <2> HIDE DEF q
  <2>4. /\ q.status \in {"Closed", "Conn", "Works"} /\ q.session \in Nat /\ q.start = 0
        /\ q.iO \in Nat /\ q.iI \in Nat /\ q.iRI \in Nat /\ q.lastAsked \in Nat
    BY <2>2 DEF PeerType
  <2>5. q.O \subseteq Packet /\ q.I \subseteq [pkt : Packet, have : SUBSET Nat] /\ q.got \in Seq(Packet) /\ IsFiniteSet(q.I)
    BY <2>3, FS_EmptySet
  <2>6. q = [f \in Fields |-> q[f]]
    BY <2>2
  <2>7. PeerType(q)
    BY <2>4, <2>5, <2>6 DEF PeerType
  <2>8. q.iO = 0 /\ q.iI = 0 /\ q.iRI = 0 /\ q.status = "Closed"
    BY <2>2
  <2>9. Ready(q)
    BY <2>3, <2>7, <2>8 DEF Ready, Begun, Idle
  <2> QED BY <1>2, <2>1, <2>2, <2>3, <2>9
<1> QED BY <1>1, <1>2

\* What a Peer a may have sent when a step s ends.
Sends(a, s) ==
    /\ s.out \in Seq(Datagram) /\ s.p.session \in Nat /\ s.p.session >= a.session
    /\ s.p.session = 0 => s.out = <<>>
    /\ s.p.status = "Conn" => Young(a)
    /\ Are(s.out, {"Data", "Check"}) # {} => ~Young(s.p)
    /\ Are(s.out, {"Conn"}) # {} => Young(a) /\ s.p.status = "Conn"

LEMMA FlowOut ==
  ASSUME NEW a, a.session \in Nat, NEW w, NEW b, Flow(a, w, b), NEW s, Sends(a, s),
         NEW q, q.session = s.p.session, q.status = s.p.status
  PROVE  Flow(q, w \o s.out, b)
<1> DEFINE out == s.out
           v == w \o out
<1>1. /\ v \in Seq(Datagram) /\ Len(w) \in Nat
      /\ \A i \in 1 .. Len(v) : \/ i \in 1 .. Len(w) /\ v[i] = w[i]
                                \/ i > Len(w) /\ i - Len(w) \in 1 .. Len(out) /\ v[i] = out[i - Len(w)]
  BY ConcatIs DEF Flow, Sends
<1>2. Young(q) => Young(a)
  BY DEF Young, Sends
<1>3. ASSUME NEW types, NEW i \in Are(v, types)
      PROVE  i \in Are(w, types) \/ (i > Len(w) /\ Are(out, types) # {})
  <2>1. i \in 1 .. Len(v) /\ v[i].type \in types
    BY DEF Are
  <2> HIDE DEF v
  <2>2. CASE i \in 1 .. Len(w) /\ v[i] = w[i]
    BY <2>1, <2>2 DEF Are
  <2>3. CASE i > Len(w) /\ i - Len(w) \in 1 .. Len(out) /\ v[i] = out[i - Len(w)]
    <3>1. i - Len(w) \in Are(out, types)
      BY <2>1, <2>3 DEF Are
    <3> QED BY <2>3, <3>1
  <2> QED BY <1>1, <2>1, <2>2, <2>3
<1>4. q.session = 0 => v = <<>>
  <2>1. q.session = 0 => w = <<>> /\ out = <<>>
    BY DEF Sends, Flow
  <2>2. <<>> \o <<>> = <<>>
    OBVIOUS
  <2> QED BY <2>1, <2>2
<1> HIDE DEF v, out
<1>5. Young(q) => Are(v, {"Data", "Check"}) = {}
  <2>1. Young(q) => Young(s.p)
    BY DEF Young
  <2>2. Young(q) => Are(w, {"Data", "Check"}) = {}
    BY <1>2 DEF Flow
  <2>3. Young(q) => Are(out, {"Data", "Check"}) = {}
    BY <2>1 DEF Sends, out
  <2> QED BY <1>3, <2>2, <2>3
<1>6. \A i \in Are(v, {"Conn"}), j \in Are(v, {"Data"}) : i < j
  <2> SUFFICES ASSUME NEW i \in Are(v, {"Conn"}), NEW j \in Are(v, {"Data"}) PROVE i < j
    OBVIOUS
  <2>1. i \in 1 .. Len(v) /\ j \in 1 .. Len(v)
    BY DEF Are
  <2>2. CASE i \in Are(w, {"Conn"}) /\ j \in Are(w, {"Data"})
    BY <2>2 DEF Flow
  <2>3. CASE i \in Are(w, {"Conn"}) /\ j > Len(w)
    <3>1. i \in 1 .. Len(w)
      BY <2>3 DEF Are
    <3> QED BY <1>1, <2>1, <2>3, <3>1
  <2>4. CASE Are(out, {"Conn"}) # {}
    <3>1. Young(a) /\ Young(s.p)
      BY <2>4 DEF Sends, out, Young
    <3>2. Are(w, {"Data", "Check"}) = {} /\ Are(out, {"Data", "Check"}) = {}
      BY <3>1 DEF Flow, Sends, out
    <3>3. Are(w, {"Data"}) = {} /\ Are(out, {"Data"}) = {}
      BY <3>2 DEF Are
    <3> QED BY <1>3, <3>3
  <2> QED BY <1>3, <2>2, <2>3, <2>4
<1>7. Young(q) \/ Are(v, {"Conn"}) # {} => b.I = {} /\ b.got = <<>>
  <2>1. Are(v, {"Conn"}) # {} => Are(w, {"Conn"}) # {} \/ Young(a)
    BY <1>3 DEF Sends, out
  <2> QED BY <1>2, <2>1 DEF Flow
<1>8. v \in Seq(Datagram)
  BY <1>1
<1>9. Flow(q, v, b)
  BY <1>4, <1>5, <1>6, <1>7, <1>8 DEF Flow
<1> QED BY <1>9 DEF v, out

LEMMA FlowIn ==
  ASSUME NEW a, NEW w, NEW b, Flow(a, w, b), NEW M, NEW left, Leaves(w, M, left),
         NEW q, b.I = {} /\ b.got = <<>> /\ (\A m \in M : m.type # "Data") => q.I = {} /\ q.got = <<>>
  PROVE  Flow(a, left, q)
<1> DEFINE k == Len(w) - Len(left)
<1>1. w \in Seq(Datagram)
  BY DEF Flow
<1>2. /\ left \in Seq(Datagram) /\ k \in {0, 1} /\ Len(w) \in Nat /\ Len(left) \in Nat
      /\ \A j \in 1 .. Len(left) : j + k \in 1 .. Len(w) /\ left[j] = w[j + k]
      /\ (w = <<>> => left = <<>>)
  BY <1>1, LeftIs, LenProperties
<1> HIDE DEF k
<1>3. ASSUME NEW types, NEW j \in Are(left, types) PROVE j \in 1 .. Len(left) /\ j + k \in Are(w, types)
  BY <1>2 DEF Are
<1>4. a.session = 0 => left = <<>>
  BY <1>2 DEF Flow
<1>5. Young(a) => Are(left, {"Data", "Check"}) = {}
  BY <1>3 DEF Flow
<1>6. \A i \in Are(left, {"Conn"}), j \in Are(left, {"Data"}) : i < j
  <2> SUFFICES ASSUME NEW i \in Are(left, {"Conn"}), NEW j \in Are(left, {"Data"}) PROVE i < j
    OBVIOUS
  <2>1. i + k < j + k
    BY <1>3 DEF Flow
  <2>2. i \in Nat /\ j \in Nat
    BY <1>3
  <2> QED BY <1>2, <2>1, <2>2
<1>7. ASSUME Young(a) \/ Are(left, {"Conn"}) # {} PROVE q.I = {} /\ q.got = <<>>
  <2>1. b.I = {} /\ b.got = <<>>
    BY <1>3, <1>7 DEF Flow
  <2>2. ASSUME NEW m \in M, m.type = "Data" PROVE FALSE
    <3>1. w # <<>> /\ m = w[1]
      BY DEF Leaves
    <3>2. 1 \in Are(w, {"Data"}) /\ 1 \in Are(w, {"Data", "Check"})
      <4>1. 1 \in 1 .. Len(w)
        BY <1>1, <1>2, <3>1, EmptySeq
      <4> QED BY <2>2, <3>1, <4>1 DEF Are
    <3>3. CASE Young(a)
      BY <3>2, <3>3 DEF Flow
    <3>4. CASE Are(left, {"Conn"}) # {}
      <4>1. PICK i \in Are(left, {"Conn"}) : TRUE
        BY <3>4
      <4>2. i \in 1 .. Len(left) /\ i + k \in Are(w, {"Conn"})
        BY <1>3
      <4>3. i + k < 1
        BY <3>2, <4>2 DEF Flow
      <4> QED BY <1>2, <4>2, <4>3
    <3> QED BY <1>7, <3>3, <3>4
  <2> QED BY <2>1, <2>2
<1> QED BY <1>2, <1>4, <1>5, <1>6, <1>7 DEF Flow

-----------------------------------------------------------------------------
(* The computers.                                                          *)

LEMMA StepFlows ==
  ASSUME OneConnection, NEW n \in Computers, NEW s, NEW left, Step(n, s, left),
         NEW q, q = OnShareFree(s.p), Ready(q),
         Flow(peer[Other(n)], left, q), Flow(q, net[Other(n)] \o s.out, peer[Other(n)])
  PROVE  OneConnection'
<1> DEFINE o == Other(n)
<1>1. o \in Computers /\ o # n /\ Other(o) = n /\ \A m \in Computers : m = n \/ m = o
  BY OtherIs
<1>2. peer' = [peer EXCEPT ![n] = q] /\ net' = [net EXCEPT ![n] = left, ![o] = @ \o s.out]
  BY DEF Step
<1> HIDE DEF o
<1>3. /\ peer = [k \in Computers |-> peer[k]] /\ net = [k \in Computers |-> net[k]]
      /\ Ready(peer[o])
  BY <1>1 DEF OneConnection, Ready
<1>4. /\ peer' = [k \in Computers |-> peer'[k]] /\ net' = [k \in Computers |-> net'[k]]
      /\ peer'[n] = q /\ peer'[o] = peer[o] /\ net'[n] = left /\ net'[o] = net[o] \o s.out
  BY <1>1, <1>2, <1>3
<1>5. Flow(peer'[Other(n)], net'[n], peer'[n]) /\ Flow(peer'[Other(o)], net'[o], peer'[o])
  BY <1>1, <1>4 DEF o
<1>6. \A k \in Computers : Ready(peer'[k]) /\ Flow(peer'[Other(k)], net'[k], peer'[k])
  <2> SUFFICES ASSUME NEW k \in Computers PROVE Ready(peer'[k]) /\ Flow(peer'[Other(k)], net'[k], peer'[k])
    OBVIOUS
  <2>1. k = n \/ k = o
    BY <1>1
  <2> QED BY <1>3, <1>4, <1>5, <2>1
<1> QED BY <1>4, <1>6 DEF OneConnection, Ready

\* A step that handles the datagrams of M, or none.
LEMMA StepKeepsOne ==
  ASSUME OneConnection, NEW n \in Computers, NEW M, NEW s, NEW left, Step(n, s, left),
         Leaves(net[n], M, left), Effect(peer[n], M, s)
  PROVE  OneConnection'
<1> DEFINE o == Other(n)
           a == peer[n]
           q == OnShareFree(s.p)
<1>1. o \in Computers /\ Other(o) = n
  BY OtherIs
<1>2. Ready(a) /\ Flow(peer[o], net[n], a) /\ Flow(a, net[o], peer[o])
  BY <1>1 DEF OneConnection, Ready
<1>3. a.session \in Nat
  BY <1>2 DEF Ready, PeerType
<1> HIDE DEF o, a
<1>4. Well(s) /\ SaysAll(a, M, s) /\ (s.p.session = 0 => s.p.status = "Closed" /\ s.out = <<>>)
      /\ (a.I = {} /\ a.got = <<>> /\ (\A m \in M : m.type # "Data") => s.p.I = {} /\ s.p.got = <<>>)
  BY DEF Effect, a
<1>5. /\ Ready(q) /\ q.session = s.p.session /\ q.status = s.p.status
      /\ (s.p.I = {} => q.I = {}) /\ (s.p.got = <<>> => q.got = <<>>)
  BY <1>4, FreeIs DEF Well
<1>6. Sends(a, s)
  <2>1. s.out \in Seq(Datagram) /\ s.p.session \in Nat
    BY <1>4 DEF Well, SaysAll, PeerType
  <2>2. /\ s.p.session >= a.session /\ (s.p.status = "Conn" => Young(a))
        /\ Are(s.out, {"Data", "Check"}) # {} => ~Young(s.p)
        /\ Are(s.out, {"Conn"}) # {} => Young(a) /\ s.p.status = "Conn"
    BY DEF Effect, a
  <2> QED BY <1>4, <2>1, <2>2 DEF Sends
<1> HIDE DEF q
<1>7. Flow(q, net[o] \o s.out, peer[o])
  BY <1>2, <1>3, <1>5, <1>6, FlowOut
<1>8. Flow(peer[o], left, q)
  <2>1. a.I = {} /\ a.got = <<>> /\ (\A m \in M : m.type # "Data") => q.I = {} /\ q.got = <<>>
    BY <1>4, <1>5
  <2> QED BY <1>2, <2>1, FlowIn DEF a
<1> QED BY <1>5, <1>7, <1>8, StepFlows DEF o, q

LEMMA SendKeepsOne ==
  ASSUME OneConnection, OnePeerEach, NEW n \in Computers, Send(n)
  PROVE  OneConnection'
<1> DEFINE o == Other(n)
           a == peer[n]
<1>1. o \in Computers /\ Other(o) = n
  BY OtherIs
<1>2. Ready(a) /\ Flow(peer[o], net[n], a) /\ Flow(a, net[o], peer[o])
  BY <1>1 DEF OneConnection, Ready
<1>3. a = [f \in Fields |-> a[f]] /\ PeerType(a) /\ Begun(a) /\ a.session = 1 /\ a.start = 0 /\ a.status = "Works"
  <2>1. a.status = "Works" /\ a.session <= 1
    BY DEF Send, OnePeerEach
  <2>2. PeerType(a) /\ Begun(a) /\ (a.session = 0 => a.status = "Closed")
    BY <1>2 DEF Ready, Idle
  <2>3. a = [f \in Fields |-> a[f]] /\ a.start = 0 /\ a.session \in Nat
    BY <2>2 DEF PeerType
  <2>4. a.session = 1
    BY <2>1, <2>2, <2>3
  <2> QED BY <2>1, <2>2, <2>3, <2>4
<1>4. PICK cnt \in Sizes :
        LET pkt == [nr |-> a.iO, cnt |-> cnt, from |-> <<a.session, a.start>>]
            all == a.O \cup {pkt}
            kept == IF Cardinality(all) <= MaxBacklog THEN all
                    ELSE {q \in all : \E r \in all : r.nr < q.nr}
        IN  Step(n, [p |-> [a EXCEPT !.O = kept, !.iO = @ + cnt],
                     out |-> [i \in 1 .. cnt |-> Fragment(pkt, pkt.nr + i - 1)]], net[n])
  BY DEF Send
<1> DEFINE pkt == [nr |-> a.iO, cnt |-> cnt, from |-> <<a.session, a.start>>]
           all == a.O \cup {pkt}
           kept == IF Cardinality(all) <= MaxBacklog THEN all
                   ELSE {q \in all : \E r \in all : r.nr < q.nr}
           v == [a EXCEPT !.O = kept, !.iO = @ + cnt]
           out == [i \in 1 .. cnt |-> Fragment(pkt, pkt.nr + i - 1)]
           s == [p |-> v, out |-> out]
<1>5. cnt \in Nat \ {0}
  BY Limits
<1>6. pkt \in Packet /\ pkt.nr = a.iO /\ pkt.nr \in Nat
  BY <1>3, <1>5 DEF Packet, PeerType
<1> HIDE DEF a, o
<1>7. /\ v = [f \in Fields |-> v[f]] /\ v.O = kept /\ v.iO = a.iO + cnt
      /\ \A f \in Fields \ {"O", "iO"} : v[f] = a[f]
  BY <1>3 DEF Fields
<1>8. s = [f \in {"p", "out"} |-> s[f]] /\ s.p = v /\ s.out = out
  OBVIOUS
<1> HIDE DEF v, kept
<1>9. \A f \in {"status", "session", "start", "iI", "iRI", "lastAsked", "I", "got", "reason"} : v[f] = a[f]
  BY <1>7 DEF Fields
<1>10. PeerType(v) /\ Begun(v)
  <2>1. kept \subseteq Packet
    <3>1. kept \subseteq a.O \cup {pkt}
      BY DEF kept
    <3> HIDE DEF kept, pkt
    <3> QED BY <1>3, <1>6, <3>1 DEF PeerType
  <2>2. v.iO \in Nat
    BY <1>3, <1>5, <1>7 DEF PeerType
  <2>3. PeerType(v)
    BY <1>3, <1>7, <1>9, <2>1, <2>2 DEF PeerType
  <2> QED BY <1>3, <1>9, <2>3 DEF Begun
<1>11. out \in Seq(Datagram) /\ \A i \in 1 .. Len(out) : out[i].type = "Data"
  <2>1. \A i \in 1 .. cnt : out[i] \in Datagram /\ out[i].type = "Data"
    BY <1>5, <1>6 DEF Fragment, Datagram
  <2> HIDE DEF pkt
  <2>2. out \in Seq(Datagram) /\ Len(out) = cnt
    BY <1>5, <2>1, IsASeq
  <2> QED BY <2>1, <2>2
<1> HIDE DEF s, out
<1>12. v.status = "Works" /\ v.session = 1
  BY <1>3, <1>9
<1>13. OnShareFree(s.p) = v
  BY <1>8, <1>12 DEF OnShareFree
<1>14. Sends(a, s)
  <2>1. Are(s.out, {"Conn"}) = {} /\ ~Young(v)
    BY <1>8, <1>11, <1>12 DEF Are, Young
  <2> QED BY <1>3, <1>8, <1>11, <1>12, <2>1 DEF Sends
<1>15. Flow(v, net[o] \o s.out, peer[o])
  BY <1>2, <1>3, <1>8, <1>14, FlowOut
<1>16. Flow(peer[o], net[n], v)
  <2>1. a.I = {} /\ a.got = <<>> /\ (\A m \in {} : m.type # "Data") => v.I = {} /\ v.got = <<>>
    BY <1>9
  <2>2. Leaves(net[n], {}, net[n])
    BY DEF Leaves
  <2> QED BY <1>2, <2>1, <2>2, FlowIn
<1>17. Step(n, s, net[n])
  BY <1>4 DEF s, v, out, kept
<1>18. Ready(v)
  BY <1>10, <1>12 DEF Ready, Idle
<1> QED BY <1>13, <1>15, <1>16, <1>17, <1>18, StepFlows DEF o

LEMMA AnotherSession ==
  ASSUME NEW a, a.session \in Nat
  PROVE  OnShareFree(ConnectPeer(a).p).session = a.session + 1
<1> DEFINE q == NewPeer(a.session + 1)
<1>1. q.session = a.session + 1 /\ q = [f \in Fields |-> q[f]]
  BY DEF NewPeer, Fields
<1> HIDE DEF q
<1> DEFINE v == [q EXCEPT !.status = "Conn", !.retries = ConnectRetries]
<1>2. ConnectPeer(a).p = v
  <2>1. ConnectPeer(a) = DoConn([p |-> q, out |-> <<>>])
    BY DEF ConnectPeer, q
  <2>2. DoConn([p |-> q, out |-> <<>>]) = [p |-> v, out |-> Append(<<>>, Conn(q))]
    BY <1>1, DoConnDoes
  <2> HIDE DEF v
  <2> QED BY <2>1, <2>2
<1>3. v.status = "Conn" /\ v.session = a.session + 1
  BY <1>1 DEF Fields
<1> QED BY <1>2, <1>3 DEF OnShareFree

\* A step that handles a datagram, or none.
Handles(n) == \E M, s, left : Leaves(net[n], M, left) /\ Effect(peer[n], M, s) /\ Step(n, s, left)

LEMMA OwnStep ==
  ASSUME NEW n \in Computers, NEW s, Step(n, s, net[n]), Effect(peer[n], {}, s)
  PROVE  Handles(n)
BY DEF Handles, Leaves

LEMMA StepHandles ==
  ASSUME ~Reorder, OneConnection, OnePeerEach, OnePeerEach', NEW n \in Computers,
         Connect(n) \/ UserClose(n) \/ OnTimeout(n) \/ DoCheck(n) \/ Receive(n) \/ Duplicate(n)
  PROVE  Handles(n)
<1> USE DEF Now
<1>1. Ready(peer[n]) /\ Flow(peer[Other(n)], net[n], peer[n])
  BY DEF OneConnection, Ready
<1>3. ASSUME NEW s, s = ConnectPeer(peer[n]), NEW left, Step(n, s, left)
      PROVE  peer[n].session = 0
  <2>1. peer' = [peer EXCEPT ![n] = OnShareFree(s.p)] /\ peer'[n] = OnShareFree(s.p)
    BY <1>3 DEF Step, OneConnection
  <2>2. peer[n].session \in Nat
    BY <1>1 DEF Ready, PeerType
  <2>3. OnShareFree(s.p).session = peer[n].session + 1
    BY <1>3, <2>2, AnotherSession
  <2>4. OnShareFree(s.p).session <= 1
    BY <2>1 DEF OnePeerEach
  <2> QED BY <2>2, <2>3, <2>4
<1>4. ASSUME Connect(n) PROVE Handles(n)
  <2>1. Step(n, ConnectPeer(peer[n]), net[n])
    BY <1>4 DEF Connect
  <2>2. Effect(peer[n], {}, ConnectPeer(peer[n]))
    BY <1>1, <1>3, <2>1, ConnectPeerEffect
  <2> QED BY <2>1, <2>2, OwnStep
<1>5. Checked(peer[n], {}, Now(n)) /\ Now(n).out = <<>>
  BY <1>1, NothingDone
<1>6. ASSUME peer[n].status # "Closed", NEW why \in {"closed", "connection timeout"}
      PROVE  Effect(peer[n], {}, Close(Now(n), why))
  <2>1. Effect(peer[n], {}, Now(n)) /\ Are(Now(n).out, {"Conn"}) = {}
    BY <1>1, <1>5, <1>6, CheckedEffect
  <2>2. why # "starvation"
    BY <1>6
  <2> QED BY <1>1, <1>6, <2>1, <2>2, ClosedEffect
<1>7. ASSUME UserClose(n) PROVE Handles(n)
  <2>1. Step(n, Close(Now(n), "closed"), net[n]) /\ peer[n].status # "Closed"
    BY <1>7 DEF UserClose
  <2> QED BY <1>6, <2>1, OwnStep
<1>8. ASSUME OnTimeout(n) PROVE Handles(n)
  <2>1. peer[n].status = "Conn"
    BY <1>8 DEF OnTimeout, MayTimeOut
  <2> DEFINE again == [DoConn([p |-> peer[n], out |-> <<>>]) EXCEPT !.p.retries = peer[n].retries - 1]
  <2>2. Effect(peer[n], {}, again)
    BY <1>1, <2>1, DoConnEffect
  <2>3. Effect(peer[n], {}, Close(Now(n), "connection timeout"))
    BY <1>6, <2>1
  <2>4. Step(n, again, net[n]) \/ Step(n, Close(Now(n), "connection timeout"), net[n])
    BY <1>8 DEF OnTimeout
  <2> HIDE DEF again
  <2> QED BY <2>2, <2>3, <2>4, OwnStep
<1>9. ASSUME DoCheck(n) PROVE Handles(n)
  <2>1. peer[n].status # "Closed" /\ Step(n, Check(Now(n), TRUE), net[n])
    BY <1>9 DEF DoCheck, MayCheck
  <2>2. PeerType(peer[n])
    BY <1>1 DEF Ready
  <2>3. Checked(peer[n], {}, Check(Now(n), TRUE))
    BY <1>5, <2>2, CheckAsks
  <2>4. Effect(peer[n], {}, Check(Now(n), TRUE))
    BY <1>1, <2>1, <2>3, CheckedEffect
  <2> QED BY <2>1, <2>4, OwnStep
<1>10. ASSUME NEW i \in Arriving(n), NEW left, left \in {net[n], RemoveAt(net[n], i)},
              Step(n, OnPacket(peer[n], net[n][i]), left)
       PROVE  Handles(n)
  <2> DEFINE m == net[n][1]
             a == peer[n]
  <2>1. i = 1 /\ 1 \in 1 .. Len(net[n])
    BY <1>10 DEF Arriving
  <2>2. Ready(a) /\ Flow(peer[Other(n)], net[n], a) /\ net[n] \in Seq(Datagram)
    BY <1>1 DEF Flow
  <2>3. m \in Datagram /\ net[n] # <<>>
    BY <2>1, <2>2, ElementOfSeq, EmptySeq
  <2>4. m.type = "Conn" => a.I = {} /\ a.got = <<>>
    BY <2>1, <2>2 DEF Flow, Are
  <2>5. Step(n, OnPacket(a, m), left) /\ Leaves(net[n], {m}, left)
    BY <1>10, <2>1, <2>3 DEF Leaves
  <2>6. Effect(a, {m}, OnPacket(a, m))
    <3>1. CASE a.status # "Closed"
      BY <2>2, <2>3, <2>4, <3>1, OnRecvEffect DEF OnPacket
    <3>2. CASE a.status = "Closed" /\ m.type # "Conn"
      BY <2>2, <2>3, <3>2, IgnoredEffect DEF OnPacket
    <3>3. CASE a.status = "Closed" /\ m.type = "Conn"
      <4>1. OnPacket(a, m) = ConnectPeer(a)
        BY <3>3 DEF OnPacket
      <4>2. a.session = 0
        BY <1>3, <2>5, <4>1
      <4> QED BY <2>2, <4>1, <4>2, ConnectPeerEffect
    <3> QED BY <3>1, <3>2, <3>3
  <2> QED BY <2>5, <2>6 DEF Handles
<1>11. ASSUME Receive(n) \/ Duplicate(n) PROVE Handles(n)
  BY <1>10, <1>11 DEF Receive, Duplicate
<1> QED BY <1>4, <1>7, <1>8, <1>9, <1>11

LEMMA NextKeepsOne ==
  ASSUME ~Reorder, OneConnection, OnePeerEach, OnePeerEach', [Next]_vars
  PROVE  OneConnection'
<1>1. \A n \in Computers : Ready(peer[n]) /\ Flow(peer[Other(n)], net[n], peer[n])
  BY DEF OneConnection, Ready
<1>2. CASE UNCHANGED vars
  BY <1>2 DEF OneConnection, vars
<1>3. ASSUME NEW n \in Computers, Handles(n) PROVE OneConnection'
  BY <1>3, StepKeepsOne DEF Handles
<1>4. ASSUME NEW n \in Computers, ReCheckAllowed(n) PROVE OneConnection'
  <2> DEFINE p == peer[n]
             q == [p EXCEPT !.noReCheck = FALSE]
  <2>1. Ready(p) /\ p = [f \in Fields |-> p[f]]
    BY <1>1 DEF Ready, PeerType
  <2>2. peer' = [peer EXCEPT ![n] = q] /\ net' = net
    BY <1>4 DEF ReCheckAllowed
  <2> HIDE DEF p
  <2>3. q = [f \in Fields |-> q[f]] /\ \A f \in Fields \ {"noReCheck"} : q[f] = p[f]
    BY <2>1 DEF Fields
  <2> HIDE DEF q
  <2>4. \A f \in {"status", "session", "start", "iO", "iI", "iRI", "lastAsked", "O", "I", "got"} : q[f] = p[f]
    BY <2>3 DEF Fields
  <2>5. Ready(q)
    BY <2>1, <2>3, <2>4 DEF Ready, PeerType, Begun, Idle
  <2>6. \A w, b : (Flow(p, w, b) => Flow(q, w, b)) /\ (Flow(b, w, p) => Flow(b, w, q))
    BY <2>4 DEF Flow, Young
  <2>7. \A k \in Computers : peer'[k] = peer[k] \/ (k = n /\ peer'[k] = q)
    <3>1. peer = [k \in Computers |-> peer[k]]
      BY DEF OneConnection
    <3> QED BY <2>2, <3>1
  <2>8. /\ peer' = [k \in Computers |-> peer'[k]] /\ net' = [k \in Computers |-> net'[k]]
    BY <2>2 DEF OneConnection
  <2>9. ASSUME NEW k \in Computers PROVE Ready(peer'[k]) /\ Flow(peer'[Other(k)], net'[k], peer'[k])
    <3>1. Ready(peer[k]) /\ Flow(peer[Other(k)], net'[k], peer[k]) /\ Other(k) \in Computers /\ Other(k) # k
      BY <1>1, <2>2, OtherIs
    <3>2. CASE k = n
      BY <2>5, <2>6, <2>7, <3>1, <3>2 DEF p
    <3>3. CASE Other(k) = n
      BY <2>5, <2>6, <2>7, <3>1, <3>3 DEF p
    <3> QED BY <2>7, <3>1, <3>2, <3>3
  <2> QED BY <2>8, <2>9 DEF OneConnection, Ready
<1>5. ASSUME NEW n \in Computers, Lose(n) PROVE OneConnection'
  <2>1. PICK i \in Arriving(n) : net' = [net EXCEPT ![n] = RemoveAt(@, i)]
    BY <1>5 DEF Lose
  <2>2. i = 1 /\ 1 \in 1 .. Len(net[n]) /\ peer' = peer
    BY <1>5 DEF Arriving, Lose
  <2>3. Flow(peer[Other(n)], net[n], peer[n])
    BY <1>1
  <2>4. Leaves(net[n], {}, RemoveAt(net[n], 1))
    <3>1. net[n] # <<>>
      BY <2>2, <2>3, EmptySeq DEF Flow
    <3> QED BY <3>1 DEF Leaves
  <2>5. Flow(peer[Other(n)], RemoveAt(net[n], 1), peer[n])
    BY <2>3, <2>4, FlowIn
  <2> QED BY <2>1, <2>2, <2>5 DEF OneConnection
<1>6. ASSUME NEW n \in Computers, Send(n) PROVE OneConnection'
  BY <1>6, SendKeepsOne
<1> QED BY <1>2, <1>3, <1>4, <1>5, <1>6, StepHandles DEF Next

LEMMA InitOne == Init => OneConnection
<1> SUFFICES ASSUME Init PROVE OneConnection
  OBVIOUS
<1> DEFINE p == [NewPeer(0) EXCEPT !.status = "Closed"]
<1>1. /\ p = [f \in Fields |-> p[f]] /\ p.status = "Closed" /\ p.session = 0 /\ p.start = 0
      /\ p.iO = 0 /\ p.iI = 0 /\ p.iRI = 0 /\ p.lastAsked = 0
  BY DEF NewPeer, Fields
<1>2. p.O = {} /\ p.I = {} /\ p.got = <<>>
  BY DEF NewPeer
<1> HIDE DEF p
<1>3. PeerType(p) /\ Begun(p)
  <2>1. /\ p.status \in {"Closed", "Conn", "Works"} /\ p.session \in Nat /\ p.start = 0
        /\ p.iO \in Nat /\ p.iI \in Nat /\ p.iRI \in Nat /\ p.lastAsked \in Nat
    BY <1>1
  <2>2. p.O \subseteq Packet /\ p.I \subseteq [pkt : Packet, have : SUBSET Nat] /\ p.got \in Seq(Packet) /\ IsFiniteSet(p.I)
    BY <1>2, FS_EmptySet
  <2>3. p = [f \in Fields |-> p[f]] /\ p.iI = 0 /\ p.status # "Conn"
    BY <1>1
  <2>4. PeerType(p)
    BY <2>1, <2>2, <2>3 DEF PeerType
  <2> QED BY <1>2, <2>3, <2>4 DEF Begun
<1> DEFINE q == OnShareFree(p)
<1>4. Ready(q) /\ q.I = {} /\ q.got = <<>>
  BY <1>1, <1>2, <1>3, FreeIs
<1>5. peer = [n \in Computers |-> q] /\ net = [n \in Computers |-> <<>>]
  BY DEF Init, p
<1> HIDE DEF q
<1>6. Flow(q, <<>>, q)
  <2>1. <<>> \in Seq(Datagram) /\ \A types : Are(<<>>, types) = {}
    BY DEF Are
  <2> QED BY <1>4, <2>1 DEF Flow
<1>7. \A n \in Computers : Other(n) \in Computers
  BY OtherIs
<1>8. ASSUME NEW n \in Computers PROVE peer[n] = q /\ peer[Other(n)] = q /\ net[n] = <<>>
  BY <1>5, <1>7
<1>9. peer = [n \in Computers |-> peer[n]] /\ net = [n \in Computers |-> net[n]]
  BY <1>5
<1> QED BY <1>4, <1>6, <1>8, <1>9 DEF OneConnection, Ready

LEMMA OneConnectionGives ==
  ASSUME OneConnection, NEW n \in Computers
  PROVE  LET got == peer[n].got IN
           /\ got # <<>> => got[1].nr = got[1].from[2]
           /\ \A i \in 1 .. Len(got) : got[i].from = got[1].from
<1> DEFINE got == peer[n].got
<1>1. got \in Seq(Packet) /\ (got # <<>> => got[1].nr = 0)
  BY DEF OneConnection, PeerType, Begun
<1> HIDE DEF got
<1>2. \A i \in 1 .. Len(got) : got[i].from = <<1, 0>>
  <2>1. \A k \in Packet : k.from = <<1, 0>>
    BY DEF Packet
  <2> HIDE DEF Packet
  <2> QED BY <1>1, <2>1, ElementOfSeq
<1>3. \A i \in 1 .. Len(got) : 1 \in 1 .. Len(got)
  BY <1>1, LenProperties
<1>4. got # <<>> => 1 \in 1 .. Len(got)
  BY <1>1, EmptySeq, LenProperties
<1>5. <<1, 0>>[2] = 0
  OBVIOUS
<1> QED BY <1>1, <1>2, <1>3, <1>4, <1>5 DEF got

\* When the network keeps the order of the datagrams, however many it loses or
\* repeats, and each user connects at most once, the user gets the packets of
\* the one connection, from the first one on, in order and without a gap (Peer::
\* OnRecv, CheckCompleteIPackets): a Conn, which makes a Peer forget what it
\* received, never comes after a fragment.  A second Peer, or a Conn that was
\* overtaken, breaks that.
THEOREM InOrderHolds ==
  ASSUME ~Reorder
  PROVE  Spec /\ []OnePeerEach => []InOrder
<1>1. OneConnection /\ OnePeerEach /\ OnePeerEach' /\ [Next]_vars => OneConnection'
  BY NextKeepsOne
<1>2. OneConnection /\ Gapless => InOrder
  BY OneConnectionGives DEF InOrder
<1> QED BY <1>1, <1>2, InitOne, GaplessHolds, PTL DEF Spec

-----------------------------------------------------------------------------
(* What is acknowledged, and what is kept.                                 *)

\* A number up to which p can be told that everything was received: no packet p
\* keeps is cut by it.
Marked(p, x) == x <= p.iO /\ \A k \in p.O : x <= k.nr \/ EndOf(k) <= x
Kept(p, x) == \A i \in x .. p.iO - 1 : \E k \in p.O : i \in Fragments(k)

\* From p to q the datagrams w are under way, from q to p those of v.
Stream(p, w, q, v) ==
    /\ q.iRI <= p.iO /\ \A i \in 1 .. Len(w) : w[i].nr <= p.iO
    /\ \A k \in p.O : Marked(p, EndOf(k))
    /\ \A r \in q.I : Marked(p, EndOf(r.pkt))
    /\ \A i \in Are(w, {"Data"}) : Marked(p, EndOf(w[i].pkt))
    /\ Marked(p, q.iI)
    /\ ~Gone(q) => Kept(p, q.iI)
    /\ \A i \in Are(v, {"Check"}) :
           /\ Marked(p, v[i].ack) /\ Kept(p, v[i].ack)
           /\ ~Gone(q) => v[i].ack <= q.iI
           /\ \A j \in 1 .. Len(v[i].ask) : v[i].ack <= v[i].ask[j] /\ v[i].ask[j] < p.iO
    /\ \A i, j \in Are(v, {"Check"}) : i < j => v[i].ack <= v[j].ack

\* What a computer tells the other one when its Peer a, having handled M, becomes q.
Tells(a, M, q, out) ==
    /\ out \in Seq(Datagram) /\ q.iO = a.iO
    /\ q.O = a.O \/ \E m \in M : m.type = "Check" /\ q.O = ClearPackets(a.O, m.ack)
    /\ \A i \in 1 .. Len(out) : /\ out[i].type # "Data" => out[i].nr <= a.iO
                                /\ out[i].type = "Data" => out[i].pkt \in q.O /\ out[i].nr \in Fragments(out[i].pkt)

\* What it has learned then.
Hears(a, M, q, out) ==
    /\ out \in Seq(Datagram) /\ q.iI \in Nat
    /\ ~Gone(q) => ~Gone(a) /\ q.iI >= a.iI
    /\ q.iRI \in Nat /\ (q.iRI = 0 \/ q.iRI <= a.iRI \/ \E m \in M : q.iRI <= m.nr)
    /\ {r.pkt : r \in q.I} \subseteq Here(a, M)
    /\ q.iI = 0 \/ q.iI = a.iI \/ \E k \in Here(a, M) : q.iI = EndOf(k)
    /\ \A i \in Are(out, {"Check"}) :
           /\ out[i].ack = a.iI /\ ~Gone(a)
           /\ \A j \in 1 .. Len(out[i].ask) : a.iI <= out[i].ask[j] /\ (out[i].ask[j] < a.iRI \/ \E m \in M : out[i].ask[j] < m.nr)

\* What was asked for is still there.
LEMMA NotMissed ==
  ASSUME NEW a, PeerType(a), NEW m \in Datagram, m.type = "Check", Marked(a, m.ack), Kept(a, m.ack),
         \A j \in 1 .. Len(m.ask) : m.ack <= m.ask[j] /\ m.ask[j] < a.iO
  PROVE  ~Missed(a, m)
<1> SUFFICES ASSUME NEW j \in 1 .. Len(m.ask) PROVE \E k \in ClearPackets(a.O, m.ack) : m.ask[j] \in Fragments(k)
  BY DEF Missed
<1>1. m.ack \in Nat /\ m.ask \in Seq(Nat) /\ a.iO \in Nat
  BY DEF Datagram, PeerType
<1>2. m.ask[j] \in Nat
  BY <1>1, ElementOfSeq
<1>3. PICK k \in a.O : m.ask[j] \in Fragments(k)
  BY <1>1, <1>2 DEF Kept
<1>4. k.nr \in Nat /\ k.cnt \in Nat \ {0}
  BY DEF PeerType, Packet
<1>5. m.ack <= k.nr
  <2>1. m.ack <= k.nr \/ k.nr + k.cnt <= m.ack
    BY DEF Marked, EndOf
  <2>2. m.ask[j] <= k.nr + k.cnt - 1 /\ m.ack <= m.ask[j]
    BY <1>3 DEF Fragments
  <2>3. \A ack, ask, nr, cnt \in Nat : ack <= ask /\ ask <= nr + cnt - 1 => ~(nr + cnt <= ack)
    OBVIOUS
  <2>4. ~(k.nr + k.cnt <= m.ack)
    BY <1>1, <1>2, <1>4, <2>2, <2>3
  <2> QED BY <2>1, <2>4
<1>6. k \in ClearPackets(a.O, m.ack)
  BY <1>1, <1>4, <1>5 DEF ClearPackets
<1> QED BY <1>3, <1>6

LEMMA StillKept ==
  ASSUME NEW a, PeerType(a), NEW x \in Nat, Marked(a, x), NEW y \in Nat, x <= y, Kept(a, y),
         NEW q, q.O = ClearPackets(a.O, x), q.iO = a.iO
  PROVE  Kept(q, y)
<1> SUFFICES ASSUME NEW i \in y .. a.iO - 1 PROVE \E k \in ClearPackets(a.O, x) : i \in Fragments(k)
  BY DEF Kept
<1>1. a.iO \in Nat
  BY DEF PeerType
<1>2. PICK k \in a.O : i \in Fragments(k)
  BY DEF Kept
<1>3. k.nr \in Nat /\ k.cnt \in Nat \ {0}
  BY DEF PeerType, Packet
<1>4. x <= k.nr
  BY <1>1, <1>2, <1>3 DEF Marked, Fragments, EndOf
<1>5. k \in ClearPackets(a.O, x)
  BY <1>3, <1>4 DEF ClearPackets
<1> QED BY <1>2, <1>5

\* The side that sends.
LEMMA StreamOut ==
  ASSUME NEW a, PeerType(a), NEW w \in Seq(Datagram), NEW b, b.iI \in Nat, NEW v \in Seq(Datagram), Stream(a, w, b, v),
         NEW M, NEW left, Leaves(v, M, left), NEW q, NEW out, Tells(a, M, q, out)
  PROVE  Stream(q, w \o out, b, left)
<1> DEFINE x == w \o out
           k == Len(v) - Len(left)
<1>1. out \in Seq(Datagram) /\ q.iO = a.iO /\ a.iO \in Nat
  BY DEF Tells, PeerType
<1>2. \A i \in 1 .. Len(x) : \/ i \in 1 .. Len(w) /\ x[i] = w[i]
                             \/ i - Len(w) \in 1 .. Len(out) /\ x[i] = out[i - Len(w)]
  BY <1>1, ConcatIs
<1>3. /\ left \in Seq(Datagram) /\ k \in {0, 1} /\ Len(left) \in Nat
      /\ \A j \in 1 .. Len(left) : j + k \in 1 .. Len(v) /\ left[j] = v[j + k]
  BY LeftIs, LenProperties
<1> HIDE DEF x, k
<1>4. q.O \subseteq a.O
  BY DEF Tells, ClearPackets
<1>5. \A y : Marked(a, y) => Marked(q, y)
  BY <1>1, <1>4 DEF Marked
<1>6. \A i \in 1 .. Len(x) : x[i].nr <= q.iO /\ (x[i].type = "Data" => Marked(q, EndOf(x[i].pkt)))
  <2> SUFFICES ASSUME NEW i \in 1 .. Len(x)
               PROVE  x[i].nr <= q.iO /\ (x[i].type = "Data" => Marked(q, EndOf(x[i].pkt)))
    OBVIOUS
  <2>1. CASE i \in 1 .. Len(w) /\ x[i] = w[i]
    <3>1. x[i].nr <= a.iO
      BY <2>1 DEF Stream
    <3>2. x[i].type = "Data" => Marked(a, EndOf(x[i].pkt))
      BY <2>1 DEF Stream, Are
    <3> QED BY <1>1, <1>5, <3>1, <3>2
  <2>2. CASE i - Len(w) \in 1 .. Len(out) /\ x[i] = out[i - Len(w)]
    <3>1. /\ x[i].type # "Data" => x[i].nr <= a.iO
          /\ x[i].type = "Data" => x[i].pkt \in q.O /\ x[i].nr \in Fragments(x[i].pkt)
      BY <2>2 DEF Tells
    <3>2. ASSUME x[i].type = "Data" PROVE x[i].nr <= q.iO /\ Marked(a, EndOf(x[i].pkt))
      <4>1. x[i].pkt \in a.O /\ x[i].nr \in Fragments(x[i].pkt)
        BY <1>4, <3>1, <3>2
      <4>2. Marked(a, EndOf(x[i].pkt))
        BY <4>1 DEF Stream
      <4>3. x[i].pkt.nr \in Nat /\ x[i].pkt.cnt \in Nat \ {0}
        BY <4>1 DEF PeerType, Packet
      <4>4. EndOf(x[i].pkt) <= a.iO
        BY <4>2 DEF Marked
      <4>5. x[i].nr \in Int /\ x[i].nr <= x[i].pkt.nr + x[i].pkt.cnt - 1 /\ x[i].pkt.nr + x[i].pkt.cnt <= a.iO
        BY <4>1, <4>3, <4>4 DEF Fragments, EndOf
      <4>6. \A y \in Int, z, u, v0 \in Nat : y <= z + u - 1 /\ z + u <= v0 => y <= v0
        OBVIOUS
      <4>7. x[i].nr <= a.iO
        BY <1>1, <4>3, <4>5, <4>6
      <4> QED BY <1>1, <4>2, <4>7
    <3> QED BY <1>1, <1>5, <3>1, <3>2
  <2> QED BY <1>2, <2>1, <2>2
<1>7. ASSUME NEW y \in Nat, Kept(a, y), \A m \in M : m.type = "Check" => m.ack <= y
      PROVE  Kept(q, y)
  <2>1. CASE q.O = a.O
    BY <1>1, <1>7, <2>1 DEF Kept
  <2>2. ASSUME NEW m \in M, m.type = "Check", q.O = ClearPackets(a.O, m.ack) PROVE Kept(q, y)
    <3>1. v # <<>> /\ m = v[1] /\ m \in Datagram
      BY LeftIs DEF Leaves
    <3>2. 1 \in Are(v, {"Check"})
      <4>1. 1 \in 1 .. Len(v)
        BY <3>1, EmptySeq, LenProperties
      <4> QED BY <2>2, <3>1, <4>1 DEF Are
    <3>3. Marked(a, m.ack)
      BY <3>1, <3>2 DEF Stream
    <3>4. m.ack \in Nat
      BY <2>2, <3>1 DEF Datagram
    <3> QED BY <1>1, <1>7, <2>2, <3>3, <3>4, StillKept
  <2> QED BY <2>1, <2>2 DEF Tells
<1>8. ASSUME NEW m \in M, m.type = "Check"
      PROVE  (~Gone(b) => m.ack <= b.iI) /\ \A i \in Are(v, {"Check"}) : m.ack <= v[i].ack
  <2>1. v # <<>> /\ m = v[1] /\ m \in Datagram
    BY LeftIs DEF Leaves
  <2>2. 1 \in Are(v, {"Check"})
    <3>1. 1 \in 1 .. Len(v)
      BY <2>1, EmptySeq, LenProperties
    <3> QED BY <1>8, <2>1, <3>1 DEF Are
  <2>3. m.ack \in Nat
    BY <1>8, <2>1 DEF Datagram
  <2>4. \A i \in Are(v, {"Check"}) : i = 1 \/ 1 < i
    BY DEF Are
  <2> QED BY <2>1, <2>2, <2>3, <2>4 DEF Stream
<1>9. ~Gone(b) => Kept(q, b.iI)
  BY <1>7, <1>8 DEF Stream
<1>10. ASSUME NEW i \in Are(left, {"Check"}) PROVE i \in Nat /\ i + k \in Are(v, {"Check"}) /\ left[i] = v[i + k] /\ left[i].ack \in Nat
  <2>1. i \in 1 .. Len(left) /\ left[i].type = "Check"
    BY DEF Are
  <2>2. left[i] \in Datagram
    BY <1>3, <2>1, ElementOfSeq
  <2>3. left[i].ack \in Nat
    BY <2>1, <2>2 DEF Datagram
  <2> QED BY <1>3, <2>1, <2>3 DEF Are
<1>11. \A i \in Are(left, {"Check"}) :
           /\ Marked(q, left[i].ack) /\ Kept(q, left[i].ack)
           /\ ~Gone(b) => left[i].ack <= b.iI
           /\ \A j \in 1 .. Len(left[i].ask) : left[i].ack <= left[i].ask[j] /\ left[i].ask[j] < q.iO
  <2> SUFFICES ASSUME NEW i \in Are(left, {"Check"})
               PROVE  /\ Marked(q, left[i].ack) /\ Kept(q, left[i].ack)
                      /\ ~Gone(b) => left[i].ack <= b.iI
                      /\ \A j \in 1 .. Len(left[i].ask) : left[i].ack <= left[i].ask[j] /\ left[i].ask[j] < q.iO
    OBVIOUS
  <2>1. i + k \in Are(v, {"Check"}) /\ left[i] = v[i + k] /\ left[i].ack \in Nat
    BY <1>10
  <2>2. /\ Marked(a, left[i].ack) /\ Kept(a, left[i].ack) /\ (~Gone(b) => left[i].ack <= b.iI)
        /\ \A j \in 1 .. Len(left[i].ask) : left[i].ack <= left[i].ask[j] /\ left[i].ask[j] < a.iO
    BY <2>1 DEF Stream
  <2>3. Kept(q, left[i].ack)
    BY <1>7, <1>8, <2>1, <2>2
  <2> QED BY <1>1, <1>5, <2>2, <2>3
<1>12. \A i, j \in Are(left, {"Check"}) : i < j => left[i].ack <= left[j].ack
  <2> SUFFICES ASSUME NEW i \in Are(left, {"Check"}), NEW j \in Are(left, {"Check"}), i < j
               PROVE  left[i].ack <= left[j].ack
    OBVIOUS
  <2>1. i + k < j + k
    BY <1>3, <1>10
  <2> QED BY <1>10, <2>1 DEF Stream
<1>13. \A i \in Are(x, {"Data"}) : Marked(q, EndOf(x[i].pkt))
  BY <1>6 DEF Are
<1>14. /\ b.iRI <= q.iO /\ Marked(q, b.iI)
       /\ \A r \in b.I : Marked(q, EndOf(r.pkt))
       /\ \A r \in q.O : Marked(q, EndOf(r))
  BY <1>1, <1>4, <1>5 DEF Stream
<1>15. Stream(q, x, b, left)
  BY <1>6, <1>9, <1>11, <1>12, <1>13, <1>14 DEF Stream
<1> QED BY <1>15 DEF x

\* The side that receives.
LEMMA StreamIn ==
  ASSUME NEW p, PeerType(p), NEW w \in Seq(Datagram), NEW a, PeerType(a), NEW v \in Seq(Datagram), Stream(p, w, a, v),
         NEW M, NEW left, Leaves(w, M, left), NEW q, NEW out, Hears(a, M, q, out)
  PROVE  Stream(p, left, q, v \o out)
<1> DEFINE x == v \o out
           k == Len(w) - Len(left)
<1>1. out \in Seq(Datagram) /\ p.iO \in Nat /\ a.iI \in Nat /\ a.iRI \in Nat /\ q.iI \in Nat /\ q.iRI \in Nat
  BY DEF Hears, PeerType
<1>2. /\ Len(v) \in Nat
      /\ \A i \in 1 .. Len(x) : \/ i \in 1 .. Len(v) /\ x[i] = v[i]
                                \/ i > Len(v) /\ i - Len(v) \in 1 .. Len(out) /\ x[i] = out[i - Len(v)]
  BY <1>1, ConcatIs
<1>3. /\ left \in Seq(Datagram) /\ k \in {0, 1} /\ Len(left) \in Nat /\ M \subseteq Datagram
      /\ \A j \in 1 .. Len(left) : j + k \in 1 .. Len(w) /\ left[j] = w[j + k]
  BY LeftIs, LenProperties
<1> HIDE DEF x, k
<1>4. ASSUME NEW m \in M PROVE m.nr \in Nat /\ m.nr <= p.iO /\ (m.type = "Data" => Marked(p, EndOf(m.pkt)))
  <2>1. w # <<>> /\ m = w[1] /\ m \in Datagram
    BY <1>3 DEF Leaves
  <2>2. 1 \in 1 .. Len(w)
    BY <2>1, EmptySeq, LenProperties
  <2>3. m.nr \in Nat
    BY <2>1 DEF Datagram
  <2>4. m.nr <= p.iO
    BY <2>1, <2>2 DEF Stream
  <2>5. m.type = "Data" => 1 \in Are(w, {"Data"})
    BY <2>1, <2>2 DEF Are
  <2> QED BY <2>1, <2>3, <2>4, <2>5 DEF Stream
<1>5. ASSUME NEW h \in Here(a, M) PROVE Marked(p, EndOf(h))
  <2>1. (\E r \in a.I : h = r.pkt) \/ (\E m \in M : m.type = "Data" /\ h = m.pkt)
    BY DEF Here
  <2> QED BY <1>4, <2>1 DEF Stream
<1>6. q.iRI <= p.iO
  <2>1. a.iRI <= p.iO
    BY DEF Stream
  <2>2. q.iRI = 0 \/ q.iRI <= a.iRI \/ \E m \in M : q.iRI <= m.nr
    BY DEF Hears
  <2> QED BY <1>1, <1>4, <2>1, <2>2
<1>7. \A i \in 1 .. Len(left) : left[i].nr <= p.iO
  BY <1>3 DEF Stream
<1>8. \A r \in p.O : Marked(p, EndOf(r))
  BY DEF Stream
<1>9. \A r \in q.I : Marked(p, EndOf(r.pkt))
  BY <1>5 DEF Hears
<1>10. \A i \in Are(left, {"Data"}) : Marked(p, EndOf(left[i].pkt))
  <2> SUFFICES ASSUME NEW i \in Are(left, {"Data"}) PROVE Marked(p, EndOf(left[i].pkt))
    OBVIOUS
  <2>1. i + k \in Are(w, {"Data"}) /\ left[i] = w[i + k]
    BY <1>3 DEF Are
  <2> QED BY <2>1 DEF Stream
<1>11. Marked(p, q.iI)
  <2>1. q.iI = 0 \/ q.iI = a.iI \/ \E h \in Here(a, M) : q.iI = EndOf(h)
    BY DEF Hears
  <2>2. Marked(p, 0)
    <3>1. \A h \in p.O : h.nr \in Nat
      BY DEF PeerType, Packet
    <3>2. \A h \in p.O : 0 <= h.nr
      BY <3>1
    <3> QED BY <1>1, <3>2 DEF Marked
  <2>3. Marked(p, a.iI)
    BY DEF Stream
  <2> QED BY <1>5, <2>1, <2>2, <2>3
<1>12. ~Gone(q) => ~Gone(a) /\ q.iI >= a.iI
  BY DEF Hears
<1>13. ~Gone(a) => Kept(p, a.iI)
  BY DEF Stream
<1>14. ~Gone(q) => Kept(p, q.iI)
  <2> SUFFICES ASSUME ~Gone(q), NEW i \in q.iI .. p.iO - 1 PROVE \E h \in p.O : i \in Fragments(h)
    BY DEF Kept
  <2>1. i \in a.iI .. p.iO - 1
    BY <1>1, <1>12
  <2> QED BY <1>12, <1>13, <2>1 DEF Kept
<1>15. ASSUME NEW i \in Are(x, {"Check"})
       PROVE  \/ i \in Are(v, {"Check"}) /\ x[i] = v[i] /\ i <= Len(v)
              \/ /\ i > Len(v) /\ x[i].ack = a.iI /\ ~Gone(a)
                 /\ \A j \in 1 .. Len(x[i].ask) : a.iI <= x[i].ask[j] /\ (x[i].ask[j] < a.iRI \/ \E m \in M : x[i].ask[j] < m.nr)
  <2>1. i \in 1 .. Len(x) /\ x[i].type = "Check"
    BY DEF Are
  <2>2. CASE i \in 1 .. Len(v) /\ x[i] = v[i]
    BY <2>1, <2>2 DEF Are
  <2>3. CASE i > Len(v) /\ i - Len(v) \in 1 .. Len(out) /\ x[i] = out[i - Len(v)]
    <3>1. i - Len(v) \in Are(out, {"Check"})
      BY <2>1, <2>3 DEF Are
    <3> QED BY <2>3, <3>1 DEF Hears
  <2> QED BY <1>2, <2>1, <2>2, <2>3
<1>16. ASSUME NEW i \in Are(x, {"Check"})
       PROVE  i \in Nat /\ x[i].ack \in Nat /\ \A j \in 1 .. Len(x[i].ask) : x[i].ask[j] \in Nat
  <2>1. x \in Seq(Datagram)
    BY <1>1, ConcatIs DEF x
  <2>2. i \in 1 .. Len(x) /\ x[i].type = "Check"
    BY DEF Are
  <2>3. x[i] \in Datagram
    BY <2>1, <2>2, ElementOfSeq
  <2>4. x[i].ack \in Nat /\ x[i].ask \in Seq(Nat)
    BY <2>2, <2>3 DEF Datagram
  <2> QED BY <2>2, <2>4, ElementOfSeq
<1>17. \A i \in Are(x, {"Check"}) :
           /\ Marked(p, x[i].ack) /\ Kept(p, x[i].ack)
           /\ ~Gone(q) => x[i].ack <= q.iI
           /\ \A j \in 1 .. Len(x[i].ask) : x[i].ack <= x[i].ask[j] /\ x[i].ask[j] < p.iO
  <2> SUFFICES ASSUME NEW i \in Are(x, {"Check"})
               PROVE  /\ Marked(p, x[i].ack) /\ Kept(p, x[i].ack)
                      /\ ~Gone(q) => x[i].ack <= q.iI
                      /\ \A j \in 1 .. Len(x[i].ask) : x[i].ack <= x[i].ask[j] /\ x[i].ask[j] < p.iO
    OBVIOUS
  <2>1. CASE i \in Are(v, {"Check"}) /\ x[i] = v[i]
    <3>1. /\ Marked(p, x[i].ack) /\ Kept(p, x[i].ack) /\ (~Gone(a) => x[i].ack <= a.iI)
          /\ \A j \in 1 .. Len(x[i].ask) : x[i].ack <= x[i].ask[j] /\ x[i].ask[j] < p.iO
      BY <2>1 DEF Stream
    <3>2. ~Gone(q) => x[i].ack <= q.iI
      BY <1>1, <1>12, <1>16, <3>1
    <3> QED BY <3>1, <3>2
  <2>2. CASE /\ x[i].ack = a.iI /\ ~Gone(a)
             /\ \A j \in 1 .. Len(x[i].ask) : a.iI <= x[i].ask[j] /\ (x[i].ask[j] < a.iRI \/ \E m \in M : x[i].ask[j] < m.nr)
    <3>1. Marked(p, a.iI) /\ Kept(p, a.iI) /\ a.iRI <= p.iO
      BY <2>2 DEF Stream
    <3>2. ASSUME NEW j \in 1 .. Len(x[i].ask) PROVE x[i].ask[j] < p.iO
      <4>1. x[i].ask[j] \in Nat /\ (x[i].ask[j] < a.iRI \/ \E m \in M : x[i].ask[j] < m.nr)
        BY <1>16, <2>2
      <4> QED BY <1>1, <1>4, <3>1, <4>1
    <3> QED BY <1>12, <2>2, <3>1, <3>2
  <2> QED BY <1>15, <2>1, <2>2
<1>18. \A i, j \in Are(x, {"Check"}) : i < j => x[i].ack <= x[j].ack
  <2> SUFFICES ASSUME NEW i \in Are(x, {"Check"}), NEW j \in Are(x, {"Check"}), i < j
               PROVE  x[i].ack <= x[j].ack
    OBVIOUS
  <2>1. CASE i \in Are(v, {"Check"}) /\ x[i] = v[i] /\ j \in Are(v, {"Check"}) /\ x[j] = v[j]
    BY <2>1 DEF Stream
  <2>2. CASE i \in Are(v, {"Check"}) /\ x[i] = v[i] /\ x[j].ack = a.iI /\ ~Gone(a)
    BY <2>2 DEF Stream
  <2>3. CASE i > Len(v) /\ x[i].ack = a.iI
    <3>1. x[j].ack = a.iI
      BY <1>2, <1>15, <1>16, <2>3
    <3> QED BY <1>1, <2>3, <3>1
  <2> QED BY <1>15, <2>1, <2>2, <2>3
<1>19. Stream(p, left, q, x)
  BY <1>6, <1>7, <1>8, <1>9, <1>10, <1>11, <1>14, <1>17, <1>18 DEF Stream
<1> QED BY <1>19 DEF x

LEMMA EffectHears ==
  ASSUME NEW a, Ready(a), NEW M \in SUBSET Datagram, NEW s, Effect(a, M, s), NEW q, q = OnShareFree(s.p)
  PROVE  /\ Hears(a, M, q, s.out) /\ (~Gone(q) => ~Gone(a) /\ Tells(a, M, q, s.out))
         /\ PeerType(q) /\ (IsFiniteSet(a.O) => IsFiniteSet(q.O)) /\ q.reason = s.p.reason
<1>1. /\ Well(s) /\ SaysAll(a, M, s) /\ (s.p.session = 0 => s.p.status = "Closed" /\ s.out = <<>>)
      /\ s.p.iO = a.iO /\ s.p.session >= a.session
      /\ s.p.status # "Closed" => ~Gone(a)
      /\ s.p.iRI <= a.iRI \/ \E m \in M : s.p.iRI <= m.nr
      /\ {r.pkt : r \in s.p.I} \subseteq Here(a, M)
      /\ s.p.iI >= a.iI /\ (s.p.iI = a.iI \/ \E k \in Here(a, M) : s.p.iI = EndOf(k))
      /\ s.p.O = a.O \/ \E m \in M : m.type = "Check" /\ s.p.O = ClearPackets(a.O, m.ack)
  BY DEF Effect
<1>2. /\ Ready(q) /\ q.session = s.p.session /\ q.status = s.p.status /\ q.reason = s.p.reason
      /\ s.p.status # "Closed" => q = s.p
  BY <1>1, FreeIs DEF Well
<1>3. s.out \in Seq(Datagram) /\ PeerType(q) /\ q.iI \in Nat /\ q.iRI \in Nat /\ q.session \in Nat
  BY <1>1, <1>2 DEF SaysAll, Ready, PeerType
<1>4. q.status = "Closed" => q.iO = 0 /\ q.O = {} /\ q.I = {} /\ q.iRI = 0 /\ q.iI = 0
  BY <1>2 DEF Ready, Begun, Idle
<1>5. ASSUME ~Gone(q), q.status = "Closed"
      PROVE  s.out = <<>> /\ ~Gone(a) /\ a.iI = 0 /\ a.iO = 0 /\ a.O = {}
  <2>1. q.session = 0
    BY <1>5 DEF Gone
  <2>2. a.session \in Nat
    BY DEF Ready, PeerType
  <2>3. a.session = 0 /\ s.out = <<>>
    BY <1>1, <1>2, <2>1, <2>2
  <2>4. a.status = "Closed" /\ a.iO = 0 /\ a.O = {} /\ a.iI = 0
    BY <2>3 DEF Ready, Idle, Begun
  <2> QED BY <2>3, <2>4 DEF Gone
<1>6. ~Gone(q) => ~Gone(a) /\ q.iI >= a.iI
  <2>1. CASE q.status = "Closed"
    <3>1. ~Gone(q) => ~Gone(a) /\ q.iI = 0 /\ a.iI = 0
      BY <1>4, <1>5, <2>1
    <3> QED BY <3>1
  <2>2. CASE q.status # "Closed"
    BY <1>1, <1>2, <2>2
  <2> QED BY <2>1, <2>2
<1>7. q.iRI = 0 \/ q.iRI <= a.iRI \/ \E m \in M : q.iRI <= m.nr
  BY <1>1, <1>2, <1>4
<1>8. {r.pkt : r \in q.I} \subseteq Here(a, M)
  <2>1. CASE q.status = "Closed"
    BY <1>4, <2>1
  <2>2. CASE q.status # "Closed"
    BY <1>1, <1>2, <2>2
  <2> QED BY <2>1, <2>2
<1>9. q.iI = 0 \/ q.iI = a.iI \/ \E k \in Here(a, M) : q.iI = EndOf(k)
  BY <1>1, <1>2, <1>4
<1>10. ASSUME NEW i \in Are(s.out, {"Check"})
       PROVE  /\ s.out[i].ack = a.iI /\ ~Gone(a)
              /\ \A j \in 1 .. Len(s.out[i].ask) : a.iI <= s.out[i].ask[j] /\ (s.out[i].ask[j] < a.iRI \/ \E m \in M : s.out[i].ask[j] < m.nr)
  <2>1. i \in 1 .. Len(s.out) /\ s.out[i].type = "Check"
    BY DEF Are
  <2>2. Says(a, M, s.p.O, s.out[i])
    BY <1>1, <2>1 DEF SaysAll
  <2>3. a.status = "Works" => ~Gone(a)
    BY DEF Gone
  <2> QED BY <2>1, <2>2, <2>3 DEF Says
<1>11. Hears(a, M, q, s.out)
  BY <1>3, <1>6, <1>7, <1>8, <1>9, <1>10 DEF Hears
<1>12. ASSUME ~Gone(q) PROVE Tells(a, M, q, s.out)
  <2>1. CASE q.status = "Closed"
    <3>1. q.iO = a.iO /\ q.O = a.O /\ s.out = <<>> /\ Len(<<>>) = 0
      BY <1>4, <1>5, <1>12, <2>1
    <3>2. 1 .. 0 = {}
      OBVIOUS
    <3> QED BY <1>3, <3>1, <3>2 DEF Tells
  <2>2. CASE q.status # "Closed"
    <3>1. q = s.p
      BY <1>2, <2>2
    <3>2. \A i \in 1 .. Len(s.out) : Says(a, M, q.O, s.out[i])
      BY <1>1, <3>1 DEF SaysAll
    <3>3. \A i \in 1 .. Len(s.out) : /\ s.out[i].type # "Data" => s.out[i].nr <= a.iO
                                     /\ s.out[i].type = "Data" => s.out[i].pkt \in q.O /\ s.out[i].nr \in Fragments(s.out[i].pkt)
      BY <3>2 DEF Says
    <3>4. q.iO = a.iO /\ (q.O = a.O \/ \E m \in M : m.type = "Check" /\ q.O = ClearPackets(a.O, m.ack))
      BY <1>1, <3>1
    <3> QED BY <1>3, <3>3, <3>4 DEF Tells
  <2> QED BY <2>1, <2>2
<1>13. IsFiniteSet(a.O) => IsFiniteSet(q.O)
  <2>1. CASE q.status = "Closed"
    BY <1>4, <2>1, FS_EmptySet
  <2>2. CASE q.status # "Closed"
    <3>1. q.O \subseteq a.O
      BY <1>1, <1>2, <2>2 DEF ClearPackets
    <3> QED BY <3>1, FS_Subset
  <2> QED BY <2>1, <2>2
<1> QED BY <1>2, <1>3, <1>6, <1>11, <1>12, <1>13

-----------------------------------------------------------------------------
(* Nothing that is asked for was thrown away.                              *)

\* The backlog never overflows.
RoomLeft == \A n \in Computers : Cardinality(peer[n].O) < MaxBacklog

Streams == \A n \in Computers :
    /\ IsFiniteSet(peer[n].O) /\ peer[n].reason # "starvation"
    /\ ~Gone(peer[Other(n)]) => Stream(peer[Other(n)], net[n], peer[n], net[Other(n)])

LEMMA StepStreams ==
  ASSUME OneConnection, Streams, NEW n \in Computers, NEW M, NEW left, Leaves(net[n], M, left), NEW q, NEW out,
         peer' = [peer EXCEPT ![n] = q], net' = [net EXCEPT ![n] = left, ![Other(n)] = @ \o out],
         Hears(peer[n], M, q, out), IsFiniteSet(q.O), q.reason # "starvation",
         ~Gone(q) => Stream(q, net[Other(n)] \o out, peer[Other(n)], left)
  PROVE  Streams'
<1> DEFINE o == Other(n)
<1>1. o \in Computers /\ o # n /\ Other(o) = n /\ \A m \in Computers : m = n \/ m = o
  BY OtherIs
<1>2. /\ peer = [k \in Computers |-> peer[k]] /\ net = [k \in Computers |-> net[k]]
      /\ PeerType(peer[n]) /\ PeerType(peer[o]) /\ net[n] \in Seq(Datagram) /\ net[o] \in Seq(Datagram)
  BY <1>1 DEF OneConnection, Flow
<1>3. ~Gone(peer[o]) => Stream(peer[o], net[n], peer[n], net[o])
  BY DEF Streams
<1>4. net' = [net EXCEPT ![n] = left, ![o] = @ \o out] /\ (~Gone(q) => Stream(q, net[o] \o out, peer[o], left))
  OBVIOUS
<1> HIDE DEF o
<1>5. /\ peer'[n] = q /\ peer'[o] = peer[o] /\ net'[n] = left /\ net'[o] = net[o] \o out
  BY <1>1, <1>2, <1>4
<1>6. ~Gone(peer[o]) => Stream(peer[o], left, q, net[o] \o out)
  BY <1>2, <1>3, StreamIn
<1>7. IsFiniteSet(peer[o].O) /\ peer[o].reason # "starvation"
  BY <1>1 DEF Streams
<1>8. ~Gone(peer'[Other(n)]) => Stream(peer'[Other(n)], net'[n], peer'[n], net'[Other(n)])
  BY <1>5, <1>6 DEF o
<1>9. ~Gone(peer'[Other(o)]) => Stream(peer'[Other(o)], net'[o], peer'[o], net'[Other(o)])
  BY <1>1, <1>4, <1>5
<1> QED BY <1>1, <1>5, <1>7, <1>8, <1>9 DEF Streams

LEMMA HandlesStreams ==
  ASSUME OneConnection, Streams, NEW n \in Computers, Handles(n)
  PROVE  Streams'
<1>1. PICK M, s, left : Leaves(net[n], M, left) /\ Effect(peer[n], M, s) /\ Step(n, s, left)
  BY DEF Handles
<1> DEFINE o == Other(n)
           a == peer[n]
           q == OnShareFree(s.p)
<1>2. o \in Computers /\ Other(o) = n
  BY OtherIs
<1>3. /\ Ready(a) /\ PeerType(a) /\ PeerType(peer[o])
      /\ net[n] \in Seq(Datagram) /\ net[o] \in Seq(Datagram) /\ M \subseteq Datagram
  <2>1. Ready(a) /\ PeerType(a) /\ PeerType(peer[o]) /\ net[n] \in Seq(Datagram) /\ net[o] \in Seq(Datagram)
    BY <1>2 DEF OneConnection, Flow, Ready
  <2> QED BY <1>1, <2>1, LeftIs
<1>4. IsFiniteSet(a.O) /\ a.reason # "starvation" /\ (~Gone(a) => Stream(a, net[o], peer[o], net[n]))
  BY <1>2 DEF Streams
<1>5. peer' = [peer EXCEPT ![n] = q] /\ net' = [net EXCEPT ![n] = left, ![o] = @ \o s.out]
  BY <1>1 DEF Step
<1> HIDE DEF o, a
<1>6. /\ Hears(a, M, q, s.out) /\ (~Gone(q) => ~Gone(a) /\ Tells(a, M, q, s.out))
      /\ PeerType(q) /\ IsFiniteSet(q.O) /\ q.reason = s.p.reason
  BY <1>1, <1>3, <1>4, EffectHears DEF a
<1> HIDE DEF q
<1>7. ASSUME ~Gone(q) PROVE Stream(q, net[o] \o s.out, peer[o], left)
  <2>1. peer[o].iI \in Nat
    BY <1>3 DEF PeerType
  <2> QED BY <1>1, <1>3, <1>4, <1>6, <1>7, <2>1, StreamOut
<1>8. q.reason # "starvation"
  <2> SUFFICES ASSUME a.status # "Closed", NEW m \in M, Missed(a, m) PROVE FALSE
    BY <1>1, <1>4, <1>6 DEF Effect, a
  <2>1. Stream(a, net[o], peer[o], net[n])
    BY <1>4 DEF Gone
  <2>2. m.type = "Check" /\ m \in Datagram
    BY <1>3 DEF Missed
  <2>3. net[n] # <<>> /\ m = net[n][1]
    BY <1>1 DEF Leaves
  <2>4. 1 \in Are(net[n], {"Check"})
    <3>1. 1 \in 1 .. Len(net[n])
      BY <1>3, <2>3, EmptySeq, LenProperties
    <3> QED BY <2>2, <2>3, <3>1 DEF Are
  <2>5. /\ Marked(a, m.ack) /\ Kept(a, m.ack)
        /\ \A j \in 1 .. Len(m.ask) : m.ack <= m.ask[j] /\ m.ask[j] < a.iO
    BY <2>1, <2>3, <2>4 DEF Stream
  <2> QED BY <1>3, <2>2, <2>5, NotMissed
<1> QED BY <1>1, <1>5, <1>6, <1>7, <1>8, StepStreams DEF o, a

\* A packet more is kept, its fragments are sent.
LEMMA StreamMore ==
  ASSUME NEW a, PeerType(a), NEW w \in Seq(Datagram), NEW b, PeerType(b), NEW v \in Seq(Datagram), Stream(a, w, b, v),
         NEW pkt \in Packet, pkt.nr = a.iO, NEW q, q.iO = EndOf(pkt), q.O = a.O \cup {pkt},
         NEW out \in Seq(Datagram), \A i \in 1 .. Len(out) : out[i].type = "Data" /\ out[i].pkt = pkt /\ out[i].nr \in Fragments(pkt)
  PROVE  Stream(q, w \o out, b, v)
<1> DEFINE x == w \o out
<1>1. a.iO \in Nat /\ pkt.nr \in Nat /\ pkt.cnt \in Nat \ {0} /\ EndOf(pkt) \in Nat /\ a.iO <= q.iO /\ q.iO = pkt.nr + pkt.cnt
  <2>1. pkt.nr \in Nat /\ pkt.cnt \in Nat \ {0}
    BY DEF Packet
  <2>2. EndOf(pkt) = pkt.nr + pkt.cnt /\ EndOf(pkt) \in Nat /\ pkt.nr <= EndOf(pkt)
    BY <2>1 DEF EndOf
  <2> QED BY <2>1, <2>2
<1>2. \A i \in 1 .. Len(x) : \/ i \in 1 .. Len(w) /\ x[i] = w[i]
                             \/ i - Len(w) \in 1 .. Len(out) /\ x[i] = out[i - Len(w)]
  BY ConcatIs
<1> HIDE DEF x
<1>3. \A k \in a.O : k.nr \in Nat /\ k.cnt \in Nat \ {0} /\ EndOf(k) \in Nat /\ EndOf(k) <= a.iO
  <2> SUFFICES ASSUME NEW k \in a.O PROVE k.nr \in Nat /\ k.cnt \in Nat \ {0} /\ EndOf(k) \in Nat /\ EndOf(k) <= a.iO
    OBVIOUS
  <2>1. k.nr \in Nat /\ k.cnt \in Nat \ {0}
    BY DEF PeerType, Packet
  <2>2. Marked(a, EndOf(k))
    BY DEF Stream
  <2> QED BY <2>1, <2>2 DEF Marked, EndOf
<1>4. ASSUME NEW y \in Int, Marked(a, y) PROVE Marked(q, y)
  <2>1. y <= a.iO
    BY <1>4 DEF Marked
  <2>2. y <= pkt.nr /\ y <= q.iO
    BY <1>1, <2>1
  <2> QED BY <1>4, <2>2 DEF Marked
<1>5. Marked(q, EndOf(pkt))
  <2>1. \A k \in a.O : EndOf(k) <= EndOf(pkt)
    BY <1>1, <1>3
  <2>2. EndOf(pkt) <= EndOf(pkt)
    BY <1>1
  <2> QED BY <2>1, <2>2 DEF Marked
<1>6. ASSUME NEW y \in Nat, Kept(a, y) PROVE Kept(q, y)
  <2> SUFFICES ASSUME NEW i \in y .. q.iO - 1 PROVE \E k \in a.O \cup {pkt} : i \in Fragments(k)
    BY DEF Kept
  <2>1. CASE i <= a.iO - 1
    <3>1. i \in y .. a.iO - 1
      BY <1>1, <2>1
    <3> QED BY <1>6, <3>1 DEF Kept
  <2>2. CASE i >= a.iO
    <3>1. i \in Fragments(pkt)
      BY <1>1, <2>2 DEF Fragments
    <3> QED BY <3>1
  <2> QED BY <1>1, <2>1, <2>2
<1>7. \A i \in 1 .. Len(x) : x[i].nr <= q.iO /\ (x[i].type = "Data" => Marked(q, EndOf(x[i].pkt)))
  <2> SUFFICES ASSUME NEW i \in 1 .. Len(x)
               PROVE  x[i].nr <= q.iO /\ (x[i].type = "Data" => Marked(q, EndOf(x[i].pkt)))
    OBVIOUS
  <2>1. CASE i \in 1 .. Len(w) /\ x[i] = w[i]
    <3>1. x[i] \in Datagram /\ x[i].nr <= a.iO /\ (x[i].type = "Data" => Marked(a, EndOf(x[i].pkt)))
      <4>1. x[i] \in Datagram
        BY <2>1, ElementOfSeq
      <4> QED BY <2>1, <4>1 DEF Stream, Are
    <3>2. x[i].nr \in Nat /\ (x[i].type = "Data" => EndOf(x[i].pkt) \in Nat)
      BY <3>1 DEF Datagram, Packet, EndOf
    <3> QED BY <1>1, <1>4, <3>1, <3>2
  <2>2. CASE i - Len(w) \in 1 .. Len(out) /\ x[i] = out[i - Len(w)]
    <3>1. x[i].pkt = pkt /\ x[i].nr \in Fragments(pkt)
      BY <2>2
    <3>2. x[i].nr <= q.iO
      BY <1>1, <3>1 DEF Fragments
    <3> QED BY <1>5, <3>1, <3>2
  <2> QED BY <1>2, <2>1, <2>2
<1>8. \A i \in Are(x, {"Data"}) : Marked(q, EndOf(x[i].pkt))
  BY <1>7 DEF Are
<1>9. b.iRI <= q.iO
  BY <1>1 DEF Stream, PeerType
<1>10. \A k \in q.O : Marked(q, EndOf(k))
  BY <1>3, <1>4, <1>5 DEF Stream
<1>11. \A r \in b.I : Marked(q, EndOf(r.pkt))
  <2>1. \A r \in b.I : Marked(a, EndOf(r.pkt)) /\ r.pkt \in Packet
    BY DEF Stream, PeerType
  <2>2. \A r \in b.I : EndOf(r.pkt) \in Int
    BY <2>1 DEF Packet, EndOf
  <2> QED BY <1>4, <2>1, <2>2
<1>12. Marked(q, b.iI) /\ (~Gone(b) => Kept(q, b.iI))
  BY <1>4, <1>6 DEF Stream, PeerType
<1>13. \A i \in Are(v, {"Check"}) :
           /\ Marked(q, v[i].ack) /\ Kept(q, v[i].ack)
           /\ ~Gone(b) => v[i].ack <= b.iI
           /\ \A j \in 1 .. Len(v[i].ask) : v[i].ack <= v[i].ask[j] /\ v[i].ask[j] < q.iO
  <2> SUFFICES ASSUME NEW i \in Are(v, {"Check"})
               PROVE  /\ Marked(q, v[i].ack) /\ Kept(q, v[i].ack)
                      /\ ~Gone(b) => v[i].ack <= b.iI
                      /\ \A j \in 1 .. Len(v[i].ask) : v[i].ack <= v[i].ask[j] /\ v[i].ask[j] < q.iO
    OBVIOUS
  <2>1. v[i].ack \in Nat /\ \A j \in 1 .. Len(v[i].ask) : v[i].ask[j] \in Nat
    <3>1. v[i] \in Datagram /\ v[i].type = "Check"
      BY ElementOfSeq DEF Are
    <3>2. v[i].ack \in Nat /\ v[i].ask \in Seq(Nat)
      BY <3>1 DEF Datagram
    <3> QED BY <3>2, ElementOfSeq
  <2>2. /\ Marked(a, v[i].ack) /\ Kept(a, v[i].ack) /\ (~Gone(b) => v[i].ack <= b.iI)
        /\ \A j \in 1 .. Len(v[i].ask) : v[i].ack <= v[i].ask[j] /\ v[i].ask[j] < a.iO
    BY DEF Stream
  <2>3. \A j \in 1 .. Len(v[i].ask) : v[i].ask[j] < q.iO
    <3>1. \A z \in Nat : z < a.iO => z < q.iO
      BY <1>1
    <3> QED BY <2>1, <2>2, <3>1
  <2> QED BY <1>4, <1>6, <2>1, <2>2, <2>3
<1>14. \A i, j \in Are(v, {"Check"}) : i < j => v[i].ack <= v[j].ack
  BY DEF Stream
<1>15. Stream(q, x, b, v)
  BY <1>7, <1>8, <1>9, <1>10, <1>11, <1>12, <1>13, <1>14 DEF Stream
<1> QED BY <1>15 DEF x

LEMMA SendStreams ==
  ASSUME OneConnection, OnePeerEach, RoomLeft, Streams, NEW n \in Computers, Send(n)
  PROVE  Streams'
<1> DEFINE o == Other(n)
           a == peer[n]
<1>1. o \in Computers /\ Other(o) = n
  BY OtherIs
<1>2. /\ Ready(a) /\ PeerType(a) /\ PeerType(peer[o]) /\ Idle(a)
      /\ net[n] \in Seq(Datagram) /\ net[o] \in Seq(Datagram)
  BY <1>1 DEF OneConnection, Ready, Flow
<1>3. a = [f \in Fields |-> a[f]] /\ a.session = 1 /\ a.start = 0 /\ a.status = "Works" /\ ~Gone(a)
  <2>1. a.status = "Works" /\ a.session <= 1
    BY DEF Send, OnePeerEach
  <2>2. a.session = 0 => a.status = "Closed"
    BY <1>2 DEF Idle
  <2>3. a = [f \in Fields |-> a[f]] /\ a.start = 0 /\ a.session \in Nat
    BY <1>2 DEF PeerType
  <2>4. a.session = 1
    BY <2>1, <2>2, <2>3
  <2> QED BY <2>1, <2>3, <2>4 DEF Gone
<1>4. PICK cnt \in Sizes :
        LET pkt == [nr |-> a.iO, cnt |-> cnt, from |-> <<a.session, a.start>>]
            all == a.O \cup {pkt}
            kept == IF Cardinality(all) <= MaxBacklog THEN all
                    ELSE {q \in all : \E r \in all : r.nr < q.nr}
        IN  Step(n, [p |-> [a EXCEPT !.O = kept, !.iO = @ + cnt],
                     out |-> [i \in 1 .. cnt |-> Fragment(pkt, pkt.nr + i - 1)]], net[n])
  BY DEF Send
<1> DEFINE pkt == [nr |-> a.iO, cnt |-> cnt, from |-> <<a.session, a.start>>]
           all == a.O \cup {pkt}
           kept == IF Cardinality(all) <= MaxBacklog THEN all
                   ELSE {q \in all : \E r \in all : r.nr < q.nr}
           v == [a EXCEPT !.O = kept, !.iO = @ + cnt]
           out == [i \in 1 .. cnt |-> Fragment(pkt, pkt.nr + i - 1)]
<1>5. cnt \in Nat \ {0}
  BY Limits
<1>6. pkt \in Packet /\ pkt.nr = a.iO /\ pkt.cnt = cnt /\ a.iO \in Nat
  BY <1>2, <1>3, <1>5 DEF Packet, PeerType
<1>7. IsFiniteSet(a.O) /\ a.reason # "starvation" /\ Stream(a, net[o], peer[o], net[n])
  BY <1>1, <1>3 DEF Streams
<1>8. kept = a.O \cup {pkt} /\ IsFiniteSet(kept)
  <2>1. Cardinality(a.O) < MaxBacklog /\ MaxBacklog \in Nat
    BY Limits DEF RoomLeft
  <2> HIDE DEF pkt, a
  <2>2. IsFiniteSet(all) /\ Cardinality(a.O) \in Nat /\ Cardinality(all) \in Nat
        /\ (Cardinality(all) = Cardinality(a.O) \/ Cardinality(all) = Cardinality(a.O) + 1)
    BY <1>7, FS_AddElement, FS_CardinalityType
  <2>3. Cardinality(all) <= MaxBacklog
    BY <2>1, <2>2
  <2> QED BY <2>2, <2>3
<1>9. Step(n, [p |-> v, out |-> out], net[n])
  BY <1>4
<1> HIDE DEF a, o
<1>10. /\ v.O = kept /\ v.iO = a.iO + cnt
       /\ \A f \in Fields \ {"O", "iO"} : v[f] = a[f]
  BY <1>3 DEF Fields
<1>11. peer' = [peer EXCEPT ![n] = OnShareFree(v)] /\ net' = [net EXCEPT ![n] = net[n], ![o] = @ \o out]
  BY <1>9 DEF Step, o
<1> HIDE DEF v, kept
<1>12. \A f \in {"status", "session", "iI", "iRI", "I", "reason"} : v[f] = a[f]
  BY <1>10 DEF Fields
<1>13. v.status = "Works" /\ v.session = 1 /\ OnShareFree(v) = v
  BY <1>3, <1>12 DEF OnShareFree
<1>14. out \in Seq(Datagram) /\ Len(out) = cnt
       /\ \A i \in 1 .. Len(out) : out[i].type = "Data" /\ out[i].pkt = pkt /\ out[i].nr \in Fragments(pkt)
  <2>1. \A i \in 1 .. cnt : pkt.nr + i - 1 \in Nat /\ pkt.nr + i - 1 \in Fragments(pkt)
    BY <1>5, <1>6 DEF Fragments
  <2> HIDE DEF pkt
  <2>2. \A i \in 1 .. cnt : out[i] = Fragment(pkt, pkt.nr + i - 1)
    OBVIOUS
  <2> HIDE DEF out
  <2>3. \A i \in 1 .. cnt : out[i] \in Datagram /\ out[i].type = "Data" /\ out[i].pkt = pkt /\ out[i].nr \in Fragments(pkt)
    <3> SUFFICES ASSUME NEW i \in 1 .. cnt
                 PROVE  out[i] \in Datagram /\ out[i].type = "Data" /\ out[i].pkt = pkt /\ out[i].nr \in Fragments(pkt)
      OBVIOUS
    <3> DEFINE j == pkt.nr + i - 1
    <3>1. out[i] = [type |-> "Data", nr |-> j, pkt |-> pkt] /\ j \in Nat /\ j \in Fragments(pkt)
      BY <2>1, <2>2 DEF Fragment
    <3> HIDE DEF j
    <3>2. out[i] \in Datagram
      BY <1>6, <3>1 DEF Datagram
    <3> QED BY <3>1, <3>2
  <2>4. out \in Seq(Datagram) /\ Len(out) = cnt
    <3>1. out = [i \in 1 .. cnt |-> Fragment(pkt, pkt.nr + i - 1)]
      BY DEF out
    <3>2. \A i \in 1 .. cnt : Fragment(pkt, pkt.nr + i - 1) \in Datagram
      BY <2>2, <2>3
    <3> QED BY <1>5, <3>1, <3>2, IsASeq
  <2> QED BY <2>3, <2>4
<1> HIDE DEF out, pkt
<1>15. Stream(v, net[o] \o out, peer[o], net[n])
  <2>1. v.iO = EndOf(pkt) /\ v.O = a.O \cup {pkt}
    BY <1>6, <1>8, <1>10 DEF EndOf
  <2> QED BY <1>2, <1>6, <1>7, <1>14, <2>1, StreamMore
<1>16. Hears(a, {}, v, out)
  <2>1. Are(out, {"Check"}) = {}
    BY <1>14 DEF Are
  <2>2. {r.pkt : r \in v.I} \subseteq Here(a, {})
    BY <1>12 DEF Here
  <2>3. a.iI \in Nat /\ a.iRI \in Nat /\ v.iI = a.iI /\ v.iRI = a.iRI
    BY <1>2, <1>12 DEF PeerType
  <2> QED BY <1>3, <1>14, <2>1, <2>2, <2>3 DEF Hears
<1>17. v.reason # "starvation" /\ IsFiniteSet(v.O)
  BY <1>7, <1>8, <1>10, <1>12
<1>18. Leaves(net[n], {}, net[n])
  BY DEF Leaves
<1> QED BY <1>11, <1>13, <1>15, <1>16, <1>17, <1>18, StepStreams DEF a, o

LEMMA ReCheckStreams ==
  ASSUME OneConnection, Streams, NEW n \in Computers, ReCheckAllowed(n)
  PROVE  Streams'
<1> DEFINE p == peer[n]
           q == [p EXCEPT !.noReCheck = FALSE]
<1>1. p = [f \in Fields |-> p[f]]
  BY DEF OneConnection, PeerType
<1>2. peer' = [peer EXCEPT ![n] = q] /\ net' = net
  BY DEF ReCheckAllowed
<1> HIDE DEF p
<1>3. \A f \in Fields \ {"noReCheck"} : q[f] = p[f]
  BY <1>1 DEF Fields
<1> HIDE DEF q
<1>4. \A f \in {"status", "session", "iO", "iI", "iRI", "O", "I", "reason"} : q[f] = p[f]
  BY <1>3 DEF Fields
<1>5. /\ Gone(q) <=> Gone(p)
      /\ \A w, b, u : (Stream(p, w, b, u) => Stream(q, w, b, u)) /\ (Stream(b, w, p, u) => Stream(b, w, q, u))
  <2>1. \A y : (Marked(p, y) <=> Marked(q, y)) /\ (Kept(p, y) <=> Kept(q, y))
    BY <1>4 DEF Marked, Kept
  <2>2. Gone(q) <=> Gone(p)
    BY <1>4 DEF Gone
  <2>3. ASSUME NEW w, NEW b, NEW u, Stream(p, w, b, u) PROVE Stream(q, w, b, u)
    BY <1>4, <2>1, <2>3 DEF Stream
  <2>4. ASSUME NEW w, NEW b, NEW u, Stream(b, w, p, u) PROVE Stream(b, w, q, u)
    BY <1>4, <2>2, <2>4 DEF Stream
  <2> QED BY <2>2, <2>3, <2>4
<1>6. \A k \in Computers : peer'[k] = peer[k] \/ (k = n /\ peer'[k] = q)
  <2>1. peer = [k \in Computers |-> peer[k]]
    BY DEF OneConnection
  <2> QED BY <1>2, <2>1
<1>7. \A k \in Computers : Other(k) \in Computers /\ Other(k) # k
  BY OtherIs
<1>8. ASSUME NEW k \in Computers
      PROVE  /\ IsFiniteSet(peer'[k].O) /\ peer'[k].reason # "starvation"
             /\ ~Gone(peer'[Other(k)]) => Stream(peer'[Other(k)], net[k], peer'[k], net[Other(k)])
  <2>1. /\ IsFiniteSet(peer[k].O) /\ peer[k].reason # "starvation"
        /\ ~Gone(peer[Other(k)]) => Stream(peer[Other(k)], net[k], peer[k], net[Other(k)])
    BY DEF Streams
  <2>2. CASE k = n
    <3>1. Other(k) # n
      BY <1>7, <2>2
    <3>2. peer'[Other(k)] = peer[Other(k)]
      BY <1>6, <1>7, <3>1
    <3> QED BY <1>4, <1>5, <1>6, <2>1, <2>2, <3>2 DEF p
  <2>3. CASE k # n
    BY <1>5, <1>6, <1>7, <2>1, <2>3 DEF p
  <2> QED BY <2>2, <2>3
<1> QED BY <1>2, <1>8 DEF Streams

LEMMA LoseStreams ==
  ASSUME ~Reorder, OneConnection, Streams, NEW n \in Computers, Lose(n)
  PROVE  Streams'
<1> DEFINE o == Other(n)
           a == peer[n]
           left == RemoveAt(net[n], 1)
<1>1. o \in Computers /\ Other(o) = n /\ o # n
  BY OtherIs
<1>2. /\ Ready(a) /\ PeerType(a) /\ PeerType(peer[o]) /\ a.iI \in Nat /\ a.iRI \in Nat
      /\ net[n] \in Seq(Datagram) /\ net[o] \in Seq(Datagram)
      /\ peer = [k \in Computers |-> peer[k]] /\ net = [k \in Computers |-> net[k]]
  BY <1>1 DEF OneConnection, Ready, Flow, PeerType
<1>3. IsFiniteSet(a.O) /\ a.reason # "starvation" /\ (~Gone(a) => Stream(a, net[o], peer[o], net[n]))
  BY <1>1 DEF Streams
<1>4. net' = [net EXCEPT ![n] = left] /\ peer' = peer /\ 1 \in 1 .. Len(net[n])
  BY DEF Lose, Arriving
<1>5. Leaves(net[n], {}, left)
  BY <1>2, <1>4, EmptySeq DEF Leaves
<1> HIDE DEF a, o, left
<1>6. <<>> \in Seq(Datagram) /\ (\A types : Are(<<>>, types) = {}) /\ net[o] \o <<>> = net[o] /\ \A i \in 1 .. Len(<<>>) : FALSE
  BY <1>2 DEF Are
<1>7. Hears(a, {}, a, <<>>)
  <2>1. {r.pkt : r \in a.I} \subseteq Here(a, {})
    BY DEF Here
  <2> QED BY <1>2, <1>6, <2>1 DEF Hears
<1>8. Tells(a, {}, a, <<>>)
  BY <1>6 DEF Tells
<1>9. ~Gone(a) => Stream(a, net[o] \o <<>>, peer[o], left)
  <2>1. peer[o].iI \in Nat
    BY <1>2 DEF PeerType
  <2> QED BY <1>2, <1>3, <1>5, <1>8, <2>1, StreamOut
<1>10. peer' = [peer EXCEPT ![n] = a] /\ net' = [net EXCEPT ![n] = left, ![o] = @ \o <<>>]
  <2>1. [peer EXCEPT ![n] = a] = peer
    BY <1>2 DEF a
  <2>2. net' = [net EXCEPT ![n] = left, ![o] = @ \o <<>>]
    BY <1>1, <1>2, <1>4, <1>6
  <2> QED BY <1>4, <2>1, <2>2
<1> QED BY <1>3, <1>5, <1>7, <1>9, <1>10, StepStreams DEF a, o

LEMMA NextKeepsStreams ==
  ASSUME ~Reorder, OneConnection, OnePeerEach, OnePeerEach', RoomLeft, Streams, [Next]_vars
  PROVE  Streams'
<1>1. CASE UNCHANGED vars
  BY <1>1 DEF Streams, vars
<1>2. ASSUME NEW n \in Computers, Connect(n) \/ UserClose(n) \/ OnTimeout(n) \/ DoCheck(n) \/ Receive(n) \/ Duplicate(n)
      PROVE  Streams'
  BY <1>2, HandlesStreams, StepHandles
<1>3. ASSUME NEW n \in Computers, ReCheckAllowed(n) PROVE Streams'
  BY <1>3, ReCheckStreams
<1>4. ASSUME NEW n \in Computers, Lose(n) PROVE Streams'
  BY <1>4, LoseStreams
<1>5. ASSUME NEW n \in Computers, Send(n) PROVE Streams'
  BY <1>5, SendStreams
<1> QED BY <1>1, <1>2, <1>3, <1>4, <1>5 DEF Next

LEMMA InitStreams == Init => Streams
<1> SUFFICES ASSUME Init PROVE Streams
  OBVIOUS
<1> DEFINE p == [NewPeer(0) EXCEPT !.status = "Closed"]
           q == OnShareFree(p)
<1>1. p = [NewPeer(0) EXCEPT !.status = "Closed"] /\ q = [NewPeer(0) EXCEPT !.status = "Closed"]
  BY DEF OnShareFree, NewPeer
<1>2. q.iO = 0 /\ q.iI = 0 /\ q.iRI = 0 /\ q.O = {} /\ q.I = {} /\ q.reason = "none"
  BY <1>1 DEF NewPeer
<1>3. peer = [n \in Computers |-> q] /\ net = [n \in Computers |-> <<>>]
  BY DEF Init
<1> HIDE DEF q
<1>4. (\A types : Are(<<>>, types) = {}) /\ \A i \in 1 .. Len(<<>>) : FALSE
  BY DEF Are
<1>5. Marked(q, 0) /\ Kept(q, 0)
  BY <1>2 DEF Marked, Kept
<1>6. Stream(q, <<>>, q, <<>>)
  BY <1>2, <1>4, <1>5 DEF Stream
<1>7. \A n \in Computers : Other(n) \in Computers
  BY OtherIs
<1>8. IsFiniteSet(q.O) /\ q.reason # "starvation"
  BY <1>2, FS_EmptySet
<1> QED BY <1>3, <1>6, <1>7, <1>8 DEF Streams

\* With the same assumptions, and while a Peer keeps all it sent and was not told
\* to be received, no connection ends with "starvation": what the other computer
\* asks for is never older than what it acknowledged before (Peer::Check, OnRecv
\* of a Check, ClearPackets).  When the backlog overflows, Send throws away the
\* first packet, and the other computer may ask for it.
THEOREM NoStarvationHolds ==
  ASSUME ~Reorder
  PROVE  Spec /\ []OnePeerEach /\ []RoomLeft => []NoStarvation
<1>1. OneConnection /\ OnePeerEach /\ OnePeerEach' /\ [Next]_vars => OneConnection'
  BY NextKeepsOne
<1>2. OneConnection /\ OnePeerEach /\ OnePeerEach' /\ RoomLeft /\ Streams /\ [Next]_vars => Streams'
  BY NextKeepsStreams
<1>3. Streams => NoStarvation
  BY DEF Streams, NoStarvation
<1> QED BY <1>1, <1>2, <1>3, InitOne, InitStreams, PTL DEF Spec
=============================================================================
