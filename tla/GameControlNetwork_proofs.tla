---------------------- MODULE GameControlNetwork_proofs ----------------------
(***************************************************************************)
(* Proofs about the control engine, for any number of clients, any inputs  *)
(* and any control rate, PreSend, backlog and control mode.                *)
(***************************************************************************)
EXTENDS GameControlNetwork, TLAPS

\* The packets that may be in the stack of a client: a packet of a client holds
\* the input of this client and nothing else.
Stack == {S \in SUBSET Packet : \A p \in S : p.id # All => DOMAIN p.ctrl = {p.id}}

\* Control is a function from its clients to their inputs.
LEMMA CtrlType ==
    ASSUME NEW f \in Ctrl
    PROVE  /\ DOMAIN f \subseteq Client
           /\ f \in [DOMAIN f -> Input]
  BY DEF Ctrl

\* PackCompleteCtrl makes a packet, out of packets of the contributors.
LEMMA PackedType ==
    ASSUME NEW S \in Stack, NEW t \in Nat
    PROVE  /\ Packed(S, t) \in Packet
           /\ Packed(S, t).id = All
           /\ Packed(S, t).tick = t
           /\ DOMAIN Packed(S, t).ctrl = Contributors(S, t)
           /\ \A c \in Contributors(S, t) : Part(Packed(S, t), c) \in S
<1> DEFINE ctrl == Packed(S, t).ctrl
<1>1. ASSUME NEW c \in Contributors(S, t)
      PROVE  \E p \in S : /\ p.id = c /\ p.tick = t
                          /\ p.ctrl \in [{c} -> Input]
                          /\ ctrl[c] = p.ctrl[c]
  <2> DEFINE p == CHOOSE p \in getCtrl(S, c, t) : TRUE
  <2>1. p \in getCtrl(S, c, t)
    BY <1>1 DEF Contributors
  <2>2. p \in S /\ p \in Packet /\ p.id = c /\ p.tick = t
    BY <2>1 DEF getCtrl, Stack
  <2>3. c # All /\ c \in Client
    BY <1>1, ClientAssumption DEF Contributors
  <2>4. p.ctrl \in [{c} -> Input]
    BY <2>2, <2>3, CtrlType DEF Stack, Packet
  <2>5. ctrl[c] = p.ctrl[c]
    BY <1>1 DEF Packed
  <2> QED
    BY <2>2, <2>4, <2>5
<1>2. Contributors(S, t) \subseteq Client
  BY ClientAssumption DEF Contributors
<1>3. DOMAIN ctrl = Contributors(S, t)
  BY DEF Packed
<1>4. ctrl = [c \in Contributors(S, t) |-> ctrl[c]]
  BY DEF Packed
<1>5. ctrl \in [Contributors(S, t) -> Input]
  BY <1>1, <1>4
<1>6. ctrl \in Ctrl
  BY <1>2, <1>5 DEF Ctrl
<1>7. Packed(S, t) = [id |-> All, tick |-> t, ctrl |-> ctrl]
  BY DEF Packed
<1>8. ASSUME NEW c \in Contributors(S, t)
      PROVE  Part(Packed(S, t), c) \in S
  <2>1. PICK p \in S : /\ p.id = c /\ p.tick = t
                       /\ p.ctrl \in [{c} -> Input]
                       /\ ctrl[c] = p.ctrl[c]
    BY <1>1, <1>8
  <2>2. p \in Packet
    BY DEF Stack
  <2>3. p = [id |-> p.id, tick |-> p.tick, ctrl |-> p.ctrl]
    BY <2>2 DEF Packet
  <2>4. p.ctrl = [d \in {c} |-> ctrl[c]]
    BY <2>1
  <2> QED
    BY <1>7, <2>1, <2>3, <2>4 DEF Part
<1> QED
  BY <1>3, <1>6, <1>7, <1>8 DEF Packet

-----------------------------------------------------------------------------
\* What a caller of CheckCompleteCtrl may rely on: P is what was packed.
Checked(n, S, out, P) ==
    /\ P \subseteq Packet
    /\ \A p \in P :
         /\ p.id = All /\ getCtrl(S, All, p.tick) = {}
         /\ p.tick \in (iControlReady[n] + 1) .. (iControlReady'[n] + 1)
         /\ p = Packed(S, p.tick)
         /\ Mode = "Decentral" \/ n = Host
         /\ Mode # "Async" => Contributors(S, p.tick) = Activated
    /\ iControlReady' \in [Client -> Int]
    /\ iControlReady'[n] >= iControlReady[n]
    /\ \A m \in Client \ {n} : iControlReady'[m] = iControlReady[m]
    /\ \A t \in (iControlReady[n] + 1) .. iControlReady'[n] : getCtrl(S \cup P, All, t) # {}
    /\ pCtrlStack' \in [Client -> SUBSET Packet]
    /\ pCtrlStack'[n] \subseteq S \cup P
    /\ \A p \in S \cup P : p.tick >= ControlTick[n] => p \in pCtrlStack'[n]
    /\ \A p \in S \cup P : p.tick >= ControlTick[n] - Backlog => p \in pCtrlStack'[n]
    /\ \A m \in Client \ {n} : pCtrlStack'[m] = pCtrlStack[m]
    /\ net' \subseteq net \cup out \cup To(Client, P)
    /\ req' \subseteq [to : Client, from : Client, tick : Nat]

\* CheckCompleteCtrl packs control only for ticks of which it found none, makes
\* only ticks ready it has control for, and clears no control that is not yet
\* executed.
LEMMA CheckedLemma ==
    ASSUME TypeOK, NEW n \in Client, NEW S \in Stack, NEW out,
           CheckCompleteCtrl(n, S, out)
    PROVE  \E P : Checked(n, S, out, P)
<1>0. /\ iControlReady \in [Client -> Int] /\ iControlReady[n] >= -1
      /\ ControlTick \in [Client -> Nat]
      /\ pCtrlStack \in [Client -> SUBSET Packet]
      /\ req \subseteq [to : Client, from : Client, tick : Nat]
      /\ S \subseteq Packet
      /\ \A p \in Packet : p.tick \in Nat
  BY DEF TypeOK, Stack, Packet
<1>1. CASE ~fRunning'[n]
  <2>1. /\ pCtrlStack' = [pCtrlStack EXCEPT ![n] = S]
        /\ net' = net \cup out
        /\ UNCHANGED <<iControlReady, req>>
    BY <1>1 DEF CheckCompleteCtrl
  <2>2. Checked(n, S, out, {})
    BY <1>0, <2>1 DEF Checked
  <2> QED
    BY <2>2
<1>2. CASE fRunning'[n]
  <2>1. PICK late \in IF Mode = "Async" /\ frame[n] = 0 THEN BOOLEAN ELSE {FALSE},
             elapsed \in BOOLEAN,
             r \in iControlReady[n] .. (MaxTick + 1) :
         LET new == (iControlReady[n] + 1) .. (r + 1)
             packed == (UNION {Complete(n, S, t, late) : t \in new}) \ S
             others == Client \ {n}
         IN  /\ \A t \in new \ {r + 1} : TickReady(n, S, t, late)
             /\ ~TickReady(n, S, r + 1, late)
             /\ iControlReady' = [iControlReady EXCEPT ![n] = r]
             /\ pCtrlStack' = [pCtrlStack EXCEPT ![n] = ClearBacklog(n, S \cup packed)]
             /\ net' = net \cup out \cup
                       (IF Mode = "Decentral" THEN {} ELSE To(others, packed))
             /\ req' = IF /\ elapsed /\ packed = {}
                          /\ r < iTargetTick'[n]
                          /\ n \in Activated => iControlSent'[n] > r
                       THEN req \cup [to : IF Mode = "Central" THEN {Host} \ {n} ELSE others,
                                      from : {n}, tick : {r + 1}]
                       ELSE req
    BY <1>2 DEF CheckCompleteCtrl
  <2> DEFINE new == (iControlReady[n] + 1) .. (r + 1)
             P == (UNION {Complete(n, S, t, late) : t \in new}) \ S
  <2>2. r \in Int /\ r >= iControlReady[n] /\ MaxTick \in Nat /\ new \subseteq Nat
    BY <1>0, TickAssumption
  <2>3. late => Mode = "Async"
    OBVIOUS
  <2>4. ASSUME NEW p \in P
        PROVE  /\ p \in Packet /\ p.id = All /\ getCtrl(S, All, p.tick) = {}
               /\ p.tick \in new
               /\ p = Packed(S, p.tick)
               /\ Mode = "Decentral" \/ n = Host
               /\ Mode # "Async" => Contributors(S, p.tick) = Activated
    <3>1. PICK t \in new : p \in Complete(n, S, t, late) /\ p \notin S
      BY <2>4
    <3>2. getCtrl(S, All, t) = {} /\ CanPack(n, S, t, late) /\ p = Packed(S, t)
      BY <3>1 DEF Complete, getCtrl
    <3>3. p \in Packet /\ p.id = All /\ p.tick = t
      BY <2>2, <3>2, PackedType
    <3> QED
      BY <2>3, <3>2, <3>3 DEF CanPack
  <2>5. iControlReady' = [iControlReady EXCEPT ![n] = r]
    BY <2>1
  <2>6. pCtrlStack' = [pCtrlStack EXCEPT ![n] = ClearBacklog(n, S \cup P)]
    BY <2>1
  <2>7. /\ ClearBacklog(n, S \cup P) \subseteq S \cup P
        /\ \A p \in S \cup P : p.tick >= ControlTick[n] => p \in ClearBacklog(n, S \cup P)
        /\ \A p \in S \cup P : p.tick >= ControlTick[n] - Backlog => p \in ClearBacklog(n, S \cup P)
    <3>1. /\ ControlTick[n] \in Nat /\ Backlog \in Nat /\ Backlog > 0
          /\ \A p \in S \cup P : p.tick \in Nat
      BY <1>0, <2>4, TickAssumption
    <3> QED
      BY <3>1 DEF ClearBacklog, ClearCtrl
  <2>8. ASSUME NEW t \in (iControlReady[n] + 1) .. iControlReady'[n]
        PROVE  getCtrl(S \cup P, All, t) # {}
    <3>1. t \in new \ {r + 1}
      BY <1>0, <2>2, <2>5, <2>8
    <3>2. PICK p \in Complete(n, S, t, late) : TRUE
      BY <2>1, <3>1 DEF TickReady
    <3>3. p \in S \cup P
      BY <3>1, <3>2
    <3>4. p.id = All /\ p.tick = t
      <4>1. CASE getCtrl(S, All, t) # {}
        BY <3>2, <4>1 DEF Complete, getCtrl
      <4>2. CASE getCtrl(S, All, t) = {}
        BY <2>2, <3>1, <3>2, <4>2, PackedType DEF Complete
      <4> QED
        BY <4>1, <4>2
    <3> QED
      BY <3>3, <3>4 DEF getCtrl
  <2>9. net' \subseteq net \cup out \cup To(Client, P)
    <3>1. net' = net \cup out \cup (IF Mode = "Decentral" THEN {} ELSE To(Client \ {n}, P))
      BY <2>1
    <3> QED
      BY <3>1 DEF To
  <2>10. req' \subseteq [to : Client, from : Client, tick : Nat]
    <3>1. r + 1 \in Nat
      BY <1>0, <2>2
    <3>2. [to : IF Mode = "Central" THEN {Host} \ {n} ELSE Client \ {n}, from : {n}, tick : {r + 1}]
            \subseteq [to : Client, from : Client, tick : Nat]
      BY <3>1, ClientAssumption
    <3> QED
      BY <1>0, <2>1, <3>2
  <2>11. Checked(n, S, out, P)
    <3>1. P \subseteq Packet
      BY <2>4
    <3>2. \A p \in P :
             /\ p.id = All /\ getCtrl(S, All, p.tick) = {}
             /\ p.tick \in (iControlReady[n] + 1) .. (iControlReady'[n] + 1)
             /\ p = Packed(S, p.tick)
             /\ Mode = "Decentral" \/ n = Host
             /\ Mode # "Async" => Contributors(S, p.tick) = Activated
      BY <1>0, <2>4, <2>5
    <3> HIDE DEF P
    <3>3. /\ iControlReady' \in [Client -> Int]
          /\ iControlReady'[n] >= iControlReady[n]
          /\ \A m \in Client \ {n} : iControlReady'[m] = iControlReady[m]
      BY <1>0, <2>2, <2>5
    <3>4. /\ pCtrlStack' \in [Client -> SUBSET Packet]
          /\ pCtrlStack'[n] = ClearBacklog(n, S \cup P)
          /\ \A m \in Client \ {n} : pCtrlStack'[m] = pCtrlStack[m]
      BY <1>0, <2>6, <2>7, <3>1
    <3> QED
      BY <2>7, <2>8, <2>9, <2>10, <3>1, <3>2, <3>3, <3>4 DEF Checked
  <2> QED
    BY <2>11
<1> QED
  BY <1>1, <1>2

-----------------------------------------------------------------------------
\* What is known consists of packets, and packets of a client are its own.
LEMMA KnownType ==
    ASSUME IInv
    PROVE  /\ Known \in Stack
           /\ \A n \in Client : pCtrlStack[n] \in Stack /\ pCtrlStack[n] \subseteq Known
<1>1. Known \subseteq Packet
  BY DEF IInv, TypeOK, Known
<1>2. ASSUME NEW p \in Known, p.id # All
      PROVE  DOMAIN p.ctrl = {p.id}
  <2>1. p.id \in Client
    BY <1>1, <1>2 DEF Packet
  <2>2. p \in given[p.id]
    BY <1>2 DEF IInv, PacketInv
  <2> QED
    BY <2>1, <2>2 DEF IInv, GivenInv
<1>3. \A n \in Client : pCtrlStack[n] \subseteq Known
  BY DEF Known
<1> QED
  BY <1>1, <1>2, <1>3 DEF Stack

\* A step that adds the packets New, made by their clients, and then checks for
\* complete control, preserves what is known about packets and ticks.
LEMMA CheckPreserves ==
    ASSUME IInv, GivenInv', NEW n \in Client, NEW S \in Stack, NEW P,
           NEW New, NEW dest \in SUBSET Client, Checked(n, S, To(dest, New), P),
           pCtrlStack[n] \subseteq S, S \subseteq Known \cup New,
           \A p \in New : p.id # All /\ p \in given'[p.id],
           \A c \in Client : given[c] \subseteq given'[c],
           UNCHANGED <<ControlTick, frame, executed>>
    PROVE  PacketInv' /\ HostInv' /\ ReadyInv'
<1>1. Known' \subseteq Known \cup New \cup P
  <2>1. ASSUME NEW m \in Client, NEW p \in pCtrlStack'[m]
        PROVE  p \in Known \cup New \cup P
    <3>1. CASE m = n
      BY <2>1, <3>1 DEF Checked
    <3>2. CASE m # n
      BY <2>1, <3>2 DEF Checked, Known
    <3> QED
      BY <3>1, <3>2
  <2>2. ASSUME NEW m \in net'
        PROVE  m.pkt \in Known \cup New \cup P
    BY <2>2 DEF Checked, Known, To
  <2>3. \A m \in Client : executed'[m] \subseteq Known
    BY DEF Known
  <2> QED
    BY <2>1, <2>2, <2>3 DEF Known
<1>2. /\ P \subseteq Packet /\ S \subseteq Packet
      /\ iControlReady \in [Client -> Int]
      /\ ControlTick \in [Client -> Nat]
      /\ iControlReady[n] \in Int /\ iControlReady[n] >= -1
      /\ iControlReady'[n] \in Int /\ iControlReady'[n] >= iControlReady[n]
      /\ ControlTick[n] \in Nat
  BY DEF Checked, Stack, IInv, TypeOK
<1>3. ASSUME NEW p \in P
      PROVE  /\ p.id = All /\ getCtrl(S, All, p.tick) = {}
             /\ p.tick \in (iControlReady[n] + 1) .. (iControlReady'[n] + 1)
             /\ p.tick \in Nat
             /\ p = Packed(S, p.tick)
             /\ Mode = "Decentral" \/ n = Host
             /\ Mode # "Async" => Contributors(S, p.tick) = Activated
             /\ p \in pCtrlStack'[n]
  <2>1. /\ p.id = All /\ getCtrl(S, All, p.tick) = {}
        /\ p.tick \in (iControlReady[n] + 1) .. (iControlReady'[n] + 1)
        /\ p = Packed(S, p.tick)
        /\ Mode = "Decentral" \/ n = Host
        /\ Mode # "Async" => Contributors(S, p.tick) = Activated
    BY DEF Checked
  <2>2. p.tick >= ControlTick[n]
    BY <1>2, <2>1 DEF IInv, ReadyInv
  <2>3. p \in pCtrlStack'[n]
    BY <2>2 DEF Checked
  <2> QED
    BY <1>2, <2>1, <2>3
<1>4. PacketInv'
  <2> SUFFICES ASSUME NEW p \in Known'
               PROVE  IF p.id = All
                      THEN /\ \A c \in DOMAIN p.ctrl : Part(p, c) \in given'[c]
                           /\ Mode # "Async" => DOMAIN p.ctrl = Activated
                      ELSE p \in given'[p.id]
    BY DEF PacketInv, Part
  <2>1. CASE p \in Known
    <3>1. p \in Packet
      BY <2>1, KnownType DEF Stack
    <3>2. CASE p.id = All
      <4>1. DOMAIN p.ctrl \subseteq Client
        BY <3>1, CtrlType DEF Packet
      <4> QED
        BY <2>1, <3>2, <4>1 DEF IInv, PacketInv
    <3>3. CASE p.id # All
      BY <2>1, <3>1, <3>3 DEF IInv, PacketInv, Packet
    <3> QED
      BY <3>2, <3>3
  <2>2. CASE p \in New
    BY <2>2
  <2>3. CASE p \in P
    <3>1. /\ p.id = All /\ DOMAIN p.ctrl = Contributors(S, p.tick)
          /\ \A c \in Contributors(S, p.tick) : Part(p, c) \in S
      BY <1>3, <2>3, PackedType
    <3>2. ASSUME NEW c \in Contributors(S, p.tick)
          PROVE  Part(p, c) \in given'[c]
      <4>1. c \in Client /\ c # All
        BY ClientAssumption DEF Contributors
      <4>2. Part(p, c) \in S /\ Part(p, c).id = c
        BY <3>1 DEF Part
      <4>3. CASE Part(p, c) \in New
        BY <4>2, <4>3
      <4>4. CASE Part(p, c) \in Known
        BY <4>1, <4>2, <4>4 DEF IInv, PacketInv
      <4> QED
        BY <4>2, <4>3, <4>4
    <3> QED
      BY <1>3, <2>3, <3>1, <3>2
  <2> QED
    BY <1>1, <2>1, <2>2, <2>3
<1>5. HostInv'
  <2> SUFFICES ASSUME Mode # "Decentral", NEW p \in Known', p.id = All
               PROVE  /\ p.tick <= iControlReady'[Host] + 1
                      /\ p.tick = iControlReady'[Host] + 1 => p \in pCtrlStack'[Host]
                      /\ \A q \in Known' : q.id = All /\ q.tick = p.tick => p = q
    BY DEF HostInv
  <2>1. Host \in Client
    BY ClientAssumption
  <2>2. p \in Known \cup P
    BY <1>1
  <2>3. CASE n # Host
    <3>1. P = {}
      BY <1>3, <2>3
    <3>2. iControlReady'[Host] = iControlReady[Host] /\ pCtrlStack'[Host] = pCtrlStack[Host]
      BY <2>1, <2>3 DEF Checked
    <3>3. \A q \in Known' : q.id = All => q \in Known
      BY <1>1, <3>1
    <3> QED
      BY <2>2, <3>1, <3>2, <3>3 DEF IInv, HostInv
  <2>4. CASE n = Host
    <3>1. ASSUME NEW q \in Known, q.id = All
          PROVE  /\ q.tick \in Nat /\ q.tick <= iControlReady[n] + 1
                 /\ q.tick = iControlReady[n] + 1 => q \in S
                 /\ \A q2 \in Known : q2.id = All /\ q2.tick = q.tick => q = q2
      <4>1. q \in Packet
        BY KnownType DEF Stack
      <4> QED
        BY <2>4, <3>1, <4>1 DEF IInv, HostInv, Packet
    <3>2. ASSUME NEW q \in Known, q.id = All, NEW q2 \in P
          PROVE  q.tick # q2.tick
      <4>1. CASE q.tick = iControlReady[n] + 1
        BY <1>3, <3>1, <3>2, <4>1 DEF getCtrl
      <4>2. CASE q.tick # iControlReady[n] + 1
        BY <1>2, <1>3, <3>1, <3>2, <4>2
      <4> QED
        BY <4>1, <4>2
    <3>3. CASE p \in Known
      <4>1. /\ p.tick \in Nat /\ p.tick <= iControlReady[n] + 1
            /\ p.tick = iControlReady[n] + 1 => p \in S
        BY <3>1, <3>3
      <4>2. p.tick = iControlReady'[n] + 1 => p \in pCtrlStack'[n]
        <5> SUFFICES ASSUME p.tick = iControlReady'[n] + 1
                     PROVE  p \in pCtrlStack'[n]
          OBVIOUS
        <5>1. p.tick = iControlReady[n] + 1
          BY <1>2, <4>1
        <5>2. p \in S /\ p.tick >= ControlTick[n]
          BY <1>2, <4>1, <5>1 DEF IInv, ReadyInv
        <5> QED
          BY <5>2 DEF Checked
      <4>3. p.tick <= iControlReady'[n] + 1
        BY <1>2, <4>1
      <4>4. \A q \in Known' : q.id = All /\ q.tick = p.tick => p = q
        BY <1>1, <3>1, <3>2, <3>3
      <4> QED
        BY <2>4, <4>2, <4>3, <4>4
    <3>4. CASE p \in P
      <4>1. p.tick <= iControlReady'[n] + 1 /\ p \in pCtrlStack'[n]
        BY <1>2, <1>3, <3>4
      <4>2. \A q \in Known' : q.id = All /\ q.tick = p.tick => p = q
        BY <1>1, <1>3, <3>2, <3>4
      <4> QED
        BY <2>4, <4>1, <4>2
    <3> QED
      BY <2>2, <3>3, <3>4
  <2> QED
    BY <2>3, <2>4
<1>6. ReadyInv'
  <2> SUFFICES ASSUME NEW m \in Client
               PROVE  /\ ControlTick[m] <= iControlReady'[m] + 1
                      /\ frame[m] > 0 => ControlTick[m] <= iControlReady'[m]
                      /\ \A t \in ControlTick[m] .. iControlReady'[m] :
                            getCtrl(pCtrlStack'[m], All, t) # {}
                      /\ \A p \in executed[m] : p.id = All
    BY DEF ReadyInv, getCtrl
  <2>1. CASE m # n
    BY <2>1 DEF Checked, IInv, ReadyInv
  <2>2. CASE m = n
    <3>1. /\ ControlTick[n] <= iControlReady[n] + 1
          /\ frame[n] > 0 => ControlTick[n] <= iControlReady[n]
          /\ \A t \in ControlTick[n] .. iControlReady[n] : getCtrl(pCtrlStack[n], All, t) # {}
          /\ \A p \in executed[n] : p.id = All
      BY DEF IInv, ReadyInv
    <3>2. ASSUME NEW t \in ControlTick[n] .. iControlReady'[n]
          PROVE  getCtrl(pCtrlStack'[n], All, t) # {}
      <4>1. PICK p \in S \cup P : p.id = All /\ p.tick = t
        <5>1. CASE t <= iControlReady[n]
          BY <1>2, <3>1, <5>1 DEF getCtrl
        <5>2. CASE t > iControlReady[n]
          <6>1. t \in (iControlReady[n] + 1) .. iControlReady'[n]
            BY <1>2, <5>2
          <6> QED
            BY <6>1 DEF Checked, getCtrl
        <5> QED
          BY <1>2, <5>1, <5>2
      <4>2. p.tick >= ControlTick[n]
        BY <1>2, <4>1
      <4>3. p \in pCtrlStack'[n]
        BY <4>2 DEF Checked
      <4> QED
        BY <4>1, <4>3 DEF getCtrl
    <3> QED
      BY <1>2, <2>2, <3>1, <3>2
  <2> QED
    BY <2>1, <2>2
<1> QED
  BY <1>4, <1>5, <1>6

\* The part of TypeOK CheckCompleteCtrl is responsible for.
LEMMA CheckType ==
    ASSUME TypeOK, NEW n \in Client, NEW S, NEW P, NEW New \in SUBSET Packet,
           NEW dest \in SUBSET Client, Checked(n, S, To(dest, New), P)
    PROVE  /\ \A m \in Client : iControlReady'[m] >= -1
           /\ iControlReady' \in [Client -> Int]
           /\ pCtrlStack' \in [Client -> SUBSET Packet]
           /\ net' \subseteq [to : Client, pkt : Packet]
           /\ req' \subseteq [to : Client, from : Client, tick : Nat]
<1>1. \A m \in Client : iControlReady'[m] >= -1
  <2> SUFFICES ASSUME NEW m \in Client PROVE iControlReady'[m] >= -1
    OBVIOUS
  <2>1. CASE m = n
    BY <2>1 DEF Checked, TypeOK
  <2>2. CASE m # n
    BY <2>2 DEF Checked, TypeOK
  <2> QED
    BY <2>1, <2>2
<1>2. net' \subseteq [to : Client, pkt : Packet]
  BY DEF Checked, TypeOK, To
<1> QED
  BY <1>1, <1>2 DEF Checked

\* The handlers that only check for complete control after they have put
\* packets that were known already into the stack.
LEMMA CheckOnly ==
    ASSUME IInv, NEW n \in Client, NEW New \in SUBSET Known,
           CheckCompleteCtrl(n, pCtrlStack[n] \cup New, {}),
           UNCHANGED <<tickVars, iControlSent, history>>,
           fRunning' \in [Client -> BOOLEAN],
           iTargetTick' \in [Client -> Nat \cup {NoTick}],
           resLoaded' \in [Client -> SUBSET ResInput]
    PROVE  IInv'
<1> DEFINE S == pCtrlStack[n] \cup New
<1>1. S \in Stack /\ S \subseteq Known
  BY KnownType DEF Stack
<1>2. TypeOK
  BY DEF IInv
<1>3. PICK P : Checked(n, S, {}, P)
  BY <1>1, <1>2, CheckedLemma
<1>4. To({}, {}) = {}
  BY DEF To
<1> HIDE DEF S
<1>5. GivenInv'
  BY DEF IInv, GivenInv, history
<1>6. PacketInv' /\ HostInv' /\ ReadyInv'
  <2>1. pCtrlStack[n] \subseteq S
    BY DEF S
  <2>2. UNCHANGED <<ControlTick, frame, executed, given>>
    BY DEF tickVars, history
  <2>3. Checked(n, S, To({}, {}), P)
    BY <1>3, <1>4
  <2>4. S \subseteq Known \cup {}
    BY <1>1
  <2> QED
    BY <1>1, <1>5, <2>1, <2>2, <2>3, <2>4, CheckPreserves
<1>7. TypeOK'
  <2>1. /\ \A m \in Client : iControlReady'[m] >= -1
        /\ iControlReady' \in [Client -> Int]
        /\ pCtrlStack' \in [Client -> SUBSET Packet]
        /\ net' \subseteq [to : Client, pkt : Packet]
        /\ req' \subseteq [to : Client, from : Client, tick : Nat]
    BY <1>2, <1>3, <1>4, CheckType
  <2> QED
    BY <1>2, <2>1 DEF TypeOK, tickVars, history
<1> QED
  BY <1>5, <1>6, <1>7 DEF IInv

\* Sending own control: the new packet is the first one of its tick.
LEMMA DoInputPreserves ==
    ASSUME IInv, NEW n \in Client, NEW i \in Input, DoInput(n, i)
    PROVE  IInv'
<1> DEFINE p == [id |-> n, tick |-> iControlSent[n] + 1, ctrl |-> [c \in {n} |-> i]]
           dest == IF Mode = "Decentral" THEN Client \ {n} ELSE {Host} \ {n}
           S == pCtrlStack[n] \cup {p}
<1>1. TypeOK
  BY DEF IInv
<1>2. p \in Packet /\ p.id = n /\ n # All /\ DOMAIN p.ctrl = {n}
  <2>1. [c \in {n} |-> i] \in Ctrl
    <3>1. {n} \in SUBSET Client /\ [c \in {n} |-> i] \in [{n} -> Input]
      OBVIOUS
    <3> QED
      BY <3>1 DEF Ctrl
  <2>2. iControlSent[n] + 1 \in Nat
    BY <1>1 DEF TypeOK
  <2> QED
    BY <2>1, <2>2, ClientAssumption DEF Packet
<1>3. S \in Stack
  BY <1>2, KnownType DEF Stack
<1>4. dest \subseteq Client
  BY ClientAssumption
<1>5. CheckCompleteCtrl(n, S, To(dest, {p}))
  BY DEF DoInput
<1>6. PICK P : Checked(n, S, To(dest, {p}), P)
  BY <1>1, <1>3, <1>5, CheckedLemma
<1>7. /\ iControlSent' = [iControlSent EXCEPT ![n] = @ + 1]
      /\ given' = [given EXCEPT ![n] = @ \cup {p}]
      /\ UNCHANGED <<ControlTick, frame, fRunning, iTargetTick, resLoaded, executed>>
  BY DEF DoInput, tickVars
<1>8. p.tick = iControlSent[n] + 1
  OBVIOUS
<1>9. S = pCtrlStack[n] \cup {p}
  OBVIOUS
<1> HIDE DEF p, dest, S
<1>10. GivenInv'
  <2> SUFFICES ASSUME NEW c \in Client, NEW q \in given'[c]
               PROVE  /\ q.id = c /\ q.tick <= iControlSent'[c]
                      /\ DOMAIN q.ctrl = {c}
                      /\ \A q2 \in given'[c] : q.tick = q2.tick => q = q2
    BY DEF GivenInv
  <2>1. /\ iControlSent[c] \in Int /\ iControlSent[n] \in Int
        /\ \A q2 \in given[c] : q2.tick \in Nat /\ q2.tick <= iControlSent[c]
    BY <1>1 DEF TypeOK, IInv, GivenInv, Packet
  <2>2. CASE c # n
    BY <1>1, <1>7, <2>2 DEF TypeOK, IInv, GivenInv
  <2>3. CASE c = n
    <3>1. given'[n] = given[n] \cup {p} /\ iControlSent'[n] = iControlSent[n] + 1
      BY <1>1, <1>7 DEF TypeOK
    <3>2. \A q2 \in given[n] : q2.tick # p.tick
      BY <1>8, <2>1, <2>3
    <3>3. \A q2 \in given[n] : q2.id = n /\ DOMAIN q2.ctrl = {n}
                                 /\ \A q3 \in given[n] : q2.tick = q3.tick => q2 = q3
      BY DEF IInv, GivenInv
    <3> QED
      BY <1>2, <1>8, <2>1, <2>3, <3>1, <3>2, <3>3
  <2> QED
    BY <2>2, <2>3
<1>11. PacketInv' /\ HostInv' /\ ReadyInv'
  <2>1. pCtrlStack[n] \subseteq S /\ S \subseteq Known \cup {p}
    BY <1>9, KnownType
  <2>2. \A c \in Client : given[c] \subseteq given'[c]
    BY <1>1, <1>7 DEF TypeOK
  <2>3. \A q \in {p} : q.id # All /\ q \in given'[q.id]
    BY <1>1, <1>2, <1>7 DEF TypeOK
  <2> QED
    BY <1>3, <1>4, <1>6, <1>7, <1>10, <2>1, <2>2, <2>3, CheckPreserves
<1>12. TypeOK'
  <2>1. /\ \A m \in Client : iControlReady'[m] >= -1
        /\ iControlReady' \in [Client -> Int]
        /\ pCtrlStack' \in [Client -> SUBSET Packet]
        /\ net' \subseteq [to : Client, pkt : Packet]
        /\ req' \subseteq [to : Client, from : Client, tick : Nat]
    BY <1>1, <1>2, <1>4, <1>6, CheckType
  <2>2. iControlSent' \in [Client -> Int] /\ \A m \in Client : iControlSent'[m] >= -1
    BY <1>1, <1>7 DEF TypeOK
  <2>3. given' \in [Client -> SUBSET Packet]
    BY <1>1, <1>2, <1>7 DEF TypeOK
  <2> QED
    BY <1>1, <1>7, <2>1, <2>2, <2>3 DEF TypeOK
<1> QED
  BY <1>10, <1>11, <1>12 DEF IInv

-----------------------------------------------------------------------------
\* Executing a frame: only a control tick that is ready is passed.
LEMMA ExecFramePreserves ==
    ASSUME IInv, NEW n \in Client, ExecFrame(n)
    PROVE  IInv'
<1> DEFINE next == (frame[n] + 1) % ControlRate
           ctrl == getCtrl(pCtrlStack[n], All, ControlTick[n])
<1>1. /\ frame' = [frame EXCEPT ![n] = next]
      /\ ControlTick' = [ControlTick EXCEPT ![n] = IF next = 0 THEN @ + 1 ELSE @]
      /\ executed' = [executed EXCEPT ![n] = IF frame[n] = 0 THEN @ \cup ctrl ELSE @]
      /\ frame[n] = 0 => iControlReady[n] >= ControlTick[n]
      /\ UNCHANGED <<iControlSent, iControlReady, pCtrlStack, fRunning, iTargetTick,
                     resLoaded, net, req, given>>
  BY DEF ExecFrame
<1>2. TypeOK /\ frame[n] \in 0 .. (ControlRate - 1) /\ ControlTick[n] \in Nat
  BY DEF IInv, TypeOK
<1>3. next \in 0 .. (ControlRate - 1)
  BY <1>2, TickAssumption
<1>4. ctrl \subseteq pCtrlStack[n] /\ \A p \in ctrl : p.id = All
  BY DEF getCtrl
<1> HIDE DEF next, ctrl
<1>5. ControlTick[n] <= iControlReady[n] /\ iControlReady[n] \in Int
  <2>1. frame[n] > 0 => ControlTick[n] <= iControlReady[n]
    BY DEF IInv, ReadyInv
  <2>2. iControlReady[n] \in Int
    BY <1>2 DEF TypeOK
  <2> QED
    BY <1>1, <1>2, <2>1, <2>2, TickAssumption
<1>6. TypeOK'
  <2>1. ControlTick' \in [Client -> Nat]
    BY <1>1, <1>2 DEF TypeOK
  <2>2. frame' \in [Client -> 0 .. (ControlRate - 1)]
    BY <1>1, <1>2, <1>3 DEF TypeOK
  <2>3. executed' \in [Client -> SUBSET Packet]
    BY <1>1, <1>2, <1>4 DEF TypeOK
  <2> QED
    BY <1>1, <1>2, <2>1, <2>2, <2>3 DEF TypeOK
<1>7. Known' = Known
  <2>1. ASSUME NEW m \in Client
        PROVE  pCtrlStack'[m] \cup executed'[m] = pCtrlStack[m] \cup executed[m]
    BY <1>1, <1>2, <1>4 DEF TypeOK
  <2>2. \A m \in Client : pCtrlStack'[m] \cup executed'[m] = pCtrlStack[m] \cup executed[m]
    BY <2>1
  <2> QED
    BY <1>1, <2>2 DEF Known
<1>8. GivenInv' /\ PacketInv' /\ HostInv'
  <2>1. GivenInv'
    BY <1>1 DEF IInv, GivenInv
  <2>2. PacketInv'
    BY <1>1, <1>7 DEF IInv, PacketInv, Part
  <2>3. HostInv'
    BY <1>1, <1>7 DEF IInv, HostInv
  <2> QED
    BY <2>1, <2>2, <2>3
<1>9. ReadyInv'
  <2> SUFFICES ASSUME NEW m \in Client
               PROVE  /\ ControlTick'[m] <= iControlReady[m] + 1
                      /\ frame'[m] > 0 => ControlTick'[m] <= iControlReady[m]
                      /\ \A t \in ControlTick'[m] .. iControlReady[m] :
                            getCtrl(pCtrlStack[m], All, t) # {}
                      /\ \A p \in executed'[m] : p.id = All
    BY <1>1 DEF ReadyInv, getCtrl
  <2>1. /\ ControlTick[m] <= iControlReady[m] + 1
        /\ frame[m] > 0 => ControlTick[m] <= iControlReady[m]
        /\ \A t \in ControlTick[m] .. iControlReady[m] : getCtrl(pCtrlStack[m], All, t) # {}
        /\ \A p \in executed[m] : p.id = All
    BY DEF IInv, ReadyInv
  <2>2. CASE m # n
    BY <1>1, <1>2, <2>1, <2>2 DEF TypeOK
  <2>3. CASE m = n
    <3>1. ControlTick'[n] = (IF next = 0 THEN ControlTick[n] + 1 ELSE ControlTick[n])
      BY <1>1, <1>2 DEF TypeOK
    <3>2. frame'[n] = next
      BY <1>1, <1>2 DEF TypeOK
    <3>3. \A p \in executed'[n] : p.id = All
      BY <1>1, <1>2, <1>4, <2>1, <2>3 DEF TypeOK
    <3> QED
      BY <1>2, <1>3, <1>5, <2>1, <2>3, <3>1, <3>2, <3>3
  <2> QED
    BY <2>2, <2>3
<1> QED
  BY <1>6, <1>8, <1>9 DEF IInv

\* Steps of the network move or lose what is known.
LEMMA NetPreserves ==
    ASSUME IInv,
           net' \subseteq net \cup To(Client, Known),
           req' \subseteq req,
           UNCHANGED <<tickVars, iControlSent, iControlReady, pCtrlStack, fRunning,
                       iTargetTick, resLoaded, history>>
    PROVE  IInv'
<1>1. UNCHANGED <<ControlTick, frame, iControlSent, iControlReady, pCtrlStack, fRunning,
                  iTargetTick, resLoaded, executed, given>>
  BY DEF tickVars, history
<1>2. Known' \subseteq Known
  BY <1>1 DEF Known, To
<1>3. TypeOK'
  <2>1. net' \subseteq [to : Client, pkt : Packet]
    BY KnownType DEF IInv, TypeOK, To, Stack
  <2>2. req' \subseteq [to : Client, from : Client, tick : Nat]
    BY DEF IInv, TypeOK
  <2> QED
    BY <1>1, <2>1, <2>2 DEF IInv, TypeOK
<1>4. GivenInv'
  BY <1>1 DEF IInv, GivenInv
<1>5. PacketInv'
  BY <1>1, <1>2 DEF IInv, PacketInv, Part
<1>6. HostInv'
  BY <1>1, <1>2 DEF IInv, HostInv
<1>7. ReadyInv'
  BY <1>1 DEF IInv, ReadyInv, getCtrl
<1> QED
  BY <1>3, <1>4, <1>5, <1>6, <1>7 DEF IInv

-----------------------------------------------------------------------------
\* Nothing is known initially.
LEMMA InitIInv == Init => IInv
<1> SUFFICES ASSUME Init PROVE IInv
  OBVIOUS
<1>1. Known = {}
  BY DEF Init, Known
<1>2. TypeOK
  <2>1. 0 \in 0 .. (ControlRate - 1)
    BY TickAssumption
  <2> QED
    BY <2>1 DEF Init, TypeOK, NoTick
<1>3. GivenInv /\ PacketInv /\ HostInv
  BY <1>1 DEF Init, GivenInv, PacketInv, HostInv
<1>4. ReadyInv
  BY DEF Init, ReadyInv
<1> QED
  BY <1>2, <1>3, <1>4 DEF IInv

\* The invariant is inductive.
LEMMA NextIInv == IInv /\ [Next]_vars => IInv'
<1> SUFFICES ASSUME IInv, [Next]_vars PROVE IInv'
  OBVIOUS
<1>0. TypeOK
  BY DEF IInv
<1>1. ASSUME NEW n \in Client, NEW i \in Input, DoInput(n, i)
      PROVE  IInv'
  BY <1>1, DoInputPreserves
<1>2. ASSUME NEW n \in Client, Prepare(n)
      PROVE  IInv'
  <2>1. CheckCompleteCtrl(n, pCtrlStack[n] \cup {}, {})
    BY <1>2 DEF Prepare
  <2>2. {} \in SUBSET Known
    OBVIOUS
  <2> QED
    BY <1>0, <1>2, <2>1, <2>2, CheckOnly DEF Prepare, TypeOK
<1>3. ASSUME NEW n \in Client, ExecFrame(n)
      PROVE  IInv'
  BY <1>3, ExecFramePreserves
<1>4. ASSUME NEW n \in Client, NEW s \in Settings, SetRunning(n, s[1], s[2])
      PROVE  IInv'
  <2>1. CheckCompleteCtrl(n, pCtrlStack[n] \cup {}, {})
    BY <1>4 DEF SetRunning
  <2>2. {} \in SUBSET Known
    OBVIOUS
  <2>3. s[1] \in BOOLEAN /\ s[2] \in Nat \cup {NoTick}
    BY <1>4, TickAssumption
  <2>4. /\ fRunning' = [fRunning EXCEPT ![n] = s[1]]
        /\ iTargetTick' = [iTargetTick EXCEPT ![n] = s[2]]
        /\ UNCHANGED <<tickVars, iControlSent, resLoaded, history>>
    BY <1>4 DEF SetRunning
  <2>5. /\ fRunning' \in [Client -> BOOLEAN]
        /\ iTargetTick' \in [Client -> Nat \cup {NoTick}]
        /\ resLoaded' \in [Client -> SUBSET ResInput]
    BY <1>0, <2>3, <2>4 DEF TypeOK
  <2> QED
    BY <2>1, <2>2, <2>4, <2>5, CheckOnly
<1>5. ASSUME NEW n \in Client, NEW i \in ResInput, OnResComplete(n, i)
      PROVE  IInv'
  <2>1. CheckCompleteCtrl(n, pCtrlStack[n] \cup {}, {})
    BY <1>5 DEF OnResComplete
  <2>2. {} \in SUBSET Known
    OBVIOUS
  <2> QED
    BY <1>0, <1>5, <2>1, <2>2, CheckOnly DEF OnResComplete, TypeOK
<1>6. ASSUME NEW m \in net, HandleControl(m.to, m.pkt)
      PROVE  IInv'
  <2>1. CheckCompleteCtrl(m.to, pCtrlStack[m.to] \cup {m.pkt}, {})
    BY <1>6 DEF HandleControl
  <2>2. {m.pkt} \in SUBSET Known /\ m.to \in Client
    BY <1>0, <1>6 DEF Known, TypeOK
  <2> QED
    BY <1>0, <1>6, <2>1, <2>2, CheckOnly DEF HandleControl, TypeOK
<1>7. ASSUME NEW m \in req, HandleControlReq(m)
      PROVE  IInv'
  <2>1. m.to \in Client /\ m.from \in Client
    BY <1>0, <1>7 DEF TypeOK
  <2>2. net' \subseteq net \cup To(Client, Known)
    BY <1>7, <2>1 DEF HandleControlReq, To, Known
  <2> QED
    BY <1>7, <2>2, NetPreserves DEF HandleControlReq
<1>8. CASE Lose
  BY <1>8, NetPreserves DEF Lose
<1>9. CASE UNCHANGED vars
  <2>1. UNCHANGED <<tickVars, iControlSent, iControlReady, pCtrlStack, fRunning,
                    iTargetTick, resLoaded, history, net, req>>
    BY <1>9 DEF vars, tickVars, history
  <2> QED
    BY <2>1, NetPreserves
<1> QED
  BY <1>1, <1>2, <1>3, <1>4, <1>5, <1>6, <1>7, <1>8, <1>9 DEF Next

\* Every state keeps the invariant: packets are what their clients made, and
\* control that is ready is there until it was executed.
THEOREM Invariance == Spec => []IInv
<1>1. Init => IInv
  BY InitIInv
<1>2. IInv /\ [Next]_vars => IInv'
  BY NextIInv
<1> QED
  BY <1>1, <1>2, PTL DEF Spec

\* The variables have their types, whatever the constants are.
THEOREM TypeCorrect == Spec => []TypeOK
<1>1. IInv => TypeOK
  BY DEF IInv
<1> QED
  BY <1>1, Invariance, PTL

\* There is one complete control of a tick: in decentral mode everybody packs the
\* same inputs, in the other modes only the host packs.
LEMMA UniqueComplete ==
    ASSUME IInv, NEW p \in Known, NEW q \in Known, p.id = All, q.id = All, p.tick = q.tick
    PROVE  p.ctrl = q.ctrl
<1>1. p \in Packet /\ q \in Packet
  BY KnownType DEF Stack
<1>2. CASE Mode # "Decentral"
  BY <1>2 DEF IInv, HostInv
<1>3. CASE Mode = "Decentral"
  <2>1. /\ DOMAIN p.ctrl = Activated /\ DOMAIN q.ctrl = Activated
        /\ \A c \in Activated : Part(p, c) \in given[c] /\ Part(q, c) \in given[c]
    BY <1>3 DEF IInv, PacketInv
  <2>2. ASSUME NEW c \in Activated
        PROVE  p.ctrl[c] = q.ctrl[c]
    <3>1. Part(p, c).tick = Part(q, c).tick
      BY DEF Part
    <3>2. Part(p, c) = Part(q, c)
      BY <2>1, <3>1, ClientAssumption DEF IInv, GivenInv
    <3>3. Part(p, c).ctrl[c] = p.ctrl[c] /\ Part(q, c).ctrl[c] = q.ctrl[c]
      BY DEF Part
    <3> QED
      BY <3>2, <3>3
  <2>3. /\ p.ctrl = [c \in Activated |-> p.ctrl[c]]
        /\ q.ctrl = [c \in Activated |-> q.ctrl[c]]
    BY <1>1, <2>1, CtrlType DEF Packet
  <2> QED
    BY <2>2, <2>3
<1> QED
  BY <1>2, <1>3

\* Nobody executes other control for a tick than anybody else does.
THEOREM AgreementHolds == Spec => []Agreement
<1>1. IInv => Agreement
  <2> SUFFICES ASSUME IInv, NEW n \in Client, NEW m \in Client,
                      NEW p \in executed[n], NEW q \in executed[m], p.tick = q.tick
               PROVE  p.ctrl = q.ctrl
    BY DEF Agreement
  <2>1. p \in Known /\ q \in Known /\ p.id = All /\ q.id = All
    BY DEF IInv, ReadyInv, Known
  <2> QED
    BY <2>1, UniqueComplete
<1> QED
  BY <1>1, Invariance, PTL

\* What is executed is what the clients put into this tick, and without a
\* timeout it is everybody's input.
THEOREM InputFaithfulHolds == Spec => []InputFaithful
<1>1. IInv => InputFaithful
  <2> SUFFICES ASSUME IInv, NEW n \in Client, NEW p \in executed[n]
               PROVE  /\ \A c \in DOMAIN p.ctrl : Part(p, c) \in given[c]
                      /\ Mode # "Async" => DOMAIN p.ctrl = Activated
    BY DEF InputFaithful, Part
  <2>1. p \in Known /\ p.id = All
    BY DEF IInv, ReadyInv, Known
  <2> QED
    BY <2>1 DEF IInv, PacketInv
<1> QED
  BY <1>1, Invariance, PTL

\* Only ExecFrame executes anything.
LEMMA StepCases ==
    ASSUME [Next]_vars
    PROVE  \/ UNCHANGED <<ControlTick, frame, executed>>
           \/ \E n \in Client : ExecFrame(n)
<1>1. CASE UNCHANGED vars
  BY <1>1 DEF vars
<1>2. ASSUME NEW n \in Client, NEW i \in Input, DoInput(n, i)
      PROVE  UNCHANGED <<ControlTick, frame, executed>>
  BY <1>2 DEF DoInput, tickVars
<1>3. ASSUME NEW n \in Client, Prepare(n)
      PROVE  UNCHANGED <<ControlTick, frame, executed>>
  BY <1>3 DEF Prepare, tickVars, history
<1>4. ASSUME NEW n \in Client, NEW s \in Settings, SetRunning(n, s[1], s[2])
      PROVE  UNCHANGED <<ControlTick, frame, executed>>
  BY <1>4 DEF SetRunning, tickVars, history
<1>5. ASSUME NEW n \in Client, NEW i \in ResInput, OnResComplete(n, i)
      PROVE  UNCHANGED <<ControlTick, frame, executed>>
  BY <1>5 DEF OnResComplete, tickVars, history
<1>6. ASSUME NEW m \in net, HandleControl(m.to, m.pkt)
      PROVE  UNCHANGED <<ControlTick, frame, executed>>
  BY <1>6 DEF HandleControl, tickVars, history
<1>7. ASSUME NEW m \in req, HandleControlReq(m)
      PROVE  UNCHANGED <<ControlTick, frame, executed>>
  BY <1>7 DEF HandleControlReq, tickVars, history
<1>8. CASE Lose
  BY <1>8 DEF Lose, tickVars, history
<1> QED
  BY <1>1, <1>2, <1>3, <1>4, <1>5, <1>6, <1>7, <1>8 DEF Next

\* Control is executed tick by tick: whatever was found ready is still there
\* when its tick is reached (ReadyInv), so no tick is without control.
THEOREM NoControlMissingHolds == Spec => []NoControlMissing
<1> DEFINE Ticks(n) == {p.tick : p \in executed[n]}
           Passed(n) == {t \in 0 .. ControlTick[n] : t < ControlTick[n] \/ frame[n] > 0}
<1>1. Init => NoControlMissing
  <2> SUFFICES ASSUME Init, NEW n \in Client PROVE Ticks(n) = Passed(n)
    BY DEF NoControlMissing
  <2>1. executed[n] = {} /\ ControlTick[n] = 0 /\ frame[n] = 0
    BY DEF Init
  <2> QED
    BY <2>1
<1>2. IInv /\ NoControlMissing /\ [Next]_vars => NoControlMissing'
  <2> SUFFICES ASSUME IInv, NoControlMissing, [Next]_vars
               PROVE  NoControlMissing'
    OBVIOUS
  <2>1. CASE UNCHANGED <<ControlTick, frame, executed>>
    BY <2>1 DEF NoControlMissing
  <2>2. ASSUME NEW m \in Client, ExecFrame(m)
        PROVE  NoControlMissing'
    <3> SUFFICES ASSUME NEW n \in Client PROVE Ticks(n)' = Passed(n)'
      BY DEF NoControlMissing
    <3>1. /\ ControlTick \in [Client -> Nat] /\ ControlTick[n] \in Nat
          /\ frame \in [Client -> 0 .. (ControlRate - 1)] /\ frame[n] \in 0 .. (ControlRate - 1)
          /\ executed \in [Client -> SUBSET Packet]
      BY DEF IInv, TypeOK
    <3>2. Ticks(n) = Passed(n)
      BY DEF NoControlMissing
    <3>3. CASE n # m
      <4>1. ControlTick'[n] = ControlTick[n] /\ frame'[n] = frame[n] /\ executed'[n] = executed[n]
        BY <2>2, <3>1, <3>3 DEF ExecFrame
      <4> QED
        BY <3>2, <4>1
    <3>4. CASE n = m
      <4> DEFINE next == (frame[n] + 1) % ControlRate
                 ctrl == getCtrl(pCtrlStack[n], All, ControlTick[n])
      <4>1. /\ frame'[n] = next
            /\ ControlTick'[n] = IF next = 0 THEN ControlTick[n] + 1 ELSE ControlTick[n]
            /\ executed'[n] = IF frame[n] = 0 THEN executed[n] \cup ctrl ELSE executed[n]
            /\ frame[n] = 0 => iControlReady[n] >= ControlTick[n]
        BY <2>2, <3>1, <3>4 DEF ExecFrame
      <4>2. next \in 0 .. (ControlRate - 1)
        BY <3>1, TickAssumption
      <4>3. Ticks(n)' = IF frame[n] = 0 THEN Ticks(n) \cup {ControlTick[n]} ELSE Ticks(n)
        <5>1. CASE frame[n] = 0
          <6>1. ctrl # {} /\ \A p \in ctrl : p.tick = ControlTick[n]
            <7>1. ControlTick[n] \in ControlTick[n] .. iControlReady[n]
              BY <3>1, <4>1, <5>1 DEF IInv, TypeOK
            <7> QED
              BY <7>1 DEF IInv, ReadyInv, getCtrl
          <6>2. executed'[n] = executed[n] \cup ctrl
            BY <4>1, <5>1
          <6> HIDE DEF ctrl
          <6> QED
            BY <5>1, <6>1, <6>2
        <5>2. CASE frame[n] # 0
          BY <4>1, <5>2
        <5> QED
          BY <5>1, <5>2
      <4>4. Ticks(n)' = 0 .. ControlTick[n]
        <5>1. frame[n] = 0 \/ frame[n] > 0
          BY <3>1, TickAssumption
        <5>2. Ticks(n)' = IF frame[n] = 0 THEN Passed(n) \cup {ControlTick[n]} ELSE Passed(n)
          BY <3>2, <4>3
        <5>3. CASE frame[n] = 0
          <6>1. ~(frame[n] > 0) /\ Passed(n) \cup {ControlTick[n]} = 0 .. ControlTick[n]
            BY <3>1, <5>3
          <6> QED
            BY <5>2, <5>3, <6>1
        <5>4. CASE frame[n] > 0
          <6>1. frame[n] # 0 /\ Passed(n) = 0 .. ControlTick[n]
            BY <3>1, <5>4
          <6> QED
            BY <5>2, <6>1
        <5> QED
          BY <5>1, <5>3, <5>4
      <4>5. Passed(n)' = 0 .. ControlTick[n]
        <5>1. CASE next = 0
          BY <3>1, <4>1, <5>1
        <5>2. CASE next # 0
          BY <3>1, <4>1, <4>2, <5>2
        <5> QED
          BY <5>1, <5>2
      <4> QED
        BY <4>4, <4>5
    <3> QED
      BY <3>3, <3>4
  <2> QED
    BY <2>1, <2>2, StepCases
<1> QED
  BY <1>1, <1>2, Invariance, PTL DEF Spec

-----------------------------------------------------------------------------
(* How far clients get ahead of each other, and why the backlog is enough  *)
(* to answer requests: C4MaxPreSend "must be smaller than C4ControlBacklog"*)


\* Division by a positive number is monotone.
LEMMA DivMonotone ==
    ASSUME NEW a \in Nat, NEW b \in Nat, NEW d \in Nat \ {0}, a <= b
    PROVE  a \div d <= b \div d
<1> DEFINE q == a \div d
           r == b \div d
<1>1. /\ q \in Int /\ d * q <= a
      /\ r \in Int /\ b < d * (r + 1)
  OBVIOUS
<1> HIDE DEF q, r
<1>2. d * q < d * (r + 1)
  BY <1>1
<1>3. ASSUME q > r
      PROVE  FALSE
  <2>1. q >= r + 1
    BY <1>1, <1>3
  <2>2. d * q >= d * (r + 1)
    BY <1>1, <2>1
  <2> QED
    BY <1>1, <1>2, <2>2
<1>4. q <= r
  BY <1>1, <1>3
<1> QED
  BY <1>4 DEF q, r

\* RunAhead is a number of ticks.
LEMMA RunAheadType == RunAhead \in Nat
  BY TickAssumption DEF RunAhead

\* A client sends control at most RunAhead ticks ahead of its own tick.
AheadInv == \A n \in Client : iControlSent[n] <= ControlTick[n] + RunAhead

\* Control is sent only while the tick of the frame PreSend ahead is not served.
LEMMA DoInputAhead ==
    ASSUME TypeOK, AheadInv, NEW n \in Client, NEW i \in Input, DoInput(n, i)
    PROVE  AheadInv'
<1>1. /\ frame[n] \in 0 .. (ControlRate - 1)
      /\ iControlSent \in [Client -> Int]
      /\ ControlTick \in [Client -> Nat]
      /\ ControlRate \in Nat \ {0} /\ PreSend \in Nat
  BY TickAssumption DEF TypeOK
<1>2. (frame[n] + PreSend) \div ControlRate <= RunAhead
  <2>1. frame[n] + PreSend \in Nat /\ ControlRate - 1 + PreSend \in Nat
        /\ frame[n] + PreSend <= ControlRate - 1 + PreSend
    BY <1>1
  <2> QED
    BY <1>1, <2>1, DivMonotone DEF RunAhead
<1>3. (frame[n] + PreSend) \div ControlRate \in Int
  BY <1>1
<1>4. getCtrlTick(n, PreSend) > iControlSent[n]
  BY DEF DoInput, CtrlNeeded
<1>5. iControlSent[n] + 1 <= ControlTick[n] + RunAhead
  BY <1>1, <1>2, <1>3, <1>4, RunAheadType DEF getCtrlTick
<1>6. iControlSent' = [iControlSent EXCEPT ![n] = @ + 1] /\ ControlTick' = ControlTick
  BY DEF DoInput, tickVars
<1> QED
  BY <1>1, <1>5, <1>6 DEF AheadInv, RunAhead

\* Ticks never go back.
LEMMA ExecFrameTick ==
    ASSUME TypeOK, NEW n \in Client, ExecFrame(n)
    PROVE  \A m \in Client : ControlTick[m] \in Nat /\ ControlTick'[m] \in Nat
                             /\ ControlTick'[m] >= ControlTick[m]
  BY DEF TypeOK, ExecFrame

\* No step sends further ahead, and ticks never go back.
LEMMA AheadInvariant == Spec => []AheadInv
<1>1. Init => AheadInv
  BY RunAheadType DEF Init, AheadInv
<1>2. TypeOK /\ AheadInv /\ [Next]_vars => AheadInv'
  <2> SUFFICES ASSUME TypeOK, AheadInv, [Next]_vars PROVE AheadInv'
    OBVIOUS
  <2>1. CASE UNCHANGED <<iControlSent, ControlTick>>
    BY <2>1 DEF AheadInv, RunAhead
  <2>2. ASSUME NEW n \in Client, NEW i \in Input, DoInput(n, i)
        PROVE  AheadInv'
    BY <2>2, DoInputAhead
  <2>3. ASSUME NEW n \in Client, ExecFrame(n)
        PROVE  AheadInv'
    <3>1. iControlSent' = iControlSent /\ \A m \in Client : iControlSent[m] \in Int
      BY <2>3 DEF ExecFrame, TypeOK
    <3>2. RunAhead' = RunAhead
      BY DEF RunAhead
    <3> QED
      BY <2>3, <3>1, <3>2, ExecFrameTick, RunAheadType DEF AheadInv
  <2>4. \/ UNCHANGED <<iControlSent, ControlTick>>
        \/ \E n \in Client : ExecFrame(n) \/ \E i \in Input : DoInput(n, i)
    BY DEF Next, vars, tickVars, history, Prepare, SetRunning, OnResComplete,
           HandleControl, HandleControlReq, Lose
  <2> QED
    BY <2>1, <2>2, <2>3, <2>4
<1> QED
  BY <1>1, <1>2, TypeCorrect, PTL DEF Spec

\* Nobody runs away: what was executed contains control of every activated
\* client, which this client has sent at most RunAhead ticks ahead.
LEMMA WindowBound == IInv /\ NoControlMissing /\ AheadInv => NoRunaway
<1> SUFFICES ASSUME IInv, NoControlMissing, AheadInv, Mode # "Async",
                    NEW n \in Client, NEW c \in Activated
             PROVE  ControlTick[n] <= ControlTick[c] + RunAhead + 1
  BY DEF NoRunaway
<1>1. /\ c \in Client /\ ControlTick[n] \in Nat /\ ControlTick[c] \in Nat
      /\ iControlSent[c] \in Int /\ RunAhead \in Nat
  BY ClientAssumption, RunAheadType DEF IInv, TypeOK
<1>2. CASE ControlTick[n] = 0
  BY <1>1, <1>2
<1>3. CASE ControlTick[n] # 0
  <2>1. ControlTick[n] - 1 \in {p.tick : p \in executed[n]}
    BY <1>1, <1>3 DEF NoControlMissing
  <2>2. PICK p \in executed[n] : p.tick = ControlTick[n] - 1
    BY <2>1
  <2>3. p \in Known /\ p.id = All
    BY DEF IInv, ReadyInv, Known
  <2>4. Part(p, c) \in given[c]
    BY <2>3 DEF IInv, PacketInv
  <2>5. p.tick <= iControlSent[c]
    BY <1>1, <2>4 DEF IInv, GivenInv, Part
  <2> QED
    BY <1>1, <2>2, <2>5 DEF AheadInv
<1> QED
  BY <1>2, <1>3

\* No client gets more than RunAhead + 1 ticks ahead of an activated one.
THEOREM NoRunawayHolds == Spec => []NoRunaway
  BY WindowBound, Invariance, NoControlMissingHolds, AheadInvariant, PTL

-----------------------------------------------------------------------------
\* Executed control stays in the stack for Backlog ticks.
KeptInv ==
    \A n \in Client : \A p \in executed[n] :
        p.tick >= ControlTick[n] - Backlog => p \in pCtrlStack[n]

\* A step that checks for complete control in between leaves the recent one alone.
LEMMA CheckKept ==
    ASSUME IInv, KeptInv, NEW n \in Client, NEW S \in Stack, NEW out,
           CheckCompleteCtrl(n, S, out), pCtrlStack[n] \subseteq S,
           UNCHANGED <<ControlTick, executed>>
    PROVE  KeptInv'
<1>1. PICK P : Checked(n, S, out, P)
  BY CheckedLemma DEF IInv
<1> QED
  BY <1>1 DEF KeptInv, Checked

\* What is executed comes from the stack and stays there.
LEMMA ExecFrameKept ==
    ASSUME IInv, KeptInv, NEW n \in Client, ExecFrame(n)
    PROVE  KeptInv'
<1>1. TypeOK /\ \A m \in Client : \A p \in executed[m] : p.tick \in Nat
  BY DEF IInv, TypeOK, Packet
<1>2. \A m \in Client : /\ pCtrlStack'[m] = pCtrlStack[m]
                        /\ executed'[m] \subseteq executed[m] \cup pCtrlStack[m]
  BY <1>1 DEF ExecFrame, TypeOK, getCtrl
<1>3. Backlog \in Nat
  BY TickAssumption
<1> QED
  BY <1>1, <1>2, <1>3, ExecFrameTick DEF KeptInv

\* Every step leaves the control of the last Backlog ticks in the stack.
LEMMA KeptInvariant == Spec => []KeptInv
<1>1. Init => KeptInv
  BY DEF Init, KeptInv
<1>2. IInv /\ KeptInv /\ [Next]_vars => KeptInv'
  <2> SUFFICES ASSUME IInv, KeptInv, [Next]_vars PROVE KeptInv'
    OBVIOUS
  <2>0. TypeOK /\ \A n \in Client : pCtrlStack[n] \in Stack /\ pCtrlStack[n] \cup {} = pCtrlStack[n]
    BY KnownType DEF IInv
  <2>1. ASSUME NEW n \in Client, NEW i \in Input, DoInput(n, i)
        PROVE  KeptInv'
    <3> DEFINE p == [id |-> n, tick |-> iControlSent[n] + 1, ctrl |-> [c \in {n} |-> i]]
               S == pCtrlStack[n] \cup {p}
    <3>1. [c \in {n} |-> i] \in Ctrl
      <4>1. {n} \in SUBSET Client /\ [c \in {n} |-> i] \in [{n} -> Input]
        OBVIOUS
      <4> QED
        BY <4>1 DEF Ctrl
    <3>2. iControlSent[n] + 1 \in Nat
      BY <2>0 DEF TypeOK
    <3>3. S \in Stack
      BY <2>0, <3>1, <3>2, ClientAssumption DEF Packet, Stack
    <3>4. /\ CheckCompleteCtrl(n, S, To(IF Mode = "Decentral" THEN Client \ {n} ELSE {Host} \ {n}, {p}))
          /\ UNCHANGED <<ControlTick, executed>>
      BY <2>1 DEF DoInput, tickVars
    <3>5. pCtrlStack[n] \subseteq S
      OBVIOUS
    <3> HIDE DEF S
    <3> QED
      BY <3>3, <3>4, <3>5, CheckKept
  <2>2. ASSUME NEW n \in Client, NEW S \in Stack, CheckCompleteCtrl(n, S, {}),
               pCtrlStack[n] \subseteq S, UNCHANGED <<tickVars, history>>
        PROVE  KeptInv'
    BY <2>2, CheckKept DEF tickVars, history
  <2>3. ASSUME NEW n \in Client, Prepare(n)
        PROVE  KeptInv'
    BY <2>0, <2>2, <2>3 DEF Prepare
  <2>4. ASSUME NEW n \in Client, ExecFrame(n)
        PROVE  KeptInv'
    BY <2>4, ExecFrameKept
  <2>5. ASSUME NEW n \in Client, NEW s \in Settings, SetRunning(n, s[1], s[2])
        PROVE  KeptInv'
    BY <2>0, <2>2, <2>5 DEF SetRunning
  <2>6. ASSUME NEW n \in Client, NEW i \in ResInput, OnResComplete(n, i)
        PROVE  KeptInv'
    BY <2>0, <2>2, <2>6 DEF OnResComplete
  <2>7. ASSUME NEW m \in net, HandleControl(m.to, m.pkt)
        PROVE  KeptInv'
    <3>1. m.to \in Client /\ m.pkt \in Known
      BY <2>0, <2>7 DEF TypeOK, Known
    <3>2. pCtrlStack[m.to] \cup {m.pkt} \in Stack
      BY <2>0, <3>1, KnownType DEF Stack
    <3> QED
      BY <2>2, <2>7, <3>1, <3>2 DEF HandleControl
  <2>8. CASE UNCHANGED <<ControlTick, executed, pCtrlStack>>
    BY <2>8 DEF KeptInv
  <2>9. ASSUME NEW m \in req, HandleControlReq(m)
        PROVE  UNCHANGED <<ControlTick, executed, pCtrlStack>>
    BY <2>9 DEF HandleControlReq, tickVars, history
  <2>10. Lose \/ UNCHANGED vars => UNCHANGED <<ControlTick, executed, pCtrlStack>>
    BY DEF Lose, vars, tickVars, history
  <2> QED
    BY <2>1, <2>3, <2>4, <2>5, <2>6, <2>7, <2>8, <2>9, <2>10 DEF Next
<1> QED
  BY <1>1, <1>2, Invariance, PTL DEF Spec

\* When clients cannot get further ahead than the backlog reaches, control that
\* an activated client lacks was not cleared by anybody who has executed it.
LEMMA AnswerKept ==
    ASSUME RunAhead < Backlog
    PROVE  IInv /\ NoRunaway /\ KeptInv => RequestCanBeAnswered
<1> SUFFICES ASSUME IInv, NoRunaway, KeptInv, Mode # "Async", NEW n \in Client,
                    NEW c \in Activated, NEW p \in executed[n], p.tick > iControlReady[c]
             PROVE  p \in pCtrlStack[n]
  BY DEF RequestCanBeAnswered
<1>1. /\ c \in Client /\ ControlTick[n] \in Nat /\ ControlTick[c] \in Nat
      /\ iControlReady[c] \in Int /\ p.tick \in Nat /\ RunAhead \in Nat /\ Backlog \in Nat
      /\ ControlTick[c] <= iControlReady[c] + 1
  BY ClientAssumption, RunAheadType, TickAssumption DEF IInv, TypeOK, Packet, ReadyInv
<1>2. ControlTick[n] <= ControlTick[c] + RunAhead + 1
  BY DEF NoRunaway
<1>3. p.tick >= ControlTick[n] - Backlog
  BY <1>1, <1>2
<1> QED
  BY <1>3 DEF KeptInv

\* Requests can be answered, provided that PreSend is smaller than the backlog
\* (in ticks): the remark at C4MaxPreSend is a sufficient condition.
THEOREM RequestCanBeAnsweredHolds ==
    ASSUME RunAhead < Backlog
    PROVE  Spec => []RequestCanBeAnswered
<1>1. IInv /\ NoRunaway /\ KeptInv => RequestCanBeAnswered
  BY AnswerKept
<1> QED
  BY <1>1, Invariance, NoRunawayHolds, KeptInvariant, PTL

-----------------------------------------------------------------------------
(* The control engine implements ControlLog: what the clients execute is   *)
(* one log of control, of which nothing is ever changed or forgotten.      *)

\* The packets the clients themselves hold or held, as opposed to what is only
\* on its way.
Held == UNION {pCtrlStack[n] \cup executed[n] : n \in Client}

\* Another copy of the same complete control.
Copy(p, q) == q.id = All /\ q.tick = p.tick /\ q.ctrl = p.ctrl

\* Complete control is never only on its way: the client that has sent it has
\* it still, or has executed it.
SentInv == \A m \in net : m.pkt.id = All => \E q \in Held : Copy(m.pkt, q)

LogInv == IInv /\ NoControlMissing /\ SentInv

\* What CheckCompleteCtrl takes out of the stack was executed before.
LEMMA CheckKeeps ==
    ASSUME IInv, NoControlMissing, NEW n \in Client, NEW S, NEW P, NEW New, NEW dest,
           Checked(n, S, To(dest, New), P), pCtrlStack[n] \subseteq S,
           \A p \in New : p.id # All,
           UNCHANGED <<ControlTick, executed>>
    PROVE  /\ \A p \in Held : p.id = All => \E q \in Held' : Copy(p, q)
           /\ \A m \in net' : m.pkt.id = All => m \in net \/ m.pkt \in Held'
<1>1. /\ ControlTick \in [Client -> Nat] /\ ControlTick[n] \in Nat
      /\ iControlReady \in [Client -> Int] /\ iControlReady[n] \in Int
      /\ ControlTick[n] <= iControlReady[n] + 1
  BY DEF IInv, TypeOK, ReadyInv
<1>2. Held' = UNION {pCtrlStack'[k] \cup executed[k] : k \in Client}
  BY DEF Held
<1>3. ASSUME NEW p \in Held, p.id = All
      PROVE  \E q \in Held' : Copy(p, q)
  <2>1. PICK k \in Client : p \in pCtrlStack[k] \/ p \in executed[k]
    BY DEF Held
  <2>2. CASE p \in executed[k] \/ k # n
    BY <1>2, <1>3, <2>1, <2>2 DEF Checked, Copy
  <2>3. CASE p \in pCtrlStack[n] /\ p.tick >= ControlTick[n]
    BY <1>2, <1>3, <2>3 DEF Checked, Copy
  <2>4. CASE p \in pCtrlStack[n] /\ ~(p.tick >= ControlTick[n])
    <3>1. p \in Known /\ p.tick \in Nat
      BY <2>4, KnownType DEF Stack, Packet
    <3>2. p.tick \in {q.tick : q \in executed[n]}
      BY <1>1, <2>4, <3>1 DEF NoControlMissing
    <3>3. PICK q \in executed[n] : q.tick = p.tick
      BY <3>2
    <3>4. q \in Known /\ q.id = All
      BY DEF IInv, ReadyInv, Known
    <3>5. q.ctrl = p.ctrl
      BY <1>3, <3>1, <3>3, <3>4, UniqueComplete
    <3> QED
      BY <1>2, <3>3, <3>4, <3>5 DEF Copy
  <2> QED
    BY <2>1, <2>2, <2>3, <2>4
<1>4. ASSUME NEW m \in net', m.pkt.id = All
      PROVE  m \in net \/ m.pkt \in Held'
  <2>1. m \in net \/ m.pkt \in New \/ m.pkt \in P
    BY <1>4 DEF Checked, To
  <2>2. ASSUME m.pkt \in P
        PROVE  m.pkt \in Held'
    <3>1. m.pkt.tick \in (iControlReady[n] + 1) .. (iControlReady'[n] + 1)
      BY <2>2 DEF Checked
    <3>2. m.pkt.tick >= ControlTick[n]
      <4>1. iControlReady'[n] \in Int
        BY DEF Checked
      <4> QED
        BY <1>1, <3>1, <4>1
    <3>3. m.pkt \in pCtrlStack'[n]
      BY <2>2, <3>2 DEF Checked
    <3> QED
      BY <1>2, <3>3
  <2> QED
    BY <1>4, <2>1, <2>2
<1> QED
  BY <1>3, <1>4

\* The same for the handlers that do nothing but check for complete control.
LEMMA CheckOnlyKeeps ==
    ASSUME IInv, NoControlMissing, NEW n \in Client, NEW New \in SUBSET Known,
           CheckCompleteCtrl(n, pCtrlStack[n] \cup New, {}),
           UNCHANGED <<tickVars, history>>
    PROVE  /\ \A p \in Held : p.id = All => \E q \in Held' : Copy(p, q)
           /\ \A m \in net' : m.pkt.id = All => m \in net \/ m.pkt \in Held'
<1> DEFINE S == pCtrlStack[n] \cup New
<1>1. S \in Stack /\ TypeOK
  BY KnownType DEF Stack, IInv
<1>2. PICK P : Checked(n, S, {}, P)
  BY <1>1, CheckedLemma
<1>3. To({}, {}) = {}
  BY DEF To
<1>4. pCtrlStack[n] \subseteq S
  OBVIOUS
<1> HIDE DEF S
<1>5. Checked(n, S, To({}, {}), P) /\ UNCHANGED <<ControlTick, executed>>
  BY <1>2, <1>3 DEF tickVars, history
<1> QED
  BY <1>4, <1>5, CheckKeeps

\* No step forgets complete control, and what a step sends is held by somebody.
LEMMA StepKeeps ==
    ASSUME IInv, NoControlMissing, [Next]_vars
    PROVE  /\ \A p \in Held : p.id = All => \E q \in Held' : Copy(p, q)
           /\ \A m \in net' : m.pkt.id = All => m \in net \/ m.pkt \in Held \cup Held'
<1> DEFINE Goal == /\ \A p \in Held : p.id = All => \E q \in Held' : Copy(p, q)
                   /\ \A m \in net' : m.pkt.id = All => m \in net \/ m.pkt \in Held \cup Held'
<1>0. TypeOK /\ {} \in SUBSET Known
  BY DEF IInv
<1>1. ASSUME NEW n \in Client, NEW i \in Input, DoInput(n, i)
      PROVE  Goal
  <2> DEFINE p == [id |-> n, tick |-> iControlSent[n] + 1, ctrl |-> [c \in {n} |-> i]]
             dest == IF Mode = "Decentral" THEN Client \ {n} ELSE {Host} \ {n}
             S == pCtrlStack[n] \cup {p}
  <2>1. CheckCompleteCtrl(n, S, To(dest, {p})) /\ UNCHANGED <<ControlTick, executed>>
    BY <1>1 DEF DoInput, tickVars
  <2>2. p \in Packet /\ p.id = n /\ n # All /\ DOMAIN p.ctrl = {n}
    <3>1. [c \in {n} |-> i] \in Ctrl
      <4>1. {n} \in SUBSET Client /\ [c \in {n} |-> i] \in [{n} -> Input]
        OBVIOUS
      <4> QED
        BY <4>1 DEF Ctrl
    <3>2. iControlSent[n] + 1 \in Nat
      BY <1>0 DEF TypeOK
    <3> QED
      BY <3>1, <3>2, ClientAssumption DEF Packet
  <2>3. S \in Stack
    BY <2>2, KnownType DEF Stack
  <2>4. PICK P : Checked(n, S, To(dest, {p}), P)
    BY <1>0, <2>1, <2>3, CheckedLemma
  <2>5. pCtrlStack[n] \subseteq S /\ \A q \in {p} : q.id # All
    BY <2>2
  <2> HIDE DEF p, dest, S
  <2> QED
    BY <2>1, <2>4, <2>5, CheckKeeps
<1>2. ASSUME NEW n \in Client, Prepare(n)
      PROVE  Goal
  <2>1. CheckCompleteCtrl(n, pCtrlStack[n] \cup {}, {}) /\ UNCHANGED <<tickVars, history>>
    BY <1>2 DEF Prepare
  <2> QED
    BY <1>0, <2>1, CheckOnlyKeeps
<1>3. ASSUME NEW n \in Client, ExecFrame(n)
      PROVE  Goal
  <2>1. /\ UNCHANGED <<pCtrlStack, net>>
        /\ \A k \in Client : executed[k] \subseteq executed'[k]
    BY <1>0, <1>3 DEF ExecFrame, TypeOK
  <2> QED
    BY <2>1 DEF Held, Copy
<1>4. ASSUME NEW n \in Client, NEW s \in Settings, SetRunning(n, s[1], s[2])
      PROVE  Goal
  <2>1. CheckCompleteCtrl(n, pCtrlStack[n] \cup {}, {}) /\ UNCHANGED <<tickVars, history>>
    BY <1>4 DEF SetRunning
  <2> QED
    BY <1>0, <2>1, CheckOnlyKeeps
<1>5. ASSUME NEW n \in Client, NEW i \in ResInput, OnResComplete(n, i)
      PROVE  Goal
  <2>1. CheckCompleteCtrl(n, pCtrlStack[n] \cup {}, {}) /\ UNCHANGED <<tickVars, history>>
    BY <1>5 DEF OnResComplete
  <2> QED
    BY <1>0, <2>1, CheckOnlyKeeps
<1>6. ASSUME NEW m \in net, HandleControl(m.to, m.pkt)
      PROVE  Goal
  <2>1. CheckCompleteCtrl(m.to, pCtrlStack[m.to] \cup {m.pkt}, {}) /\ UNCHANGED <<tickVars, history>>
    BY <1>6 DEF HandleControl
  <2>2. {m.pkt} \in SUBSET Known /\ m.to \in Client
    BY <1>0, <1>6 DEF Known, TypeOK
  <2> QED
    BY <2>1, <2>2, CheckOnlyKeeps
<1>7. ASSUME NEW m \in req, HandleControlReq(m)
      PROVE  Goal
  <2>1. m.to \in Client
    BY <1>0, <1>7 DEF TypeOK
  <2>2. net' \subseteq net \cup To({m.from}, pCtrlStack[m.to])
    BY <1>7 DEF HandleControlReq, To
  <2>3. UNCHANGED <<pCtrlStack, executed>>
    BY <1>7 DEF HandleControlReq, history
  <2> QED
    BY <2>1, <2>2, <2>3 DEF Held, Copy, To
<1>8. CASE Lose
  BY <1>8 DEF Lose, history, Held, Copy
<1>9. CASE UNCHANGED vars
  BY <1>9 DEF vars, Held, Copy
<1> QED
  BY <1>1, <1>2, <1>3, <1>4, <1>5, <1>6, <1>7, <1>8, <1>9 DEF Next

-----------------------------------------------------------------------------
\* The refinement mapping of ImplementsLog.
log  == Entries({p \in Known : p.id = All})
done == [n \in Client |-> Entries(executed[n])]

\* What an entry of the log stands for.
LEMMA LogEntry ==
    ASSUME NEW e
    PROVE  e \in log <=> \E p \in Known : p.id = All /\ e = [tick |-> p.tick, ctrl |-> p.ctrl]
  BY DEF log, Entries

\* The log only grows: of control that is lost on its way there is a copy.
LEMMA LogGrows ==
    ASSUME LogInv, [Next]_vars
    PROVE  log \subseteq log'
<1> SUFFICES ASSUME NEW e \in log PROVE e \in log'
  OBVIOUS
<1>1. PICK p \in Known : p.id = All /\ e = [tick |-> p.tick, ctrl |-> p.ctrl]
  BY LogEntry
<1>2. \E q \in Held : Copy(p, q)
  BY <1>1 DEF Known, Held, LogInv, SentInv, Copy
<1>3. PICK q \in Held' : Copy(p, q)
  BY <1>2, StepKeeps DEF LogInv, Copy
<1>4. q \in Known'
  BY <1>3 DEF Held, Known
<1>5. q.id = All /\ e = [tick |-> q.tick, ctrl |-> q.ctrl]
  BY <1>1, <1>3 DEF Copy
<1> QED
  BY <1>4, <1>5 DEF log, Entries

\* The log holds one entry for a tick.
LogOK == log \subseteq Log!Entry /\ Log!OnePerTick(log)

\* ... because complete control of a tick is unique.
LEMMA LogType == IInv => LogOK
<1> SUFFICES ASSUME IInv PROVE LogOK
  OBVIOUS
<1>1. \A p \in Known : p \in Packet
  BY KnownType DEF Stack
<1>2. log \subseteq Log!Entry
  BY <1>1, LogEntry DEF Log!Entry, Packet
<1>3. ASSUME NEW d \in log, NEW e \in log, d.tick = e.tick
      PROVE  d = e
  <2>1. PICK p \in Known : p.id = All /\ d = [tick |-> p.tick, ctrl |-> p.ctrl]
    BY LogEntry
  <2>2. PICK q \in Known : q.id = All /\ e = [tick |-> q.tick, ctrl |-> q.ctrl]
    BY LogEntry
  <2> QED
    BY <1>3, <2>1, <2>2, UniqueComplete
<1> QED
  BY <1>2, <1>3 DEF LogOK, Log!OnePerTick

\* A frame with a control tick executes the next entry of the log.
LEMMA FrameExecutes ==
    ASSUME LogInv, NEW n \in Client, ExecFrame(n), frame[n] = 0
    PROVE  Log!Execute(n)
<1> DEFINE ctrl == getCtrl(pCtrlStack[n], All, ControlTick[n])
<1>0. /\ ControlTick[n] \in Nat /\ iControlReady[n] \in Int
      /\ executed \in [Client -> SUBSET Packet]
      /\ iControlReady[n] >= ControlTick[n]
  BY DEF LogInv, IInv, TypeOK, ExecFrame
<1>1. PICK p \in ctrl : TRUE
  <2>1. ControlTick[n] \in ControlTick[n] .. iControlReady[n]
    BY <1>0
  <2> QED
    BY <2>1 DEF LogInv, IInv, ReadyInv
<1> DEFINE e == [tick |-> p.tick, ctrl |-> p.ctrl]
<1>2. \A q \in ctrl : q \in Known /\ q.id = All /\ q.tick = ControlTick[n]
  BY DEF getCtrl, Known
<1>3. executed' = [executed EXCEPT ![n] = @ \cup ctrl] /\ UNCHANGED <<pCtrlStack, net>>
  BY DEF ExecFrame
<1>4. e \in log
  BY <1>1, <1>2, LogEntry
<1>5. \A q \in ctrl : [tick |-> q.tick, ctrl |-> q.ctrl] = e
  BY <1>1, <1>2, UniqueComplete DEF LogInv
<1>6. Entries(executed[n] \cup ctrl) = Entries(executed[n]) \cup {e}
  BY <1>1, <1>5 DEF Entries
<1>7. done' = [done EXCEPT ![n] = @ \cup {e}]
  <2>1. \A m \in Client : executed'[m] = IF m = n THEN executed[n] \cup ctrl ELSE executed[m]
    BY <1>0, <1>3
  <2> HIDE DEF ctrl, e
  <2> QED
    BY <1>6, <2>1 DEF done
<1>8. {d.tick : d \in done[n]} = 0 .. (e.tick - 1)
  <2>1. {d.tick : d \in done[n]} = {q.tick : q \in executed[n]}
    <3>1. done[n] = {[tick |-> q.tick, ctrl |-> q.ctrl] : q \in executed[n]}
      BY DEF done, Entries
    <3>2. \A d \in done[n] : \E q \in executed[n] : d.tick = q.tick
      BY <3>1
    <3>3. ASSUME NEW q \in executed[n]
          PROVE  \E d \in done[n] : d.tick = q.tick
      <4>1. [tick |-> q.tick, ctrl |-> q.ctrl] \in done[n]
        BY <3>1
      <4> QED
        BY <4>1
    <3> QED
      BY <3>2, <3>3
  <2>2. {q.tick : q \in executed[n]} = {t \in 0 .. ControlTick[n] : t < ControlTick[n]}
    BY DEF LogInv, NoControlMissing
  <2>3. e.tick = ControlTick[n]
    BY <1>1, <1>2
  <2>4. {t \in 0 .. ControlTick[n] : t < ControlTick[n]} = 0 .. (ControlTick[n] - 1)
    BY <1>0
  <2> QED
    BY <2>1, <2>2, <2>3, <2>4
<1>9. log' = log
  <2>1. Known' = Known
    <3>1. \A m \in Client : pCtrlStack'[m] \cup executed'[m] = pCtrlStack[m] \cup executed[m]
      BY <1>0, <1>3 DEF getCtrl
    <3> QED
      BY <1>3, <3>1 DEF Known
  <2> QED
    BY <2>1 DEF log
<1> HIDE DEF e
<1> QED
  BY <1>4, <1>7, <1>8, <1>9 DEF Log!Execute, log, done

\* Every other step decides something or nothing.
LEMMA StepImplements ==
    ASSUME LogInv, LogOK', [Next]_vars
    PROVE  Log!Next \/ (log' = log /\ done' = done)
<1>1. ASSUME executed' = executed
      PROVE  Log!Decide
  <2>1. done' = done
    BY <1>1 DEF done
  <2> QED
    BY <2>1, LogGrows DEF LogOK, Log!Decide, Log!OnePerTick, log, done
<1>2. ASSUME NEW n \in Client, ExecFrame(n), frame[n] = 0
      PROVE  Log!Next
  BY <1>2, FrameExecutes DEF Log!Next
<1>3. ASSUME NEW n \in Client, ExecFrame(n), frame[n] # 0
      PROVE  executed' = executed
  BY <1>3 DEF ExecFrame, LogInv, IInv, TypeOK
<1> QED
  BY <1>1, <1>2, <1>3, StepCases DEF Log!Next

\* What is sent is held by somebody, always.
LEMMA SentInvariant == Spec => []SentInv
<1>1. Init => SentInv
  BY DEF Init, SentInv
<1>2. IInv /\ NoControlMissing /\ SentInv /\ [Next]_vars => SentInv'
  BY StepKeeps DEF SentInv, Copy
<1> QED
  BY <1>1, <1>2, Invariance, NoControlMissingHolds, PTL DEF Spec

\* The engine implements the log: there is one log of control, of which nothing
\* is changed or forgotten, and every client executes it entry by entry.
THEOREM Refinement == Spec => ImplementsLog
<1>1. Init => Log!Init
  BY DEF Init, Log!Init, Known, Entries
<1>2. LogInv /\ LogOK' /\ [Next]_vars => [Log!Next]_<<log, done>>
  BY StepImplements
<1> QED
  BY <1>1, <1>2, Invariance, NoControlMissingHolds, SentInvariant, LogType, PTL
     DEF Spec, LogInv, ImplementsLog, Log!Spec, log, done
=============================================================================
