------------------------ MODULE ScreeningRouter_proofs ------------------------
(***************************************************************************)
(* Proofs about ScreeningRouter, for any number of clients, ports and      *)
(* hosts.  The inductive invariant adds to the properties what the table   *)
(* and the learned addresses remember of the packets that came in.         *)
(***************************************************************************)
EXTENDS ScreeningRouter, TLAPS

\* An entry of the table names one who was let in with the port; by
\* then the gateway had been learned.
Registered ==
  \A p \in Ports : session_table[p] # NONE =>
    session_table[p] \in users[p] /\ gateway_mac # NONE

AttemptsLeft ==
  pc \in {"sockets", "interfaces", "macs", "bind", "arp"} => attempt < ATTEMPTS

\* A socket that poll has reported, and that has not been read since.
ReadyWaits ==
  /\ pc = "inbound" => \A s \in ready : waiting[s] > 0
  /\ (pc = "outbound" /\ "dmz" \in ready) => waiting["dmz"] > 0

SentOK == OnlyWebEnters /\ RepliesReachUsers

IInv == TypeOK /\ Registered /\ AttemptsLeft /\ ReadyWaits /\ SentOK

-----------------------------------------------------------------------------
(* The access list *)

\* The first rule that matches decides, whatever the rules after it say; a
\* list may be of any length.
THEOREM FirstMatchWins ==
  ASSUME NEW rules, NEW packet, NEW n \in Nat, DOMAIN rules = 1 .. n,
         NEW i \in 1 .. n, Matches(rules[i].criteria, packet),
         \A j \in 1 .. n : Matches(rules[j].criteria, packet) => i <= j
  PROVE  evaluate_acl(rules, packet) = rules[i].action
<1> DEFINE hits == {k \in DOMAIN rules : Matches(rules[k].criteria, packet)}
<1> DEFINE first == CHOOSE k \in hits : \A j \in hits : k <= j
<1>1. i \in hits /\ \A j \in hits : i <= j
  OBVIOUS
<1>2. first \in hits /\ \A j \in hits : first <= j
  BY <1>1
<1>3. first = i
  <2>1. first <= i /\ i <= first
    BY <1>1, <1>2
  <2>2. first \in Nat /\ i \in Nat
    BY <1>2
  <2> HIDE DEF first
  <2> QED
    BY <2>1, <2>2
<1> QED
  BY <1>1, <1>3 DEF evaluate_acl

\* What no rule matches is denied.
THEOREM DefaultDeny ==
  ASSUME NEW rules, NEW packet,
         \A j \in DOMAIN rules : ~Matches(rules[j].criteria, packet)
  PROVE  evaluate_acl(rules, packet) = "DENY"
BY DEF evaluate_acl

\* The one rule of the program lets TCP through to the web port, and no more.
LEMMA AllowedIsWeb ==
  ASSUME NEW f \in Packets, Allowed(f)
  PROVE  f.saddr \in Users /\ f.protocol = "tcp" /\ f.dest = HTTP
<1> DEFINE p == FiveTuple(f)
<1>1. f.saddr \in Users
  BY DEF Allowed, Packets
<1>2. PICK i \in DOMAIN acl_rules : Matches(acl_rules[i].criteria, p)
  BY DefaultDeny DEF Allowed
<1>3. /\ acl_rules[i].criteria["protocol"] = "tcp"
      /\ acl_rules[i].criteria["dst_port"] = HTTP
  BY DEF acl_rules
<1>4. p["protocol"] = "tcp" /\ p["dst_port"] = HTTP
  BY <1>2, <1>3, HostsAssumption, NoneAssumption DEF Matches, Meets
<1>5. f.protocol = "tcp"
  BY <1>4 DEF FiveTuple
<1>6. f.dest = HTTP
  BY <1>4, <1>5 DEF FiveTuple, HasPorts
<1> QED
  BY <1>1, <1>5, <1>6

-----------------------------------------------------------------------------
(* The inductive invariant *)

LEMMA InitIInv == Init => IInv
<1> SUFFICES ASSUME Init PROVE IInv
  OBVIOUS
<1>1. 0 \in 0 .. BACKLOG /\ 0 \in 0 .. ATTEMPTS /\ 0 < ATTEMPTS
  BY HostsAssumption
<1>2. TypeOK
  BY <1>1 DEF Init, TypeOK
<1>3. Registered /\ AttemptsLeft /\ ReadyWaits
  BY <1>1 DEF Init, Registered, AttemptsLeft, ReadyWaits
<1>4. SentOK
  BY DEF Init, SentOK, SentTo, OnlyWebEnters, RepliesReachUsers
<1> QED
  BY <1>2, <1>3, <1>4 DEF IInv

\* Nothing is sent: what has been learned and registered is as it was.
LEMMA QuietStep ==
  ASSUME IInv, TypeOK', AttemptsLeft', ReadyWaits', out' \in {out, NONE},
         UNCHANGED <<learned, natVars>>
  PROVE  IInv'
<1> USE DEF IInv, learned, natVars
<1>1. Registered'
  BY DEF Registered
<1>2. SentOK'
  BY DEF SentOK, SentTo, OnlyWebEnters, RepliesReachUsers
<1> QED
  BY <1>1, <1>2

\* Receiving takes one frame from a socket that has one.
LEMMA ReceiveTakesOne ==
  ASSUME IInv, NEW s \in Sides, NEW at, Receive(s, at),
         \/ s = "ext" /\ at = "inbound"
         \/ s = "dmz" /\ at = "outbound"
  PROVE  /\ waiting' \in [Sides -> 0 .. BACKLOG]
         /\ early' \in [Sides -> 0 .. BACKLOG]
         /\ \A t \in Sides \ {s} : waiting'[t] = waiting[t]
<1> USE DEF IInv
<1>1. waiting[s] \in 0 .. BACKLOG /\ waiting[s] > 0
  BY DEF TypeOK, ReadyWaits, Receive
<1>2. waiting[s] - 1 \in 0 .. BACKLOG
  BY <1>1, HostsAssumption
<1>3. early[s] \in 0 .. BACKLOG /\ (early[s] # 0 => early[s] - 1 \in 0 .. BACKLOG)
  BY HostsAssumption DEF TypeOK
<1>4. early' \in [Sides -> 0 .. BACKLOG]
  BY <1>3 DEF TypeOK, Receive
<1> QED
  BY <1>2, <1>4 DEF TypeOK, Receive

LEMMA InboundIInv ==
  ASSUME IInv, Inbound
  PROVE  IInv'
<1> USE DEF IInv
<1>0. Incoming("ext") \subseteq Packets
  BY DEF Incoming, ExtPackets, DmzPackets
<1>1. /\ waiting' \in [Sides -> 0 .. BACKLOG] /\ early' \in [Sides -> 0 .. BACKLOG]
      /\ waiting'["dmz"] = waiting["dmz"]
  BY ReceiveTakesOne DEF Inbound, Sides
<1>2. /\ pc = "inbound"
      /\ UNCHANGED <<interface, attempt, refused, ready>>
  BY DEF Inbound, Receive, setupVars
<1>3. pc' \in {"poll", "outbound"}
  BY DEF Inbound, Ignore
<1>4. AttemptsLeft' /\ ReadyWaits'
  BY <1>1, <1>2, <1>3 DEF AttemptsLeft, ReadyWaits, Sides, TypeOK
<1>5. ASSUME NEW f \in Skipped, Ignore(f), UNCHANGED learned
      PROVE  IInv'
  <2>1. TypeOK'
    BY <1>1, <1>2, <1>3, <1>5 DEF TypeOK, Ignore, learned, natVars
  <2> QED
    BY <1>4, <1>5, <2>1, QuietStep DEF Ignore
<1>6. ASSUME NEW f \in Packets, LearnGateway(f), UNCHANGED proxy_mac
      PROVE  gateway_mac' \in Macs
  BY <1>6, NoneAssumption DEF Packets, LearnGateway, TypeOK
<1>7. ASSUME NEW f \in Packets, LearnGateway(f), UNCHANGED proxy_mac,
             Ignore(f)
      PROVE  IInv'
  <2>1. TypeOK'
    BY <1>1, <1>2, <1>3, <1>6, <1>7 DEF TypeOK, Ignore, natVars
  <2>2. Registered'
    BY <1>6, <1>7, NoneAssumption DEF Registered, Ignore, natVars, Macs
  <2>3. SentOK'
    BY <1>7 DEF Ignore, SentOK, SentTo, OnlyWebEnters, RepliesReachUsers
  <2> QED
    BY <1>4, <1>6, <1>7, <2>1, <2>2, <2>3
<1>8. ASSUME NEW f \in Packets, LearnGateway(f), UNCHANGED proxy_mac,
             Allowed(f), Register(f),
             users' = [users EXCEPT ![f.source] = @ \union {f.saddr}],
             out' = Translated(f)
      PROVE  IInv'
  <2>1. /\ f.saddr \in Users /\ f.protocol = "tcp" /\ f.dest = HTTP
        /\ f.source \in Ports
    BY <1>8, AllowedIsWeb DEF Packets
  <2>2. session_table' = [session_table EXCEPT ![f.source] = f.saddr]
    BY <1>8, <2>1 DEF Register, HasPorts
  <2>3. out' \in Sent
    BY <1>8, <2>1, HostsAssumption DEF Translated, Sent, Sides, Protocols, Users, Macs, TypeOK
  <2>4. users' \in [Ports -> SUBSET Users]
    BY <1>8, <2>1 DEF TypeOK
  <2>5. TypeOK'
    BY <1>1, <1>2, <1>3, <1>6, <1>8, <2>1, <2>2, <2>3, <2>4 DEF TypeOK
  <2>6. Registered'
    BY <1>6, <1>8, <2>1, <2>2, NoneAssumption DEF Registered, Macs, TypeOK
  <2>7. SentOK'
    BY <1>8, <2>1 DEF Translated, SentOK, SentTo, OnlyWebEnters, RepliesReachUsers
  <2> QED
    BY <1>4, <1>6, <1>8, <2>5, <2>6, <2>7
<1> QED
  BY <1>0, <1>5, <1>7, <1>8 DEF Inbound

LEMMA OutboundIInv ==
  ASSUME IInv, Outbound
  PROVE  IInv'
<1> USE DEF IInv
<1>0. Incoming("dmz") \subseteq Packets
  BY DEF Incoming, ExtPackets, DmzPackets
<1>1. waiting' \in [Sides -> 0 .. BACKLOG] /\ early' \in [Sides -> 0 .. BACKLOG]
  BY ReceiveTakesOne DEF Outbound, Sides
<1>2. /\ pc = "outbound"
      /\ UNCHANGED <<interface, attempt, refused, ready>>
  BY DEF Outbound, Receive, setupVars
<1>3. pc' = "poll"
  BY DEF Outbound, Ignore
<1>4. AttemptsLeft' /\ ReadyWaits'
  BY <1>3 DEF AttemptsLeft, ReadyWaits
<1>5. ASSUME NEW f \in Skipped, Ignore(f), UNCHANGED learned
      PROVE  IInv'
  <2>1. TypeOK'
    BY <1>1, <1>2, <1>3, <1>5 DEF TypeOK, Ignore, learned, natVars
  <2> QED
    BY <1>4, <1>5, <2>1, QuietStep DEF Ignore
<1>6. ASSUME NEW f \in Packets, LearnProxy(f), UNCHANGED gateway_mac,
             UNCHANGED natVars,
             \/ out' = NONE
             \/ Passes(f) /\ out' = Restored(f)
      PROVE  IInv'
  <2>1. /\ f.mac \in Macs /\ f.dest \in Ports
        /\ f.protocol \in Protocols /\ f.for \in Users \union {NONE}
    BY <1>6 DEF Packets
  <2>2. proxy_mac' \in Macs \union {NONE}
    BY <1>6, <2>1 DEF LearnProxy, TypeOK
  <2>3. Registered'
    BY <1>6 DEF Registered, natVars
  <2>4. CASE out' = NONE
    <3>1. TypeOK'
      BY <1>1, <1>2, <1>3, <1>6, <2>2, <2>4 DEF TypeOK, natVars
    <3>2. SentOK'
      BY <2>4 DEF SentOK, SentTo, OnlyWebEnters, RepliesReachUsers
    <3> QED
      BY <1>4, <2>2, <2>3, <3>1, <3>2
  <2>5. CASE Passes(f) /\ out' = Restored(f)
    <3>1. HasPorts(f.protocol) =>
            session_table[f.dest] \in users[f.dest] /\ gateway_mac # NONE
                /\ session_table[f.dest] \in Users
      BY <2>1, <2>5 DEF Passes, Registered, TypeOK
    <3>2. out' \in Sent
      BY <2>1, <2>5, <3>1, HostsAssumption DEF Restored, Sent, Sides, TypeOK
    <3>3. TypeOK'
      BY <1>1, <1>2, <1>3, <1>6, <2>2, <3>2 DEF TypeOK, natVars
    <3>4. SentOK'
      <4>1. out'.side = "ext"
        BY <2>5 DEF Restored
      <4>2. OnlyWebEnters'
        BY <4>1 DEF OnlyWebEnters, SentTo
      <4>3. RepliesReachUsers'
        BY <1>6, <2>5, <3>1 DEF RepliesReachUsers, Restored, natVars, SentTo
      <4> QED
        BY <4>2, <4>3 DEF SentOK
    <3> QED
      BY <1>4, <2>2, <2>3, <3>3, <3>4
  <2> QED
    BY <1>6, <2>4, <2>5
<1> QED
  BY <1>0, <1>5, <1>6 DEF Outbound, Ignore

LEMMA LoopIInv ==
  ASSUME IInv, Loop
  PROVE  IInv'
<1> USE DEF IInv
<1>1. CASE Poll
  <2>1. TypeOK' /\ AttemptsLeft' /\ ReadyWaits'
    BY <1>1 DEF Poll, setupVars, queued, learned, natVars, TypeOK, AttemptsLeft, ReadyWaits
  <2> QED
    BY <1>1, <2>1, QuietStep DEF Poll
<1>2. ASSUME NEW s \in Sides, NEW at, NEW next, PassOver(s, at, next),
             \/ s = "ext" /\ at = "inbound" /\ next = "outbound"
             \/ s = "dmz" /\ at = "outbound" /\ next = "poll"
      PROVE  IInv'
  <2>1. TypeOK' /\ AttemptsLeft' /\ ReadyWaits'
    BY <1>2 DEF PassOver, setupVars, queued, learned, natVars, TypeOK, AttemptsLeft, ReadyWaits, Sides
  <2> QED
    BY <1>2, <2>1, QuietStep DEF PassOver
<1> QED
  BY <1>1, <1>2, InboundIInv, OutboundIInv DEF Loop, Sides

\* One step of the router or of the network.
LEMMA NextIInv == IInv /\ [Next]_vars => IInv'
<1> SUFFICES ASSUME IInv, [Next]_vars PROVE IInv'
  OBVIOUS
<1> USE DEF IInv
<1>1. CASE OpenSockets \/ FindInterfaces \/ GetInterfaceMacs \/ Bind
  <2>1. TypeOK'
    BY <1>1 DEF OpenSockets, FindInterfaces, GetInterfaceMacs, Bind, queued, learned, natVars,
       TypeOK
  <2>2. AttemptsLeft' /\ ReadyWaits'
    BY <1>1 DEF OpenSockets, FindInterfaces, GetInterfaceMacs, Bind,
       AttemptsLeft, ReadyWaits
  <2> QED
    BY <1>1, <2>1, <2>2, QuietStep DEF OpenSockets, FindInterfaces, GetInterfaceMacs, Bind
<1>2. CASE ResolveArpMac
  <2>1. attempt \in Nat /\ attempt < ATTEMPTS /\ ATTEMPTS \in Nat
    BY <1>2, HostsAssumption DEF ResolveArpMac, AttemptsLeft, TypeOK
  <2>2. attempt' \in 0 .. ATTEMPTS /\ AttemptsLeft' /\ pc' \in {"arp", "poll"}
    BY <1>2, <2>1 DEF ResolveArpMac, AttemptsLeft
  <2>3. proxy_mac' \in {proxy_mac, PROXY}
    BY <1>2 DEF ResolveArpMac, Answers
  <2>4. TypeOK' /\ ReadyWaits'
    BY <1>2, <2>2, <2>3, HostsAssumption
       DEF ResolveArpMac, queued, natVars, Macs, TypeOK, ReadyWaits
  <2>5. Registered'
    BY <1>2, <2>3 DEF ResolveArpMac, natVars, Registered
  <2>6. SentOK'
    BY <1>2 DEF ResolveArpMac, natVars, SentOK, SentTo, OnlyWebEnters, RepliesReachUsers
  <2> QED
    BY <2>2, <2>4, <2>5, <2>6
<1>3. CASE Loop
  BY <1>3, LoopIInv
<1>4. CASE PollFails
  <2>1. TypeOK' /\ AttemptsLeft' /\ ReadyWaits'
    BY <1>4 DEF PollFails, setupVars, queued, learned, natVars, TypeOK, AttemptsLeft, ReadyWaits
  <2> QED
    BY <1>4, <2>1, QuietStep DEF PollFails
<1>5. ASSUME NEW s \in Sides, Arrive(s)
      PROVE  IInv'
  <2>1. waiting[s] \in Nat /\ waiting[s] < BACKLOG /\ BACKLOG \in Nat
    BY <1>5, HostsAssumption DEF Arrive, TypeOK
  <2>2. waiting' \in [Sides -> 0 .. BACKLOG]
    BY <1>5, <2>1 DEF Arrive, TypeOK
  <2>3. \A t \in Sides : waiting[t] \in Nat /\ (waiting[t] > 0 => waiting'[t] > 0)
    BY <1>5, <2>1 DEF Arrive, TypeOK
  <2>4. TypeOK' /\ AttemptsLeft'
    BY <1>5, <2>2 DEF Arrive, setupVars, learned, natVars, TypeOK, AttemptsLeft
  <2>5. ReadyWaits'
    BY <1>5, <2>3 DEF Arrive, ReadyWaits, Sides, TypeOK
  <2> QED
    BY <1>5, <2>4, <2>5, QuietStep DEF Arrive
<1>6. CASE UNCHANGED vars
  <2>1. TypeOK' /\ AttemptsLeft' /\ ReadyWaits'
    BY <1>6 DEF vars, setupVars, queued, learned, natVars, TypeOK, AttemptsLeft, ReadyWaits
  <2> QED
    BY <1>6, <2>1, QuietStep DEF vars
<1> QED
  BY <1>1, <1>2, <1>3, <1>4, <1>5, <1>6 DEF Next

THEOREM Invariance == Spec => []IInv
BY InitIInv, NextIInv, PTL DEF Spec

\* Every variable keeps its type.
THEOREM TypeCorrect == Spec => []TypeOK
<1>1. IInv => TypeOK
  BY DEF IInv
<1> QED
  BY <1>1, Invariance, PTL

\* Whatever arrives, only requests to the web port enter the DMZ.
THEOREM OnlyWebEntersAlways == Spec => []OnlyWebEnters
<1>1. IInv => OnlyWebEnters
  BY DEF IInv, SentOK
<1> QED
  BY <1>1, Invariance, PTL

\* Replies go to those that were let in with the port, and to the one they
\* answer unless it shares the port, and not before a gateway is known.
THEOREM RepliesReachUsersAlways == Spec => []RepliesReachUsers
<1>1. IInv => RepliesReachUsers
  BY DEF IInv, SentOK
<1> QED
  BY <1>1, Invariance, PTL
=============================================================================
