--------------------------- MODULE ScreeningRouter ---------------------------
(***************************************************************************)
(* The packet filter and address translator in front of the proxy,         *)
(* src/ScreeningRouter/main.cpp: one process, one thread, one loop over    *)
(* two raw sockets, "ext" on the external network and "dmz" on the         *)
(* network of the reverse proxy.                                           *)
(*                                                                         *)
(* What is in a frame is chosen when it is received; until then a frame is *)
(* one of those waiting in its socket.  Header lengths and checksums       *)
(* are left out: they are recomputed from the packet as it is sent.  A     *)
(* host of the DMZ is known by one name, which is its MAC and its address. *)
(* Between socket and bind both sockets get the frames of either network.  *)
(***************************************************************************)
EXTENDS Integers, Sequences

CONSTANTS Clients,    \* addresses on the external network
          ROUTER,     \* 10.10.0.2, the router's own address there
          ExtMacs,    \* MAC addresses of the stations of that network
          DmzHosts,   \* hosts of the DMZ that can send to the router
          PROXY,      \* 10.20.0.3, one of them
          Ports,      \* TCP and UDP ports
          HTTP,       \* 8080, one of them
          BACKLOG,    \* frames that wait in a socket at most
          ATTEMPTS,   \* ARP requests that are sent
          ANY,        \* 0 in a rule of the ACL
          NONE        \* nothing learned, registered, or sent

ASSUME HostsAssumption ==
  /\ ROUTER \notin Clients \union DmzHosts
  /\ PROXY \in DmzHosts
  /\ HTTP \in Ports
  /\ BACKLOG \in Nat \ {0}
  /\ ATTEMPTS \in Nat \ {0}
ASSUME NoneAssumption ==
  /\ NONE \notin Clients \union {ROUTER}
  /\ NONE \notin ExtMacs \union DmzHosts
  /\ ANY \notin Clients \union DmzHosts \union {ROUTER, NONE} \union Ports \union {"tcp", "udp", "icmp"}

VARIABLES pc,             \* where main is
          interface,      \* what has been found for each socket
          attempt,        \* ARP requests sent
          waiting,        \* frames waiting in each socket
          early,          \* how many of them came before the socket was bound; they
                          \* are the first
          ready,          \* sockets for which poll reported POLLIN
          gateway_mac,    \* NONE while has_gateway_mac is false
          proxy_mac,      \* NONE while has_proxy_mac is false
          session_table,  \* the client registered for each port, or NONE
          out,            \* the frame the last step sent, or NONE
          users,          \* history: clients let in with each source port
          refused         \* history: the kernel refused a call, or had no interface

setupVars == <<interface, attempt, refused>>
queued == <<waiting, early>>
learned == <<gateway_mac, proxy_mac>>
natVars == <<session_table, users>>
vars == <<pc, setupVars, queued, ready, learned, natVars, out>>

Sides == {"ext", "dmz"}
Protocols == {"tcp", "udp", "icmp"}
HasPorts(protocol) == protocol \in {"tcp", "udp"}

-----------------------------------------------------------------------------
(* The access list *)

\* A criterion of 0 is met by everything.
Meets(criterion, value) == criterion = ANY \/ criterion = value

Matches(criteria, packet) ==
  \A field \in {"protocol", "src_ip", "dst_ip", "src_port", "dst_port"} :
    Meets(criteria[field], packet[field])

\* Mutant of evaluate_acl: what no rule mentions is allowed.
EvaluateDefaultAllow(rules, packet) ==
  LET hits == {i \in DOMAIN rules : Matches(rules[i].criteria, packet)}
  IN  IF hits = {} THEN "ALLOW"
      ELSE rules[CHOOSE i \in hits : \A j \in hits : i <= j].action

\* The first rule that matches decides; if there is none, the packet is denied.
evaluate_acl(rules, packet) ==
  LET hits == {i \in DOMAIN rules : Matches(rules[i].criteria, packet)}
  IN  IF hits = {} THEN "DENY"
      ELSE rules[CHOOSE i \in hits : \A j \in hits : i <= j].action

acl_rules ==
  << [criteria |-> [protocol |-> "tcp", src_ip |-> ANY, dst_ip |-> ANY,
                    src_port |-> ANY, dst_port |-> HTTP],
      action |-> "ALLOW"] >>

-----------------------------------------------------------------------------
(* What can come in *)

Macs == ExtMacs \union DmzHosts

\* Who may be let in: clients and, by a frame that came before bind, hosts of the
\* DMZ.
Users == Clients \union DmzHosts

\* A frame is too short for an IP header, or the router's own, or a packet.
Packets ==
  [mac : Macs, saddr : Users \union {ROUTER}, protocol : Protocols,
   source : Ports, dest : Ports, for : Users \union {NONE}]
Skipped == {"runt", "outgoing"}

ExtPackets ==
  {f \in Packets : f.mac \in ExtMacs /\ f.saddr \in Clients \union {ROUTER} /\ f.for = NONE}

\* Each host of the DMZ uses its own addresses.  What the proxy sends to a
\* port answers one of those that were let in with it, if there is one.
DmzPackets ==
  {f \in Packets :
    /\ f.mac \in DmzHosts /\ f.saddr = f.mac
    /\ IF f.saddr = PROXY /\ HasPorts(f.protocol) /\ users[f.dest] # {}
       THEN f.for \in users[f.dest]
       ELSE f.for = NONE}

\* What the next frame of a socket may be: one that came before the socket was
\* bound may come from the other network.
Incoming(side) ==
  (IF side = "ext" \/ early[side] > 0 THEN ExtPackets ELSE {})
    \union (IF side = "dmz" \/ early[side] > 0 THEN DmzPackets ELSE {})

\* The tuple that is compared with the rules; ports of other protocols are 0.
FiveTuple(f) ==
  [protocol |-> f.protocol, src_ip |-> f.saddr, dst_ip |-> ROUTER,
   src_port |-> IF HasPorts(f.protocol) THEN f.source ELSE ANY,
   dst_port |-> IF HasPorts(f.protocol) THEN f.dest ELSE ANY]

Init ==
  /\ pc = "sockets"
  /\ interface = [s \in Sides |-> NONE]
  /\ attempt = 0
  /\ waiting = [s \in Sides |-> 0]
  /\ early = [s \in Sides |-> 0]
  /\ ready = {}
  /\ gateway_mac = NONE
  /\ proxy_mac = NONE
  /\ session_table = [p \in Ports |-> NONE]
  /\ out = NONE
  /\ users = [p \in Ports |-> {}]
  /\ refused = FALSE

-----------------------------------------------------------------------------
(* Setting up *)

OpenSockets ==
  /\ pc = "sockets"
  /\ \/ pc' = "interfaces" /\ UNCHANGED refused
     \/ pc' = "failed" /\ refused' = TRUE
  /\ UNCHANGED <<interface, attempt, queued, ready, learned, natVars, out>>

\* getifaddrs names the interfaces that have the two addresses.  Where it does
\* not, the default interface is looked up, and the string that is kept for it
\* is "eth1(fallback)" or "eth0(fallback)", which is not its name.
FindInterfaces ==
  /\ pc = "interfaces"
  /\ interface' \in [Sides -> {"found", "fallback", NONE}]
  /\ refused' = (\E s \in Sides : interface'[s] = NONE)
  /\ pc' = IF refused' THEN "failed" ELSE "macs"
  /\ UNCHANGED <<attempt, queued, ready, learned, natVars, out>>

\* get_interface_mac asks by that string; the kernel may also refuse.
GetInterfaceMacs ==
  /\ pc = "macs"
  /\ \/ /\ \A s \in Sides : interface[s] = "found"
        /\ pc' = "bind"
        /\ UNCHANGED refused
     \/ /\ \E s \in Sides : interface[s] = "fallback"
        /\ pc' = "failed"
        /\ UNCHANGED refused
     \/ /\ refused' = TRUE
        /\ pc' = "failed"
  /\ UNCHANGED <<interface, attempt, queued, ready, learned, natVars, out>>

Bind ==
  /\ pc = "bind"
  /\ \/ pc' = "arp" /\ UNCHANGED refused
     \/ pc' = "failed" /\ refused' = TRUE
  /\ UNCHANGED <<interface, attempt, queued, ready, learned, natVars, out>>

\* An ARP packet that answers the question who has the proxy's address.
Answers(op, spa) == op = "reply" /\ spa = PROXY

\* One round of resolve_arp_mac: the request is sent and at most one packet
\* is read, within a second.  Without an answer after the last round the
\* router goes on and relies on learning.
ResolveArpMac ==
  /\ pc = "arp"
  /\ attempt' = attempt + 1
  /\ \/ \E op \in {"request", "reply"}, h \in DmzHosts :
          /\ Answers(op, h)
          /\ proxy_mac' = h
          /\ pc' = "poll"
     \/ /\ proxy_mac' = proxy_mac
        /\ pc' = IF attempt' >= ATTEMPTS THEN "poll" ELSE "arp"
  /\ UNCHANGED <<interface, refused, queued, ready, gateway_mac, natVars, out>>

-----------------------------------------------------------------------------
(* The loop *)

\* poll returns when a frame waits, and reports every socket that has one.
Poll ==
  /\ pc = "poll"
  /\ \E s \in Sides : waiting[s] > 0
  /\ ready' = {s \in Sides : waiting[s] > 0}
  /\ pc' = "inbound"
  /\ out' = NONE
  /\ UNCHANGED <<setupVars, queued, learned, natVars>>

\* An error of poll ends the loop and the program.
PollFails ==
  /\ pc = "poll"
  /\ pc' = "stopped"
  /\ out' = NONE
  /\ UNCHANGED <<setupVars, queued, ready, learned, natVars>>

\* A socket without POLLIN is passed over.
PassOver(side, at, next) ==
  /\ pc = at
  /\ side \notin ready
  /\ pc' = next
  /\ out' = NONE
  /\ UNCHANGED <<setupVars, queued, ready, learned, natVars>>

Receive(side, at) ==
  /\ pc = at
  /\ side \in ready
  /\ waiting' = [waiting EXCEPT ![side] = @ - 1]
  /\ early' = [early EXCEPT ![side] = IF @ = 0 THEN 0 ELSE @ - 1]
  /\ UNCHANGED <<setupVars, ready>>

\* The first packet decides, whatever becomes of it.
LearnGateway(f) ==
  gateway_mac' = IF gateway_mac = NONE THEN f.mac ELSE gateway_mac

Allowed(f) == f.saddr # ROUTER /\ evaluate_acl(acl_rules, FiveTuple(f)) = "ALLOW"

\* Mutant of Register: the port of the server is taken for that of the client.
RegisterByDestination(f) ==
  session_table' = IF HasPorts(f.protocol)
                   THEN [session_table EXCEPT ![f.dest] = f.saddr]
                   ELSE session_table

\* The entry of the client's port is made or overwritten.
Register(f) ==
  session_table' = IF HasPorts(f.protocol)
                   THEN [session_table EXCEPT ![f.source] = f.saddr]
                   ELSE session_table

\* The packet as it is sent to the proxy, or flooded while its MAC is unknown.
Translated(f) ==
  [side |-> "dmz", to |-> proxy_mac, daddr |-> PROXY, protocol |-> f.protocol,
   dest |-> f.dest, for |-> f.saddr]

\* A frame is ignored: in either pipeline this is a continue, which goes back
\* to poll.
Ignore(f) ==
  /\ pc' = "poll"
  /\ out' = NONE
  /\ UNCHANGED natVars

Inbound ==
  /\ Receive("ext", "inbound")
  /\ \/ \E f \in Skipped : Ignore(f) /\ UNCHANGED learned
     \/ \E f \in Incoming("ext") :
          /\ LearnGateway(f)
          /\ UNCHANGED proxy_mac
          /\ \/ ~Allowed(f) /\ Ignore(f)
             \/ /\ Allowed(f)
                /\ Register(f)
                /\ users' = [users EXCEPT ![f.source] = @ \union {f.saddr}]
                /\ out' = Translated(f)
                /\ pc' = "outbound"

LearnProxy(f) ==
  proxy_mac' = IF proxy_mac = NONE THEN f.mac ELSE proxy_mac

\* Mutant of Passes: a reply for an unknown port is sent on as it is.
PassesUnregistered(f) == f.saddr = PROXY

\* A packet of the proxy whose port, if it has one, is registered.
Passes(f) ==
  /\ f.saddr = PROXY
  /\ HasPorts(f.protocol) => session_table[f.dest] # NONE

\* The packet as it is sent to the gateway; only TCP and UDP get a new
\* destination, others keep that of the router.
Restored(f) ==
  [side |-> "ext", to |-> gateway_mac,
   daddr |-> IF HasPorts(f.protocol) THEN session_table[f.dest] ELSE ROUTER,
   protocol |-> f.protocol, dest |-> f.dest, for |-> f.for]

Outbound ==
  /\ Receive("dmz", "outbound")
  /\ \/ \E f \in Skipped : Ignore(f) /\ UNCHANGED learned
     \/ \E f \in Incoming("dmz") :
          /\ LearnProxy(f)
          /\ UNCHANGED gateway_mac
          /\ \/ ~Passes(f) /\ Ignore(f)
             \/ /\ Passes(f)
                /\ out' = Restored(f)
                /\ pc' = "poll"
                /\ UNCHANGED natVars

\* Mutant of Loop: without an inbound frame the round ends.
LoopContinues ==
  \/ Poll
  \/ PassOver("ext", "inbound", "poll")
  \/ Inbound
  \/ PassOver("dmz", "outbound", "poll")
  \/ Outbound

Loop ==
  \/ Poll
  \/ PassOver("ext", "inbound", "outbound")
  \/ Inbound
  \/ PassOver("dmz", "outbound", "poll")
  \/ Outbound

Unbound == {"interfaces", "macs", "bind"}
Looping == {"poll", "inbound", "outbound"}

\* The network: a frame reaches a socket, as soon as there is one.
Arrive(s) ==
  /\ pc \in Unbound \union {"arp"} \union Looping
  /\ waiting[s] < BACKLOG
  /\ waiting' = [waiting EXCEPT ![s] = @ + 1]
  /\ early' = IF pc \in Unbound THEN waiting' ELSE early
  /\ out' = NONE
  /\ UNCHANGED <<pc, setupVars, ready, learned, natVars>>

Next ==
  \/ OpenSockets
  \/ FindInterfaces
  \/ GetInterfaceMacs
  \/ Bind
  \/ ResolveArpMac
  \/ Loop
  \/ PollFails
  \/ \E s \in Sides : Arrive(s)

Spec == Init /\ [][Next]_vars

\* The thread runs; frames need not come, and poll need not fail.
FairSpec == Spec /\ WF_vars(Loop)

-----------------------------------------------------------------------------
(* Properties *)

Sent ==
  [side : Sides, to : Macs \union {NONE}, daddr : Users \union {ROUTER},
   protocol : Protocols, dest : Ports, for : Users \union {NONE}]

\* The type of every variable.
TypeOK ==
  /\ pc \in {"sockets", "interfaces", "macs", "bind", "arp", "poll",
             "inbound", "outbound", "failed", "stopped"}
  /\ interface \in [Sides -> {"found", "fallback", NONE}]
  /\ attempt \in 0 .. ATTEMPTS
  /\ waiting \in [Sides -> 0 .. BACKLOG]
  /\ early \in [Sides -> 0 .. BACKLOG]
  /\ ready \in SUBSET Sides
  /\ gateway_mac \in Macs \union {NONE}
  /\ proxy_mac \in Macs \union {NONE}
  /\ session_table \in [Ports -> Users \union {NONE}]
  /\ out \in Sent \union {NONE}
  /\ users \in [Ports -> SUBSET Users]
  /\ refused \in BOOLEAN

SentTo(side) == out # NONE /\ out.side = side

\* The rules, the default and the order of the checks together let nothing
\* into the DMZ but requests to the web port, and nothing that bears the router's
\* own address; whichever network a frame came from before bind.
OnlyWebEnters ==
  SentTo("dmz") =>
    out.protocol = "tcp" /\ out.dest = HTTP /\ out.for \in Users

\* Address translation loses nobody: a TCP or UDP packet that goes back goes to
\* one who was let in with its port, and to the one it answers unless another one
\* uses the same port; and somebody's MAC has been learned as the gateway's,
\* though the code does not ask.  Of other protocols this says nothing: a packet of
\* the proxy without ports may go out to the zeros with which gateway_mac begins.
RepliesReachUsers ==
  (SentTo("ext") /\ HasPorts(out.protocol)) =>
    /\ out.daddr \in users[out.dest]
    /\ users[out.dest] = {out.for} => out.daddr = out.for
    /\ out.to # NONE

\* Both pipelines are served while the loop runs: inbound frames whatever happens,
\* outbound frames once no more inbound frames come (each ignored one postpones them).
Served(s, at) == waiting[s] = 0 \/ (pc = at /\ s \in ready) \/ pc \notin Looping

BothServed ==
  /\ []<>Served("ext", "inbound")
  /\ <>[](waiting["ext"] = 0) => []<>Served("dmz", "outbound")

\* "fallback: try the default interfaces when the search fails": the router
\* gives up only if there is no interface or the kernel refuses a call.
FallbackServes == pc = "failed" => refused
=============================================================================
