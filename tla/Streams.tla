------------------------------- MODULE Streams -------------------------------
(***************************************************************************)
(* What the relay promises the two peers of a session: a pair of streams,  *)
(* one in each direction.  A peer gets what the other sends, in order and  *)
(* without gaps; it is told the end of the stream after the last of it,    *)
(* and once; and no connection is closed before both ends were told.  Only *)
(* a connection that breaks, or a peer that reads no more, excuses the     *)
(* relay from carrying all.  There are no threads, buffers or descriptors; *)
(* ReverseProxy.tla has all of those and implements this specification.    *)
(***************************************************************************)
EXTENDS Integers, Sequences

CONSTANTS Sessions, MAX_SENT

VARIABLES proxy,     \* "starting", "serving" or "over"
          session,   \* "waiting", "relaying" or "over"
          peer,      \* "open", "finished" (reads still), "closed" or "gone"
          intact,    \* whether the connection to the peer is
          sent,      \* the number of items a peer has sent
          got,       \* what it has got
          ended      \* the peers that were told the end of the other's stream

connections == <<peer, intact, sent, got, ended>>
vars == <<proxy, session, connections>>

Socks == Sessions \X {"client", "backend"}
Partner(k) == <<k[1], IF k[2] = "client" THEN "backend" ELSE "client">>

Fresh ==
  [peer |-> "open", intact |-> TRUE, sent |-> 0, got |-> <<>>]

\* The connections of some sessions are as new, and the others as they were.
Renewed(S) ==
  LET new(f, v) == [k \in Socks |-> IF k[1] \in S THEN v ELSE f[k]] IN
    /\ peer' = new(peer, Fresh.peer)
    /\ intact' = new(intact, Fresh.intact)
    /\ sent' = new(sent, Fresh.sent)
    /\ got' = new(got, Fresh.got)
    /\ ended' = {k \in ended : k[1] \notin S}

Init ==
  /\ proxy = "starting"
  /\ session = [s \in Sessions |-> "waiting"]
  /\ peer = [k \in Socks |-> Fresh.peer]
  /\ intact = [k \in Socks |-> Fresh.intact]
  /\ sent = [k \in Socks |-> Fresh.sent]
  /\ got = [k \in Socks |-> Fresh.got]
  /\ ended = {}

Start ==
  /\ proxy = "starting"
  /\ proxy' = "serving"
  /\ UNCHANGED <<session, connections>>

\* The process ends, and takes all sessions with it.
Stop ==
  /\ proxy # "over"
  /\ proxy' = "over"
  /\ session' = [s \in Sessions |-> "waiting"]
  /\ Renewed(Sessions)

-----------------------------------------------------------------------------
(* The peers *)

Live(k) == proxy = "serving" /\ session[k[1]] = "relaying" /\ intact[k]

Send(k) ==
  /\ Live(k)
  /\ peer[k] = "open"
  /\ sent[k] < MAX_SENT
  /\ sent' = [sent EXCEPT ![k] = @ + 1]
  /\ UNCHANGED <<proxy, session, peer, intact, got, ended>>

Leave(k) ==
  /\ Live(k)
  /\ \/ peer[k] = "open" /\ peer' = [peer EXCEPT ![k] = "finished"]
     \/ peer[k] \in {"open", "finished"} /\ peer' = [peer EXCEPT ![k] = "closed"]
  /\ UNCHANGED <<proxy, session, intact, sent, got, ended>>

Break(k) ==
  /\ Live(k)
  /\ intact' = [intact EXCEPT ![k] = FALSE]
  /\ peer' = [peer EXCEPT ![k] = IF @ = "open" THEN "gone" ELSE @]
  /\ UNCHANGED <<proxy, session, sent, got, ended>>

-----------------------------------------------------------------------------
(* The relay *)

Begin(s) ==
  /\ proxy = "serving"
  /\ session[s] = "waiting"
  /\ session' = [session EXCEPT ![s] = "relaying"]
  /\ UNCHANGED <<proxy, connections>>

Reads(k) == peer[k] \in {"open", "finished"}

\* The next item of the other's stream.
Deliver(k) ==
  /\ Live(k)
  /\ Reads(k)
  /\ k \notin ended
  /\ Len(got[k]) < sent[Partner(k)]
  /\ got' = [got EXCEPT ![k] = Append(@, [from |-> Partner(k), n |-> Len(@) + 1])]
  /\ UNCHANGED <<proxy, session, peer, intact, sent, ended>>

Complete(k) ==
  peer[Partner(k)] \in {"finished", "closed"} /\ Len(got[k]) = sent[Partner(k)]

End(k) ==
  /\ proxy = "serving"
  /\ session[k[1]] = "relaying"
  /\ k \notin ended
  /\ (Reads(k) /\ intact[k] /\ intact[Partner(k)]) => Complete(k)
  /\ ended' = ended \union {k}
  /\ UNCHANGED <<proxy, session, peer, intact, sent, got>>

\* A session is over when both ends were told, or it was refused.
Close(s) ==
  /\ proxy = "serving"
  /\ \/ session[s] = "relaying" /\ {s} \X {"client", "backend"} \subseteq ended
     \/ session[s] = "waiting"
  /\ session' = [session EXCEPT ![s] = "over"]
  /\ Renewed({s})

Next ==
  \/ Start
  \/ Stop
  \/ \E s \in Sessions : Begin(s) \/ Close(s)
  \/ \E k \in Socks : Send(k) \/ Leave(k) \/ Break(k) \/ Deliver(k) \/ End(k)

Spec == Init /\ [][Next]_vars
=============================================================================
