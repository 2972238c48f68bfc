----------------------------- MODULE TunnelData -----------------------------
(***************************************************************************)
(* The data plane of internal/tunnel.  For a connection to a public port   *)
(* the server opens a data listener, sends the client an open frame with   *)
(* its port and a connection ID, and accepts one connection there, whose   *)
(* first line must carry that ID (openData in server.go); the client dials *)
(* the port, writes the line and dials the rule's target (handleOpen in    *)
(* client.go).  What is relayed afterwards is the subject of module Relay. *)
(*                                                                         *)
(* Of the control plane (module Tunnel) this keeps the sessions, one after *)
(* the other, and the open frames in flight; a session's public ports may  *)
(* accept as long as it is not closed.                                     *)
(***************************************************************************)
EXTENDS Naturals, Sequences, FiniteSets

CONSTANTS
  MaxPub,    \* bound on public connections at a time
  MaxOpen,   \* bound on handleOpen goroutines at a time
  MaxSess,   \* bound on sessions
  MaxConns,  \* bound on the public connections
  Ports,     \* ports of data listeners
  Nil

Pubs == 1..MaxPub
Opens == 1..MaxOpen
Sessions == 1..MaxSess
ConnIDs == 1..MaxConns

ASSUME BoundsAssumption ==
  /\ {MaxPub, MaxOpen, MaxConns} \subseteq Nat
  /\ MaxSess \in Nat \ {0}
ASSUME NilAssumption == Nil \notin Nat \cup Ports

VARIABLES
  sess,     \* the sessions: the link, the server's end, se.nextID, open frames
  cur,      \* the session of the client
  pub,      \* the openData goroutine of each public connection
  hnd       \* the handleOpen goroutines, each with the data connection it dials

vars == <<sess, cur, pub, hnd>>

NewSession == [link |-> TRUE, open |-> TRUE, nextID |-> 0, frames |-> <<>>]
NoPub == [pc |-> "idle", sess |-> Nil, id |-> Nil, port |-> Nil,
          queue |-> <<>>, data |-> Nil]
NoHandler == [pc |-> "idle", sess |-> Nil, id |-> Nil, port |-> Nil,
              to |-> Nil, head |-> FALSE, open |-> FALSE]

(* A data connection goes to the listener of the public connection "to",    *)
(* and its header is written or not; to = Nil: the server's end is closed,  *)
(* ~open: the client's.  A handleOpen that is gone has returned, while the  *)
(* server still has its end.                                                *)
TypeOK ==
  /\ cur \in Sessions /\ Len(sess) = cur
  /\ sess \in Seq([link: BOOLEAN, open: BOOLEAN, nextID: 0..MaxConns,
                   frames: Seq([id: ConnIDs, port: Ports])])
  /\ pub \in [Pubs -> [pc: {"idle", "listen", "encode", "accept", "header", "relay"},
                        sess: Sessions \cup {Nil}, id: ConnIDs \cup {Nil}, port: Ports \cup {Nil},
                        queue: Seq(Opens), data: Opens \cup {Nil}]]
  /\ hnd \in [Opens -> [pc: {"idle", "dial", "write", "lookup", "relay", "gone"},
                         sess: Sessions \cup {Nil}, id: ConnIDs \cup {Nil}, port: Ports \cup {Nil},
                         to: Pubs \cup {Nil}, head: BOOLEAN, open: BOOLEAN]]

Init ==
  /\ sess = <<NewSession>> /\ cur = 1
  /\ pub = [u \in Pubs |-> NoPub]
  /\ hnd = [o \in Opens |-> NoHandler]

-----------------------------------------------------------------------------
(* Sessions                                                                 *)

(* The connection is lost with the frames in flight.                        *)
Lose ==
  /\ sess[cur].link
  /\ sess' = [sess EXCEPT ![cur].link = FALSE, ![cur].frames = <<>>]
  /\ UNCHANGED <<cur, pub, hnd>>

(* The server finds out and closes the session: its public ports close, its *)
(* openData goroutines go on.                                               *)
CloseSession(s) ==
  /\ sess[s].open /\ ~sess[s].link
  /\ sess' = [sess EXCEPT ![s].open = FALSE]
  /\ UNCHANGED <<cur, pub, hnd>>

(* The client finds out and connects again: a session of its own, which     *)
(* counts its connections from 1.                                           *)
Reconnect ==
  /\ ~sess[cur].link /\ cur < MaxSess
  /\ cur' = cur + 1
  /\ sess' = Append(sess, NewSession)
  /\ UNCHANGED <<pub, hnd>>

-----------------------------------------------------------------------------
(* openData                                                                 *)

FreePubs == {u \in Pubs : pub[u].pc = "idle"}

Free(S) == CHOOSE x \in S : TRUE

(* The connections so far: with an ID of their session, or still without.   *)
Drawn == {x \in (1..cur) \X ConnIDs : x[2] <= sess[x[1]].nextID}
Listening == {u \in Pubs : pub[u].pc = "listen"}

acceptPublic(s) ==
  /\ sess[s].open /\ FreePubs # {}
  /\ Cardinality(Drawn) + Cardinality(Listening) < MaxConns
  /\ pub' = [pub EXCEPT ![Free(FreePubs)] = [NoPub EXCEPT !.pc = "listen", !.sess = s]]
  /\ UNCHANGED <<sess, cur, hnd>>

(* handleOpen once the server has closed its end of the data connections S. *)
ServerEnds(S) ==
  [o \in Opens |-> IF o \notin S THEN hnd[o]
                   ELSE IF hnd[o].pc = "gone" THEN NoHandler
                   ELSE [hnd[o] EXCEPT !.to = Nil]]

\* Mutant: the data connection that was accepted is not closed.
ReturnLeaks(u) ==
  /\ pub' = [pub EXCEPT ![u] = NoPub]
  /\ hnd' = ServerEnds({o \in Opens : hnd[o].to = u /\ pub[u].data # o})

(* The deferred calls: the public connection, the listener with whatever    *)
(* waits in its queue, and the data connection are closed.                  *)
Return(u) ==
  /\ pub' = [pub EXCEPT ![u] = NoPub]
  /\ hnd' = ServerEnds({o \in Opens : hnd[o].to = u})

\* Mutant: the counter is incremented before and after it is read.
NextConnIDTwice(s) == sess[s].nextID + 2

nextConnID(s) == sess[s].nextID + 1

(* The listener is opened, with its deadline, and the ID is drawn.          *)
Listen(u) ==
  /\ pub[u].pc = "listen"
  /\ LET s == pub[u].sess
     IN /\ \E a \in Ports \ {pub[v].port : v \in Pubs} :
             pub' = [pub EXCEPT ![u].pc = "encode", ![u].port = a, ![u].id = nextConnID(s)]
        /\ sess' = [sess EXCEPT ![s].nextID = nextConnID(s)]
  /\ UNCHANGED <<cur, hnd>>

ListenFails(u) ==
  /\ pub[u].pc = "listen"
  /\ Return(u)
  /\ UNCHANGED <<sess, cur>>

(* The frame is written; on a link that is lost the server may not notice.  *)
Encode(u) ==
  /\ pub[u].pc = "encode"
  /\ LET s == pub[u].sess
     IN sess' = IF sess[s].link
                THEN [sess EXCEPT ![s].frames = Append(@,
                       [id |-> pub[u].id, port |-> pub[u].port])]
                ELSE sess
  /\ pub' = [pub EXCEPT ![u].pc = "accept"]
  /\ UNCHANGED <<cur, hnd>>

EncodeFails(u) ==
  /\ pub[u].pc = "encode" /\ ~sess[pub[u].sess].link
  /\ Return(u)
  /\ UNCHANGED <<sess, cur>>

Accept(u) ==
  /\ pub[u].pc = "accept" /\ pub[u].queue # <<>>
  /\ pub' = [pub EXCEPT ![u].pc = "header", ![u].queue = Tail(@),
                        ![u].data = Head(pub[u].queue)]
  /\ UNCHANGED <<sess, cur, hnd>>

\* Mutant: the listener has no deadline.
DeadlineMissing(u) == FALSE /\ UNCHANGED vars

(* Thirty seconds without a connection; one may come at the same time.      *)
Deadline(u) ==
  /\ pub[u].pc = "accept"
  /\ Return(u)
  /\ UNCHANGED <<sess, cur>>

\* Mutant: the ID in the header is not compared.
HeaderMatchesAny(u) == TRUE

HeaderMatches(u) == hnd[pub[u].data].id = pub[u].id

ReadHeader(u) ==
  /\ pub[u].pc = "header" /\ hnd[pub[u].data].head
  /\ HeaderMatches(u)
  /\ pub' = [pub EXCEPT ![u].pc = "relay"]
  /\ UNCHANGED <<sess, cur, hnd>>

(* Another ID, or the end of the connection before a line.                  *)
HeaderFails(u) ==
  /\ pub[u].pc = "header"
  /\ LET h == hnd[pub[u].data]
     IN (h.head /\ ~HeaderMatches(u)) \/ (~h.head /\ ~h.open)
  /\ Return(u)
  /\ UNCHANGED <<sess, cur>>

(* Relay returns: the user, the client or the network ended a connection.   *)
RelayReturns(u) ==
  /\ pub[u].pc = "relay"
  /\ Return(u)
  /\ UNCHANGED <<sess, cur>>

-----------------------------------------------------------------------------
(* handleOpen                                                               *)

FreeHandlers == {o \in Opens : hnd[o].pc = "idle"}

serve ==
  /\ sess[cur].frames # <<>> /\ FreeHandlers # {}
  /\ LET f == Head(sess[cur].frames)
     IN hnd' = [hnd EXCEPT ![Free(FreeHandlers)] =
                  [NoHandler EXCEPT !.pc = "dial", !.sess = cur, !.id = f.id,
                                    !.port = f.port]]
  /\ sess' = [sess EXCEPT ![cur].frames = Tail(@)]
  /\ UNCHANGED <<cur, pub>>

(* The deferred closes; the server still has its end of the connection.     *)
End(o) == hnd' = [hnd EXCEPT ![o] = IF @.to = Nil THEN NoHandler
                                    ELSE [@ EXCEPT !.pc = "gone", !.open = FALSE]]

(* Whoever listens on the port now has the connection in its queue.         *)
Dial(o) ==
  /\ hnd[o].pc = "dial"
  /\ \E u \in Pubs :
       /\ pub[u].port = hnd[o].port
       /\ pub' = [pub EXCEPT ![u].queue = Append(@, o)]
       /\ hnd' = [hnd EXCEPT ![o].pc = "write", ![o].to = u, ![o].open = TRUE]
  /\ UNCHANGED <<sess, cur>>

DialFails(o) ==
  /\ hnd[o].pc = "dial"
  /\ End(o)
  /\ UNCHANGED <<sess, cur, pub>>

WriteHeader(o) ==
  /\ hnd[o].pc = "write"
  /\ hnd' = [hnd EXCEPT ![o].pc = "lookup", ![o].head = TRUE]
  /\ UNCHANGED <<sess, cur, pub>>

WriteFails(o) ==
  /\ hnd[o].pc = "write"
  /\ End(o)
  /\ UNCHANGED <<sess, cur, pub>>

(* The rule is still there and its target answers.                          *)
DialTarget(o) ==
  /\ hnd[o].pc = "lookup"
  /\ hnd' = [hnd EXCEPT ![o].pc = "relay"]
  /\ UNCHANGED <<sess, cur, pub>>

\* Mutant: where the rule is gone, the data connection is not closed.
NoTargetKeepsOpen(o) ==
  /\ hnd[o].pc = "lookup"
  /\ hnd' = [hnd EXCEPT ![o] = IF @.to = Nil THEN NoHandler ELSE [@ EXCEPT !.pc = "gone"]]
  /\ UNCHANGED <<sess, cur, pub>>

(* No rule has the ID any more, or its target does not answer.              *)
NoTarget(o) ==
  /\ hnd[o].pc = "lookup"
  /\ End(o)
  /\ UNCHANGED <<sess, cur, pub>>

HandlerReturns(o) ==
  /\ hnd[o].pc = "relay"
  /\ End(o)
  /\ UNCHANGED <<sess, cur, pub>>

-----------------------------------------------------------------------------
OpenData(u) ==
  \/ Listen(u) \/ ListenFails(u) \/ Encode(u) \/ EncodeFails(u)
  \/ Accept(u) \/ Deadline(u) \/ ReadHeader(u) \/ HeaderFails(u)

HandleOpen(o) ==
  \/ Dial(o) \/ DialFails(o) \/ WriteHeader(o) \/ WriteFails(o)
  \/ DialTarget(o) \/ NoTarget(o)

Environment ==
  \/ Lose \/ Reconnect
  \/ \E s \in DOMAIN sess : CloseSession(s) \/ acceptPublic(s)

Next ==
  \/ Environment \/ serve
  \/ \E u \in Pubs : OpenData(u) \/ RelayReturns(u)
  \/ \E o \in Opens : HandleOpen(o) \/ HandlerReturns(o)

Spec == Init /\ [][Next]_vars

(* Goroutines run, dials end and deadlines pass; and a relay returns once   *)
(* the other process has closed its end of the data connection (Relay).     *)
Fairness ==
  /\ \A u \in Pubs : /\ WF_vars(OpenData(u))
                     /\ WF_vars(RelayReturns(u) /\ ~hnd[pub[u].data].open)
  /\ \A o \in Opens : /\ WF_vars(HandleOpen(o))
                      /\ WF_vars(HandlerReturns(o) /\ hnd[o].to = Nil)

FairSpec == Spec /\ Fairness

-----------------------------------------------------------------------------
(* Properties                                                               *)

(* A public connection is relayed with the data connection that was opened  *)
(* for it, although ports are used again while an old handleOpen may still  *)
(* dial them and the one Accept takes whoever comes first; no two of a      *)
(* session share an ID.  IDs start again with every session: a handleOpen   *)
(* of an earlier session is excepted.                                       *)
Matched ==
  \A u \in Pubs : pub[u].pc = "relay" =>
    LET h == hnd[pub[u].data]
    IN /\ h.sess = pub[u].sess => h.id = pub[u].id
       /\ \A v \in Pubs \ {u} : pub[v].sess = pub[u].sess => pub[v].id # pub[u].id

(* openData accepted the data connection, or has it in its listener's queue.*)
Holds(u, o) == pub[u].data = o \/ \E n \in DOMAIN pub[u].queue : pub[u].queue[n] = o

(* No connection is served twice or left to nobody: the data connections    *)
(* the server has open are those its openData goroutines accepted or have   *)
(* in the queue of their listener, each in one place.                       *)
DataOwned ==
  \A o \in Opens : \A u \in Pubs :
    hnd[o].to = u <=> Holds(u, o)

(* Nobody waits for ever on a public port: whatever becomes of the client,  *)
(* its connections and its rules, a connection is relayed or closed.        *)
PublicServed ==
  \A u \in Pubs :
    pub[u].pc \notin {"idle", "relay"} ~> pub[u].pc \in {"idle", "relay"}

(* handleOpen has returned, and openData still has the data connection;     *)
(* openData has returned, and handleOpen has not.                           *)
Deserted(u) == pub[u].data # Nil /\ hnd[pub[u].data].pc = "gone"
Abandoned(o) ==
  hnd[o].pc \in {"write", "lookup", "relay"} /\ \A u \in Pubs : ~Holds(u, o)

(* Neither half of a connection outlives the other: wherever handleOpen     *)
(* returns -- no header written, no rule, no target, the end of its relay   *)
(* -- openData returns too and the public connection is closed, and where   *)
(* openData gave up, with the connection accepted or still in its queue, so *)
(* does handleOpen.                                                         *)
EndsTogether ==
  /\ \A u \in Pubs : Deserted(u) ~> pub[u].pc = "idle"
  /\ \A o \in Opens : Abandoned(o) ~> hnd[o].pc \in {"idle", "gone"}
=============================================================================
