------------------------------- MODULE Tunnel -------------------------------
(***************************************************************************)
(* The control plane of internal/tunnel: a Client (client.go) that tells a *)
(* Server (server.go) which public ports to open, over a TCP connection    *)
(* that may end or be lost, and reconnects.                                *)
(*                                                                         *)
(* A connection is a FIFO queue of frames each way.  The client stores a   *)
(* change of its rules under c.mu and writes the frame afterwards; the     *)
(* server handles the frames of a session one after the other.  Data       *)
(* connections (open frames) are not part of this module.                  *)
(***************************************************************************)
EXTENDS Naturals, Sequences

CONSTANTS
  Callers,   \* goroutines that call Client.Add and Client.Remove
  IDs,       \* rule IDs
  Addrs,     \* public addresses
  Conns,     \* control connections; a name is used again when both ends are gone
  Lsns,      \* public listeners; likewise
  MaxCalls,  \* bound on the calls of Add and Remove
  Cap,       \* the delay below which Run doubles it, in seconds (30 in the code)
  Ops,       \* what the environment does: "cancel", "lose", "crash", "close"
  Nil

ASSUME MaxCallsAssumption == MaxCalls \in Nat
ASSUME CapAssumption == Cap \in Nat \ {0}

VARIABLES
  rules,      \* c.rules: the address each rule asks for
  enc,        \* the connection of c.conn and c.enc
  run,        \* Client.Run: label, and the snapshot it still has to send
  backoff,    \* Run's delay in seconds
  cancelled,  \* ctx
  frame,      \* frames that callers of Add and Remove are about to write
  calls,      \* number of calls made
  link,       \* the connections: both ends and what is in flight
  sess,       \* the server's session on each connection
  lsn,        \* the public listeners with their accept loops
  srv,        \* the server: control listener, s.clients, Serve and Close
  told,       \* history: rules reported as failed since the client connected
  raced       \* history: rules changed since then with a frame still unsent

client == <<rules, enc, run, backoff, cancelled, frame, calls, told, raced>>
server == <<sess, lsn, srv>>
vars == <<client, link, server>>

NoRules == [i \in IDs |-> Nil]

Register(id, a) == [type |-> "register", id |-> id, listen |-> a]
Unregister(id) == [type |-> "unregister", id |-> id, listen |-> Nil]
Error(id) == [type |-> "error", id |-> id, listen |-> Nil]

Frame == [type: {"register", "unregister", "error"}, id: IDs,
          listen: Addrs \cup {Nil}]

Link == [client: {"none", "open", "closed"},
         server: {"none", "backlog", "open", "closed"}, lost: BOOLEAN,
         c2s: Seq(Frame), s2c: Seq(Frame)]

SessionState ==
  [pc: {"none", "read", "handle", "publish", "unclose", "unwait", "end", "gone"},
   msg: Frame \cup {Nil}, ln: Lsns \cup {Nil}, rules: [IDs -> Lsns \cup {Nil}],
   closed: BOOLEAN]

Listener == [addr: Addrs, open: BOOLEAN, loop: {"none", "accept", "done"}]

ASSUME NilAssumption ==
  Nil \notin Callers \cup Addrs \cup Conns \cup Lsns \cup Frame \cup Listener

NoLink == [client |-> "none", server |-> "none", lost |-> FALSE,
           c2s |-> <<>>, s2c |-> <<>>]

NoSession == [pc |-> "none", msg |-> Nil, ln |-> Nil, rules |-> NoRules,
              closed |-> FALSE]

NewServer == [ctrl |-> TRUE, clients |-> {}, serve |-> "accept", conn |-> Nil,
              close |-> "idle", todo |-> {}]

Idle == [conn |-> Nil, msg |-> Nil]

(* Every variable has its type; the reconnect delay stays below twice Cap.  *)
TypeOK ==
  /\ rules \in [IDs -> Addrs \cup {Nil}]
  /\ enc \in Conns \cup {Nil}
  /\ run \in [pc: {"top", "snapshot", "send", "serve", "stopped"},
              todo: [IDs -> Addrs \cup {Nil}]]
  /\ backoff \in 1..(2 * Cap - 1)
  /\ cancelled \in BOOLEAN
  /\ frame \in [Callers -> [conn: Conns \cup {Nil}, msg: Frame \cup {Nil}]]
  /\ calls \in 0..MaxCalls
  /\ link \in [Conns -> Link]
  /\ sess \in [Conns -> SessionState]
  /\ lsn \in [Lsns -> Listener \cup {Nil}]
  /\ srv \in [ctrl: BOOLEAN, clients: SUBSET Conns,
              serve: {"accept", "insert", "returned"}, conn: Conns \cup {Nil},
              close: {"idle", "snapshot", "sessions", "done"}, todo: SUBSET Conns]
  /\ told \subseteq IDs
  /\ raced \subseteq IDs

Init ==
  /\ rules = NoRules
  /\ enc = Nil
  /\ run = [pc |-> "top", todo |-> NoRules]
  /\ backoff = 1
  /\ cancelled = FALSE
  /\ frame = [p \in Callers |-> Idle]
  /\ calls = 0
  /\ link = [k \in Conns |-> NoLink]
  /\ sess = [k \in Conns |-> NoSession]
  /\ lsn = [l \in Lsns |-> Nil]
  /\ srv = NewServer
  /\ told = {}
  /\ raced = {}

-----------------------------------------------------------------------------
(* Connections                                                              *)

(* The link after the client writes m: lost if an end is closed or the      *)
(* network is gone (Encode's error is ignored).                             *)
ClientWrites(k, m) ==
  IF link[k].client = "open" /\ link[k].server # "closed" /\ ~link[k].lost
  THEN [link EXCEPT ![k].c2s = Append(@, m)] ELSE link

ServerWrites(k, m) ==
  IF link[k].server = "open" /\ link[k].client = "open" /\ ~link[k].lost
  THEN [link EXCEPT ![k].s2c = Append(@, m)] ELSE link

(* The network drops the connection without telling anybody.                *)
Lose(k) ==
  /\ "lose" \in Ops
  /\ link[k].client = "open"
  /\ ~link[k].lost
  /\ link' = [link EXCEPT ![k].lost = TRUE, ![k].c2s = <<>>, ![k].s2c = <<>>]
  /\ UNCHANGED <<client, server>>

FreeConn(k) ==
  /\ enc # k
  /\ link[k].client # "open"
  /\ link[k].server # "backlog"
  /\ sess[k].pc \in {"none", "gone"}
  /\ srv.conn # k
  /\ \A p \in Callers : frame[p].conn # k

Listeners(k) == {sess[k].rules[i] : i \in IDs} \ {Nil}

FreeLsn(l) ==
  /\ lsn[l] # Nil => ~lsn[l].open /\ lsn[l].loop = "done"
  /\ \A k \in Conns :
       sess[k].pc # "gone" => l \notin Listeners(k) /\ sess[k].ln # l

Closed(L) ==
  [l \in Lsns |-> IF l \in L THEN [lsn[l] EXCEPT !.open = FALSE] ELSE lsn[l]]

-----------------------------------------------------------------------------
(* Client: Add and Remove                                                   *)

(* A frame for the rule is still to be written.                             *)
Sending(id) ==
  \/ run.todo[id] # Nil
  \/ \E p \in Callers : frame[p].msg # Nil /\ frame[p].msg.id = id

\* Mutant: a rule is stored only while there is no connection to send it on.
ChangeSendsOnly(p, id, a, m) ==
  /\ calls < MaxCalls
  /\ frame[p] = Idle
  /\ calls' = calls + 1
  /\ rules' = [rules EXCEPT ![id] = IF enc = Nil THEN a ELSE @]
  /\ frame' = IF enc = Nil THEN frame
              ELSE [frame EXCEPT ![p] = [conn |-> enc, msg |-> m]]
  /\ told' = told \ {id}
  /\ raced' = IF Sending(id) THEN raced \cup {id} ELSE raced
  /\ UNCHANGED <<enc, run, backoff, cancelled, link, server>>

Change(p, id, a, m) ==
  /\ calls < MaxCalls
  /\ frame[p] = Idle
  /\ calls' = calls + 1
  /\ rules' = [rules EXCEPT ![id] = a]
  /\ frame' = IF enc = Nil THEN frame
              ELSE [frame EXCEPT ![p] = [conn |-> enc, msg |-> m]]
  /\ told' = told \ {id}
  /\ raced' = IF Sending(id) THEN raced \cup {id} ELSE raced
  /\ UNCHANGED <<enc, run, backoff, cancelled, link, server>>

Add(p, id) == \E a \in Addrs : Change(p, id, a, Register(id, a))

Remove(p, id) == Change(p, id, Nil, Unregister(id))

(* enc.Encode, after c.mu was released.                                     *)
Send(p) ==
  /\ frame[p] # Idle
  /\ link' = ClientWrites(frame[p].conn, frame[p].msg)
  /\ frame' = [frame EXCEPT ![p] = Idle]
  /\ UNCHANGED <<rules, enc, run, backoff, cancelled, calls, told, raced, server>>

-----------------------------------------------------------------------------
(* Client: Run                                                              *)

Cancel ==
  /\ "cancel" \in Ops
  /\ ~cancelled
  /\ cancelled' = TRUE
  /\ UNCHANGED <<rules, enc, run, backoff, frame, calls, told, raced, link, server>>

RunStops ==
  /\ run.pc = "top"
  /\ cancelled
  /\ run' = [run EXCEPT !.pc = "stopped"]
  /\ UNCHANGED <<rules, enc, backoff, cancelled, frame, calls, told, raced,
                 link, server>>

\* Mutant: the delay is doubled for ever.
NextBackoffUncapped == 2 * backoff

NextBackoff == IF backoff < Cap THEN 2 * backoff ELSE backoff

(* The dial fails, and the delay passes.                                    *)
ConnectFails ==
  /\ run.pc = "top"
  /\ ~cancelled
  /\ backoff' = NextBackoff
  /\ UNCHANGED <<rules, enc, run, cancelled, frame, calls, told, raced,
                 link, server>>

(* The kernel of the server takes the connection before Serve accepts it.   *)
Connect ==
  /\ run.pc = "top"
  /\ ~cancelled
  /\ srv.ctrl
  /\ \E k \in Conns :
       /\ FreeConn(k)
       /\ link' = [link EXCEPT ![k] =
                     [NoLink EXCEPT !.client = "open", !.server = "backlog"]]
       /\ sess' = [sess EXCEPT ![k] = NoSession]
       /\ enc' = k
  /\ run' = [run EXCEPT !.pc = "snapshot"]
  /\ backoff' = 1
  /\ told' = {}
  /\ raced' = {}
  /\ UNCHANGED <<rules, cancelled, frame, calls, lsn, srv>>

RunSnapshot ==
  /\ run.pc = "snapshot"
  /\ run' = [pc |-> "send", todo |-> rules]
  /\ UNCHANGED <<rules, enc, backoff, cancelled, frame, calls, told, raced,
                 link, server>>

RunSend(id) ==
  /\ run.pc = "send"
  /\ run.todo[id] # Nil
  /\ link' = ClientWrites(enc, Register(id, run.todo[id]))
  /\ run' = [run EXCEPT !.todo[id] = Nil]
  /\ UNCHANGED <<rules, enc, backoff, cancelled, frame, calls, told, raced, server>>

RunServe ==
  /\ run.pc = "send"
  /\ run.todo = NoRules
  /\ run' = [run EXCEPT !.pc = "serve"]
  /\ UNCHANGED <<rules, enc, backoff, cancelled, frame, calls, told, raced,
                 link, server>>

\* Mutant: error frames are skipped like registered and pong.
RunReadSkips ==
  /\ run.pc = "serve"
  /\ link[enc].s2c # <<>>
  /\ link' = [link EXCEPT ![enc].s2c = Tail(@)]
  /\ UNCHANGED <<client, server>>

(* serve reads an error frame; reportError passes it on for a known rule.   *)
(* Registered frames are read and ignored.                                  *)
RunRead ==
  /\ run.pc = "serve"
  /\ link[enc].s2c # <<>>
  /\ LET id == Head(link[enc].s2c).id IN
     told' = IF rules[id] # Nil THEN told \cup {id} ELSE told
  /\ link' = [link EXCEPT ![enc].s2c = Tail(@)]
  /\ UNCHANGED <<rules, enc, run, backoff, cancelled, frame, calls, raced, server>>

(* Decode fails: the server closed, or the loss was noticed (keepalive).    *)
(* serve does not look at ctx.                                              *)
RunEOF ==
  /\ run.pc = "serve"
  /\ link[enc].s2c = <<>>
  /\ link[enc].server = "closed" \/ link[enc].lost
  /\ link' = [link EXCEPT ![enc].client = "closed"]
  /\ enc' = Nil
  /\ run' = [run EXCEPT !.pc = "top"]
  /\ UNCHANGED <<rules, backoff, cancelled, frame, calls, told, raced, server>>

-----------------------------------------------------------------------------
(* Server: Serve                                                            *)

Accept(k) ==
  /\ srv.serve = "accept"
  /\ srv.ctrl
  /\ link[k].server = "backlog"
  /\ link' = [link EXCEPT ![k].server = "open"]
  /\ srv' = [srv EXCEPT !.serve = "insert", !.conn = k]
  /\ UNCHANGED <<client, sess, lsn>>

AcceptInsert ==
  /\ srv.serve = "insert"
  /\ srv' = [srv EXCEPT !.serve = "accept", !.conn = Nil,
                        !.clients = @ \cup {srv.conn}]
  /\ sess' = [sess EXCEPT ![srv.conn] = [NoSession EXCEPT !.pc = "read"]]
  /\ UNCHANGED <<client, link, lsn>>

AcceptFails ==
  /\ srv.serve = "accept"
  /\ ~srv.ctrl
  /\ srv' = [srv EXCEPT !.serve = "returned"]
  /\ UNCHANGED <<client, link, sess, lsn>>

-----------------------------------------------------------------------------
(* Server: the session on connection k                                      *)

Read(k) ==
  /\ sess[k].pc = "read"
  /\ link[k].server = "open"
  /\ link[k].c2s # <<>>
  /\ sess' = [sess EXCEPT ![k].pc = "handle", ![k].msg = Head(link[k].c2s)]
  /\ link' = [link EXCEPT ![k].c2s = Tail(@)]
  /\ UNCHANGED <<client, lsn, srv>>

(* The client closed, the loss was noticed, or close closed our end.        *)
ReadFails(k) ==
  /\ sess[k].pc = "read"
  /\ \/ link[k].server = "closed"
     \/ link[k].c2s = <<>> /\ (link[k].client = "closed" \/ link[k].lost)
  /\ sess' = [sess EXCEPT ![k].pc = "end"]
  /\ UNCHANGED <<client, link, lsn, srv>>

\* Mutant: no read deadline is set.
DeadlineMissing(k) == FALSE /\ UNCHANGED vars

(* No frame came for 120 s.  The client sends none unless its rules change. *)
Deadline(k) ==
  /\ sess[k].pc = "read"
  /\ link[k].server = "open"
  /\ link[k].c2s = <<>>
  /\ sess' = [sess EXCEPT ![k].pc = "end"]
  /\ UNCHANGED <<client, link, lsn, srv>>

(* register: net.Listen, then publish, answer and spawn the accept loop.    *)
RegisterListen(k) ==
  /\ sess[k].pc = "handle"
  /\ sess[k].msg.type = "register"
  /\ \A l \in Lsns :
       lsn[l] # Nil => ~(lsn[l].open /\ lsn[l].addr = sess[k].msg.listen)
  /\ \E l \in Lsns :
       /\ FreeLsn(l)
       /\ lsn' = [lsn EXCEPT ![l] = [addr |-> sess[k].msg.listen, open |-> TRUE,
                                     loop |-> "none"]]
       /\ sess' = [sess EXCEPT ![k].pc = "publish", ![k].ln = l]
  /\ UNCHANGED <<client, link, srv>>

RegisterFails(k) ==
  /\ sess[k].pc = "handle"
  /\ sess[k].msg.type = "register"
  /\ link' = ServerWrites(k, Error(sess[k].msg.id))
  /\ sess' = [sess EXCEPT ![k].pc = "read", ![k].msg = Nil]
  /\ UNCHANGED <<client, lsn, srv>>

\* Mutant: the listener the rule had before is not closed.
RegisterPublishKeepsOld(k) ==
  /\ sess[k].pc = "publish"
  /\ lsn' = [lsn EXCEPT ![sess[k].ln].loop = "accept"]
  /\ sess' = [sess EXCEPT ![k].rules[sess[k].msg.id] = sess[k].ln,
                          ![k].pc = "read", ![k].msg = Nil, ![k].ln = Nil]
  /\ UNCHANGED <<client, link, srv>>

RegisterPublish(k) ==
  /\ sess[k].pc = "publish"
  /\ LET id == sess[k].msg.id  l == sess[k].ln IN
     /\ lsn' = [Closed({sess[k].rules[id]}) EXCEPT ![l].loop = "accept"]
     /\ sess' = [sess EXCEPT ![k].rules[id] = l, ![k].pc = "read",
                             ![k].msg = Nil, ![k].ln = Nil]
  /\ UNCHANGED <<client, link, srv>>

UnregisterDelete(k) ==
  /\ sess[k].pc = "handle"
  /\ sess[k].msg.type = "unregister"
  /\ LET l == sess[k].rules[sess[k].msg.id] IN
     sess' = [sess EXCEPT ![k].rules[sess[k].msg.id] = Nil,
                          ![k].pc = IF l = Nil THEN "read" ELSE "unclose",
                          ![k].ln = l, ![k].msg = Nil]
  /\ UNCHANGED <<client, link, lsn, srv>>

\* Mutant: the listener is not closed before wg.Wait.
UnregisterCloseForgotten(k) ==
  /\ sess[k].pc = "unclose"
  /\ sess' = [sess EXCEPT ![k].pc = "unwait"]
  /\ UNCHANGED <<client, link, lsn, srv>>

UnregisterClose(k) ==
  /\ sess[k].pc = "unclose"
  /\ lsn' = Closed({sess[k].ln})
  /\ sess' = [sess EXCEPT ![k].pc = "unwait"]
  /\ UNCHANGED <<client, link, srv>>

(* wg.Wait: the accept loop has returned.                                   *)
UnregisterWait(k) ==
  /\ sess[k].pc = "unwait"
  /\ lsn[sess[k].ln].loop = "done"
  /\ sess' = [sess EXCEPT ![k].pc = "read", ![k].ln = Nil]
  /\ UNCHANGED <<client, link, srv, lsn>>

(* acceptPublic returns when its listener is closed.                        *)
acceptPublicEnds(l) ==
  /\ lsn[l] # Nil
  /\ lsn[l].loop = "accept"
  /\ ~lsn[l].open
  /\ lsn' = [lsn EXCEPT ![l].loop = "done"]
  /\ UNCHANGED <<client, link, sess, srv>>

(* close: what it does to the listeners and to the connection, once.        *)
close(k) ==
  /\ lsn' = IF sess[k].closed THEN lsn ELSE Closed(Listeners(k))
  /\ link' = [link EXCEPT ![k].server = "closed", ![k].c2s = <<>>]

SessionEnd(k) ==
  /\ sess[k].pc = "end"
  /\ close(k)
  /\ sess' = [sess EXCEPT ![k].closed = TRUE, ![k].pc = "gone"]
  /\ srv' = [srv EXCEPT !.clients = @ \ {k}]
  /\ UNCHANGED client

-----------------------------------------------------------------------------
(* Server: Close, and a crash of the process                                *)

(* Connections Serve has not accepted are reset.                            *)
CloseBegin ==
  /\ "close" \in Ops
  /\ srv.close = "idle"
  /\ srv' = [srv EXCEPT !.ctrl = FALSE, !.close = "snapshot"]
  /\ link' = [k \in Conns |-> IF link[k].server = "backlog"
                              THEN [link[k] EXCEPT !.server = "closed"] ELSE link[k]]
  /\ UNCHANGED <<client, sess, lsn>>

CloseSnapshot ==
  /\ srv.close = "snapshot"
  /\ srv' = [srv EXCEPT !.close = "sessions", !.todo = srv.clients]
  /\ UNCHANGED <<client, link, sess, lsn>>

CloseSession(k) ==
  /\ srv.close = "sessions"
  /\ k \in srv.todo
  /\ close(k)
  /\ sess' = [sess EXCEPT ![k].closed = TRUE]
  /\ srv' = [srv EXCEPT !.todo = @ \ {k}, !.clients = @ \ {k}]
  /\ UNCHANGED client

CloseEnd ==
  /\ srv.close = "sessions"
  /\ srv.todo = {}
  /\ srv' = [srv EXCEPT !.close = "done"]
  /\ UNCHANGED <<client, link, sess, lsn>>

(* The process dies, its ports and connections with it, and is restarted.   *)
(* A process that calls Close is about to exit; its crash is left out.      *)
Crash ==
  /\ "crash" \in Ops
  /\ srv.close = "idle"
  /\ \E k \in Conns : sess[k].pc \notin {"none", "gone"}
  /\ srv' = NewServer
  /\ sess' = [k \in Conns |-> [NoSession EXCEPT !.pc = "gone"]]
  /\ lsn' = [l \in Lsns |-> Nil]
  /\ link' = [k \in Conns |-> [link[k] EXCEPT !.server = "closed",
                                              !.c2s = <<>>, !.s2c = <<>>]]
  /\ UNCHANGED client

-----------------------------------------------------------------------------
Call(p) == \E id \in IDs : Add(p, id) \/ Remove(p, id)

Run ==
  \/ RunStops \/ ConnectFails \/ Connect \/ RunSnapshot
  \/ \E id \in IDs : RunSend(id)
  \/ RunServe \/ RunRead \/ RunEOF

Serve == (\E k \in Conns : Accept(k)) \/ AcceptInsert \/ AcceptFails

Session(k) ==
  \/ Read(k) \/ ReadFails(k) \/ Deadline(k)
  \/ RegisterListen(k) \/ RegisterFails(k) \/ RegisterPublish(k)
  \/ UnregisterDelete(k) \/ UnregisterClose(k) \/ UnregisterWait(k)
  \/ SessionEnd(k)

Close ==
  \/ CloseBegin \/ CloseSnapshot
  \/ \E k \in Conns : CloseSession(k)
  \/ CloseEnd

Next ==
  \/ \E p \in Callers : Call(p) \/ Send(p)
  \/ Run \/ Serve \/ Close \/ Cancel \/ Crash
  \/ \E k \in Conns : Session(k) \/ Lose(k)
  \/ \E l \in Lsns : acceptPublicEnds(l)

Spec == Init /\ [][Next]_vars

(* The schedulers of both processes run their goroutines, a dial ends, a    *)
(* loss is noticed by TCP keepalive, and time passes (Deadline).            *)
Fairness ==
  /\ WF_vars(Run)
  /\ WF_vars(Serve)
  /\ \A p \in Callers : WF_vars(Send(p))
  /\ \A k \in Conns : WF_vars(Session(k))
  /\ \A l \in Lsns : WF_vars(acceptPublicEnds(l))

FairSpec == Spec /\ Fairness

-----------------------------------------------------------------------------
(* Properties                                                               *)

(* The client is connected, and everything it has to say about the rule was *)
(* said, handled and answered.                                              *)
Settled(id) ==
  /\ run.pc = "serve"
  /\ link[enc].server = "open"
  /\ ~link[enc].lost
  /\ link[enc].c2s = <<>> /\ link[enc].s2c = <<>>
  /\ sess[enc].pc = "read"
  /\ ~Sending(id)
  /\ id \notin raced

(* Once settled, the server has the public port of a rule open exactly as   *)
(* the client has the rule, or the client was told that it failed; and a    *)
(* rule the client does not have is not open.  Reconnects, server restarts, *)
(* calls before, during and after connecting, ports still held by an old    *)
(* session: nothing is silently missing.                                    *)
RulesAgree ==
  \A id \in IDs :
    Settled(id) =>
      LET l == sess[enc].rules[id] IN
      IF rules[id] = Nil THEN l = Nil
      ELSE id \in told \/ (l # Nil /\ lsn[l].open /\ lsn[l].addr = rules[id])

(* Until Close is called, every public port that is open belongs to a       *)
(* session that is not over and that will close it: replacing, removing and *)
(* losing rules and connections leaks none.                                 *)
PublicOwned ==
  srv.ctrl =>
    \A l \in Lsns :
      lsn[l] # Nil /\ lsn[l].open =>
        \E k \in Conns :
          ~sess[k].closed /\ (l \in Listeners(k) \/ sess[k].ln = l)

(* Run returns after ctx is cancelled, although serve does not look at ctx: *)
(* the server's read deadline ends the session of a client gone quiet.      *)
RunReturns == cancelled ~> run.pc = "stopped"

(* Every frame is handled to the end: no session waits for ever for an      *)
(* accept loop in unregister.                                               *)
HandlersReturn ==
  \A k \in Conns :
    sess[k].pc \in {"handle", "publish", "unclose", "unwait"}
      ~> sess[k].pc \in {"read", "gone", "none"}
=============================================================================
