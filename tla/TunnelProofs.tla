---------------------------- MODULE TunnelProofs ----------------------------
(***************************************************************************)
(* Proofs about the control plane of the tunnel (Tunnel), for every number *)
(* of callers, rules, addresses, connections and listeners.  BaseInv says  *)
(* which stage a session and its listeners are in and who refers to which  *)
(* listener; TypeOK and PublicOwned rest on it.                            *)
(***************************************************************************)
EXTENDS Tunnel, TLAPS

(* What the client writes: a register frame has an address.                 *)
Request == {f \in Frame : f.type = "unregister" \/ (f.type = "register" /\ f.listen \in Addrs)}

(* The client has a connection while Run is past the dial, and its snapshot *)
(* is empty outside the loop that sends it.                                 *)
ClientOK ==
  /\ enc # Nil <=> run.pc \in {"snapshot", "send", "serve"}
  /\ enc # Nil => link[enc].client = "open"
  /\ \A i \in IDs : run.todo[i] # Nil => run.pc = "send"

(* A caller with a frame to write has the connection to write it on.        *)
FrameOK(p) == frame[p] = Idle \/ (frame[p].conn \in Conns /\ frame[p].msg \in Request)

(* The stage of a session, its frame, its listener and its connection.      *)
SessionOK(k) ==
  LET s == sess[k] IN
  /\ \A n \in DOMAIN link[k].c2s : link[k].c2s[n] \in Request
  /\ s.pc \in {"handle", "publish"} => s.msg \in Request
  /\ s.ln # Nil <=> s.pc \in {"publish", "unclose", "unwait"}
  /\ s.pc = "publish" => /\ s.msg.type = "register"
                         /\ lsn[s.ln].open /\ lsn[s.ln].addr = s.msg.listen
  /\ s.pc = "unwait" => ~lsn[s.ln].open
  /\ s.pc = "none" => s = NoSession
  /\ s.pc = "gone" => link[k].server = "closed" /\ (s.closed \/ s.rules = NoRules)
  /\ link[k].server = "backlog" => s.pc = "none"
  /\ srv.ctrl /\ s.closed => s.pc = "gone"

(* The listeners a session refers to.                                       *)
Owned(k) == (Listeners(k) \cup {sess[k].ln}) \ {Nil}

(* They exist, and each has one place in one session.                       *)
OwnersOK(k) ==
  sess[k].pc # "gone" =>
    /\ \A l \in Owned(k) : lsn[l] # Nil
    /\ \A m \in Conns \ {k} : sess[m].pc # "gone" => Owned(k) \cap Owned(m) = {}
    /\ \A i, j \in IDs : sess[k].rules[i] = sess[k].rules[j] /\ sess[k].rules[i] # Nil => i = j
    /\ sess[k].ln # Nil => sess[k].ln \notin Listeners(k)

(* Serve has accepted a connection that has no session yet; Close works on  *)
(* sessions that have begun.                                                *)
ServerOK ==
  /\ IF srv.serve = "insert"
     THEN srv.conn \in Conns /\ sess[srv.conn].pc = "none" /\ link[srv.conn].server # "backlog"
     ELSE srv.conn = Nil
  /\ srv.ctrl <=> srv.close = "idle"
  /\ srv.close = "idle" => srv.todo = {}
  /\ \A k \in srv.clients : sess[k].pc \notin {"none", "gone"}
  /\ \A k \in srv.todo : sess[k].pc # "none" /\ (sess[k].pc = "gone" => sess[k].closed)

BaseInv ==
  /\ TypeOK /\ ClientOK /\ ServerOK
  /\ \A p \in Callers : FrameOK(p)
  /\ \A k \in Conns : SessionOK(k) /\ OwnersOK(k)
-----------------------------------------------------------------------------
(* What the parts of the state are                                          *)

LEMMA Types ==
  ASSUME TypeOK
  PROVE  /\ rules \in [IDs -> Addrs \cup {Nil}] /\ enc \in Conns \cup {Nil}
         /\ run.todo \in [IDs -> Addrs \cup {Nil}]
         /\ frame \in [Callers -> [conn: Conns \cup {Nil}, msg: Frame \cup {Nil}]]
         /\ link \in [Conns -> Link] /\ sess \in [Conns -> SessionState]
         /\ lsn \in [Lsns -> Listener \cup {Nil}]
BY DEF TypeOK

LEMMA NilApart ==
  /\ Nil \notin Conns /\ Nil \notin Lsns /\ Nil \notin Addrs /\ Nil \notin Callers
  /\ Nil \notin Frame /\ Nil \notin Listener /\ Nil \notin Request
BY NilAssumption DEF Request

LEMMA Requests ==
  /\ \A i \in IDs : Unregister(i) \in Request /\ Unregister(i).id = i
  /\ \A i \in IDs, a \in Addrs : Register(i, a) \in Request /\ Register(i, a).id = i
  /\ Request \subseteq Frame
BY DEF Register, Unregister, Request, Frame

(* A step of the client that writes nothing.                                *)
LEMMA ClientStep ==
  ASSUME BaseInv, UNCHANGED <<link, server>>, TypeOK', ClientOK',
         \A p \in Callers : FrameOK(p)'
  PROVE  BaseInv'
<1>1. ServerOK'
  BY DEF BaseInv, ServerOK, server
<1>2. ASSUME NEW k \in Conns PROVE SessionOK(k)' /\ OwnersOK(k)'
  <2>1. UNCHANGED <<link, sess, lsn, srv>> /\ SessionOK(k) /\ OwnersOK(k)
    BY DEF BaseInv, server
  <2>2. \A m : Listeners(m)' = Listeners(m) /\ Owned(m)' = Owned(m)
    BY <2>1 DEF Listeners, Owned
  <2>3. SessionOK(k)'
    BY <2>1 DEF SessionOK
  <2> QED BY <2>1, <2>2, <2>3 DEF OwnersOK
<1> QED BY <1>1, <1>2 DEF BaseInv
-----------------------------------------------------------------------------
(* The client                                                               *)

LEMMA ChangeBase ==
  ASSUME BaseInv, NEW p \in Callers, NEW i \in IDs, NEW a \in Addrs \cup {Nil},
         NEW m \in Request, Change(p, i, a, m)
  PROVE  BaseInv'
<1>1. TypeOK
  BY DEF BaseInv
<1>2. frame' = IF enc = Nil THEN frame ELSE [frame EXCEPT ![p] = [conn |-> enc, msg |-> m]]
  BY DEF Change
<1>3. enc # Nil => [conn |-> enc, msg |-> m] \in [conn: Conns \cup {Nil}, msg: Frame \cup {Nil}]
  BY <1>1, Types, Requests
<1>4. frame' \in [Callers -> [conn: Conns \cup {Nil}, msg: Frame \cup {Nil}]]
  BY <1>1, <1>2, <1>3, Types
<1>5. calls' \in 0..MaxCalls
  BY <1>1, MaxCallsAssumption DEF Change, TypeOK
<1>6. rules' \in [IDs -> Addrs \cup {Nil}]
  BY <1>1 DEF Change, TypeOK
<1>7. told' \subseteq IDs /\ raced' \subseteq IDs
  BY <1>1 DEF Change, TypeOK
<1>8. UNCHANGED <<enc, run, backoff, cancelled, link, server>>
  BY DEF Change
<1>9. TypeOK'
  BY <1>1, <1>4, <1>5, <1>6, <1>7, <1>8 DEF TypeOK, server
<1>10. ClientOK'
  BY <1>8 DEF BaseInv, ClientOK
<1>11. ASSUME NEW q \in Callers PROVE FrameOK(q)'
  <2>1. frame'[q] = frame[q] \/ (enc # Nil /\ frame'[q] = [conn |-> enc, msg |-> m])
    BY <1>1, <1>2, Types
  <2>2. FrameOK(q)
    BY DEF BaseInv
  <2> QED BY <1>1, <2>1, <2>2, Types DEF FrameOK
<1> QED BY <1>8, <1>9, <1>10, <1>11, ClientStep

LEMMA CallBase ==
  ASSUME BaseInv, NEW p \in Callers, Call(p)
  PROVE  BaseInv'
<1>1. PICK i \in IDs : Add(p, i) \/ Remove(p, i)
  BY DEF Call
<1>2. CASE Add(p, i)
  BY <1>2, ChangeBase, Requests DEF Add
<1>3. CASE Remove(p, i)
  BY <1>3, ChangeBase, Requests DEF Remove
<1> QED BY <1>1, <1>2, <1>3

(* The steps of Run that write nothing, and Cancel.                         *)
LEMMA QuietClientBase ==
  ASSUME BaseInv, Cancel \/ RunStops \/ ConnectFails \/ RunSnapshot \/ RunServe
  PROVE  BaseInv'
<1> USE DEF BaseInv
<1>1. NoRules \in [IDs -> Addrs \cup {Nil}]
  BY DEF NoRules
<1>2. NextBackoff \in 1..(2 * Cap - 1)
  BY CapAssumption DEF TypeOK, NextBackoff
<1>3. UNCHANGED <<enc, frame, calls, rules, told, raced, link, server>>
  BY DEF Cancel, RunStops, ConnectFails, RunSnapshot, RunServe
<1>4. run' \in [pc: {"top", "snapshot", "send", "serve", "stopped"},
                todo: [IDs -> Addrs \cup {Nil}]]
  BY DEF TypeOK, Cancel, RunStops, ConnectFails, RunSnapshot, RunServe
<1>5. backoff' \in 1..(2 * Cap - 1) /\ cancelled' \in BOOLEAN
  BY <1>2 DEF TypeOK, Cancel, RunStops, ConnectFails, RunSnapshot, RunServe
<1>6. TypeOK'
  BY <1>3, <1>4, <1>5 DEF TypeOK, server
<1>7. ClientOK'
  <2>1. CASE UNCHANGED run
    BY <1>3, <2>1 DEF ClientOK
  <2>2. CASE RunStops
    BY <1>3, <2>2 DEF ClientOK, RunStops, TypeOK
  <2>3. CASE RunSnapshot
    BY <1>3, <2>3 DEF ClientOK, RunSnapshot, TypeOK
  <2>4. CASE RunServe
    BY <1>3, <2>4 DEF ClientOK, RunServe, TypeOK, NoRules
  <2> QED BY <2>1, <2>2, <2>3, <2>4 DEF Cancel, ConnectFails
<1>8. \A p \in Callers : FrameOK(p)'
  BY <1>3 DEF FrameOK
<1> QED BY <1>3, <1>6, <1>7, <1>8, ClientStep

(* A step that leaves the server where it is, and the network's state.      *)
LEMMA LinkStep ==
  ASSUME BaseInv, UNCHANGED server, TypeOK', ClientOK', \A p \in Callers : FrameOK(p)',
         \A k \in Conns :
           /\ link'[k].server = link[k].server
           /\ \A n \in DOMAIN link'[k].c2s : link'[k].c2s[n] \in Request
  PROVE  BaseInv'
<1>1. UNCHANGED <<sess, lsn, srv>> /\ ServerOK
  BY DEF BaseInv, server
<1>2. ServerOK'
  BY <1>1 DEF ServerOK
<1>3. ASSUME NEW k \in Conns PROVE SessionOK(k)' /\ OwnersOK(k)'
  <2>1. SessionOK(k) /\ OwnersOK(k)
    BY DEF BaseInv
  <2>2. \A m : Listeners(m)' = Listeners(m) /\ Owned(m)' = Owned(m)
    BY <1>1 DEF Listeners, Owned
  <2>3. SessionOK(k)'
    BY <1>1, <2>1 DEF SessionOK
  <2> QED BY <1>1, <2>1, <2>2, <2>3 DEF OwnersOK
<1> QED BY <1>2, <1>3 DEF BaseInv

LEMMA LinkFields ==
  ASSUME TypeOK, NEW k \in Conns
  PROVE  /\ link[k] \in Link /\ link[k].c2s \in Seq(Frame) /\ link[k].s2c \in Seq(Frame)
         /\ link[k].server \in {"none", "backlog", "open", "closed"}
BY Types DEF Link

(* The client's write appends the frame, or does nothing.                   *)
LEMMA Written ==
  ASSUME BaseInv, NEW k \in Conns, NEW m \in Request, link' = ClientWrites(k, m)
  PROVE  /\ link' \in [Conns -> Link]
         /\ \A j \in Conns :
              /\ link'[j].client = link[j].client /\ link'[j].server = link[j].server
              /\ link'[j].lost = link[j].lost /\ link'[j].s2c = link[j].s2c
              /\ \A n \in DOMAIN link'[j].c2s : link'[j].c2s[n] \in Request
         /\ \A j \in Conns \ {k} : link'[j] = link[j]
         /\ link'[k].c2s = IF link[k].client = "open" /\ link[k].server # "closed" /\ ~link[k].lost
                           THEN Append(link[k].c2s, m) ELSE link[k].c2s
<1>1. TypeOK /\ link \in [Conns -> Link] /\ link[k].c2s \in Seq(Frame) /\ m \in Frame
  BY Types, LinkFields, Requests DEF BaseInv
<1>2. \A j \in Conns : \A n \in DOMAIN link[j].c2s : link[j].c2s[n] \in Request
  BY DEF BaseInv, SessionOK
<1>3. CASE link[k].client = "open" /\ link[k].server # "closed" /\ ~link[k].lost
  <2>1. link' = [link EXCEPT ![k].c2s = Append(link[k].c2s, m)]
    BY <1>3 DEF ClientWrites
  <2>2. Append(link[k].c2s, m) \in Seq(Frame)
    BY <1>1
  <2>3. link' \in [Conns -> Link]
    BY <1>1, <2>1, <2>2 DEF Link
  <2>4. /\ \A j \in Conns \ {k} : link'[j] = link[j]
        /\ link'[k] = [link[k] EXCEPT !.c2s = Append(link[k].c2s, m)]
    BY <1>1, <2>1
  <2>5. /\ link'[k].client = link[k].client /\ link'[k].server = link[k].server
        /\ link'[k].lost = link[k].lost /\ link'[k].s2c = link[k].s2c
        /\ link'[k].c2s = Append(link[k].c2s, m)
    BY <1>1, <2>4 DEF Link
  <2>6. \A n \in DOMAIN Append(link[k].c2s, m) : Append(link[k].c2s, m)[n] \in Request
    BY <1>1, <1>2
  <2> QED BY <1>2, <1>3, <2>3, <2>4, <2>5, <2>6
<1>4. CASE ~(link[k].client = "open" /\ link[k].server # "closed" /\ ~link[k].lost)
  <2>1. link' = link
    BY <1>4 DEF ClientWrites
  <2> QED BY <1>1, <1>2, <1>4, <2>1
<1> QED BY <1>3, <1>4

LEMMA SendBase ==
  ASSUME BaseInv, NEW p \in Callers, Send(p)
  PROVE  BaseInv'
<1>1. TypeOK /\ frame[p].conn \in Conns /\ frame[p].msg \in Request
  BY DEF BaseInv, FrameOK, Send
<1>2. /\ link' = ClientWrites(frame[p].conn, frame[p].msg) /\ frame' = [frame EXCEPT ![p] = Idle]
      /\ UNCHANGED <<rules, enc, run, backoff, cancelled, calls, told, raced, server>>
  BY DEF Send
<1>3. /\ link' \in [Conns -> Link]
      /\ \A k \in Conns :
           /\ link'[k].client = link[k].client /\ link'[k].server = link[k].server
           /\ \A n \in DOMAIN link'[k].c2s : link'[k].c2s[n] \in Request
  BY <1>1, <1>2, Written
<1>4. /\ frame' \in [Callers -> [conn: Conns \cup {Nil}, msg: Frame \cup {Nil}]]
      /\ \A q \in Callers : frame'[q] = Idle \/ frame'[q] = frame[q]
  BY <1>1, <1>2, Types DEF Idle
<1>5. TypeOK'
  BY <1>1, <1>2, <1>3, <1>4 DEF TypeOK, server
<1>6. ClientOK'
  BY <1>1, <1>2, <1>3, Types DEF BaseInv, ClientOK
<1>7. \A q \in Callers : FrameOK(q)'
  BY <1>4 DEF BaseInv, FrameOK
<1> QED BY <1>2, <1>3, <1>5, <1>6, <1>7, LinkStep

LEMMA RunSendBase ==
  ASSUME BaseInv, NEW i \in IDs, RunSend(i)
  PROVE  BaseInv'
<1>1. /\ TypeOK /\ enc \in Conns /\ run.todo[i] \in Addrs /\ Register(i, run.todo[i]) \in Request
  <2>1. TypeOK /\ enc \in Conns
    BY Types DEF BaseInv, ClientOK, RunSend
  <2>2. run.todo[i] \in Addrs
    BY <2>1, Types DEF RunSend
  <2> QED BY <2>1, <2>2, Requests
<1>2. /\ link' = ClientWrites(enc, Register(i, run.todo[i])) /\ run' = [run EXCEPT !.todo[i] = Nil]
      /\ run.pc = "send"
      /\ UNCHANGED <<rules, enc, backoff, cancelled, frame, calls, told, raced, server>>
  BY DEF RunSend
<1>3. /\ link' \in [Conns -> Link]
      /\ \A k \in Conns :
           /\ link'[k].client = link[k].client /\ link'[k].server = link[k].server
           /\ \A n \in DOMAIN link'[k].c2s : link'[k].c2s[n] \in Request
  BY <1>1, <1>2, Written
<1>4. /\ run' \in [pc: {"top", "snapshot", "send", "serve", "stopped"},
                   todo: [IDs -> Addrs \cup {Nil}]]
      /\ run'.pc = run.pc
  BY <1>1, <1>2 DEF TypeOK
<1>5. TypeOK'
  BY <1>1, <1>2, <1>3, <1>4 DEF TypeOK, server
<1>6. ClientOK'
  BY <1>1, <1>2, <1>3, <1>4 DEF BaseInv, ClientOK
<1>7. \A q \in Callers : FrameOK(q)'
  BY <1>2 DEF BaseInv, FrameOK
<1> QED BY <1>2, <1>3, <1>5, <1>6, <1>7, LinkStep

LEMMA RunReadBase ==
  ASSUME BaseInv, RunRead
  PROVE  BaseInv'
<1>1. TypeOK /\ enc \in Conns /\ link \in [Conns -> Link] /\ link[enc].s2c \in Seq(Frame)
  <2>1. TypeOK /\ enc \in Conns
    BY Types DEF BaseInv, ClientOK, RunRead
  <2> QED BY <2>1, LinkFields, Types
<1>2. /\ link' = [link EXCEPT ![enc].s2c = Tail(@)] /\ link[enc].s2c # <<>>
      /\ UNCHANGED <<rules, enc, run, backoff, cancelled, frame, calls, raced, server>>
  BY DEF RunRead
<1>3. Tail(link[enc].s2c) \in Seq(Frame) /\ Head(link[enc].s2c) \in Frame
  BY <1>1, <1>2
<1>4. link' \in [Conns -> Link]
  BY <1>1, <1>2, <1>3 DEF Link
<1>5. \A k \in Conns : /\ link'[k].client = link[k].client /\ link'[k].server = link[k].server
                       /\ link'[k].c2s = link[k].c2s
  BY <1>1, <1>2 DEF Link
<1>6. told' \subseteq IDs
  BY <1>1, <1>3 DEF TypeOK, RunRead, Frame
<1>7. TypeOK'
  BY <1>1, <1>2, <1>4, <1>6 DEF TypeOK, server
<1>8. ClientOK'
  BY <1>1, <1>2, <1>5 DEF BaseInv, ClientOK
<1>9. \A q \in Callers : FrameOK(q)'
  BY <1>2 DEF BaseInv, FrameOK
<1>10. \A k \in Conns : \A n \in DOMAIN link'[k].c2s : link'[k].c2s[n] \in Request
  BY <1>5 DEF BaseInv, SessionOK
<1> QED BY <1>2, <1>5, <1>7, <1>8, <1>9, <1>10, LinkStep

LEMMA RunEOFBase ==
  ASSUME BaseInv, RunEOF
  PROVE  BaseInv'
<1>1. TypeOK /\ enc \in Conns /\ link \in [Conns -> Link]
  BY Types DEF BaseInv, ClientOK, RunEOF
<1>2. /\ link' = [link EXCEPT ![enc].client = "closed"] /\ enc' = Nil
      /\ run' = [run EXCEPT !.pc = "top"] /\ run.pc = "serve"
      /\ UNCHANGED <<rules, backoff, cancelled, frame, calls, told, raced, server>>
  BY DEF RunEOF
<1>3. link' \in [Conns -> Link]
  BY <1>1, <1>2 DEF Link
<1>4. \A k \in Conns : link'[k].server = link[k].server /\ link'[k].c2s = link[k].c2s
  BY <1>1, <1>2 DEF Link
<1>5. /\ run' \in [pc: {"top", "snapshot", "send", "serve", "stopped"},
                   todo: [IDs -> Addrs \cup {Nil}]]
      /\ run'.pc = "top" /\ run'.todo = run.todo
  BY <1>1, <1>2 DEF TypeOK
<1>6. TypeOK'
  BY <1>1, <1>2, <1>3, <1>5 DEF TypeOK, server
<1>7. ClientOK'
  BY <1>2, <1>5 DEF BaseInv, ClientOK
<1>8. \A q \in Callers : FrameOK(q)'
  BY <1>2 DEF BaseInv, FrameOK
<1>9. \A k \in Conns : \A n \in DOMAIN link'[k].c2s : link'[k].c2s[n] \in Request
  BY <1>4 DEF BaseInv, SessionOK
<1> QED BY <1>2, <1>4, <1>6, <1>7, <1>8, <1>9, LinkStep

LEMMA LoseBase ==
  ASSUME BaseInv, NEW k \in Conns, Lose(k)
  PROVE  BaseInv'
<1>1. TypeOK /\ link \in [Conns -> Link]
  BY Types DEF BaseInv
<1>2. /\ link' = [link EXCEPT ![k].lost = TRUE, ![k].c2s = <<>>, ![k].s2c = <<>>]
      /\ UNCHANGED <<client, server>>
  BY DEF Lose
<1>3. link' \in [Conns -> Link]
  <2> DEFINE r == [link[k] EXCEPT !.lost = TRUE, !.c2s = <<>>, !.s2c = <<>>]
  <2>1. r \in Link
    BY <1>1, <<>> \in Seq(Frame) DEF Link
  <2>2. link' = [link EXCEPT ![k] = r]
    BY <1>2
  <2> HIDE DEF r
  <2> QED BY <1>1, <2>1, <2>2
<1>4. \A j \in Conns : /\ link'[j].server = link[j].server /\ link'[j].client = link[j].client
                       /\ link'[j].c2s = link[j].c2s \/ link'[j].c2s = <<>>
  BY <1>1, <1>2 DEF Link
<1>5. TypeOK'
  BY <1>1, <1>2, <1>3 DEF TypeOK, server, client
<1>6. ClientOK'
  BY <1>1, <1>2, <1>4, Types DEF BaseInv, ClientOK, client
<1>7. \A q \in Callers : FrameOK(q)'
  BY <1>2 DEF BaseInv, FrameOK, client
<1>8. \A j \in Conns : \A n \in DOMAIN link'[j].c2s : link'[j].c2s[n] \in Request
  BY <1>4 DEF BaseInv, SessionOK
<1> QED BY <1>2, <1>4, <1>5, <1>6, <1>7, <1>8, LinkStep
-----------------------------------------------------------------------------
(* Sessions and listeners                                                   *)

LEMMA NoSessionFields ==
  /\ NoSession \in SessionState /\ NoSession.pc = "none" /\ NoSession.ln = Nil
  /\ NoSession.rules = NoRules /\ NoSession.closed = FALSE
  /\ \A i \in IDs : NoRules[i] = Nil
BY DEF NoSession, SessionState, NoRules

LEMMA OwnedIn ==
  ASSUME TypeOK, NEW k \in Conns
  PROVE  /\ sess[k] \in SessionState /\ Owned(k) \subseteq Lsns
         /\ \A i \in IDs : sess[k].rules[i] # Nil => sess[k].rules[i] \in Owned(k)
         /\ sess[k].ln # Nil => sess[k].ln \in Owned(k)
<1>1. sess[k] \in SessionState
  BY Types
<1>2. sess[k].rules \in [IDs -> Lsns \cup {Nil}] /\ sess[k].ln \in Lsns \cup {Nil}
  BY <1>1 DEF SessionState
<1> QED BY <1>1, <1>2 DEF Owned, Listeners

(* Closing some listeners.                                                  *)
LEMMA ClosedListeners ==
  ASSUME TypeOK, NEW L, \A l \in L \cap Lsns : lsn[l] # Nil
  PROVE  /\ Closed(L) \in [Lsns -> Listener \cup {Nil}]
         /\ \A l \in Lsns \ L : Closed(L)[l] = lsn[l]
         /\ \A l \in Lsns : lsn[l] # Nil =>
              /\ Closed(L)[l] # Nil /\ Closed(L)[l].addr = lsn[l].addr
              /\ Closed(L)[l].loop = lsn[l].loop
              /\ Closed(L)[l].open = (lsn[l].open /\ l \notin L)
<1>1. lsn \in [Lsns -> Listener \cup {Nil}]
  BY Types
<1>2. ASSUME NEW l \in Lsns, l \notin L PROVE Closed(L)[l] = lsn[l]
  BY <1>2 DEF Closed
<1>3. ASSUME NEW l \in Lsns, lsn[l] # Nil
      PROVE  /\ Closed(L)[l] \in Listener /\ Closed(L)[l].addr = lsn[l].addr
             /\ Closed(L)[l].loop = lsn[l].loop
             /\ Closed(L)[l].open = (lsn[l].open /\ l \notin L)
  <2>1. lsn[l] \in Listener
    BY <1>1, <1>3
  <2>2. CASE l \in L
    <3>1. Closed(L)[l] = [lsn[l] EXCEPT !.open = FALSE]
      BY <2>2 DEF Closed
    <3>2. lsn[l].open \in BOOLEAN
      BY <2>1 DEF Listener
    <3> QED BY <2>1, <2>2, <3>1, <3>2 DEF Listener
  <2>3. CASE l \notin L
    <3>1. lsn[l].open \in BOOLEAN
      BY <2>1 DEF Listener
    <3> QED BY <1>2, <2>1, <2>3, <3>1
  <2> QED BY <2>2, <2>3
<1>4. \A l \in Lsns : Closed(L)[l] \in Listener \cup {Nil}
  BY <1>1, <1>2, <1>3
<1> QED BY <1>2, <1>3, <1>4, NilApart DEF Closed

(* What belongs to a session is out of the reach of the others.             *)
LEMMA Apart ==
  ASSUME BaseInv, NEW k \in Conns, sess[k].pc # "gone",
         \A l \in Lsns \ Owned(k) : lsn'[l] = lsn[l]
  PROVE  \A m \in Conns \ {k} : sess[m].pc # "gone" =>
           \A l \in Owned(m) : lsn'[l] = lsn[l] /\ lsn[l] # Nil
<1> SUFFICES ASSUME NEW m \in Conns \ {k}, sess[m].pc # "gone", NEW l \in Owned(m)
             PROVE  lsn'[l] = lsn[l] /\ lsn[l] # Nil
  OBVIOUS
<1>1. OwnersOK(m) /\ OwnersOK(k) /\ TypeOK
  BY DEF BaseInv
<1>2. l \in Lsns /\ l \notin Owned(k) /\ lsn[l] # Nil
  BY <1>1, OwnedIn DEF OwnersOK
<1> QED BY <1>2

(* Sessions whose places only become free.                                  *)
LEMMA OwnersKept ==
  ASSUME BaseInv,
         \A m \in Conns : sess'[m].pc # "gone" =>
           \/ sess'[m].ln = Nil /\ \A i \in IDs : sess'[m].rules[i] = Nil
           \/ /\ sess[m].pc # "gone" /\ sess'[m].rules = sess[m].rules
              /\ sess'[m].ln \in {sess[m].ln, Nil}
              /\ \A l \in Owned(m) : lsn'[l] # Nil
  PROVE  \A m \in Conns : OwnersOK(m)'
<1>1. ASSUME NEW m \in Conns, sess'[m].pc # "gone"
      PROVE  \/ Owned(m)' = {} /\ sess'[m].ln = Nil /\ \A i \in IDs : sess'[m].rules[i] = Nil
             \/ /\ sess[m].pc # "gone" /\ Owned(m)' \subseteq Owned(m)
                /\ Listeners(m)' = Listeners(m) /\ sess'[m].rules = sess[m].rules
                /\ sess'[m].ln \in {sess[m].ln, Nil}
                /\ \A l \in Owned(m) : lsn'[l] # Nil
  BY <1>1 DEF Owned, Listeners
<1> SUFFICES ASSUME NEW m \in Conns, sess'[m].pc # "gone" PROVE OwnersOK(m)'
  BY DEF OwnersOK
<1>2. CASE Owned(m)' = {} /\ sess'[m].ln = Nil /\ \A i \in IDs : sess'[m].rules[i] = Nil
  BY <1>2 DEF OwnersOK
<1>3. CASE /\ sess[m].pc # "gone" /\ Owned(m)' \subseteq Owned(m)
           /\ Listeners(m)' = Listeners(m) /\ sess'[m].rules = sess[m].rules
           /\ sess'[m].ln \in {sess[m].ln, Nil}
           /\ \A l \in Owned(m) : lsn'[l] # Nil
  <2>1. OwnersOK(m)
    BY DEF BaseInv
  <2>2. ASSUME NEW j \in Conns \ {m}, sess'[j].pc # "gone"
        PROVE  Owned(m)' \cap Owned(j)' = {}
    <3>1. \/ Owned(j)' = {}
          \/ sess[j].pc # "gone" /\ Owned(j)' \subseteq Owned(j)
      BY <1>1, <2>2
    <3> QED BY <1>3, <2>1, <3>1 DEF OwnersOK
  <2> QED BY <1>3, <2>1, <2>2 DEF OwnersOK
<1> QED BY <1>1, <1>2, <1>3

(* A session nothing happens to.                                            *)
LEMMA SessionKept ==
  ASSUME BaseInv, NEW m \in Conns, sess'[m] = sess[m], link'[m].server = link[m].server,
         \A n \in DOMAIN link'[m].c2s : link'[m].c2s[n] \in Request,
         srv'.ctrl => srv.ctrl,
         sess[m].ln # Nil => /\ lsn'[sess[m].ln].open = lsn[sess[m].ln].open
                             /\ lsn'[sess[m].ln].addr = lsn[sess[m].ln].addr
  PROVE  SessionOK(m)'
<1>1. SessionOK(m)
  BY DEF BaseInv
<1> QED BY <1>1 DEF SessionOK

(* A step of the session on connection k.                                   *)
LEMMA SessionStep ==
  ASSUME BaseInv, TypeOK', NEW k \in Conns, UNCHANGED <<client, srv>>,
         sess[k].pc \notin {"none", "gone"}, sess'[k].pc \notin {"none", "gone"},
         sess'[k].closed = sess[k].closed,
         \A m \in Conns \ {k} : sess'[m] = sess[m],
         \A l \in Lsns \ Owned(k) : lsn'[l] = lsn[l] \/ \A m \in Conns : sess[m].pc # "gone" => l \notin Owned(m),
         \A m \in Conns : /\ link'[m].client = link[m].client /\ link'[m].server = link[m].server
                          /\ \A n \in DOMAIN link'[m].c2s : link'[m].c2s[n] \in Request,
         SessionOK(k)', \A m \in Conns : OwnersOK(m)'
  PROVE  BaseInv'
<1>1. UNCHANGED <<rules, enc, run, frame, srv>> /\ TypeOK
  BY DEF client, BaseInv
<1>2. ClientOK'
  BY <1>1, Types DEF BaseInv, ClientOK
<1>3. \A p \in Callers : FrameOK(p)'
  BY <1>1 DEF BaseInv, FrameOK
<1>4. srv.clients \subseteq Conns /\ srv.todo \subseteq Conns
  BY <1>1 DEF TypeOK
<1>5. ServerOK'
  BY <1>1, <1>4 DEF BaseInv, ServerOK
<1>6. ASSUME NEW m \in Conns \ {k} PROVE SessionOK(m)'
  <2>1. ASSUME sess[m].ln # Nil PROVE lsn'[sess[m].ln] = lsn[sess[m].ln]
    <3>1. sess[m].pc # "gone" /\ sess[m].ln \in Owned(m) /\ sess[m].ln \in Lsns
      BY <1>1, <2>1, OwnedIn DEF BaseInv, SessionOK
    <3>2. sess[m].ln \notin Owned(k)
      BY <3>1 DEF BaseInv, OwnersOK
    <3> QED BY <3>1, <3>2
  <2> QED BY <1>1, <2>1, SessionKept
<1> QED BY <1>2, <1>3, <1>5, <1>6 DEF BaseInv

LEMMA ReadBase ==
  ASSUME BaseInv, NEW k \in Conns, Read(k)
  PROVE  BaseInv'
<1>1. TypeOK /\ sess[k] \in SessionState /\ link[k] \in Link /\ SessionOK(k)
  BY Types DEF BaseInv
<1>2. /\ sess[k].pc = "read" /\ link[k].c2s # <<>> /\ link[k].server = "open"
      /\ sess' = [sess EXCEPT ![k].pc = "handle", ![k].msg = Head(link[k].c2s)]
      /\ link' = [link EXCEPT ![k].c2s = Tail(@)]
      /\ UNCHANGED <<client, lsn, srv>>
  BY DEF Read
<1>3. /\ link[k].c2s \in Seq(Frame) /\ Tail(link[k].c2s) \in Seq(Frame)
      /\ Head(link[k].c2s) = link[k].c2s[1] /\ 1 \in DOMAIN link[k].c2s
      /\ \A n \in DOMAIN Tail(link[k].c2s) :
           n + 1 \in DOMAIN link[k].c2s /\ Tail(link[k].c2s)[n] = link[k].c2s[n + 1]
  BY <1>1, <1>2 DEF Link
<1>4. Head(link[k].c2s) \in Request
  BY <1>1, <1>3 DEF SessionOK
<1>5. /\ sess'[k].pc = "handle" /\ sess'[k].msg \in Request /\ sess'[k].ln = sess[k].ln
      /\ sess'[k].rules = sess[k].rules /\ sess'[k].closed = sess[k].closed
      /\ sess'[k] \in SessionState /\ \A m \in Conns \ {k} : sess'[m] = sess[m]
  BY ZenonT(60), <1>1, <1>2, <1>4, Types, Requests DEF SessionState
<1>6. /\ link' \in [Conns -> Link] /\ \A m \in Conns \ {k} : link'[m] = link[m]
      /\ link'[k].client = link[k].client /\ link'[k].server = "open"
      /\ link'[k].c2s = Tail(link[k].c2s)
  BY <1>1, <1>2, <1>3, Types DEF Link
<1>7. ASSUME NEW m \in Conns PROVE \A n \in DOMAIN link'[m].c2s : link'[m].c2s[n] \in Request
  <2>1. CASE m = k
    <3>1. \A n \in DOMAIN link[k].c2s : link[k].c2s[n] \in Request
      BY <1>1 DEF SessionOK
    <3>2. \A n \in DOMAIN Tail(link[k].c2s) : Tail(link[k].c2s)[n] \in Request
      BY <1>3, <3>1
    <3> QED BY <1>6, <2>1, <3>2
  <2>2. CASE m # k
    <3>1. SessionOK(m) /\ link'[m] = link[m]
      BY <1>6, <2>2 DEF BaseInv
    <3> QED BY <3>1 DEF SessionOK
  <2> QED BY <2>1, <2>2
<1>8. sess' \in [Conns -> SessionState]
  BY <1>1, <1>2, <1>5, Types
<1>9. TypeOK'
  BY <1>1, <1>2, <1>6, <1>8 DEF TypeOK, client
<1>10. SessionOK(k)'
  BY <1>1, <1>2, <1>5, <1>6, <1>7 DEF SessionOK
<1>11. \A m \in Conns : OwnersOK(m)'
  <2>1. \A m \in Conns : sess'[m].pc # "gone" =>
          /\ sess[m].pc # "gone" /\ sess'[m].rules = sess[m].rules
          /\ sess'[m].ln = sess[m].ln
    BY <1>2, <1>5
  <2>2. \A m \in Conns : sess[m].pc # "gone" => \A l \in Owned(m) : lsn'[l] # Nil
    BY <1>2 DEF BaseInv, OwnersOK
  <2> QED BY <2>1, <2>2, OwnersKept
<1> QED BY <1>2, <1>5, <1>6, <1>7, <1>9, <1>10, <1>11, SessionStep

(* The read ends: the client is gone, the connection lost, the time over.   *)
LEMMA ReadEndsBase ==
  ASSUME BaseInv, NEW k \in Conns, ReadFails(k) \/ Deadline(k)
  PROVE  BaseInv'
<1>1. TypeOK /\ sess[k] \in SessionState /\ SessionOK(k)
  BY Types DEF BaseInv
<1>2. /\ sess[k].pc = "read" /\ sess' = [sess EXCEPT ![k].pc = "end"]
      /\ UNCHANGED <<client, link, lsn, srv>>
  BY DEF ReadFails, Deadline
<1>3. /\ sess'[k].pc = "end" /\ sess'[k].msg = sess[k].msg /\ sess'[k].ln = sess[k].ln
      /\ sess'[k].rules = sess[k].rules /\ sess'[k].closed = sess[k].closed
      /\ sess'[k] \in SessionState /\ \A m \in Conns \ {k} : sess'[m] = sess[m]
      /\ sess' \in [Conns -> SessionState]
  BY <1>1, <1>2, Types DEF SessionState
<1>4. TypeOK'
  BY <1>1, <1>2, <1>3 DEF TypeOK, client
<1>5. SessionOK(k)'
  BY <1>1, <1>2, <1>3 DEF SessionOK
<1>6. \A m \in Conns : OwnersOK(m)'
  <2>1. \A m \in Conns : sess'[m].pc # "gone" =>
          /\ sess[m].pc # "gone" /\ sess'[m].rules = sess[m].rules
          /\ sess'[m].ln = sess[m].ln
    BY <1>2, <1>3
  <2>2. \A m \in Conns : sess[m].pc # "gone" => \A l \in Owned(m) : lsn'[l] # Nil
    BY <1>2 DEF BaseInv, OwnersOK
  <2> QED BY <2>1, <2>2, OwnersKept
<1>7. \A m \in Conns : \A n \in DOMAIN link'[m].c2s : link'[m].c2s[n] \in Request
  BY <1>2 DEF BaseInv, SessionOK
<1> QED BY <1>2, <1>3, <1>4, <1>5, <1>6, <1>7, SessionStep

(* The server's write appends the answer, or does nothing.                  *)
LEMMA Answered ==
  ASSUME BaseInv, NEW k \in Conns, NEW m \in Frame, link' = ServerWrites(k, m)
  PROVE  /\ link' \in [Conns -> Link]
         /\ \A j \in Conns :
              /\ link'[j].client = link[j].client /\ link'[j].server = link[j].server
              /\ link'[j].lost = link[j].lost /\ link'[j].c2s = link[j].c2s
              /\ \A n \in DOMAIN link'[j].c2s : link'[j].c2s[n] \in Request
         /\ \A j \in Conns \ {k} : link'[j] = link[j]
         /\ link'[k].s2c = IF link[k].server = "open" /\ link[k].client = "open" /\ ~link[k].lost
                           THEN Append(link[k].s2c, m) ELSE link[k].s2c
<1>1. TypeOK /\ link \in [Conns -> Link] /\ link[k].s2c \in Seq(Frame)
  BY Types, LinkFields DEF BaseInv
<1>2. \A j \in Conns : \A n \in DOMAIN link[j].c2s : link[j].c2s[n] \in Request
  BY DEF BaseInv, SessionOK
<1>3. CASE link[k].server = "open" /\ link[k].client = "open" /\ ~link[k].lost
  <2>1. link' = [link EXCEPT ![k].s2c = Append(link[k].s2c, m)]
    BY <1>3 DEF ServerWrites
  <2>2. Append(link[k].s2c, m) \in Seq(Frame)
    BY <1>1
  <2>3. link' \in [Conns -> Link]
    BY <1>1, <2>1, <2>2 DEF Link
  <2>4. /\ \A j \in Conns \ {k} : link'[j] = link[j]
        /\ link'[k] = [link[k] EXCEPT !.s2c = Append(link[k].s2c, m)]
    BY <1>1, <2>1
  <2>5. /\ link'[k].client = link[k].client /\ link'[k].server = link[k].server
        /\ link'[k].lost = link[k].lost /\ link'[k].c2s = link[k].c2s
        /\ link'[k].s2c = Append(link[k].s2c, m)
    BY <1>1, <2>4 DEF Link
  <2> QED BY <1>2, <1>3, <2>3, <2>4, <2>5
<1>4. CASE ~(link[k].server = "open" /\ link[k].client = "open" /\ ~link[k].lost)
  <2>1. link' = link
    BY <1>4 DEF ServerWrites
  <2> QED BY <1>1, <1>2, <1>4, <2>1
<1> QED BY <1>3, <1>4

LEMMA RegisterFailsBase ==
  ASSUME BaseInv, NEW k \in Conns, RegisterFails(k)
  PROVE  BaseInv'
<1>1. TypeOK /\ sess[k] \in SessionState /\ SessionOK(k)
  BY Types DEF BaseInv
<1>2. /\ sess[k].pc = "handle" /\ link' = ServerWrites(k, Error(sess[k].msg.id))
      /\ sess' = [sess EXCEPT ![k].pc = "read", ![k].msg = Nil]
      /\ UNCHANGED <<client, lsn, srv>>
  BY DEF RegisterFails
<1>3. Error(sess[k].msg.id) \in Frame
  BY <1>1, <1>2 DEF SessionOK, Error, Request, Frame
<1>4. /\ sess'[k].pc = "read" /\ sess'[k].ln = sess[k].ln
      /\ sess'[k].rules = sess[k].rules /\ sess'[k].closed = sess[k].closed
      /\ sess'[k] \in SessionState /\ \A m \in Conns \ {k} : sess'[m] = sess[m]
      /\ sess' \in [Conns -> SessionState]
  BY <1>1, <1>2, Types DEF SessionState
<1>5. /\ link' \in [Conns -> Link]
      /\ \A m \in Conns :
           /\ link'[m].client = link[m].client /\ link'[m].server = link[m].server
           /\ \A n \in DOMAIN link'[m].c2s : link'[m].c2s[n] \in Request
  BY <1>2, <1>3, Answered
<1>6. TypeOK'
  BY <1>1, <1>2, <1>4, <1>5 DEF TypeOK, client
<1>7. SessionOK(k)'
  BY <1>1, <1>2, <1>4, <1>5 DEF SessionOK
<1>8. \A m \in Conns : OwnersOK(m)'
  <2>1. \A m \in Conns : sess'[m].pc # "gone" =>
          /\ sess[m].pc # "gone" /\ sess'[m].rules = sess[m].rules
          /\ sess'[m].ln = sess[m].ln
    BY <1>2, <1>4
  <2>2. \A m \in Conns : sess[m].pc # "gone" => \A l \in Owned(m) : lsn'[l] # Nil
    BY <1>2 DEF BaseInv, OwnersOK
  <2> QED BY <2>1, <2>2, OwnersKept
<1> QED BY <1>2, <1>4, <1>5, <1>6, <1>7, <1>8, SessionStep

LEMMA UnregisterCloseBase ==
  ASSUME BaseInv, NEW k \in Conns, UnregisterClose(k)
  PROVE  BaseInv'
<1>1. TypeOK /\ sess[k] \in SessionState /\ SessionOK(k) /\ OwnersOK(k)
  BY Types DEF BaseInv
<1>2. /\ sess[k].pc = "unclose" /\ lsn' = Closed({sess[k].ln})
      /\ sess' = [sess EXCEPT ![k].pc = "unwait"]
      /\ UNCHANGED <<client, link, srv>>
  BY DEF UnregisterClose
<1>3. /\ sess'[k].pc = "unwait" /\ sess'[k].ln = sess[k].ln /\ sess'[k].msg = sess[k].msg
      /\ sess'[k].rules = sess[k].rules /\ sess'[k].closed = sess[k].closed
      /\ \A m \in Conns \ {k} : sess'[m] = sess[m]
      /\ sess' \in [Conns -> SessionState]
  BY <1>1, <1>2, Types DEF SessionState
<1>4. sess[k].ln \in Owned(k) /\ sess[k].ln \in Lsns /\ lsn[sess[k].ln] # Nil
  BY <1>1, <1>2, OwnedIn DEF SessionOK, OwnersOK
<1>5. /\ lsn' \in [Lsns -> Listener \cup {Nil}]
      /\ \A l \in Lsns \ {sess[k].ln} : lsn'[l] = lsn[l]
      /\ \A l \in Lsns : lsn[l] # Nil => lsn'[l] # Nil
      /\ ~lsn'[sess[k].ln].open
  BY <1>1, <1>2, <1>4, ClosedListeners
<1>6. TypeOK'
  BY <1>1, <1>2, <1>3, <1>5 DEF TypeOK, client
<1>7. SessionOK(k)'
  BY <1>1, <1>2, <1>3, <1>5 DEF SessionOK
<1>8. \A m \in Conns : OwnersOK(m)'
  <2>1. \A m \in Conns : sess'[m].pc # "gone" =>
          /\ sess[m].pc # "gone" /\ sess'[m].rules = sess[m].rules
          /\ sess'[m].ln = sess[m].ln
    BY <1>2, <1>3
  <2>2. \A m \in Conns : sess[m].pc # "gone" => \A l \in Owned(m) : lsn'[l] # Nil
    BY <1>1, <1>5, OwnedIn DEF BaseInv, OwnersOK
  <2> QED BY <2>1, <2>2, OwnersKept
<1>9. \A m \in Conns : \A n \in DOMAIN link'[m].c2s : link'[m].c2s[n] \in Request
  BY <1>2 DEF BaseInv, SessionOK
<1> QED BY <1>2, <1>3, <1>4, <1>5, <1>6, <1>7, <1>8, <1>9, SessionStep

LEMMA UnregisterWaitBase ==
  ASSUME BaseInv, NEW k \in Conns, UnregisterWait(k)
  PROVE  BaseInv'
<1>1. TypeOK /\ sess[k] \in SessionState /\ SessionOK(k)
  BY Types DEF BaseInv
<1>2. /\ sess[k].pc = "unwait" /\ sess' = [sess EXCEPT ![k].pc = "read", ![k].ln = Nil]
      /\ UNCHANGED <<client, link, srv, lsn>>
  BY DEF UnregisterWait
<1>3. /\ sess'[k].pc = "read" /\ sess'[k].msg = sess[k].msg /\ sess'[k].ln = Nil
      /\ sess'[k].rules = sess[k].rules /\ sess'[k].closed = sess[k].closed
      /\ \A m \in Conns \ {k} : sess'[m] = sess[m]
      /\ sess' \in [Conns -> SessionState]
  BY <1>1, <1>2, Types DEF SessionState
<1>4. TypeOK'
  BY <1>1, <1>2, <1>3 DEF TypeOK, client
<1>5. SessionOK(k)'
  BY <1>1, <1>2, <1>3 DEF SessionOK
<1>6. \A m \in Conns : OwnersOK(m)'
  <2>1. \A m \in Conns : sess'[m].pc # "gone" =>
          /\ sess[m].pc # "gone" /\ sess'[m].rules = sess[m].rules
          /\ sess'[m].ln \in {sess[m].ln, Nil}
    BY <1>2, <1>3
  <2>2. \A m \in Conns : sess[m].pc # "gone" => \A l \in Owned(m) : lsn'[l] # Nil
    BY <1>2 DEF BaseInv, OwnersOK
  <2> QED BY <2>1, <2>2, OwnersKept
<1>7. \A m \in Conns : \A n \in DOMAIN link'[m].c2s : link'[m].c2s[n] \in Request
  BY <1>2 DEF BaseInv, SessionOK
<1> QED BY <1>2, <1>3, <1>4, <1>5, <1>6, <1>7, SessionStep

(* A session whose places change: what it did not have was nobody's.        *)
LEMMA OwnersMoved ==
  ASSUME BaseInv, NEW k \in Conns, sess[k].pc # "gone",
         \A m \in Conns \ {k} : sess'[m] = sess[m],
         \A l \in Lsns : lsn[l] # Nil => lsn'[l] # Nil,
         \A l \in Owned(k)' : \/ l \in Owned(k)
                              \/ lsn'[l] # Nil /\ \A m \in Conns : sess[m].pc # "gone" => l \notin Owned(m),
         \A i, j \in IDs : sess'[k].rules[i] = sess'[k].rules[j] /\ sess'[k].rules[i] # Nil => i = j,
         sess'[k].ln # Nil => sess'[k].ln \notin Listeners(k)'
  PROVE  \A m \in Conns : OwnersOK(m)'
<1>1. \A m \in Conns \ {k} : Owned(m)' = Owned(m) /\ Listeners(m)' = Listeners(m)
  BY DEF Owned, Listeners
<1>2. \A m \in Conns : OwnersOK(m) /\ Owned(m) \subseteq Lsns
  BY OwnedIn DEF BaseInv
<1>3. \A l \in Owned(k)' : lsn'[l] # Nil
  BY <1>2 DEF OwnersOK
<1>4. ASSUME NEW m \in Conns \ {k}, sess[m].pc # "gone" PROVE Owned(k)' \cap Owned(m) = {}
  BY <1>2, <1>4 DEF OwnersOK
<1>5. OwnersOK(k)'
  BY <1>1, <1>3, <1>4 DEF OwnersOK
<1>6. ASSUME NEW m \in Conns \ {k} PROVE OwnersOK(m)'
  <2> SUFFICES ASSUME sess[m].pc # "gone" PROVE OwnersOK(m)'
    BY DEF OwnersOK
  <2>1. \A l \in Owned(m)' : lsn'[l] # Nil
    BY <1>1, <1>2 DEF OwnersOK
  <2>2. ASSUME NEW j \in Conns \ {m}, sess'[j].pc # "gone" PROVE Owned(m)' \cap Owned(j)' = {}
    <3>1. CASE j = k
      BY <1>1, <1>4, <3>1
    <3>2. CASE j # k
      BY <1>1, <1>2, <2>2, <3>2 DEF OwnersOK
    <3> QED BY <3>1, <3>2
  <2>3. /\ \A i, j \in IDs : sess'[m].rules[i] = sess'[m].rules[j] /\ sess'[m].rules[i] # Nil => i = j
        /\ sess'[m].ln # Nil => sess'[m].ln \notin Listeners(m)'
    BY <1>1, <1>2 DEF OwnersOK
  <2> QED BY <2>1, <2>2, <2>3 DEF OwnersOK
<1> QED BY <1>5, <1>6

LEMMA RegisterListenBase ==
  ASSUME BaseInv, NEW k \in Conns, RegisterListen(k)
  PROVE  BaseInv'
<1>1. TypeOK /\ sess[k] \in SessionState /\ SessionOK(k) /\ OwnersOK(k) /\ lsn \in [Lsns -> Listener \cup {Nil}]
  BY Types DEF BaseInv
<1>2. PICK l \in Lsns :
        /\ FreeLsn(l)
        /\ lsn' = [lsn EXCEPT ![l] = [addr |-> sess[k].msg.listen, open |-> TRUE, loop |-> "none"]]
        /\ sess' = [sess EXCEPT ![k].pc = "publish", ![k].ln = l]
  BY DEF RegisterListen
<1>3. /\ sess[k].pc = "handle" /\ sess[k].msg.type = "register" /\ UNCHANGED <<client, link, srv>>
      /\ sess[k].msg \in Request /\ sess[k].ln = Nil
  BY <1>1 DEF RegisterListen, SessionOK
<1>4. /\ sess'[k].pc = "publish" /\ sess'[k].ln = l /\ sess'[k].msg = sess[k].msg
      /\ sess'[k].rules = sess[k].rules /\ sess'[k].closed = sess[k].closed
      /\ \A m \in Conns \ {k} : sess'[m] = sess[m]
      /\ sess' \in [Conns -> SessionState]
  BY <1>1, <1>2, Types DEF SessionState
<1>5. [addr |-> sess[k].msg.listen, open |-> TRUE, loop |-> "none"] \in Listener
  BY <1>3 DEF Request, Listener
<1>6. /\ lsn' \in [Lsns -> Listener \cup {Nil}] /\ \A j \in Lsns \ {l} : lsn'[j] = lsn[j]
      /\ lsn'[l] # Nil /\ lsn'[l].open /\ lsn'[l].addr = sess[k].msg.listen
  BY <1>1, <1>2, <1>5, NilApart
<1>7. TypeOK'
  BY <1>1, <1>3, <1>4, <1>6 DEF TypeOK, client
<1>8. SessionOK(k)'
  BY <1>1, <1>3, <1>4, <1>6, NilApart DEF SessionOK
<1>9. \A m \in Conns : sess[m].pc # "gone" => l \notin Owned(m)
  BY <1>2 DEF FreeLsn, Owned
<1>10. \A m \in Conns : OwnersOK(m)'
  <2>1. \A j \in Owned(k)' : j \in Owned(k) \/ j = l
    BY <1>4 DEF Owned, Listeners
  <2>2. sess'[k].ln \notin Listeners(k)'
    BY <1>3, <1>4, <1>9 DEF Owned, Listeners
  <2>3. \A i, j \in IDs : sess'[k].rules[i] = sess'[k].rules[j] /\ sess'[k].rules[i] # Nil => i = j
    BY <1>1, <1>3, <1>4 DEF OwnersOK
  <2>4. \A j \in Lsns : lsn[j] # Nil => lsn'[j] # Nil
    BY <1>6
  <2> QED BY <1>3, <1>4, <1>6, <1>9, <2>1, <2>2, <2>3, <2>4, OwnersMoved
<1>11. \A m \in Conns : \A n \in DOMAIN link'[m].c2s : link'[m].c2s[n] \in Request
  BY <1>3 DEF BaseInv, SessionOK
<1> QED BY <1>3, <1>4, <1>6, <1>7, <1>8, <1>9, <1>10, <1>11, SessionStep

(* What publishing does to the two listeners.                               *)
LEMMA Published ==
  ASSUME BaseInv, NEW k \in Conns, RegisterPublish(k)
  PROVE  /\ sess[k].ln \in Owned(k) /\ sess[k].ln \in Lsns /\ sess[k].msg.id \in IDs
         /\ sess[k].msg.type = "register" /\ sess[k].msg \in Request
         /\ sess[k].rules[sess[k].msg.id] # sess[k].ln
         /\ sess[k].rules[sess[k].msg.id] \in Owned(k) \cup {Nil}
         /\ lsn' \in [Lsns -> Listener \cup {Nil}]
         /\ \A l \in Lsns \ {sess[k].rules[sess[k].msg.id], sess[k].ln} : lsn'[l] = lsn[l]
         /\ lsn'[sess[k].ln] # Nil /\ lsn'[sess[k].ln].open
         /\ lsn'[sess[k].ln].addr = sess[k].msg.listen
         /\ \A l \in Lsns : lsn[l] # Nil => lsn'[l] # Nil
         /\ sess[k].rules[sess[k].msg.id] # Nil => ~lsn'[sess[k].rules[sess[k].msg.id]].open
<1>1. TypeOK /\ SessionOK(k) /\ OwnersOK(k) /\ sess[k].pc = "publish"
  BY DEF BaseInv, RegisterPublish
<1> DEFINE l == sess[k].ln
           i == sess[k].msg.id
           o == sess[k].rules[i]
<1>2. /\ sess[k].msg \in Request /\ l # Nil /\ sess[k].msg.type = "register"
      /\ lsn[l].open /\ lsn[l].addr = sess[k].msg.listen
  BY <1>1 DEF SessionOK
<1>3. i \in IDs /\ l \in Owned(k) /\ l \in Lsns /\ lsn[l] # Nil
  BY <1>1, <1>2, OwnedIn DEF Request, Frame, OwnersOK
<1>4. o \in Owned(k) \cup {Nil} /\ o # l /\ (o # Nil => o \in Lsns /\ lsn[o] # Nil)
  BY <1>1, <1>2, <1>3, OwnedIn DEF OwnersOK, Owned, Listeners
<1>5. lsn' = [Closed({o}) EXCEPT ![l].loop = "accept"]
  BY DEF RegisterPublish
<1> HIDE DEF l, i, o
<1>6. /\ Closed({o}) \in [Lsns -> Listener \cup {Nil}]
      /\ \A j \in Lsns \ {o} : Closed({o})[j] = lsn[j]
      /\ \A j \in Lsns : lsn[j] # Nil => Closed({o})[j] # Nil
      /\ o # Nil => ~Closed({o})[o].open
  <2>1. \A j \in {o} \cap Lsns : lsn[j] # Nil
    BY <1>4, NilApart
  <2> QED BY <1>1, <1>4, <2>1, ClosedListeners
<1>7. Closed({o})[l] = lsn[l] /\ lsn[l] \in Listener
  BY <1>1, <1>3, <1>4, <1>6, Types
<1> DEFINE r == [lsn[l] EXCEPT !.loop = "accept"]
<1>8. r \in Listener /\ r.open = lsn[l].open /\ r.addr = lsn[l].addr
  BY <1>7 DEF Listener
<1>9. lsn' = [Closed({o}) EXCEPT ![l] = r]
  BY <1>5, <1>6, <1>7
<1> HIDE DEF r
<1>10. /\ lsn' \in [Lsns -> Listener \cup {Nil}] /\ lsn'[l] = r
       /\ \A j \in Lsns \ {l} : lsn'[j] = Closed({o})[j]
  BY <1>3, <1>6, <1>8, <1>9
<1>11. lsn'[l] # Nil /\ lsn'[l].open /\ lsn'[l].addr = sess[k].msg.listen
  BY <1>2, <1>8, <1>10, NilApart DEF l
<1>12. /\ \A j \in Lsns \ {o, l} : lsn'[j] = lsn[j]
       /\ \A j \in Lsns : lsn[j] # Nil => lsn'[j] # Nil
       /\ o # Nil => ~lsn'[o].open
  BY <1>4, <1>6, <1>10, <1>11
<1> QED BY <1>2, <1>3, <1>4, <1>10, <1>11, <1>12 DEF l, i, o

LEMMA RegisterPublishBase ==
  ASSUME BaseInv, NEW k \in Conns, RegisterPublish(k)
  PROVE  BaseInv'
<1>1. TypeOK /\ sess[k] \in SessionState /\ SessionOK(k) /\ OwnersOK(k)
  BY Types DEF BaseInv
<1>2. /\ sess[k].pc = "publish" /\ UNCHANGED <<client, link, srv>>
      /\ sess' = [sess EXCEPT ![k].rules[sess[k].msg.id] = sess[k].ln, ![k].pc = "read",
                              ![k].msg = Nil, ![k].ln = Nil]
  BY DEF RegisterPublish
<1>3. /\ sess[k].ln \in Owned(k) /\ sess[k].ln \in Lsns /\ sess[k].msg.id \in IDs
      /\ sess[k].rules[sess[k].msg.id] \in Owned(k) \cup {Nil}
      /\ lsn' \in [Lsns -> Listener \cup {Nil}]
      /\ \A l \in Lsns \ {sess[k].rules[sess[k].msg.id], sess[k].ln} : lsn'[l] = lsn[l]
      /\ \A l \in Lsns : lsn[l] # Nil => lsn'[l] # Nil
  BY Published
<1>4. /\ sess'[k].pc = "read" /\ sess'[k].ln = Nil /\ sess'[k].closed = sess[k].closed
      /\ \A j \in IDs : sess'[k].rules[j] = IF j = sess[k].msg.id THEN sess[k].ln ELSE sess[k].rules[j]
      /\ \A m \in Conns \ {k} : sess'[m] = sess[m]
      /\ sess' \in [Conns -> SessionState]
  BY <1>1, <1>2, <1>3, Types DEF SessionState
<1>5. TypeOK'
  BY <1>1, <1>2, <1>3, <1>4 DEF TypeOK, client
<1>6. SessionOK(k)'
  BY <1>1, <1>2, <1>4 DEF SessionOK
<1>7. \A m \in Conns : OwnersOK(m)'
  <2>1. \A l \in Owned(k)' : l \in Owned(k)
    BY <1>3, <1>4 DEF Owned, Listeners
  <2>2. \A i, j \in IDs : sess'[k].rules[i] = sess'[k].rules[j] /\ sess'[k].rules[i] # Nil => i = j
    <3>1. /\ \A i, j \in IDs : sess[k].rules[i] = sess[k].rules[j] /\ sess[k].rules[i] # Nil => i = j
          /\ \A i \in IDs : sess[k].rules[i] # sess[k].ln
      BY <1>1, <1>2, <1>3 DEF OwnersOK, Owned, Listeners
    <3> QED BY <1>4, <3>1
  <2> QED BY <1>2, <1>3, <1>4, <2>1, <2>2, OwnersMoved
<1>8. \A m \in Conns : \A n \in DOMAIN link'[m].c2s : link'[m].c2s[n] \in Request
  BY <1>2 DEF BaseInv, SessionOK
<1>9. \A l \in Lsns \ Owned(k) : lsn'[l] = lsn[l]
  BY <1>3, NilApart
<1> QED BY <1>2, <1>4, <1>5, <1>6, <1>7, <1>8, <1>9, SessionStep

LEMMA UnregisterDeleteBase ==
  ASSUME BaseInv, NEW k \in Conns, UnregisterDelete(k)
  PROVE  BaseInv'
<1>1. TypeOK /\ sess[k] \in SessionState /\ SessionOK(k) /\ OwnersOK(k)
  BY Types DEF BaseInv
<1> DEFINE i == sess[k].msg.id
           l == sess[k].rules[i]
<1>2. /\ sess[k].pc = "handle" /\ UNCHANGED <<client, link, lsn, srv>>
      /\ sess' = [sess EXCEPT ![k].rules[i] = Nil, ![k].pc = IF l = Nil THEN "read" ELSE "unclose",
                              ![k].ln = l, ![k].msg = Nil]
  BY DEF UnregisterDelete
<1>3. i \in IDs /\ l \in Lsns \cup {Nil}
  BY <1>1, <1>2 DEF SessionOK, Request, Frame, SessionState
<1>4. /\ sess'[k].pc \in {"read", "unclose"} /\ (l # Nil <=> sess'[k].pc = "unclose")
      /\ sess'[k].ln = l /\ sess'[k].closed = sess[k].closed
      /\ \A j \in IDs : sess'[k].rules[j] = IF j = i THEN Nil ELSE sess[k].rules[j]
      /\ \A m \in Conns \ {k} : sess'[m] = sess[m]
      /\ sess' \in [Conns -> SessionState]
  <2> HIDE DEF i, l
  <2> QED BY <1>1, <1>2, <1>3, Types DEF SessionState
<1>5. TypeOK'
  BY <1>1, <1>2, <1>4 DEF TypeOK, client
<1>6. SessionOK(k)'
  <2>1. link'[k] = link[k] /\ srv' = srv
    BY <1>2
  <2>2. /\ \A n \in DOMAIN link[k].c2s : link[k].c2s[n] \in Request
        /\ link[k].server # "backlog" /\ (srv.ctrl => ~sess[k].closed)
    BY <1>1, <1>2 DEF SessionOK
  <2> HIDE DEF i, l
  <2> QED BY <1>4, <2>1, <2>2 DEF SessionOK
<1>7. \A m \in Conns : OwnersOK(m)'
  <2>1. \A j \in Owned(k)' : j \in Owned(k)
    BY <1>3, <1>4 DEF Owned, Listeners
  <2>2. \A j, n \in IDs : sess[k].rules[j] = sess[k].rules[n] /\ sess[k].rules[j] # Nil => j = n
    BY <1>1, <1>2 DEF OwnersOK
  <2>3. \A j, n \in IDs : sess'[k].rules[j] = sess'[k].rules[n] /\ sess'[k].rules[j] # Nil => j = n
    BY <1>4, <2>2
  <2>4. sess'[k].ln # Nil => sess'[k].ln \notin Listeners(k)'
    BY <1>3, <1>4, <2>2 DEF Listeners
  <2>5. /\ sess[k].pc # "gone" /\ \A m \in Conns \ {k} : sess'[m] = sess[m]
        /\ \A j \in Lsns : lsn[j] # Nil => lsn'[j] # Nil
    BY <1>2, <1>4
  <2> HIDE DEF i, l
  <2> QED BY <2>1, <2>3, <2>4, <2>5, OwnersMoved
<1>8. \A m \in Conns : \A n \in DOMAIN link'[m].c2s : link'[m].c2s[n] \in Request
  BY <1>2 DEF BaseInv, SessionOK
<1>9. lsn' = lsn /\ link' = link /\ UNCHANGED <<client, srv>>
  BY <1>2
<1> HIDE DEF i, l
<1>10. sess[k].pc \notin {"none", "gone"} /\ sess'[k].pc \notin {"none", "gone"}
  BY <1>2, <1>4
<1> QED BY <1>4, <1>5, <1>6, <1>7, <1>8, <1>9, <1>10, SessionStep

(* A step that leaves the client alone.                                     *)
LEMMA ServerStep ==
  ASSUME BaseInv, TypeOK', ServerOK', UNCHANGED client,
         \A m \in Conns : link'[m].client = link[m].client,
         \A m \in Conns : SessionOK(m)' /\ OwnersOK(m)'
  PROVE  BaseInv'
<1>1. TypeOK /\ UNCHANGED <<enc, run, frame>>
  BY DEF client, BaseInv
<1>2. ClientOK'
  BY <1>1, Types DEF BaseInv, ClientOK
<1>3. \A p \in Callers : FrameOK(p)'
  BY <1>1 DEF BaseInv, FrameOK
<1> QED BY <1>2, <1>3 DEF BaseInv

LEMMA AcceptPublicEndsBase ==
  ASSUME BaseInv, NEW l \in Lsns, acceptPublicEnds(l)
  PROVE  BaseInv'
<1>1. TypeOK /\ lsn \in [Lsns -> Listener \cup {Nil}]
  BY Types DEF BaseInv
<1>2. /\ lsn[l] # Nil /\ lsn' = [lsn EXCEPT ![l].loop = "done"]
      /\ UNCHANGED <<client, link, sess, srv>>
  BY DEF acceptPublicEnds
<1> DEFINE r == [lsn[l] EXCEPT !.loop = "done"]
<1>3. r \in Listener /\ r.open = lsn[l].open /\ r.addr = lsn[l].addr /\ lsn' = [lsn EXCEPT ![l] = r]
  BY <1>1, <1>2 DEF Listener
<1> HIDE DEF r
<1>4. /\ lsn' \in [Lsns -> Listener \cup {Nil}]
      /\ \A j \in Lsns : lsn[j] # Nil => /\ lsn'[j] # Nil /\ lsn'[j].open = lsn[j].open
                                         /\ lsn'[j].addr = lsn[j].addr
  BY <1>1, <1>3, NilApart
<1>5. TypeOK'
  BY <1>1, <1>2, <1>4 DEF TypeOK, client
<1>6. ServerOK'
  BY <1>2 DEF BaseInv, ServerOK
<1>7. \A m \in Conns : OwnersOK(m)'
  <2>1. \A m \in Conns : sess[m].pc # "gone" => \A j \in Owned(m) : lsn'[j] # Nil
    BY <1>1, <1>4, OwnedIn DEF BaseInv, OwnersOK
  <2> QED BY <1>2, <2>1, OwnersKept
<1>8. ASSUME NEW m \in Conns PROVE SessionOK(m)'
  <2>1. sess[m].ln # Nil => sess[m].ln \in Lsns /\ lsn[sess[m].ln] # Nil
    BY <1>1, OwnedIn DEF BaseInv, SessionOK, OwnersOK
  <2>2. \A n \in DOMAIN link'[m].c2s : link'[m].c2s[n] \in Request
    BY <1>2 DEF BaseInv, SessionOK
  <2> QED BY <1>2, <1>4, <2>1, <2>2, SessionKept
<1> QED BY <1>2, <1>5, <1>6, <1>7, <1>8, ServerStep

LEMMA ConnectBase ==
  ASSUME BaseInv, Connect
  PROVE  BaseInv'
<1>1. TypeOK /\ link \in [Conns -> Link] /\ sess \in [Conns -> SessionState] /\ ServerOK
  BY Types DEF BaseInv
<1>2. PICK k \in Conns :
        /\ FreeConn(k) /\ sess' = [sess EXCEPT ![k] = NoSession] /\ enc' = k
        /\ link' = [link EXCEPT ![k] = [NoLink EXCEPT !.client = "open", !.server = "backlog"]]
  BY DEF Connect
<1>3. /\ run.pc = "top" /\ srv.ctrl /\ run' = [run EXCEPT !.pc = "snapshot"] /\ backoff' = 1
      /\ told' = {} /\ raced' = {} /\ UNCHANGED <<rules, cancelled, frame, calls, lsn, srv>>
  BY DEF Connect
<1> DEFINE r == [NoLink EXCEPT !.client = "open", !.server = "backlog"]
<1>4. r \in Link /\ r.client = "open" /\ r.server = "backlog" /\ r.c2s = <<>>
  BY <<>> \in Seq(Frame) DEF NoLink, Link
<1>5. link' = [link EXCEPT ![k] = r]
  BY <1>2
<1> HIDE DEF r
<1>6. /\ link' \in [Conns -> Link] /\ link'[k] = r /\ \A m \in Conns \ {k} : link'[m] = link[m]
  BY <1>1, <1>4, <1>5
<1>7. /\ sess' \in [Conns -> SessionState] /\ sess'[k] = NoSession
      /\ \A m \in Conns \ {k} : sess'[m] = sess[m]
  BY <1>1, <1>2, NoSessionFields
<1>8. /\ run' \in [pc: {"top", "snapshot", "send", "serve", "stopped"},
                   todo: [IDs -> Addrs \cup {Nil}]]
      /\ run'.pc = "snapshot" /\ run'.todo = run.todo
  BY <1>1, <1>3 DEF TypeOK
<1>9. TypeOK'
  BY <1>1, <1>2, <1>3, <1>6, <1>7, <1>8, CapAssumption DEF TypeOK
<1>10. ClientOK'
  BY <1>2, <1>3, <1>4, <1>6, <1>8, NilApart DEF BaseInv, ClientOK
<1>11. \A p \in Callers : FrameOK(p)'
  BY <1>3 DEF BaseInv, FrameOK
<1>12. srv.conn # k /\ sess[k].pc \in {"none", "gone"} /\ srv.clients \subseteq Conns
  BY <1>1, <1>2 DEF FreeConn, TypeOK
<1>13. ServerOK'
  BY <1>1, <1>3, <1>6, <1>7, <1>12 DEF ServerOK
<1>14. \A m \in Conns : OwnersOK(m)'
  <2>1. sess'[k].ln = Nil /\ \A i \in IDs : sess'[k].rules[i] = Nil
    BY <1>7, NoSessionFields
  <2>2. \A m \in Conns : sess[m].pc # "gone" => \A l \in Owned(m) : lsn'[l] # Nil
    BY <1>3 DEF BaseInv, OwnersOK
  <2> QED BY <1>7, <2>1, <2>2, OwnersKept
<1>15. ASSUME NEW m \in Conns PROVE SessionOK(m)'
  <2>1. CASE m = k
    BY <1>4, <1>6, <1>7, <2>1, NoSessionFields DEF SessionOK
  <2>2. CASE m # k
    <3>1. \A n \in DOMAIN link'[m].c2s : link'[m].c2s[n] \in Request
      BY <1>6, <2>2 DEF BaseInv, SessionOK
    <3> QED BY <1>3, <1>6, <1>7, <2>2, <3>1, SessionKept
  <2> QED BY <2>1, <2>2
<1> QED BY <1>9, <1>10, <1>11, <1>13, <1>14, <1>15 DEF BaseInv

LEMMA AcceptBase ==
  ASSUME BaseInv, NEW k \in Conns, Accept(k)
  PROVE  BaseInv'
<1>1. TypeOK /\ link \in [Conns -> Link] /\ ServerOK
  BY Types DEF BaseInv
<1>2. /\ srv.serve = "accept" /\ srv.ctrl /\ link[k].server = "backlog"
      /\ link' = [link EXCEPT ![k].server = "open"]
      /\ srv' = [srv EXCEPT !.serve = "insert", !.conn = k]
      /\ UNCHANGED <<client, sess, lsn>>
  BY DEF Accept
<1>3. /\ link' \in [Conns -> Link] /\ link'[k].server = "open" /\ link'[k].c2s = link[k].c2s
      /\ link'[k].client = link[k].client /\ \A m \in Conns \ {k} : link'[m] = link[m]
  BY <1>1, <1>2 DEF Link
<1>4. /\ srv'.serve = "insert" /\ srv'.conn = k /\ srv'.ctrl = srv.ctrl /\ srv'.close = srv.close
      /\ srv'.clients = srv.clients /\ srv'.todo = srv.todo
      /\ srv' \in [ctrl: BOOLEAN, clients: SUBSET Conns,
              serve: {"accept", "insert", "returned"}, conn: Conns \cup {Nil},
              close: {"idle", "snapshot", "sessions", "done"}, todo: SUBSET Conns]
  BY <1>1, <1>2 DEF TypeOK
<1>5. TypeOK'
  BY <1>1, <1>2, <1>3, <1>4 DEF TypeOK, client
<1>6. sess[k].pc = "none"
  BY <1>2 DEF BaseInv, SessionOK
<1>7. ServerOK'
  BY <1>1, <1>2, <1>3, <1>4, <1>6 DEF ServerOK
<1>8. \A m \in Conns : OwnersOK(m)'
  <2>1. \A m \in Conns : sess[m].pc # "gone" => \A l \in Owned(m) : lsn'[l] # Nil
    BY <1>2 DEF BaseInv, OwnersOK
  <2> QED BY <1>2, <2>1, OwnersKept
<1>9. ASSUME NEW m \in Conns PROVE SessionOK(m)'
  <2>1. SessionOK(m)
    BY DEF BaseInv
  <2>2. CASE m = k
    BY <1>2, <1>3, <1>4, <1>6, <2>1, <2>2 DEF SessionOK
  <2>3. CASE m # k
    BY <1>2, <1>3, <1>4, <2>1, <2>3 DEF SessionOK
  <2> QED BY <2>2, <2>3
<1> QED BY <1>2, <1>3, <1>5, <1>7, <1>8, <1>9, ServerStep

LEMMA AcceptInsertBase ==
  ASSUME BaseInv, AcceptInsert
  PROVE  BaseInv'
<1>1. TypeOK /\ sess \in [Conns -> SessionState] /\ ServerOK
  BY Types DEF BaseInv
<1>2. /\ srv.serve = "insert" /\ UNCHANGED <<client, link, lsn>>
      /\ srv' = [srv EXCEPT !.serve = "accept", !.conn = Nil, !.clients = @ \cup {srv.conn}]
      /\ sess' = [sess EXCEPT ![srv.conn] = [NoSession EXCEPT !.pc = "read"]]
  BY DEF AcceptInsert
<1>3. PICK k \in Conns : k = srv.conn /\ sess[k].pc = "none" /\ link[k].server # "backlog"
  BY <1>1, <1>2 DEF ServerOK
<1>4. /\ srv'.serve = "accept" /\ srv'.conn = Nil /\ srv'.ctrl = srv.ctrl /\ srv'.close = srv.close
      /\ srv'.clients = srv.clients \cup {k} /\ srv'.todo = srv.todo
      /\ srv' \in [ctrl: BOOLEAN, clients: SUBSET Conns,
              serve: {"accept", "insert", "returned"}, conn: Conns \cup {Nil},
              close: {"idle", "snapshot", "sessions", "done"}, todo: SUBSET Conns]
  BY <1>1, <1>2, <1>3 DEF TypeOK
<1> DEFINE r == [NoSession EXCEPT !.pc = "read"]
<1>5. r \in SessionState /\ r.pc = "read" /\ r.ln = Nil /\ r.rules = NoRules /\ ~r.closed
  BY NoSessionFields DEF SessionState
<1>6. sess' = [sess EXCEPT ![k] = r]
  BY <1>2, <1>3
<1> HIDE DEF r
<1>7. /\ sess' \in [Conns -> SessionState] /\ sess'[k] = r
      /\ \A m \in Conns \ {k} : sess'[m] = sess[m]
  BY <1>1, <1>5, <1>6
<1>8. TypeOK'
  BY <1>1, <1>2, <1>4, <1>7 DEF TypeOK, client
<1>9. ServerOK'
  <2>1. srv.clients \subseteq Conns /\ srv.todo \subseteq Conns /\ k \notin srv.todo
    BY <1>1, <1>3 DEF TypeOK, ServerOK
  <2> QED BY <1>1, <1>4, <1>5, <1>7, <2>1 DEF ServerOK
<1>10. \A m \in Conns : OwnersOK(m)'
  <2>1. sess'[k].ln = Nil /\ \A i \in IDs : sess'[k].rules[i] = Nil
    BY <1>5, <1>7, NoSessionFields
  <2>2. \A m \in Conns : sess[m].pc # "gone" => \A l \in Owned(m) : lsn'[l] # Nil
    BY <1>2 DEF BaseInv, OwnersOK
  <2> QED BY <1>7, <2>1, <2>2, OwnersKept
<1>11. ASSUME NEW m \in Conns PROVE SessionOK(m)'
  <2>1. SessionOK(m)
    BY DEF BaseInv
  <2>2. CASE m = k
    BY <1>2, <1>3, <1>4, <1>5, <1>7, <2>1, <2>2 DEF SessionOK
  <2>3. CASE m # k
    <3>1. /\ link'[m] = link[m] /\ sess'[m] = sess[m] /\ lsn' = lsn
          /\ srv'.ctrl = srv.ctrl
      BY <1>2, <1>4, <1>7, <2>3 DEF client
    <3> QED BY <2>1, <3>1 DEF SessionOK
  <2> QED BY <2>2, <2>3
<1> QED BY <1>2, <1>8, <1>9, <1>10, <1>11, ServerStep

(* Serve's return, and the steps of Close between the sessions.             *)
LEMMA QuietServerBase ==
  ASSUME BaseInv, AcceptFails \/ CloseSnapshot \/ CloseEnd
  PROVE  BaseInv'
<1>1. TypeOK /\ ServerOK
  BY DEF BaseInv
<1>2. UNCHANGED <<client, link, sess, lsn>> /\ srv'.ctrl = srv.ctrl
  BY <1>1 DEF AcceptFails, CloseSnapshot, CloseEnd, TypeOK
<1>3. srv' \in [ctrl: BOOLEAN, clients: SUBSET Conns,
              serve: {"accept", "insert", "returned"}, conn: Conns \cup {Nil},
              close: {"idle", "snapshot", "sessions", "done"}, todo: SUBSET Conns]
  BY <1>1 DEF AcceptFails, CloseSnapshot, CloseEnd, TypeOK
<1>4. TypeOK'
  BY <1>1, <1>2, <1>3 DEF TypeOK, client
<1>5. ServerOK'
  <2>1. CASE AcceptFails
    BY <1>1, <1>2, <2>1 DEF AcceptFails, ServerOK, TypeOK
  <2>2. CASE CloseSnapshot
    BY <1>1, <1>2, <2>2 DEF CloseSnapshot, ServerOK, TypeOK
  <2>3. CASE CloseEnd
    BY <1>1, <1>2, <2>3 DEF CloseEnd, ServerOK, TypeOK
  <2> QED BY <2>1, <2>2, <2>3
<1>6. \A m \in Conns : OwnersOK(m)'
  <2>1. \A m \in Conns : sess[m].pc # "gone" => \A l \in Owned(m) : lsn'[l] # Nil
    BY <1>2 DEF BaseInv, OwnersOK
  <2> QED BY <1>2, <2>1, OwnersKept
<1>7. ASSUME NEW m \in Conns PROVE SessionOK(m)'
  <2>1. SessionOK(m)
    BY DEF BaseInv
  <2> QED BY <1>2, <2>1 DEF SessionOK
<1> QED BY <1>2, <1>4, <1>5, <1>6, <1>7, ServerStep

LEMMA CloseBeginBase ==
  ASSUME BaseInv, CloseBegin
  PROVE  BaseInv'
<1>1. TypeOK /\ link \in [Conns -> Link] /\ ServerOK
  BY Types DEF BaseInv
<1>2. /\ srv.close = "idle" /\ srv' = [srv EXCEPT !.ctrl = FALSE, !.close = "snapshot"]
      /\ UNCHANGED <<client, sess, lsn>>
      /\ link' = [k \in Conns |-> IF link[k].server = "backlog"
                                  THEN [link[k] EXCEPT !.server = "closed"] ELSE link[k]]
  BY DEF CloseBegin
<1>3. ASSUME NEW k \in Conns
      PROVE  /\ link'[k] \in Link /\ link'[k].client = link[k].client
             /\ link'[k].c2s = link[k].c2s
             /\ link'[k].server = IF link[k].server = "backlog" THEN "closed" ELSE link[k].server
  <2>1. link[k] \in Link /\ link'[k] = IF link[k].server = "backlog"
                                       THEN [link[k] EXCEPT !.server = "closed"] ELSE link[k]
    BY <1>1, <1>2
  <2>2. CASE link[k].server = "backlog"
    BY <2>1, <2>2 DEF Link
  <2>3. CASE link[k].server # "backlog"
    BY <2>1, <2>3
  <2> QED BY <2>2, <2>3
<1>4. /\ srv'.serve = srv.serve /\ srv'.conn = srv.conn /\ ~srv'.ctrl /\ srv'.close = "snapshot"
      /\ srv'.clients = srv.clients /\ srv'.todo = srv.todo
      /\ srv' \in [ctrl: BOOLEAN, clients: SUBSET Conns,
              serve: {"accept", "insert", "returned"}, conn: Conns \cup {Nil},
              close: {"idle", "snapshot", "sessions", "done"}, todo: SUBSET Conns]
  BY <1>1, <1>2 DEF TypeOK
<1>5. link' \in [Conns -> Link]
  BY <1>2, <1>3
<1>6. TypeOK'
  BY <1>1, <1>2, <1>4, <1>5 DEF TypeOK, client
<1>7. ServerOK'
  BY <1>1, <1>2, <1>3, <1>4 DEF ServerOK
<1>8. \A m \in Conns : OwnersOK(m)'
  <2>1. \A m \in Conns : sess[m].pc # "gone" => \A l \in Owned(m) : lsn'[l] # Nil
    BY <1>2 DEF BaseInv, OwnersOK
  <2> QED BY <1>2, <2>1, OwnersKept
<1>9. ASSUME NEW m \in Conns PROVE SessionOK(m)'
  <2>1. SessionOK(m)
    BY DEF BaseInv
  <2> QED BY <1>2, <1>3, <1>4, <2>1 DEF SessionOK
<1> QED BY <1>2, <1>3, <1>6, <1>7, <1>8, <1>9, ServerStep

(* What close does to the connection and to the listeners.                  *)
LEMMA CloseEffect ==
  ASSUME BaseInv, NEW k \in Conns, close(k), sess[k].pc = "gone" => sess[k].closed
  PROVE  /\ link' \in [Conns -> Link] /\ link'[k].server = "closed" /\ link'[k].c2s = <<>>
         /\ link'[k].client = link[k].client /\ \A m \in Conns \ {k} : link'[m] = link[m]
         /\ lsn' \in [Lsns -> Listener \cup {Nil}]
         /\ \A l \in Lsns : lsn[l] # Nil =>
              /\ lsn'[l] # Nil /\ lsn'[l].addr = lsn[l].addr
              /\ lsn'[l].open => lsn[l].open
         /\ \A l \in Lsns \ Listeners(k) : lsn'[l] = lsn[l]
         /\ sess[k].pc = "gone" => lsn' = lsn
<1>1. TypeOK /\ link \in [Conns -> Link] /\ lsn \in [Lsns -> Listener \cup {Nil}] /\ OwnersOK(k)
  BY Types DEF BaseInv
<1>2. /\ lsn' = IF sess[k].closed THEN lsn ELSE Closed(Listeners(k))
      /\ link' = [link EXCEPT ![k].server = "closed", ![k].c2s = <<>>]
  BY DEF close
<1> DEFINE r == [link[k] EXCEPT !.server = "closed", !.c2s = <<>>]
<1>3. r \in Link /\ r.server = "closed" /\ r.c2s = <<>> /\ r.client = link[k].client
  BY <1>1, <<>> \in Seq(Frame) DEF Link
<1>4. link' = [link EXCEPT ![k] = r]
  BY <1>2
<1> HIDE DEF r
<1>5. /\ link' \in [Conns -> Link] /\ link'[k].server = "closed" /\ link'[k].c2s = <<>>
      /\ link'[k].client = link[k].client /\ \A m \in Conns \ {k} : link'[m] = link[m]
  BY <1>1, <1>3, <1>4
<1>6. CASE sess[k].closed
  BY <1>1, <1>2, <1>5, <1>6
<1>7. CASE ~sess[k].closed
  <2>1. lsn' = Closed(Listeners(k)) /\ sess[k].pc # "gone"
    BY <1>2, <1>7
  <2>2. \A l \in Listeners(k) \cap Lsns : lsn[l] # Nil
    BY <1>1, <2>1 DEF OwnersOK, Owned, Listeners
  <2>3. /\ lsn' \in [Lsns -> Listener \cup {Nil}]
        /\ \A l \in Lsns \ Listeners(k) : lsn'[l] = lsn[l]
        /\ \A l \in Lsns : lsn[l] # Nil =>
             /\ lsn'[l] # Nil /\ lsn'[l].addr = lsn[l].addr
             /\ lsn'[l].open = (lsn[l].open /\ l \notin Listeners(k))
    BY <1>1, <2>1, <2>2, ClosedListeners
  <2> QED BY <1>5, <2>1, <2>3
<1> QED BY <1>6, <1>7

(* A step that closes the session on connection k.                          *)
LEMMA CloseStep ==
  ASSUME BaseInv, NEW k \in Conns, close(k), UNCHANGED client, TypeOK',
         sess[k].pc # "none", sess[k].pc = "gone" => sess[k].closed,
         \A m \in Conns \ {k} : sess'[m] = sess[m],
         sess'[k].closed, sess'[k].msg = sess[k].msg, sess'[k].ln = sess[k].ln,
         sess'[k].rules = sess[k].rules,
         sess'[k].pc = sess[k].pc \/ (sess'[k].pc = "gone" /\ sess[k].pc = "end"),
         srv.ctrl => sess'[k].pc = "gone",
         srv'.ctrl = srv.ctrl, srv'.close = srv.close, srv'.serve = srv.serve,
         srv'.conn = srv.conn, srv'.clients = srv.clients \ {k}, srv'.todo \subseteq srv.todo
  PROVE  BaseInv'
<1>1. TypeOK /\ ServerOK
  BY DEF BaseInv
<1>2. /\ link'[k].server = "closed" /\ link'[k].c2s = <<>>
      /\ link'[k].client = link[k].client /\ \A m \in Conns \ {k} : link'[m] = link[m]
      /\ \A l \in Lsns : lsn[l] # Nil => lsn'[l] # Nil
      /\ \A l \in Lsns \ Listeners(k) : lsn'[l] = lsn[l]
      /\ sess[k].pc = "gone" => lsn' = lsn
  BY CloseEffect
<1>3. ServerOK'
  <2>1. srv.clients \subseteq Conns /\ srv.todo \subseteq Conns
    BY <1>1 DEF TypeOK
  <2>2. /\ \A m \in srv'.clients : sess'[m].pc \notin {"none", "gone"}
        /\ \A m \in srv'.todo : sess'[m].pc # "none" /\ (sess'[m].pc = "gone" => sess'[m].closed)
        /\ srv'.close = "idle" => srv'.todo = {}
    BY <1>1, <2>1 DEF ServerOK
  <2>3. IF srv'.serve = "insert"
        THEN srv'.conn \in Conns /\ sess'[srv'.conn].pc = "none" /\ link'[srv'.conn].server # "backlog"
        ELSE srv'.conn = Nil
    BY <1>1, <1>2 DEF ServerOK
  <2> QED BY <1>1, <2>2, <2>3 DEF ServerOK
<1>4. \A m \in Conns : OwnersOK(m)'
  <2>1. \A m \in Conns : sess'[m].pc # "gone" =>
          /\ sess[m].pc # "gone" /\ sess'[m].rules = sess[m].rules
          /\ sess'[m].ln = sess[m].ln
    OBVIOUS
  <2>2. \A m \in Conns : sess[m].pc # "gone" => \A l \in Owned(m) : lsn'[l] # Nil
    BY <1>1, <1>2, OwnedIn DEF BaseInv, OwnersOK
  <2> QED BY <2>1, <2>2, OwnersKept
<1>5. ASSUME NEW m \in Conns PROVE SessionOK(m)'
  <2>1. SessionOK(m) /\ OwnersOK(m)
    BY DEF BaseInv
  <2>2. CASE m = k
    <3>1. sess[k].ln # Nil => lsn'[sess[k].ln] = lsn[sess[k].ln]
      BY <1>1, <1>2, <2>1, <2>2, OwnedIn DEF OwnersOK
    <3> QED BY <1>2, <2>1, <2>2, <3>1 DEF SessionOK
  <2>3. CASE m # k
    <3>1. ASSUME sess[m].ln # Nil PROVE lsn'[sess[m].ln] = lsn[sess[m].ln]
      <4>1. sess[m].pc # "gone" /\ sess[m].ln \in Owned(m) /\ sess[m].ln \in Lsns
        BY <1>1, <2>1, <3>1, OwnedIn DEF SessionOK
      <4>2. sess[k].pc # "gone" => sess[m].ln \notin Listeners(k)
        BY <2>1, <2>3, <4>1 DEF OwnersOK, Owned
      <4> QED BY <1>2, <4>1, <4>2
    <3>2. \A n \in DOMAIN link'[m].c2s : link'[m].c2s[n] \in Request
      BY <1>2, <2>1, <2>3 DEF SessionOK
    <3> QED BY <1>2, <2>3, <3>1, <3>2, SessionKept
  <2> QED BY <2>2, <2>3
<1>6. \A m \in Conns : link'[m].client = link[m].client
  BY <1>2
<1> QED BY <1>3, <1>4, <1>5, <1>6, ServerStep

LEMMA SessionEndBase ==
  ASSUME BaseInv, NEW k \in Conns, SessionEnd(k)
  PROVE  BaseInv'
<1>1. TypeOK /\ sess \in [Conns -> SessionState]
  BY Types DEF BaseInv
<1>2. /\ sess[k].pc = "end" /\ close(k) /\ UNCHANGED client
      /\ sess' = [sess EXCEPT ![k].closed = TRUE, ![k].pc = "gone"]
      /\ srv' = [srv EXCEPT !.clients = @ \ {k}]
  BY DEF SessionEnd
<1>3. /\ sess' \in [Conns -> SessionState] /\ \A m \in Conns \ {k} : sess'[m] = sess[m]
      /\ sess'[k].closed /\ sess'[k].msg = sess[k].msg /\ sess'[k].ln = sess[k].ln
      /\ sess'[k].rules = sess[k].rules /\ sess'[k].pc = "gone"
  BY <1>1, <1>2 DEF SessionState
<1>4. /\ srv'.ctrl = srv.ctrl /\ srv'.close = srv.close /\ srv'.serve = srv.serve
      /\ srv'.conn = srv.conn /\ srv'.clients = srv.clients \ {k} /\ srv'.todo = srv.todo
      /\ srv' \in [ctrl: BOOLEAN, clients: SUBSET Conns,
              serve: {"accept", "insert", "returned"}, conn: Conns \cup {Nil},
              close: {"idle", "snapshot", "sessions", "done"}, todo: SUBSET Conns]
  BY <1>1, <1>2 DEF TypeOK
<1>5. link' \in [Conns -> Link] /\ lsn' \in [Lsns -> Listener \cup {Nil}]
  BY <1>2, CloseEffect
<1>6. TypeOK'
  BY <1>1, <1>2, <1>3, <1>4, <1>5 DEF TypeOK, client
<1> QED BY <1>2, <1>3, <1>4, <1>6, CloseStep

LEMMA CloseSessionBase ==
  ASSUME BaseInv, NEW k \in Conns, CloseSession(k)
  PROVE  BaseInv'
<1>1. TypeOK /\ sess \in [Conns -> SessionState] /\ ServerOK
  BY Types DEF BaseInv
<1>2. /\ srv.close = "sessions" /\ k \in srv.todo /\ close(k) /\ UNCHANGED client
      /\ sess' = [sess EXCEPT ![k].closed = TRUE]
      /\ srv' = [srv EXCEPT !.todo = @ \ {k}, !.clients = @ \ {k}]
  BY DEF CloseSession
<1>3. /\ sess' \in [Conns -> SessionState] /\ \A m \in Conns \ {k} : sess'[m] = sess[m]
      /\ sess'[k].closed /\ sess'[k].msg = sess[k].msg /\ sess'[k].ln = sess[k].ln
      /\ sess'[k].rules = sess[k].rules /\ sess'[k].pc = sess[k].pc
  BY <1>1, <1>2 DEF SessionState
<1>4. /\ srv'.ctrl = srv.ctrl /\ srv'.close = srv.close /\ srv'.serve = srv.serve
      /\ srv'.conn = srv.conn /\ srv'.clients = srv.clients \ {k} /\ srv'.todo = srv.todo \ {k}
      /\ srv' \in [ctrl: BOOLEAN, clients: SUBSET Conns,
              serve: {"accept", "insert", "returned"}, conn: Conns \cup {Nil},
              close: {"idle", "snapshot", "sessions", "done"}, todo: SUBSET Conns]
  BY <1>1, <1>2 DEF TypeOK
<1>5. ~srv.ctrl /\ sess[k].pc # "none" /\ (sess[k].pc = "gone" => sess[k].closed)
  BY <1>1, <1>2 DEF ServerOK
<1>6. link' \in [Conns -> Link] /\ lsn' \in [Lsns -> Listener \cup {Nil}]
  BY <1>2, <1>5, CloseEffect
<1>7. TypeOK'
  BY <1>1, <1>2, <1>3, <1>4, <1>6 DEF TypeOK, client
<1> QED BY <1>2, <1>3, <1>4, <1>5, <1>7, CloseStep

LEMMA CrashBase ==
  ASSUME BaseInv, Crash
  PROVE  BaseInv'
<1>1. TypeOK /\ link \in [Conns -> Link]
  BY Types DEF BaseInv
<1>2. /\ srv' = NewServer /\ lsn' = [l \in Lsns |-> Nil] /\ UNCHANGED client
      /\ sess' = [k \in Conns |-> [NoSession EXCEPT !.pc = "gone"]]
      /\ link' = [k \in Conns |-> [link[k] EXCEPT !.server = "closed", !.c2s = <<>>, !.s2c = <<>>]]
  BY DEF Crash
<1>3. ASSUME NEW k \in Conns
      PROVE  /\ link'[k] \in Link /\ link'[k].client = link[k].client
             /\ link'[k].c2s = <<>> /\ link'[k].server = "closed"
  <2> DEFINE r == [link[k] EXCEPT !.server = "closed", !.c2s = <<>>, !.s2c = <<>>]
  <2>1. r \in Link /\ r.client = link[k].client /\ r.c2s = <<>> /\ r.server = "closed"
    BY <1>1, <<>> \in Seq(Frame) DEF Link
  <2>2. link'[k] = r
    BY <1>2
  <2> HIDE DEF r
  <2> QED BY <2>1, <2>2
<1> DEFINE g == [NoSession EXCEPT !.pc = "gone"]
<1>4. g \in SessionState /\ g.pc = "gone" /\ g.ln = Nil /\ g.rules = NoRules
  BY NoSessionFields DEF SessionState
<1>5. \A k \in Conns : sess'[k] = g
  BY <1>2
<1> HIDE DEF g
<1>6. sess' \in [Conns -> SessionState] /\ link' \in [Conns -> Link]
  BY <1>2, <1>3, <1>4, <1>5
<1>7. /\ srv' \in [ctrl: BOOLEAN, clients: SUBSET Conns,
              serve: {"accept", "insert", "returned"}, conn: Conns \cup {Nil},
              close: {"idle", "snapshot", "sessions", "done"}, todo: SUBSET Conns]
      /\ srv'.ctrl /\ srv'.clients = {} /\ srv'.todo = {} /\ srv'.serve = "accept"
      /\ srv'.conn = Nil /\ srv'.close = "idle"
  BY <1>2 DEF NewServer
<1>8. TypeOK'
  BY <1>1, <1>2, <1>6, <1>7 DEF TypeOK, client
<1>9. ServerOK'
  BY <1>7 DEF ServerOK
<1>10. ASSUME NEW k \in Conns PROVE SessionOK(k)' /\ OwnersOK(k)'
  BY <1>3, <1>4, <1>5 DEF SessionOK, OwnersOK
<1> QED BY <1>2, <1>3, <1>8, <1>9, <1>10, ServerStep

LEMMA InitBase ==
  ASSUME Init
  PROVE  BaseInv
<1> USE DEF Init
<1>1. NoRules \in [IDs -> Addrs \cup {Nil}] /\ \A i \in IDs : NoRules[i] = Nil
  BY DEF NoRules
<1>2. NoLink \in Link /\ NoLink.c2s = <<>> /\ NoLink.server = "none"
  BY <<>> \in Seq(Frame) DEF NoLink, Link
<1>3. /\ link \in [Conns -> Link] /\ sess \in [Conns -> SessionState]
      /\ frame \in [Callers -> [conn: Conns \cup {Nil}, msg: Frame \cup {Nil}]]
  BY <1>2, NoSessionFields DEF Idle
<1>4. TypeOK
  <2>1. 1 \in 1..(2 * Cap - 1) /\ 0 \in 0..MaxCalls
    BY MaxCallsAssumption, CapAssumption
  <2>2. /\ lsn \in [Lsns -> Listener \cup {Nil}]
        /\ run \in [pc: {"top", "snapshot", "send", "serve", "stopped"},
                    todo: [IDs -> Addrs \cup {Nil}]]
    BY <1>1
  <2>3. srv \in [ctrl: BOOLEAN, clients: SUBSET Conns,
              serve: {"accept", "insert", "returned"}, conn: Conns \cup {Nil},
              close: {"idle", "snapshot", "sessions", "done"}, todo: SUBSET Conns]
    BY DEF NewServer
  <2> QED BY <1>1, <1>3, <2>1, <2>2, <2>3 DEF TypeOK
<1>5. ClientOK /\ ServerOK /\ \A p \in Callers : FrameOK(p)
  BY <1>1 DEF ClientOK, ServerOK, NewServer, FrameOK
<1>6. ASSUME NEW k \in Conns PROVE SessionOK(k) /\ OwnersOK(k)
  <2>1. sess[k] = NoSession /\ link[k] = NoLink
    OBVIOUS
  <2>2. SessionOK(k)
    BY <1>2, <2>1, NoSessionFields DEF SessionOK
  <2>3. \A m \in Conns : Owned(m) = {} /\ Listeners(m) = {}
    BY NoSessionFields DEF Owned, Listeners
  <2> QED BY <2>1, <2>2, <2>3, NoSessionFields DEF OwnersOK
<1> QED BY <1>4, <1>5, <1>6 DEF BaseInv

LEMMA NextBase ==
  ASSUME BaseInv, [Next]_vars
  PROVE  BaseInv'
<1>1. CASE \E p \in Callers : Call(p) \/ Send(p)
  BY <1>1, CallBase, SendBase
<1>2. CASE Run
  BY <1>2, QuietClientBase, ConnectBase, RunSendBase, RunReadBase, RunEOFBase DEF Run
<1>3. CASE Serve
  BY <1>3, AcceptBase, AcceptInsertBase, QuietServerBase DEF Serve
<1>4. CASE Close
  BY <1>4, CloseBeginBase, QuietServerBase, CloseSessionBase DEF Close
<1>5. CASE Cancel \/ Crash
  BY <1>5, QuietClientBase, CrashBase
<1>6. CASE \E k \in Conns : Session(k) \/ Lose(k)
  BY <1>6, ReadBase, ReadEndsBase, RegisterListenBase, RegisterFailsBase, RegisterPublishBase,
     UnregisterDeleteBase, UnregisterCloseBase, UnregisterWaitBase, SessionEndBase, LoseBase DEF Session
<1>7. CASE \E l \in Lsns : acceptPublicEnds(l)
  BY <1>7, AcceptPublicEndsBase
<1>8. CASE UNCHANGED vars
  <2>1. UNCHANGED <<client, link, server>> /\ UNCHANGED <<rules, enc, run, backoff, cancelled, frame, calls, told, raced, link, sess, lsn, srv>>
    BY <1>8 DEF vars, client, server
  <2>2. TypeOK' /\ ClientOK' /\ \A p \in Callers : FrameOK(p)'
    BY <2>1 DEF BaseInv, TypeOK, ClientOK, FrameOK
  <2> QED BY <2>1, <2>2, ClientStep
<1> QED BY <1>1, <1>2, <1>3, <1>4, <1>5, <1>6, <1>7, <1>8 DEF Next

(* The stages of the client, of the sessions and of the server, and that    *)
(* every listener has at most one place in one session, in every state.     *)
THEOREM BaseInvariant == Spec => []BaseInv
<1>1. Init => BaseInv
  BY InitBase
<1>2. BaseInv /\ [Next]_vars => BaseInv'
  BY NextBase
<1> QED BY <1>1, <1>2, PTL DEF Spec

(* Every variable has its type, and the reconnect delay stays below twice   *)
(* Cap (NextBackoff), whatever the number of failed dials.                  *)
THEOREM TypeCorrect == Spec => []TypeOK
<1>1. BaseInv => TypeOK
  BY DEF BaseInv
<1> QED BY <1>1, BaseInvariant, PTL
-----------------------------------------------------------------------------
(* Public ports                                                             *)

(* A session that is not over will close the listener.                      *)
Holds(k, l) == ~sess[k].closed /\ (l \in Listeners(k) \/ sess[k].ln = l)

(* No listener is opened, and a session lets go of closed ones only.        *)
LEMMA PublicKept ==
  ASSUME PublicOwned, srv'.ctrl => srv.ctrl,
         \A l \in Lsns : lsn'[l] # Nil /\ lsn'[l].open =>
           /\ lsn[l] # Nil /\ lsn[l].open
           /\ \A k \in Conns : Holds(k, l) => Holds(k, l)'
  PROVE  PublicOwned'
BY DEF PublicOwned, Holds

LEMMA SameHolds ==
  ASSUME NEW k \in Conns, sess'[k].rules = sess[k].rules, sess'[k].ln = sess[k].ln,
         sess'[k].closed = sess[k].closed
  PROVE  \A l : Holds(k, l)' = Holds(k, l)
BY DEF Holds, Listeners

(* The steps that change neither rules, ln nor closed of a session.         *)
LEMMA QuietPublic ==
  ASSUME BaseInv, PublicOwned,
         \/ UNCHANGED server
         \/ \E k \in Conns : Read(k) \/ ReadFails(k) \/ Deadline(k) \/ RegisterFails(k)
                             \/ UnregisterClose(k) \/ Accept(k)
         \/ \E l \in Lsns : acceptPublicEnds(l)
         \/ AcceptInsert \/ AcceptFails
  PROVE  PublicOwned'
<1>1. TypeOK /\ sess \in [Conns -> SessionState] /\ lsn \in [Lsns -> Listener \cup {Nil}] /\ ServerOK
  BY Types DEF BaseInv
<1>2. ASSUME NEW k \in Conns
      PROVE  /\ sess'[k].rules = sess[k].rules /\ sess'[k].ln = sess[k].ln
             /\ sess'[k].closed = sess[k].closed
  <2>1. sess[k] \in SessionState
    BY <1>1
  <2>2. CASE AcceptInsert
    <3>1. PICK j \in Conns : j = srv.conn /\ sess[j].pc = "none"
      BY <1>1, <2>2 DEF AcceptInsert, ServerOK
    <3>2. sess[j] = NoSession
      BY <3>1 DEF BaseInv, SessionOK
    <3>3. sess' = [sess EXCEPT ![j] = [NoSession EXCEPT !.pc = "read"]]
      BY <2>2, <3>1 DEF AcceptInsert
    <3> QED BY <1>1, <3>2, <3>3 DEF NoSession
  <2>3. CASE \E j \in Conns : Read(j) \/ ReadFails(j) \/ Deadline(j) \/ RegisterFails(j)
                              \/ UnregisterClose(j)
    <3>1. PICK j \in Conns : Read(j) \/ ReadFails(j) \/ Deadline(j) \/ RegisterFails(j)
                             \/ UnregisterClose(j)
      BY <2>3
    <3>2. CASE Read(j)
      BY <1>1, <2>1, <3>2 DEF SessionState, Read
    <3>3. CASE ReadFails(j) \/ Deadline(j)
      BY <1>1, <2>1, <3>3 DEF SessionState, ReadFails, Deadline
    <3>4. CASE RegisterFails(j) \/ UnregisterClose(j)
      BY <1>1, <2>1, <3>4 DEF SessionState, RegisterFails, UnregisterClose
    <3> QED BY <3>1, <3>2, <3>3, <3>4
  <2>4. CASE sess' = sess
    BY <2>4
  <2> QED BY <2>2, <2>3, <2>4 DEF Accept, AcceptFails, acceptPublicEnds, server
<1>3. srv'.ctrl = srv.ctrl
  BY <1>1 DEF server, Read, ReadFails, Deadline, RegisterFails, UnregisterClose, Accept,
     acceptPublicEnds, AcceptInsert, AcceptFails, TypeOK
<1>4. ASSUME NEW l \in Lsns, lsn'[l] # Nil, lsn'[l].open PROVE lsn[l] # Nil /\ lsn[l].open
  <2>1. CASE \E k \in Conns : UnregisterClose(k)
    <3>1. PICK k \in Conns : UnregisterClose(k)
      BY <2>1
    <3>2. sess[k].ln \in Owned(k) /\ sess[k].ln \in Lsns /\ lsn[sess[k].ln] # Nil
      BY <1>1, <3>1, OwnedIn DEF UnregisterClose, BaseInv, SessionOK, OwnersOK
    <3>3. lsn' = Closed({sess[k].ln})
      BY <3>1 DEF UnregisterClose
    <3> QED BY <1>1, <1>4, <3>2, <3>3, ClosedListeners
  <2>2. CASE \E j \in Lsns : acceptPublicEnds(j)
    BY <1>1, <1>4, <2>2 DEF acceptPublicEnds, Listener
  <2>3. CASE lsn' = lsn
    BY <1>4, <2>3
  <2> QED BY <2>1, <2>2, <2>3 DEF server, Read, ReadFails, Deadline, RegisterFails, Accept, AcceptInsert, AcceptFails
<1>5. \A k \in Conns : \A l : Holds(k, l)' = Holds(k, l)
  BY <1>2, SameHolds
<1> QED BY <1>3, <1>4, <1>5, PublicKept

LEMMA RegisterListenPublic ==
  ASSUME BaseInv, PublicOwned, NEW k \in Conns, RegisterListen(k)
  PROVE  PublicOwned'
<1>1. TypeOK /\ sess[k] \in SessionState /\ SessionOK(k) /\ lsn \in [Lsns -> Listener \cup {Nil}] /\ srv' = srv
  BY Types DEF BaseInv, RegisterListen
<1>2. PICK l \in Lsns :
        /\ lsn' = [lsn EXCEPT ![l] = [addr |-> sess[k].msg.listen, open |-> TRUE, loop |-> "none"]]
        /\ sess' = [sess EXCEPT ![k].pc = "publish", ![k].ln = l]
  BY DEF RegisterListen
<1>3. sess[k].pc = "handle" /\ sess[k].ln = Nil
  BY <1>1 DEF RegisterListen, SessionOK
<1>4. /\ sess'[k].ln = l /\ sess'[k].rules = sess[k].rules /\ sess'[k].closed = sess[k].closed
      /\ \A m \in Conns \ {k} : sess'[m] = sess[m]
  BY <1>1, <1>2, Types DEF SessionState
<1>5. \A m \in Conns, j \in Lsns : Holds(m, j) => Holds(m, j)'
  BY <1>3, <1>4, NilApart DEF Holds, Listeners
<1>6. srv.ctrl => Holds(k, l)'
  BY <1>1, <1>3, <1>4 DEF SessionOK, Holds
<1>7. \A j \in Lsns \ {l} : lsn'[j] = lsn[j]
  BY <1>1, <1>2
<1> QED BY <1>1, <1>5, <1>6, <1>7 DEF PublicOwned, Holds

LEMMA RegisterPublishPublic ==
  ASSUME BaseInv, PublicOwned, NEW k \in Conns, RegisterPublish(k)
  PROVE  PublicOwned'
<1>1. TypeOK /\ sess[k] \in SessionState /\ SessionOK(k) /\ srv' = srv /\ sess[k].pc = "publish"
  BY Types DEF BaseInv, RegisterPublish
<1>2. /\ sess[k].ln \in Lsns /\ sess[k].msg.id \in IDs
      /\ \A l \in Lsns \ {sess[k].rules[sess[k].msg.id], sess[k].ln} : lsn'[l] = lsn[l]
      /\ sess[k].rules[sess[k].msg.id] # Nil => ~lsn'[sess[k].rules[sess[k].msg.id]].open
  BY Published
<1>3. lsn[sess[k].ln].open /\ lsn[sess[k].ln] # Nil
  BY <1>1, OwnedIn DEF SessionOK, BaseInv, OwnersOK
<1>4. sess' = [sess EXCEPT ![k].rules[sess[k].msg.id] = sess[k].ln, ![k].pc = "read",
                           ![k].msg = Nil, ![k].ln = Nil]
  BY DEF RegisterPublish
<1>5. /\ sess'[k].closed = sess[k].closed
      /\ \A j \in IDs : sess'[k].rules[j] = IF j = sess[k].msg.id THEN sess[k].ln ELSE sess[k].rules[j]
      /\ \A m \in Conns \ {k} : sess'[m] = sess[m]
  BY <1>1, <1>4, Types DEF SessionState
<1>6. ASSUME NEW l \in Lsns, lsn'[l] # Nil, lsn'[l].open
      PROVE  /\ lsn[l] # Nil /\ lsn[l].open
             /\ \A m \in Conns : Holds(m, l) => Holds(m, l)'
  <2>1. l # Nil /\ l # sess[k].rules[sess[k].msg.id]
    BY <1>2, <1>6, NilApart
  <2>2. lsn[l] # Nil /\ lsn[l].open
    BY <1>2, <1>3, <1>6, <2>1
  <2>3. Holds(k, l) => Holds(k, l)'
    BY <1>2, <1>5, <2>1 DEF Holds, Listeners
  <2>4. \A m \in Conns \ {k} : Holds(m, l) => Holds(m, l)'
    BY <1>5 DEF Holds, Listeners
  <2> QED BY <2>2, <2>3, <2>4
<1> QED BY <1>1, <1>6, PublicKept

LEMMA UnregisterPublic ==
  ASSUME BaseInv, PublicOwned, NEW k \in Conns, UnregisterDelete(k) \/ UnregisterWait(k)
  PROVE  PublicOwned'
<1>1. TypeOK /\ sess[k] \in SessionState /\ SessionOK(k) /\ srv' = srv /\ lsn' = lsn
  BY Types DEF BaseInv, UnregisterDelete, UnregisterWait
<1>2. ASSUME NEW l \in Lsns, lsn[l].open
      PROVE  \A m \in Conns : Holds(m, l) => Holds(m, l)'
  <2>1. CASE UnregisterDelete(k)
    <3>1. sess[k].pc = "handle" /\ sess[k].ln = Nil /\ sess[k].msg.id \in IDs
      BY <1>1, <2>1 DEF UnregisterDelete, SessionOK, Request, Frame
    <3>2. /\ sess'[k].ln = sess[k].rules[sess[k].msg.id] /\ sess'[k].closed = sess[k].closed
          /\ \A j \in IDs : sess'[k].rules[j] = IF j = sess[k].msg.id THEN Nil ELSE sess[k].rules[j]
          /\ \A m \in Conns \ {k} : sess'[m] = sess[m]
      BY <1>1, <2>1, Types DEF UnregisterDelete, SessionState
    <3> QED BY <1>1, <3>1, <3>2, NilApart DEF Holds, Listeners
  <2>2. CASE UnregisterWait(k)
    <3>1. sess[k].ln # l
      BY <1>1, <1>2, <2>2 DEF UnregisterWait, SessionOK
    <3>2. /\ sess'[k].rules = sess[k].rules /\ sess'[k].closed = sess[k].closed
          /\ \A m \in Conns \ {k} : sess'[m] = sess[m]
      BY <1>1, <2>2, Types DEF UnregisterWait, SessionState
    <3> QED BY <3>1, <3>2 DEF Holds, Listeners
  <2> QED BY <2>1, <2>2
<1> QED BY <1>1, <1>2, PublicKept

LEMMA SessionEndPublic ==
  ASSUME BaseInv, PublicOwned, NEW k \in Conns, SessionEnd(k)
  PROVE  PublicOwned'
<1>1. /\ TypeOK /\ sess[k] \in SessionState /\ SessionOK(k) /\ sess[k].pc = "end" /\ close(k)
      /\ srv' = [srv EXCEPT !.clients = @ \ {k}]
      /\ sess' = [sess EXCEPT ![k].closed = TRUE, ![k].pc = "gone"]
  BY Types DEF BaseInv, SessionEnd
<1>2. srv'.ctrl = srv.ctrl
  BY <1>1 DEF TypeOK
<1>3. sess[k].ln = Nil /\ \A m \in Conns \ {k} : sess'[m] = sess[m]
  BY <1>1, Types DEF SessionOK
<1>4. \A l \in Listeners(k) \cap Lsns : lsn[l] # Nil
  BY <1>1 DEF BaseInv, OwnersOK, Owned, Listeners
<1>5. \A l \in Lsns : lsn[l] = Nil => lsn'[l] = Nil
  BY <1>1, <1>4, ClosedListeners DEF close
<1>6. ASSUME NEW l \in Lsns, lsn'[l] # Nil, lsn'[l].open
      PROVE  /\ lsn[l] # Nil /\ lsn[l].open
             /\ \A m \in Conns : Holds(m, l) => Holds(m, l)'
  <2>1. lsn[l] # Nil /\ lsn[l].open
    BY <1>1, <1>5, <1>6, CloseEffect
  <2>2. ~Holds(k, l)
    <3>1. CASE sess[k].closed
      BY <3>1 DEF Holds
    <3>2. CASE ~sess[k].closed
      <4>1. lsn' = Closed(Listeners(k))
        BY <1>1, <3>2 DEF close
      <4>2. l \notin Listeners(k)
        BY <1>1, <1>4, <1>6, <2>1, <4>1, ClosedListeners
      <4> QED BY <1>3, <4>2, NilApart DEF Holds
    <3> QED BY <3>1, <3>2
  <2>3. \A m \in Conns \ {k} : Holds(m, l) => Holds(m, l)'
    BY <1>3 DEF Holds, Listeners
  <2> QED BY <2>1, <2>2, <2>3
<1> QED BY <1>2, <1>6, PublicKept

LEMMA ConnectPublic ==
  ASSUME BaseInv, PublicOwned, Connect
  PROVE  PublicOwned'
<1>1. TypeOK /\ sess \in [Conns -> SessionState] /\ lsn' = lsn /\ srv' = srv
  BY Types DEF BaseInv, Connect
<1>2. PICK k \in Conns : FreeConn(k) /\ sess' = [sess EXCEPT ![k] = NoSession]
  BY DEF Connect
<1>3. SessionOK(k) /\ sess[k].pc \in {"none", "gone"}
  BY <1>2 DEF BaseInv, FreeConn
<1>4. sess[k].closed \/ (Listeners(k) = {} /\ sess[k].ln = Nil)
  BY <1>3, NoSessionFields DEF SessionOK, Listeners
<1>5. \A l \in Lsns : ~Holds(k, l)
  BY <1>4, NilApart DEF Holds
<1>6. \A m \in Conns \ {k} : sess'[m] = sess[m]
  BY <1>1, <1>2
<1>7. \A l \in Lsns : \A m \in Conns : Holds(m, l) => Holds(m, l)'
  BY <1>5, <1>6 DEF Holds, Listeners
<1> QED BY <1>1, <1>7, PublicKept

LEMMA NextPublic ==
  ASSUME BaseInv, PublicOwned, [Next]_vars
  PROVE  PublicOwned'
<1>1. ServerOK
  BY DEF BaseInv
<1>2. CASE UNCHANGED server
  BY <1>2, QuietPublic
<1>3. CASE Connect
  BY <1>3, ConnectPublic
<1>4. CASE Serve
  BY <1>4, QuietPublic DEF Serve
<1>5. CASE Close
  <2>1. ~srv'.ctrl
    BY <1>1, <1>5 DEF Close, CloseBegin, CloseSnapshot, CloseSession, CloseEnd, ServerOK, BaseInv, TypeOK
  <2> QED BY <2>1 DEF PublicOwned
<1>6. CASE Crash
  BY <1>6 DEF Crash, PublicOwned
<1>7. CASE \E k \in Conns : Session(k)
  BY <1>7, QuietPublic, RegisterListenPublic, RegisterPublishPublic, UnregisterPublic, SessionEndPublic DEF Session
<1>8. CASE \E l \in Lsns : acceptPublicEnds(l)
  BY <1>8, QuietPublic
<1>9. (\E p \in Callers : Call(p) \/ Send(p)) \/ Cancel => UNCHANGED server
  BY DEF Call, Add, Remove, Change, Send, Cancel
<1>10. Run => Connect \/ UNCHANGED server
  BY DEF Run, RunStops, ConnectFails, RunSnapshot, RunSend, RunServe, RunRead, RunEOF
<1>11. (\E k \in Conns : Lose(k)) \/ UNCHANGED vars => UNCHANGED server
  BY DEF Lose, vars
<1> QED BY <1>2, <1>3, <1>4, <1>5, <1>6, <1>7, <1>8, <1>9, <1>10, <1>11 DEF Next

(* Until Close is called, every public port that is open belongs to a       *)
(* session that is not over and closes it: no sequence of register and      *)
(* unregister frames, lost connections and crashes leaks one.               *)
THEOREM PublicPortsOwned == Spec => []PublicOwned
<1>1. Init => PublicOwned
  BY DEF Init, PublicOwned
<1>2. BaseInv /\ PublicOwned /\ [Next]_vars => PublicOwned'
  BY NextPublic
<1> QED BY <1>1, <1>2, BaseInvariant, PTL DEF Spec
=============================================================================
