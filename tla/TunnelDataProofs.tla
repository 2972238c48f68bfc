-------------------------- MODULE TunnelDataProofs --------------------------
(***************************************************************************)
(* Proofs about TunnelData, for any number of public connections, open     *)
(* frames, sessions and ports.  DataInv is inductive: what an openData     *)
(* goroutine has in each of its stages (Stage), that a session gives no ID *)
(* twice (IDsDiffer), and which goroutine has the server's end of a data   *)
(* connection (NotDialled, DataOwned).                                     *)
(***************************************************************************)
EXTENDS TunnelData, FiniteSetTheorems, SequenceTheorems, TLAPS

SessionRec == [link: BOOLEAN, open: BOOLEAN, nextID: 0..MaxConns,
               frames: Seq([id: ConnIDs, port: Ports])]
PubRec == [pc: {"idle", "listen", "encode", "accept", "header", "relay"},
           sess: Sessions \cup {Nil}, id: ConnIDs \cup {Nil}, port: Ports \cup {Nil},
           queue: Seq(Opens), data: Opens \cup {Nil}]
HandlerRec == [pc: {"idle", "dial", "write", "lookup", "relay", "gone"},
               sess: Sessions \cup {Nil}, id: ConnIDs \cup {Nil}, port: Ports \cup {Nil},
               to: Pubs \cup {Nil}, head: BOOLEAN, open: BOOLEAN]

(* The bound on connections covers those that have no ID yet.               *)
Room == Cardinality(Drawn) + Cardinality(Listening) <= MaxConns

(* An openData goroutine has its ID and its port from Listen on, its data   *)
(* connection from Accept on, and relays the one whose header it compared.  *)
Stage(u) ==
  /\ pub[u].pc = "idle" => pub[u].sess = Nil
  /\ pub[u].pc # "idle" => pub[u].sess \in 1..cur
  /\ pub[u].pc \in {"idle", "listen"} =>
       pub[u].id = Nil /\ pub[u].port = Nil /\ pub[u].queue = <<>>
  /\ pub[u].pc \notin {"idle", "listen"} =>
       pub[u].id \in 1..sess[pub[u].sess].nextID /\ pub[u].port \in Ports
  /\ pub[u].pc \in {"header", "relay"} <=> pub[u].data # Nil
  /\ pub[u].pc = "relay" => hnd[pub[u].data].id = pub[u].id

(* A session never gives an ID twice.                                       *)
IDsDiffer ==
  \A u, v \in Pubs :
    u # v /\ pub[u].id # Nil /\ pub[u].sess = pub[v].sess => pub[u].id # pub[v].id

(* Only the dial of the port in the frame gives a handleOpen a connection.  *)
NotDialled(o) ==
  /\ hnd[o].pc \in {"idle", "dial"} => hnd[o].to = Nil
  /\ hnd[o].pc = "dial" => hnd[o].port # Nil

DataInv ==
  /\ TypeOK
  /\ Room
  /\ \A u \in Pubs : Stage(u)
  /\ IDsDiffer
  /\ \A o \in Opens : NotDialled(o)
  /\ DataOwned
-----------------------------------------------------------------------------
(* Types and finite sets                                                    *)

(* o waits in the queue of the listener, or was accepted.                   *)
Has(p, o) == p.data = o \/ \E n \in DOMAIN p.queue : p.queue[n] = o

LEMMA Numbers ==
  /\ Pubs \subseteq Nat /\ Opens \subseteq Nat /\ Sessions \subseteq Nat
  /\ ConnIDs \subseteq Nat
  /\ Nil \notin Pubs /\ Nil \notin Opens /\ Nil \notin Sessions
  /\ Nil \notin ConnIDs /\ Nil \notin Nat /\ Nil \notin Ports
  /\ MaxConns \in Nat /\ MaxSess \in Nat /\ MaxSess >= 1
BY BoundsAssumption, NilAssumption DEF Pubs, Opens, Sessions, ConnIDs

LEMMA Parts ==
  ASSUME TypeOK
  PROVE  /\ sess \in Seq(SessionRec) /\ Len(sess) = cur /\ DOMAIN sess = 1..cur
         /\ cur \in Nat /\ cur \in Sessions
         /\ \A s \in 1..cur : sess[s] \in SessionRec /\ s \in Sessions /\ s \in Nat
         /\ pub \in [Pubs -> PubRec] /\ hnd \in [Opens -> HandlerRec]
<1>1. /\ sess \in Seq(SessionRec) /\ Len(sess) = cur /\ cur \in Sessions
      /\ pub \in [Pubs -> PubRec] /\ hnd \in [Opens -> HandlerRec]
  BY DEF TypeOK, SessionRec, PubRec, HandlerRec
<1>2. cur \in Nat /\ \A s \in 1..cur : s \in Sessions /\ s \in Nat
  BY <1>1, Numbers DEF Sessions
<1>3. DOMAIN sess = 1..cur /\ \A s \in 1..cur : sess[s] \in SessionRec
  BY <1>1, <1>2
<1> QED BY <1>1, <1>2, <1>3

LEMMA FinitePubs ==
  ASSUME NEW S, S \subseteq Pubs
  PROVE  IsFiniteSet(S) /\ Cardinality(S) \in Nat
<1>1. IsFiniteSet(Pubs)
  BY BoundsAssumption, FS_Interval DEF Pubs
<1> QED BY <1>1, FS_Subset, FS_CardinalityType

LEMMA FinitePairs ==
  ASSUME NEW n \in Nat, NEW S, S \subseteq (1..n) \X ConnIDs
  PROVE  IsFiniteSet(S) /\ Cardinality(S) \in Nat
<1>1. IsFiniteSet(1..n) /\ IsFiniteSet(ConnIDs)
  BY Numbers, FS_Interval DEF ConnIDs
<1>2. IsFiniteSet((1..n) \X ConnIDs)
  BY <1>1, FS_Product
<1> QED BY <1>2, FS_Subset, FS_CardinalityType

(* Sessions change, but neither their number nor their counters.            *)
SameIDs ==
  /\ cur' = cur
  /\ sess' \in Seq(SessionRec) /\ Len(sess') = cur
  /\ \A s \in 1..cur : sess'[s].nextID = sess[s].nextID

LEMMA SessionUpdate ==
  ASSUME TypeOK, NEW s \in 1..cur, NEW r \in SessionRec, cur' = cur,
         sess' = [sess EXCEPT ![s] = r]
  PROVE  /\ sess' \in Seq(SessionRec) /\ Len(sess') = cur
         /\ sess'[s] = r
         /\ \A t \in 1..cur : t # s => sess'[t] = sess[t]
         /\ r.nextID = sess[s].nextID => SameIDs
<1>1. sess \in Seq(SessionRec) /\ Len(sess) = cur /\ DOMAIN sess = 1..cur
  BY Parts
<1>2. /\ sess' \in Seq(SessionRec) /\ Len(sess') = cur
      /\ sess'[s] = r
      /\ \A t \in 1..cur : t # s => sess'[t] = sess[t]
  BY <1>1
<1> QED BY <1>2 DEF SameIDs

LEMMA SameSessions == ASSUME TypeOK, UNCHANGED <<sess, cur>> PROVE SameIDs
BY Parts DEF SameIDs

LEMMA RoomKept ==
  ASSUME DataInv, SameIDs, Listening' \subseteq Listening
  PROVE  Room'
<1>1. Drawn' = Drawn
  BY Parts DEF DataInv, SameIDs, Drawn
<1>2. Listening \subseteq Pubs /\ Drawn \subseteq (1..cur) \X ConnIDs
  BY DEF Listening, Drawn
<1>3. /\ IsFiniteSet(Listening) /\ Cardinality(Listening) \in Nat
      /\ Cardinality(Listening') \in Nat /\ Cardinality(Drawn) \in Nat
  BY <1>2, FinitePubs, FinitePairs, Parts DEF DataInv
<1>4. Cardinality(Listening') <= Cardinality(Listening)
  BY <1>3, FS_Subset
<1>5. Cardinality(Drawn) + Cardinality(Listening) <= MaxConns
  BY DEF DataInv, Room
<1>6. Cardinality(Drawn) + Cardinality(Listening') <= MaxConns
  BY <1>3, <1>4, <1>5, Numbers
<1> QED BY <1>1, <1>6 DEF Room

LEMMA TypesKept ==
  ASSUME DataInv, SameIDs, pub' \in [Pubs -> PubRec], hnd' \in [Opens -> HandlerRec]
  PROVE  TypeOK'
BY DEF DataInv, TypeOK, SameIDs, SessionRec, PubRec, HandlerRec
-----------------------------------------------------------------------------
(* Steps of one goroutine                                                   *)

(* A step of handleOpen that keeps the server's end of its connection.      *)
LEMMA HandlerStep ==
  ASSUME DataInv, SameIDs, pub' = pub, NEW o \in Opens, NEW h \in HandlerRec,
         hnd' = [hnd EXCEPT ![o] = h],
         h.to = hnd[o].to,
         h.pc \in {"idle", "dial"} => h.to = Nil,
         h.pc = "dial" => h.port # Nil,
         hnd[o].to # Nil => h.id = hnd[o].id
  PROVE  DataInv'
<1>1. hnd \in [Opens -> HandlerRec] /\ pub \in [Pubs -> PubRec]
  BY Parts DEF DataInv
<1>2. /\ hnd' \in [Opens -> HandlerRec]
      /\ hnd'[o] = h
      /\ \A q \in Opens : q # o => hnd'[q] = hnd[q]
      /\ \A q \in Opens : hnd'[q].to = hnd[q].to
  BY <1>1
<1>3. TypeOK'
  BY <1>1, <1>2, TypesKept
<1>4. Room'
  BY RoomKept DEF Listening
<1>5. ASSUME NEW u \in Pubs
      PROVE  Stage(u)'
  <2>1. Stage(u) /\ pub[u] \in PubRec
    BY <1>1 DEF DataInv
  <2>2. ASSUME pub[u].pc = "relay"
        PROVE  hnd'[pub[u].data].id = pub[u].id
    <3>1. pub[u].data \in Opens /\ hnd[pub[u].data].id = pub[u].id
      BY <2>1, <2>2 DEF Stage, PubRec
    <3>2. hnd[pub[u].data].to = u
      BY <3>1 DEF DataInv, DataOwned, Holds
    <3>3. hnd[pub[u].data].to # Nil
      BY <3>2, Numbers
    <3> QED BY <1>2, <3>1, <3>3
  <2>3. pub[u].sess \in 1..cur => sess'[pub[u].sess].nextID = sess[pub[u].sess].nextID
    BY DEF SameIDs
  <2> QED BY <2>1, <2>2, <2>3 DEF Stage, SameIDs
<1>6. IDsDiffer'
  BY DEF DataInv, IDsDiffer
<1>7. \A q \in Opens : NotDialled(q)'
  BY <1>2 DEF DataInv, NotDialled
<1>8. DataOwned'
  BY <1>2 DEF DataInv, DataOwned, Holds
<1> QED BY <1>3, <1>4, <1>5, <1>6, <1>7, <1>8 DEF DataInv

(* A step of openData that has its ID, and keeps its data connections.      *)
LEMMA PubStep ==
  ASSUME DataInv, SameIDs, hnd' = hnd, NEW u \in Pubs, NEW p \in PubRec,
         pub' = [pub EXCEPT ![u] = p],
         pub[u].pc \notin {"idle", "listen"}, p.pc \notin {"idle", "listen"},
         p.sess = pub[u].sess, p.id = pub[u].id, p.port = pub[u].port,
         p.pc \in {"header", "relay"} <=> p.data # Nil,
         p.pc = "relay" => hnd[p.data].id = p.id,
         \A o \in Opens : Has(p, o) <=> Has(pub[u], o)
  PROVE  DataInv'
<1>1. hnd \in [Opens -> HandlerRec] /\ pub \in [Pubs -> PubRec]
  BY Parts DEF DataInv
<1>2. /\ pub' \in [Pubs -> PubRec]
      /\ pub'[u] = p
      /\ \A v \in Pubs : v # u => pub'[v] = pub[v]
      /\ \A v \in Pubs : pub'[v].id = pub[v].id /\ pub'[v].sess = pub[v].sess
  BY <1>1
<1>3. TypeOK'
  BY <1>1, <1>2, TypesKept
<1>4. Room'
  <2>1. Listening' \subseteq Listening
    BY <1>2 DEF Listening
  <2> QED BY <2>1, RoomKept
<1>5. ASSUME NEW v \in Pubs
      PROVE  Stage(v)'
  <2>1. Stage(v) /\ Stage(u)
    BY DEF DataInv
  <2>2. \A s \in 1..cur : sess'[s].nextID = sess[s].nextID
    BY DEF SameIDs
  <2>3. CASE v = u
    BY <1>2, <2>1, <2>2, <2>3 DEF Stage, SameIDs
  <2>4. CASE v # u
    BY <1>2, <2>1, <2>2, <2>4 DEF Stage, SameIDs
  <2> QED BY <2>3, <2>4
<1>6. IDsDiffer'
  BY <1>2 DEF DataInv, IDsDiffer
<1>7. \A q \in Opens : NotDialled(q)'
  BY DEF DataInv, NotDialled
<1>8. DataOwned'
  BY <1>2 DEF DataInv, DataOwned, Holds, Has
<1> QED BY <1>3, <1>4, <1>5, <1>6, <1>7, <1>8 DEF DataInv

LEMMA Blank == NoPub \in PubRec /\ NoHandler \in HandlerRec
<1>1. <<>> \in Seq(Opens)
  OBVIOUS
<1> QED BY <1>1 DEF NoPub, PubRec, NoHandler, HandlerRec

(* openData returns: the server closes its end of every connection it has.  *)
LEMMA ReturnInv ==
  ASSUME DataInv, NEW u \in Pubs, Return(u), UNCHANGED <<sess, cur>>
  PROVE  DataInv'
<1>1. hnd \in [Opens -> HandlerRec] /\ pub \in [Pubs -> PubRec]
  BY Parts DEF DataInv
<1>2. SameIDs
  BY SameSessions DEF DataInv
<1>3. /\ pub' \in [Pubs -> PubRec]
      /\ pub'[u] = NoPub
      /\ \A v \in Pubs : v # u => pub'[v] = pub[v]
  BY <1>1, Blank DEF Return
<1>4. ASSUME NEW o \in Opens
      PROVE  /\ hnd'[o] \in HandlerRec
             /\ hnd[o].to # u => hnd'[o] = hnd[o]
             /\ hnd[o].to = u => hnd'[o].to = Nil
             /\ hnd'[o].pc = "dial" => hnd[o].pc = "dial" /\ hnd'[o].port = hnd[o].port
  <2>1. hnd' = ServerEnds({q \in Opens : hnd[q].to = u})
    BY DEF Return
  <2>2. CASE hnd[o].to # u
    BY <1>1, <2>1, <2>2 DEF ServerEnds
  <2>3. CASE hnd[o].to = u
    <3>1. hnd'[o] = IF hnd[o].pc = "gone" THEN NoHandler ELSE [hnd[o] EXCEPT !.to = Nil]
      BY <2>1, <2>3 DEF ServerEnds
    <3> DEFINE g == [hnd[o] EXCEPT !.to = Nil]
    <3>2. g \in HandlerRec /\ g.to = Nil /\ g.pc = hnd[o].pc /\ g.port = hnd[o].port
      BY <1>1 DEF HandlerRec
    <3>3. NoHandler.to = Nil /\ NoHandler.pc = "idle"
      BY DEF NoHandler
    <3>4. CASE hnd'[o] = g
      <4> HIDE DEF g
      <4> QED BY <2>3, <3>2, <3>4
    <3>5. CASE hnd'[o] = NoHandler
      BY <2>3, <3>3, <3>5, Blank
    <3> QED BY <3>1, <3>4, <3>5
  <2> QED BY <2>2, <2>3
<1>5. hnd' \in [Opens -> HandlerRec]
  <2>1. DOMAIN hnd' = Opens /\ hnd' = [q \in Opens |-> hnd'[q]]
    BY DEF Return, ServerEnds
  <2> QED BY <1>4, <2>1
<1>6. TypeOK'
  BY <1>2, <1>3, <1>5, TypesKept
<1>7. NoPub.pc = "idle" /\ NoPub.sess = Nil /\ NoPub.id = Nil /\ NoPub.port = Nil
      /\ NoPub.queue = <<>> /\ NoPub.data = Nil
  BY DEF NoPub
<1>8. Room'
  <2>1. Listening' \subseteq Listening
    BY <1>3, <1>7 DEF Listening
  <2> QED BY <1>2, <2>1, RoomKept
<1>9. ASSUME NEW v \in Pubs
      PROVE  Stage(v)'
  <2>1. CASE v = u
    BY <1>3, <1>7, <2>1 DEF Stage
  <2>2. CASE v # u
    <3>1. Stage(v) /\ pub'[v] = pub[v] /\ pub[v] \in PubRec
      BY <1>1, <1>3, <2>2 DEF DataInv
    <3>2. ASSUME pub[v].pc = "relay"
          PROVE  hnd'[pub[v].data].id = pub[v].id
      <4>1. pub[v].data \in Opens /\ hnd[pub[v].data].id = pub[v].id
        BY <3>1, <3>2 DEF Stage, PubRec
      <4>2. hnd[pub[v].data].to = v
        BY <4>1 DEF DataInv, DataOwned, Holds
      <4> QED BY <1>4, <2>2, <4>1, <4>2
    <3> QED BY <3>1, <3>2 DEF Stage
  <2> QED BY <2>1, <2>2
<1>10. IDsDiffer'
  <2> SUFFICES ASSUME NEW v \in Pubs, NEW w \in Pubs, v # w, pub'[v].id # Nil,
                      pub'[v].sess = pub'[w].sess
               PROVE  pub'[v].id # pub'[w].id
    BY DEF IDsDiffer
  <2>1. v # u
    BY <1>3, <1>7
  <2>2. CASE w = u
    BY <1>3, <1>7, <2>2
  <2>3. CASE w # u
    BY <1>3, <2>1, <2>3 DEF DataInv, IDsDiffer
  <2> QED BY <2>2, <2>3
<1>11. \A q \in Opens : NotDialled(q)'
  <2> TAKE q \in Opens
  <2>1. NotDialled(q)
    BY DEF DataInv
  <2> QED BY <1>4, <2>1 DEF NotDialled
<1>12. DataOwned'
  <2> SUFFICES ASSUME NEW o \in Opens, NEW v \in Pubs
               PROVE  hnd'[o].to = v <=> Has(pub'[v], o)
    BY DEF DataOwned, Holds, Has
  <2>1. hnd[o].to = v <=> Has(pub[v], o)
    BY DEF DataInv, DataOwned, Holds, Has
  <2>2. CASE v = u
    <3>1. ~Has(NoPub, o)
      BY <1>7, Numbers DEF Has
    <3>2. hnd'[o].to # u
      BY <1>4, Numbers
    <3> QED BY <1>3, <2>2, <3>1, <3>2
  <2>3. CASE v # u
    BY <1>3, <1>4, <2>1, <2>3, Numbers
  <2> QED BY <2>2, <2>3
<1> QED BY <1>6, <1>8, <1>9, <1>10, <1>11, <1>12 DEF DataInv
-----------------------------------------------------------------------------
(* Sessions                                                                 *)

(* A session changes, but for its counter.                                  *)
LEMMA SessionStep ==
  ASSUME DataInv, SameIDs, UNCHANGED <<pub, hnd>>
  PROVE  DataInv'
<1>1. TypeOK'
  BY Parts, TypesKept DEF DataInv
<1>2. Room'
  BY RoomKept DEF Listening
<1>3. \A u \in Pubs : Stage(u)'
  BY DEF DataInv, Stage, SameIDs
<1>4. IDsDiffer' /\ DataOwned' /\ \A o \in Opens : NotDialled(o)'
  BY DEF DataInv, IDsDiffer, DataOwned, Holds, NotDialled
<1> QED BY <1>1, <1>2, <1>3, <1>4 DEF DataInv

LEMMA LoseInv ==
  ASSUME DataInv, Lose
  PROVE  DataInv'
<1> DEFINE a == [sess[cur] EXCEPT !.link = FALSE]
           r == [a EXCEPT !.frames = <<>>]
<1>1. TypeOK /\ cur \in 1..cur /\ sess[cur] \in SessionRec
  BY Parts, Numbers DEF DataInv, Sessions
<1>2. a \in SessionRec /\ a.nextID = sess[cur].nextID
  BY <1>1 DEF SessionRec
<1>3. <<>> \in Seq([id: ConnIDs, port: Ports])
  OBVIOUS
<1>4. sess' = [sess EXCEPT ![cur] = r] /\ UNCHANGED <<cur, pub, hnd>>
  BY DEF Lose
<1> HIDE DEF a
<1>5. r \in SessionRec /\ r.nextID = sess[cur].nextID
  BY <1>2, <1>3 DEF SessionRec
<1> HIDE DEF r
<1>6. SameIDs
  BY <1>1, <1>4, <1>5, SessionUpdate
<1> QED BY <1>4, <1>6, SessionStep

LEMMA CloseSessionInv ==
  ASSUME DataInv, NEW s \in DOMAIN sess, CloseSession(s)
  PROVE  DataInv'
<1> DEFINE r == [sess[s] EXCEPT !.open = FALSE]
<1>1. TypeOK /\ s \in 1..cur /\ sess[s] \in SessionRec
  BY Parts DEF DataInv
<1>2. r \in SessionRec /\ r.nextID = sess[s].nextID
  BY <1>1 DEF SessionRec
<1>3. sess' = [sess EXCEPT ![s] = r] /\ UNCHANGED <<cur, pub, hnd>>
  BY DEF CloseSession
<1> HIDE DEF r
<1>4. SameIDs
  BY <1>1, <1>2, <1>3, SessionUpdate
<1> QED BY <1>3, <1>4, SessionStep

LEMMA ReconnectInv ==
  ASSUME DataInv, Reconnect
  PROVE  DataInv'
<1>1. /\ cur < MaxSess
      /\ cur' = cur + 1
      /\ sess' = Append(sess, NewSession)
      /\ UNCHANGED <<pub, hnd>>
  BY DEF Reconnect
<1>2. /\ sess \in Seq(SessionRec) /\ Len(sess) = cur
      /\ cur \in Nat
      /\ pub \in [Pubs -> PubRec] /\ hnd \in [Opens -> HandlerRec]
  BY Parts DEF DataInv
<1>3. NewSession \in SessionRec /\ NewSession.nextID = 0
  <2>1. <<>> \in Seq([id: ConnIDs, port: Ports]) /\ 0 \in 0..MaxConns
    BY Numbers
  <2> QED BY <2>1 DEF NewSession, SessionRec
<1>4. /\ sess' \in Seq(SessionRec) /\ Len(sess') = cur'
      /\ \A s \in 1..cur : sess'[s] = sess[s]
      /\ sess'[cur + 1] = NewSession
      /\ cur' \in Sessions
  <2> HIDE DEF NewSession
  <2>1. /\ sess' \in Seq(SessionRec) /\ Len(sess') = cur'
        /\ \A s \in 1..cur : sess'[s] = sess[s]
        /\ sess'[cur + 1] = NewSession
    BY <1>1, <1>2, <1>3
  <2>2. cur' \in Sessions
    BY <1>1, <1>2, Numbers DEF Sessions
  <2> QED BY <2>1, <2>2
<1>5. TypeOK'
  BY <1>1, <1>2, <1>4 DEF TypeOK, SessionRec, PubRec, HandlerRec
<1>6. Room'
  <2>1. ASSUME NEW x \in (1..cur') \X ConnIDs
        PROVE  x[2] <= sess'[x[1]].nextID <=>
                 x \in (1..cur) \X ConnIDs /\ x[2] <= sess[x[1]].nextID
    <3>1. x[1] \in 1..(cur + 1) /\ x[2] \in ConnIDs /\ x = <<x[1], x[2]>>
      BY <1>1
    <3>2. CASE x[1] \in 1..cur
      BY <1>4, <3>1, <3>2
    <3>3. CASE x[1] = cur + 1
      <4>1. sess'[x[1]].nextID = 0 /\ ~(x[2] <= 0)
        BY <1>3, <1>4, <3>1, <3>3, Numbers DEF ConnIDs
      <4>2. x[1] \notin 1..cur
        BY <1>2, <3>3
      <4> QED BY <4>1, <4>2
    <3> QED BY <1>2, <3>1, <3>2, <3>3
  <2>2. (1..cur) \X ConnIDs \subseteq (1..cur') \X ConnIDs
    BY <1>1, <1>2
  <2>3. Drawn' = Drawn
    BY <2>1, <2>2 DEF Drawn
  <2>4. Listening' = Listening
    BY <1>1 DEF Listening
  <2> QED BY <2>3, <2>4 DEF DataInv, Room
<1>7. \A u \in Pubs : Stage(u)'
  <2>1. \A s \in 1..cur : s \in 1..cur'
    BY <1>1, <1>2
  <2> QED BY <1>1, <1>4, <2>1 DEF DataInv, Stage
<1>8. IDsDiffer' /\ DataOwned' /\ \A o \in Opens : NotDialled(o)'
  BY <1>1 DEF DataInv, IDsDiffer, DataOwned, Holds, NotDialled
<1> QED BY <1>5, <1>6, <1>7, <1>8 DEF DataInv
-----------------------------------------------------------------------------
(* openData                                                                 *)

LEMMA acceptPublicInv ==
  ASSUME DataInv, NEW s \in DOMAIN sess, acceptPublic(s)
  PROVE  DataInv'
<1> DEFINE u == Free(FreePubs)
           a == [NoPub EXCEPT !.pc = "listen"]
           p == [a EXCEPT !.sess = s]
<1>1. /\ FreePubs # {}
      /\ Cardinality(Drawn) + Cardinality(Listening) < MaxConns
      /\ pub' = [pub EXCEPT ![u] = p]
      /\ UNCHANGED <<sess, cur, hnd>>
  BY DEF acceptPublic
<1>2. u \in FreePubs
  BY <1>1 DEF Free
<1>3. u \in Pubs /\ pub[u].pc = "idle"
  BY <1>2 DEF FreePubs
<1> HIDE DEF u
<1>4. s \in 1..cur /\ s \in Sessions
  BY Parts DEF DataInv
<1>5. /\ p \in PubRec
      /\ p.pc = "listen" /\ p.sess = s /\ p.id = Nil /\ p.port = Nil
      /\ p.queue = <<>> /\ p.data = Nil
  <2>1. /\ a \in PubRec
        /\ a.pc = "listen" /\ a.id = Nil /\ a.port = Nil
        /\ a.queue = <<>> /\ a.data = Nil
    BY Blank DEF PubRec, NoPub
  <2> HIDE DEF a
  <2> QED BY <1>4, <2>1 DEF PubRec
<1> HIDE DEF p
<1>6. SameIDs
  BY <1>1, SameSessions DEF DataInv
<1>7. pub \in [Pubs -> PubRec] /\ hnd \in [Opens -> HandlerRec]
  BY Parts DEF DataInv
<1>8. /\ pub' \in [Pubs -> PubRec]
      /\ pub'[u] = p
      /\ \A v \in Pubs : v # u => pub'[v] = pub[v]
  BY <1>1, <1>3, <1>5, <1>7
<1>9. TypeOK'
  BY <1>1, <1>6, <1>7, <1>8, TypesKept
<1>10. Room'
  <2>1. Listening' = Listening \cup {u}
    BY <1>3, <1>5, <1>8 DEF Listening
  <2>2. IsFiniteSet(Listening) /\ Cardinality(Listening) \in Nat
    BY FinitePubs DEF Listening
  <2>3. Cardinality(Listening') <= Cardinality(Listening) + 1 /\ Cardinality(Listening') \in Nat
    BY <2>1, <2>2, FS_AddElement
  <2>4. Drawn' = Drawn
    BY <1>1 DEF Drawn
  <2>5. Cardinality(Drawn) \in Nat
    BY FinitePairs, Parts DEF Drawn, DataInv
  <2>6. Cardinality(Drawn) + Cardinality(Listening') <= MaxConns
    BY <1>1, <2>2, <2>3, <2>5, Numbers
  <2> QED BY <2>4, <2>6 DEF Room
<1>11. ASSUME NEW v \in Pubs
       PROVE  Stage(v)'
  <2>1. CASE v = u
    BY <1>1, <1>4, <1>5, <1>8, <2>1 DEF Stage
  <2>2. CASE v # u
    BY <1>1, <1>8, <2>2 DEF DataInv, Stage
  <2> QED BY <2>1, <2>2
<1>12. IDsDiffer'
  <2> SUFFICES ASSUME NEW v \in Pubs, NEW w \in Pubs, v # w, pub'[v].id # Nil,
                      pub'[v].sess = pub'[w].sess
               PROVE  pub'[v].id # pub'[w].id
    BY DEF IDsDiffer
  <2>1. v # u
    BY <1>5, <1>8
  <2>2. CASE w = u
    BY <1>5, <1>8, <2>2
  <2>3. CASE w # u
    BY <1>8, <2>1, <2>3 DEF DataInv, IDsDiffer
  <2> QED BY <2>2, <2>3
<1>13. \A o \in Opens : NotDialled(o)'
  BY <1>1 DEF DataInv, NotDialled
<1>14. DataOwned'
  <2> SUFFICES ASSUME NEW o \in Opens, NEW v \in Pubs
               PROVE  hnd'[o].to = v <=> Has(pub'[v], o)
    BY DEF DataOwned, Holds, Has
  <2>1. hnd[o].to = v <=> Has(pub[v], o)
    BY DEF DataInv, DataOwned, Holds, Has
  <2>2. CASE v = u
    <3>1. ~Has(p, o)
      BY <1>5, Numbers DEF Has
    <3>2. pub[u].data = Nil /\ pub[u].queue = <<>>
      BY <1>3 DEF DataInv, Stage
    <3>3. ~Has(pub[u], o)
      BY <3>2, Numbers DEF Has
    <3> QED BY <1>1, <1>8, <2>1, <2>2, <3>1, <3>3
  <2>3. CASE v # u
    BY <1>1, <1>8, <2>1, <2>3
  <2> QED BY <2>2, <2>3
<1> QED BY <1>9, <1>10, <1>11, <1>12, <1>13, <1>14 DEF DataInv

(* The ID a session draws is new in that session and within the bound.      *)
LEMMA Draw ==
  ASSUME DataInv, NEW u \in Pubs, pub[u].pc = "listen", NEW s, s = pub[u].sess,
         NEW n, n = sess[s].nextID + 1,
         cur' = cur, sess'[s].nextID = n,
         \A t \in 1..cur : t # s => sess'[t].nextID = sess[t].nextID,
         Listening' = Listening \ {u}
  PROVE  n \in ConnIDs /\ Room'
<1>1. s \in 1..cur /\ sess[s] \in SessionRec /\ cur \in Nat
  BY Parts DEF DataInv, Stage
<1>2. sess[s].nextID \in 0..MaxConns
  BY <1>1 DEF SessionRec
<1>3. u \in Listening /\ IsFiniteSet(Listening) /\ Cardinality(Listening) \in Nat
  BY FinitePubs DEF Listening
<1>4. /\ IsFiniteSet(Listening \ {u})
      /\ Cardinality(Listening \ {u}) = Cardinality(Listening) - 1
      /\ Cardinality(Listening \ {u}) \in Nat
  BY <1>3, FS_RemoveElement, FS_CardinalityType
<1>5. IsFiniteSet(Drawn) /\ Cardinality(Drawn) \in Nat
  BY <1>1, FinitePairs DEF Drawn
<1>6. sess[s].nextID <= Cardinality(Drawn)
  <2> DEFINE S == {s} \X (1..sess[s].nextID)
  <2>1. IsFiniteSet({s}) /\ Cardinality({s}) = 1
    BY FS_Singleton
  <2>2. /\ IsFiniteSet(1..sess[s].nextID)
        /\ Cardinality(1..sess[s].nextID) = sess[s].nextID
    <3> DEFINE m == sess[s].nextID
    <3>1. m \in Nat
      BY <1>2, Numbers
    <3> HIDE DEF m
    <3>2. IsFiniteSet(1..m) /\ Cardinality(1..m) = m
      BY <3>1, FS_Interval
    <3> QED BY <3>2 DEF m
  <2>3. Cardinality(S) = sess[s].nextID
    <3> DEFINE m == sess[s].nextID
               A == {s}
               B == 1..m
    <3>1. m \in Nat
      BY <1>2, Numbers
    <3>2. IsFiniteSet(A) /\ Cardinality(A) = 1 /\ IsFiniteSet(B) /\ Cardinality(B) = m
      BY <2>1, <2>2
    <3> HIDE DEF A, B, m
    <3>3. Cardinality(A \X B) = 1 * m
      BY <3>2, FS_Product
    <3>4. Cardinality(A \X B) = m
      BY <3>1, <3>3
    <3> QED BY <3>4 DEF A, B, m
  <2>4. S \subseteq Drawn
    <3> SUFFICES ASSUME NEW x \in S PROVE x \in Drawn
      OBVIOUS
    <3>1. x[1] = s /\ x[2] \in 1..sess[s].nextID /\ x = <<x[1], x[2]>>
      OBVIOUS
    <3>2. x[2] \in ConnIDs /\ x[2] <= sess[x[1]].nextID
      BY <1>2, <3>1, Numbers DEF ConnIDs
    <3> QED BY <1>1, <3>1, <3>2 DEF Drawn
  <2> HIDE DEF S
  <2> QED BY <1>5, <2>3, <2>4, FS_Subset
<1>7. Cardinality(Drawn) + Cardinality(Listening) <= MaxConns
  BY DEF DataInv, Room
<1>8. n \in ConnIDs
  <2>1. sess[s].nextID + 1 <= MaxConns
    BY <1>2, <1>3, <1>4, <1>5, <1>6, <1>7, Numbers
  <2> QED BY <1>2, <2>1, Numbers DEF ConnIDs
<1>9. Drawn' = Drawn \cup {<<s, n>>}
  <2>1. ASSUME NEW x \in (1..cur) \X ConnIDs
        PROVE  x[2] <= sess'[x[1]].nextID <=> x[2] <= sess[x[1]].nextID \/ x = <<s, n>>
    <3>0. x[1] \in 1..cur /\ x[2] \in ConnIDs /\ x = <<x[1], x[2]>>
      OBVIOUS
    <3>1. x[1] \in 1..cur /\ x[2] \in Nat /\ x = <<x[1], x[2]>>
      BY <3>0, Numbers
    <3>2. CASE x[1] = s
      <4>1. x[2] <= n <=> x[2] <= sess[s].nextID \/ x[2] = n
        BY <1>2, <3>1, Numbers
      <4>2. sess'[x[1]].nextID = n
        BY <3>2
      <4>3. x = <<s, n>> <=> x[2] = n
        BY <3>1, <3>2
      <4> QED BY <3>2, <4>1, <4>2, <4>3
    <3>3. CASE x[1] # s
      BY <3>1, <3>3
    <3> QED BY <3>2, <3>3
  <2>2. <<s, n>> \in (1..cur) \X ConnIDs
    BY <1>1, <1>8
  <2> QED BY <2>1, <2>2 DEF Drawn
<1>10. Cardinality(Drawn') <= Cardinality(Drawn) + 1 /\ Cardinality(Drawn') \in Nat
  <2> DEFINE d == <<s, n>>
             D == Drawn
  <2> HIDE DEF d, D
  <2>1. IsFiniteSet(D) /\ Cardinality(D) \in Nat
    BY <1>5 DEF D
  <2>2. \/ Cardinality(D \cup {d}) = Cardinality(D)
        \/ Cardinality(D \cup {d}) = Cardinality(D) + 1
    BY <2>1, FS_AddElement
  <2>3. Cardinality(D \cup {d}) <= Cardinality(D) + 1 /\ Cardinality(D \cup {d}) \in Nat
    BY <2>1, <2>2
  <2> QED BY <1>9, <2>3 DEF d, D
<1>11. Cardinality(Drawn') + Cardinality(Listening') <= MaxConns
  BY <1>3, <1>4, <1>5, <1>7, <1>10, Numbers
<1> QED BY <1>8, <1>11 DEF Room

LEMMA ListenInv ==
  ASSUME DataInv, NEW u \in Pubs, Listen(u)
  PROVE  DataInv'
<1> DEFINE s == pub[u].sess
           n == sess[s].nextID + 1
           r == [sess[s] EXCEPT !.nextID = n]
<1>1. PICK a \in Ports \ {pub[v].port : v \in Pubs} :
        pub' = [pub EXCEPT ![u].pc = "encode", ![u].port = a, ![u].id = n]
  BY DEF Listen, nextConnID
<1>2. /\ pub[u].pc = "listen"
      /\ sess' = [sess EXCEPT ![s] = r]
      /\ UNCHANGED <<cur, hnd>>
  BY DEF Listen, nextConnID
<1>3. s \in 1..cur /\ cur \in Nat /\ sess[s] \in SessionRec /\ sess \in Seq(SessionRec)
      /\ Len(sess) = cur /\ pub \in [Pubs -> PubRec] /\ hnd \in [Opens -> HandlerRec]
      /\ cur \in Sessions
  BY <1>2, Parts DEF DataInv, Stage
<1>4. sess[s].nextID \in Nat
  BY <1>3, Numbers DEF SessionRec
<1> DEFINE p1 == [pub[u] EXCEPT !.pc = "encode"]
           p2 == [p1 EXCEPT !.port = a]
           p == [p2 EXCEPT !.id = n]
<1>5. pub' = [pub EXCEPT ![u] = p]
  BY <1>1, <1>3
<1>6. r.nextID = n
  BY <1>3 DEF SessionRec
<1>7. sess'[s].nextID = n /\ \A t \in 1..cur : t # s => sess'[t] = sess[t]
  BY <1>2, <1>3, <1>6
<1>8. Listening' = Listening \ {u}
  <2>1. p.pc = "encode"
    <3>1. p1.pc = "encode" /\ DOMAIN p1 = {"pc", "sess", "id", "port", "queue", "data"}
      BY <1>3 DEF PubRec
    <3> HIDE DEF p1, n
    <3>2. p2.pc = "encode" /\ DOMAIN p2 = {"pc", "sess", "id", "port", "queue", "data"}
      BY <3>1
    <3> HIDE DEF p2
    <3> QED BY <3>2
  <2> HIDE DEF p
  <2>2. /\ pub'[u].pc = "encode"
        /\ \A v \in Pubs : v # u => pub'[v] = pub[v]
    BY <1>3, <1>5, <2>1
  <2> QED BY <2>2 DEF Listening
<1>9. n \in ConnIDs /\ Room'
  BY <1>2, <1>7, <1>8, Draw
<1>10. r \in SessionRec
  <2>1. n \in 0..MaxConns
    BY <1>9 DEF ConnIDs
  <2> HIDE DEF n
  <2> QED BY <1>3, <2>1 DEF SessionRec
<1>11. sess' \in Seq(SessionRec) /\ Len(sess') = cur
  <2> HIDE DEF r, n
  <2> QED BY <1>2, <1>3, <1>10
<1>12. /\ pub[u].id = Nil /\ pub[u].port = Nil /\ pub[u].queue = <<>>
       /\ pub[u].data = Nil
  BY <1>2 DEF DataInv, Stage
<1>13. /\ p \in PubRec
       /\ p.pc = "encode" /\ p.sess = s /\ p.id = n /\ p.port = a
       /\ p.queue = pub[u].queue /\ p.data = pub[u].data
  <2>1. /\ p1 \in PubRec
        /\ p1.pc = "encode" /\ p1.sess = s
        /\ p1.queue = pub[u].queue /\ p1.data = pub[u].data
    BY <1>3 DEF PubRec
  <2> HIDE DEF p1, n
  <2>2. /\ p2 \in PubRec
        /\ p2.pc = "encode" /\ p2.sess = s /\ p2.port = a
        /\ p2.queue = pub[u].queue /\ p2.data = pub[u].data
    BY <2>1 DEF PubRec
  <2> HIDE DEF p2
  <2> QED BY <1>9, <2>2 DEF PubRec
<1> HIDE DEF p, r, n, s
<1>14. /\ pub' \in [Pubs -> PubRec]
       /\ pub'[u] = p
       /\ \A v \in Pubs : v # u => pub'[v] = pub[v]
  BY <1>3, <1>5, <1>13
<1>15. TypeOK'
  BY <1>2, <1>3, <1>11, <1>14 DEF TypeOK, SessionRec, PubRec, HandlerRec
<1>16. s = pub[u].sess /\ n = sess[s].nextID + 1
  BY DEF s, n
<1>17. ASSUME NEW v \in Pubs
       PROVE  Stage(v)'
  <2>1. CASE v = u
    <3>1. n \in 1..n
      BY <1>9, Numbers DEF ConnIDs
    <3> QED BY <1>2, <1>3, <1>7, <1>12, <1>13, <1>14, <2>1, <3>1 DEF Stage
  <2>2. CASE v # u
    <3>1. Stage(v) /\ pub'[v] = pub[v]
      BY <1>14, <2>2 DEF DataInv
    <3>2. ASSUME pub[v].pc \notin {"idle", "listen"}
          PROVE  pub[v].id \in 1..sess'[pub[v].sess].nextID
      <4>1. pub[v].id \in 1..sess[pub[v].sess].nextID /\ pub[v].sess \in 1..cur
        BY <3>1, <3>2 DEF Stage
      <4>2. CASE pub[v].sess # s
        BY <1>7, <4>1, <4>2
      <4>3. CASE pub[v].sess = s
        BY <1>4, <1>7, <1>16, <4>1, <4>3
      <4> QED BY <4>2, <4>3
    <3> QED BY <1>2, <3>1, <3>2 DEF Stage
  <2> QED BY <2>1, <2>2
<1>18. ASSUME NEW v \in Pubs, v # u, pub[v].sess = s
       PROVE  pub[v].id # n
  <2>1. pub[v].id \in 1..sess[s].nextID \/ pub[v].id = Nil
    BY <1>18 DEF DataInv, Stage
  <2> QED BY <1>4, <1>9, <1>16, <2>1, Numbers
<1>19. IDsDiffer'
  <2> SUFFICES ASSUME NEW v \in Pubs, NEW w \in Pubs, v # w, pub'[v].id # Nil,
                      pub'[v].sess = pub'[w].sess
               PROVE  pub'[v].id # pub'[w].id
    BY DEF IDsDiffer
  <2>1. CASE v = u
    BY <1>13, <1>14, <1>18, <2>1
  <2>2. CASE w = u
    BY <1>13, <1>14, <1>18, <2>2
  <2>3. CASE v # u /\ w # u
    BY <1>14, <2>3 DEF DataInv, IDsDiffer
  <2> QED BY <2>1, <2>2, <2>3
<1>20. \A o \in Opens : NotDialled(o)'
  BY <1>2 DEF DataInv, NotDialled
<1>21. DataOwned'
  <2>1. \A o \in Opens, v \in Pubs : Has(pub'[v], o) <=> Has(pub[v], o)
    BY <1>13, <1>14 DEF Has
  <2> QED BY <1>2, <2>1 DEF DataInv, DataOwned, Holds, Has
<1> QED BY <1>9, <1>15, <1>17, <1>19, <1>20, <1>21 DEF DataInv

LEMMA HeadOrTail ==
  ASSUME NEW q \in Seq(Opens), q # <<>>, NEW o
  PROVE  /\ Head(q) \in Opens /\ Tail(q) \in Seq(Opens)
         /\ (\E n \in DOMAIN q : q[n] = o) <=>
              (Head(q) = o \/ \E n \in DOMAIN Tail(q) : Tail(q)[n] = o)
<1>1. Head(q) = q[1] /\ 1 \in DOMAIN q /\ Len(q) \in Nat /\ DOMAIN q = 1..Len(q)
  BY EmptySeq
<1>2. /\ Head(q) \in Opens /\ Tail(q) \in Seq(Opens)
      /\ Len(Tail(q)) = Len(q) - 1
      /\ \A i \in 1..Len(Tail(q)) : Tail(q)[i] = q[i + 1]
  BY HeadTailProperties
<1>3. DOMAIN Tail(q) = 1..Len(Tail(q))
  BY <1>2
<1>4. ASSUME NEW n \in DOMAIN q, q[n] = o
      PROVE  Head(q) = o \/ \E m \in DOMAIN Tail(q) : Tail(q)[m] = o
  <2>1. CASE n = 1
    BY <1>1, <1>4, <2>1
  <2>2. CASE n # 1
    <3>1. n - 1 \in DOMAIN Tail(q) /\ n - 1 + 1 = n
      BY <1>1, <1>2, <1>3, <2>2
    <3> QED BY <1>2, <1>3, <1>4, <3>1
  <2> QED BY <2>1, <2>2
<1>5. ASSUME NEW m \in DOMAIN Tail(q), Tail(q)[m] = o
      PROVE  \E n \in DOMAIN q : q[n] = o
  <2>1. m + 1 \in DOMAIN q /\ q[m + 1] = o
    BY <1>1, <1>2, <1>3, <1>5
  <2> QED BY <2>1
<1> QED BY <1>1, <1>2, <1>4, <1>5

LEMMA InAppend ==
  ASSUME NEW q \in Seq(Opens), NEW x \in Opens, NEW o
  PROVE  /\ Append(q, x) \in Seq(Opens)
         /\ (\E n \in DOMAIN Append(q, x) : Append(q, x)[n] = o) <=>
              (x = o \/ \E n \in DOMAIN q : q[n] = o)
<1>1. /\ Append(q, x) \in Seq(Opens)
      /\ Len(Append(q, x)) = Len(q) + 1 /\ Len(q) \in Nat
      /\ \A i \in 1..Len(q) : Append(q, x)[i] = q[i]
      /\ Append(q, x)[Len(q) + 1] = x
  BY AppendProperties
<1>2. DOMAIN q = 1..Len(q) /\ DOMAIN Append(q, x) = 1..Len(q) + 1
  BY <1>1
<1>3. ASSUME NEW n \in DOMAIN Append(q, x), Append(q, x)[n] = o
      PROVE  x = o \/ \E m \in DOMAIN q : q[m] = o
  BY <1>1, <1>2, <1>3
<1>4. ASSUME x = o \/ \E m \in DOMAIN q : q[m] = o
      PROVE  \E n \in DOMAIN Append(q, x) : Append(q, x)[n] = o
  <2>1. CASE x = o
    <3>1. Len(q) + 1 \in DOMAIN Append(q, x)
      BY <1>1, <1>2
    <3> QED BY <1>1, <2>1, <3>1
  <2>2. ASSUME NEW m \in DOMAIN q, q[m] = o
        PROVE  \E n \in DOMAIN Append(q, x) : Append(q, x)[n] = o
    <3>1. m \in DOMAIN Append(q, x) /\ Append(q, x)[m] = o
      BY <1>1, <1>2, <2>2
    <3> QED BY <3>1
  <2> QED BY <1>4, <2>1, <2>2
<1> QED BY <1>1, <1>3, <1>4

LEMMA EncodeInv ==
  ASSUME DataInv, NEW u \in Pubs, Encode(u)
  PROVE  DataInv'
<1> DEFINE s == pub[u].sess
           f == [id |-> pub[u].id, port |-> pub[u].port]
           r == [sess[s] EXCEPT !.frames = Append(sess[s].frames, f)]
           p == [pub[u] EXCEPT !.pc = "accept"]
<1>1. /\ pub[u].pc = "encode"
      /\ sess' = sess \/ sess' = [sess EXCEPT ![s] = r]
      /\ pub' = [pub EXCEPT ![u] = p]
      /\ UNCHANGED <<cur, hnd>>
  BY DEF Encode
<1>2. /\ s \in 1..cur /\ sess[s] \in SessionRec /\ pub[u] \in PubRec
      /\ pub[u].id \in 1..sess[s].nextID /\ pub[u].port \in Ports
      /\ pub[u].data = Nil
  BY <1>1, Parts DEF DataInv, Stage
<1>3. sess[s].nextID \in 0..MaxConns
  BY <1>2 DEF SessionRec
<1>4. f \in [id: ConnIDs, port: Ports]
  <2>1. pub[u].id \in ConnIDs
    BY <1>2, <1>3, Numbers DEF ConnIDs
  <2> QED BY <1>2, <2>1
<1> HIDE DEF f
<1>5. r \in SessionRec /\ r.nextID = sess[s].nextID
  <2>1. Append(sess[s].frames, f) \in Seq([id: ConnIDs, port: Ports])
    BY <1>2, <1>4 DEF SessionRec
  <2> QED BY <1>2, <2>1 DEF SessionRec
<1>6. /\ p \in PubRec /\ p.pc = "accept"
      /\ p.sess = s /\ p.id = pub[u].id /\ p.port = pub[u].port
      /\ p.queue = pub[u].queue /\ p.data = pub[u].data
  BY <1>2 DEF PubRec
<1> HIDE DEF r, p, s
<1>7. SameIDs
  <2>1. CASE sess' = sess
    BY <1>1, <2>1, SameSessions DEF DataInv
  <2>2. CASE sess' = [sess EXCEPT ![s] = r]
    BY <1>1, <1>2, <1>5, <2>2, SessionUpdate DEF DataInv
  <2> QED BY <1>1, <2>1, <2>2
<1>8. \A o \in Opens : Has(p, o) <=> Has(pub[u], o)
  BY <1>6 DEF Has
<1> QED BY <1>1, <1>2, <1>6, <1>7, <1>8, PubStep DEF s

(* What was first in the queue becomes the data connection.                 *)
LEMMA AcceptInv ==
  ASSUME DataInv, NEW u \in Pubs, Accept(u)
  PROVE  DataInv'
<1> DEFINE q == pub[u].queue
           a == [pub[u] EXCEPT !.pc = "header"]
           b == [a EXCEPT !.queue = Tail(q)]
           p == [b EXCEPT !.data = Head(q)]
<1>1. /\ pub[u].pc = "accept" /\ q # <<>>
      /\ pub' = [pub EXCEPT ![u].pc = "header", ![u].queue = Tail(q), ![u].data = Head(q)]
      /\ UNCHANGED <<sess, cur, hnd>>
  BY DEF Accept
<1>2. pub \in [Pubs -> PubRec] /\ pub[u] \in PubRec /\ q \in Seq(Opens)
  BY Parts DEF DataInv, PubRec
<1>3. pub' = [pub EXCEPT ![u] = p]
  BY <1>1, <1>2
<1>4. pub[u].data = Nil
  BY <1>1 DEF DataInv, Stage
<1>5. /\ Head(q) \in Opens /\ Tail(q) \in Seq(Opens)
      /\ \A o : (\E n \in DOMAIN q : q[n] = o) <=>
                  (Head(q) = o \/ \E n \in DOMAIN Tail(q) : Tail(q)[n] = o)
  BY <1>1, <1>2, HeadOrTail
<1>6. /\ a \in PubRec /\ a.pc = "header"
      /\ a.sess = pub[u].sess /\ a.id = pub[u].id /\ a.port = pub[u].port
  BY <1>2 DEF PubRec
<1> DEFINE h == Head(q)
           t == Tail(q)
<1>7. h \in Opens /\ t \in Seq(Opens)
  BY <1>5
<1> HIDE DEF a, h, t
<1>8. /\ b \in PubRec /\ b.pc = "header" /\ b.queue = t
      /\ b.sess = pub[u].sess /\ b.id = pub[u].id /\ b.port = pub[u].port
  BY <1>6, <1>7 DEF PubRec, t
<1> HIDE DEF b
<1>9. /\ p \in PubRec /\ p.pc = "header" /\ p.queue = t /\ p.data = h
      /\ p.sess = pub[u].sess /\ p.id = pub[u].id /\ p.port = pub[u].port
  BY <1>7, <1>8 DEF PubRec, h
<1> HIDE DEF p
<1>10. ASSUME NEW o \in Opens
       PROVE  Has(p, o) <=> Has(pub[u], o)
  BY <1>4, <1>5, <1>9, Numbers DEF Has, h, t
<1>11. h # Nil
  BY <1>7, Numbers
<1>12. SameIDs
  BY <1>1, SameSessions DEF DataInv
<1> QED BY <1>1, <1>3, <1>9, <1>10, <1>11, <1>12, PubStep

LEMMA ReadHeaderInv ==
  ASSUME DataInv, NEW u \in Pubs, ReadHeader(u)
  PROVE  DataInv'
<1> DEFINE p == [pub[u] EXCEPT !.pc = "relay"]
<1>1. /\ pub[u].pc = "header"
      /\ hnd[pub[u].data].id = pub[u].id
      /\ pub' = [pub EXCEPT ![u] = p]
      /\ UNCHANGED <<sess, cur, hnd>>
  BY DEF ReadHeader, HeaderMatches
<1>2. pub[u] \in PubRec
  BY Parts DEF DataInv
<1>3. /\ p \in PubRec /\ p.pc = "relay" /\ p.queue = pub[u].queue /\ p.data = pub[u].data
      /\ p.sess = pub[u].sess /\ p.id = pub[u].id /\ p.port = pub[u].port
  BY <1>2 DEF PubRec
<1> HIDE DEF p
<1>4. pub[u].data # Nil
  BY <1>1 DEF DataInv, Stage
<1>5. \A o \in Opens : Has(p, o) <=> Has(pub[u], o)
  BY <1>3 DEF Has
<1>6. SameIDs
  BY <1>1, SameSessions DEF DataInv
<1> QED BY <1>1, <1>3, <1>4, <1>5, <1>6, PubStep

LEMMA OpenDataInv ==
  ASSUME DataInv, NEW u \in Pubs, OpenData(u) \/ RelayReturns(u)
  PROVE  DataInv'
<1>1. ASSUME ListenFails(u) \/ EncodeFails(u) \/ Deadline(u) \/ HeaderFails(u)
               \/ RelayReturns(u)
      PROVE  DataInv'
  <2>1. Return(u) /\ UNCHANGED <<sess, cur>>
    BY <1>1 DEF ListenFails, EncodeFails, Deadline, HeaderFails, RelayReturns
  <2> QED BY <2>1, ReturnInv
<1> QED BY <1>1, ListenInv, EncodeInv, AcceptInv, ReadHeaderInv DEF OpenData
-----------------------------------------------------------------------------
(* handleOpen                                                               *)

LEMMA serveInv ==
  ASSUME DataInv, serve
  PROVE  DataInv'
<1> DEFINE o == Free(FreeHandlers)
           f == Head(sess[cur].frames)
           r == [sess[cur] EXCEPT !.frames = Tail(sess[cur].frames)]
           a == [NoHandler EXCEPT !.pc = "dial"]
           b == [a EXCEPT !.sess = cur]
           c == [b EXCEPT !.id = f.id]
           h == [c EXCEPT !.port = f.port]
<1>1. /\ sess[cur].frames # <<>> /\ FreeHandlers # {}
      /\ sess' = [sess EXCEPT ![cur] = r]
      /\ UNCHANGED <<cur, pub>>
  BY DEF serve
<1>2. hnd' = [hnd EXCEPT ![o] = h]
  <2>1. hnd' = [hnd EXCEPT ![o] = [NoHandler EXCEPT !.pc = "dial", !.sess = cur,
                                                    !.id = f.id, !.port = f.port]]
    BY DEF serve
  <2> QED BY <2>1 DEF NoHandler
<1>3. o \in Opens /\ hnd[o].pc = "idle"
  BY <1>1 DEF Free, FreeHandlers
<1> HIDE DEF o
<1>4. cur \in 1..cur /\ sess[cur] \in SessionRec /\ cur \in Sessions
  BY Parts, Numbers DEF DataInv, Sessions
<1>5. f \in [id: ConnIDs, port: Ports]
      /\ Tail(sess[cur].frames) \in Seq([id: ConnIDs, port: Ports])
  <2> DEFINE q == sess[cur].frames
  <2>1. q \in Seq([id: ConnIDs, port: Ports]) /\ q # <<>>
    BY <1>1, <1>4 DEF SessionRec
  <2> HIDE DEF q
  <2>2. Head(q) \in [id: ConnIDs, port: Ports] /\ Tail(q) \in Seq([id: ConnIDs, port: Ports])
    BY <2>1, HeadTailProperties
  <2> QED BY <2>2 DEF q
<1>6. r \in SessionRec /\ r.nextID = sess[cur].nextID
  BY <1>4, <1>5 DEF SessionRec
<1>7. SameIDs
  <2> HIDE DEF r
  <2> QED BY <1>1, <1>4, <1>6, SessionUpdate DEF DataInv
<1> HIDE DEF f, r
<1>8. h \in HandlerRec /\ h.pc = "dial" /\ h.to = Nil /\ h.port # Nil
  <2>1. a \in HandlerRec /\ a.pc = "dial" /\ a.to = Nil
    BY Blank DEF HandlerRec, NoHandler
  <2> HIDE DEF a
  <2>2. b \in HandlerRec /\ b.pc = "dial" /\ b.to = Nil
    BY <1>4, <2>1 DEF HandlerRec
  <2> HIDE DEF b
  <2>3. c \in HandlerRec /\ c.pc = "dial" /\ c.to = Nil
    BY <1>5, <2>2 DEF HandlerRec
  <2> HIDE DEF c
  <2> QED BY <1>5, <2>3, Numbers DEF HandlerRec
<1> HIDE DEF h
<1>9. hnd[o].to = Nil
  BY <1>3 DEF DataInv, NotDialled
<1> QED BY <1>1, <1>2, <1>3, <1>7, <1>8, <1>9, HandlerStep

(* A handleOpen goes on with what it has.                                   *)
LEMMA HandlerGoesOn ==
  ASSUME DataInv, NEW o \in Opens, NEW h, UNCHANGED <<sess, cur, pub>>,
         hnd' = [hnd EXCEPT ![o] = h], h \in HandlerRec,
         h.to = hnd[o].to, h.id = hnd[o].id, h.pc \notin {"idle", "dial"}
  PROVE  DataInv'
BY HandlerStep, SameSessions DEF DataInv

LEMMA EndInv ==
  ASSUME DataInv, NEW o \in Opens, End(o), UNCHANGED <<sess, cur, pub>>
  PROVE  DataInv'
<1> DEFINE g == [hnd[o] EXCEPT !.pc = "gone", !.open = FALSE]
<1>1. hnd' = [hnd EXCEPT ![o] = IF hnd[o].to = Nil THEN NoHandler ELSE g]
  BY DEF End
<1>2. hnd[o] \in HandlerRec
  BY Parts DEF DataInv
<1>3. SameIDs
  BY SameSessions DEF DataInv
<1>4. CASE hnd[o].to = Nil
  <2>1. /\ hnd' = [hnd EXCEPT ![o] = NoHandler]
        /\ NoHandler.to = Nil /\ NoHandler.pc = "idle"
    BY <1>1, <1>4 DEF NoHandler
  <2> QED BY <1>3, <1>4, <2>1, Blank, HandlerStep
<1>5. CASE hnd[o].to # Nil
  <2>1. hnd' = [hnd EXCEPT ![o] = g]
    BY <1>1, <1>5
  <2>2. g \in HandlerRec /\ g.pc = "gone" /\ g.to = hnd[o].to /\ g.id = hnd[o].id
    BY <1>2, FALSE \in BOOLEAN DEF HandlerRec
  <2> HIDE DEF g
  <2> QED BY <2>1, <2>2, HandlerGoesOn
<1> QED BY <1>4, <1>5

LEMMA WriteHeaderInv ==
  ASSUME DataInv, NEW o \in Opens, WriteHeader(o)
  PROVE  DataInv'
<1> DEFINE a == [hnd[o] EXCEPT !.pc = "lookup"]
           h == [a EXCEPT !.head = TRUE]
<1>1. hnd[o] \in HandlerRec /\ hnd \in [Opens -> HandlerRec]
  BY Parts DEF DataInv
<1>2. hnd' = [hnd EXCEPT ![o].pc = "lookup", ![o].head = TRUE]
      /\ UNCHANGED <<sess, cur, pub>>
  BY DEF WriteHeader
<1>3. hnd' = [hnd EXCEPT ![o] = h]
  BY <1>1, <1>2
<1>4. a \in HandlerRec /\ a.pc = "lookup" /\ a.to = hnd[o].to /\ a.id = hnd[o].id
  BY <1>1 DEF HandlerRec
<1> HIDE DEF a
<1>5. h \in HandlerRec /\ h.pc = "lookup" /\ h.to = hnd[o].to /\ h.id = hnd[o].id
  BY <1>4 DEF HandlerRec
<1> HIDE DEF h
<1> QED BY <1>2, <1>3, <1>5, HandlerGoesOn

LEMMA DialTargetInv ==
  ASSUME DataInv, NEW o \in Opens, DialTarget(o)
  PROVE  DataInv'
<1> DEFINE h == [hnd[o] EXCEPT !.pc = "relay"]
<1>1. hnd[o] \in HandlerRec
  BY Parts DEF DataInv
<1>2. hnd' = [hnd EXCEPT ![o] = h] /\ UNCHANGED <<sess, cur, pub>>
  BY DEF DialTarget
<1>3. h \in HandlerRec /\ h.pc = "relay" /\ h.to = hnd[o].to /\ h.id = hnd[o].id
  BY <1>1 DEF HandlerRec
<1> HIDE DEF h
<1> QED BY <1>2, <1>3, HandlerGoesOn

(* Whoever listens on the port of the frame now has the connection.         *)
LEMMA DialInv ==
  ASSUME DataInv, NEW o \in Opens, Dial(o)
  PROVE  DataInv'
<1>1. PICK u \in Pubs :
        /\ pub[u].port = hnd[o].port
        /\ pub' = [pub EXCEPT ![u].queue = Append(@, o)]
        /\ hnd' = [hnd EXCEPT ![o].pc = "write", ![o].to = u, ![o].open = TRUE]
  BY DEF Dial
<1>2. hnd[o].pc = "dial" /\ UNCHANGED <<sess, cur>>
  BY DEF Dial
<1> DEFINE a == [hnd[o] EXCEPT !.pc = "write"]
           b == [a EXCEPT !.to = u]
           h == [b EXCEPT !.open = TRUE]
           p == [pub[u] EXCEPT !.queue = Append(pub[u].queue, o)]
<1>3. /\ pub \in [Pubs -> PubRec] /\ hnd \in [Opens -> HandlerRec]
      /\ pub[u] \in PubRec /\ hnd[o] \in HandlerRec /\ pub[u].queue \in Seq(Opens)
  BY Parts DEF DataInv, PubRec
<1>4. hnd' = [hnd EXCEPT ![o] = h] /\ pub' = [pub EXCEPT ![u] = p]
  BY <1>1, <1>3
<1>5. h \in HandlerRec /\ h.pc = "write" /\ h.to = u
  <2>1. a \in HandlerRec /\ a.pc = "write"
    BY <1>3 DEF HandlerRec
  <2> HIDE DEF a
  <2>2. b \in HandlerRec /\ b.pc = "write" /\ b.to = u
    BY <2>1 DEF HandlerRec
  <2> HIDE DEF b
  <2> QED BY <2>2 DEF HandlerRec
<1> DEFINE w == pub[u].queue
           t == Append(w, o)
<1>6. /\ t \in Seq(Opens)
      /\ \A q \in Opens : (\E n \in DOMAIN t : t[n] = q) <=>
                            (o = q \/ \E n \in DOMAIN w : w[n] = q)
  <2>1. w \in Seq(Opens)
    BY <1>3
  <2> HIDE DEF w
  <2>2. t \in Seq(Opens)
    BY <2>1, InAppend
  <2>3. ASSUME NEW q \in Opens
        PROVE  (\E n \in DOMAIN t : t[n] = q) <=> (o = q \/ \E n \in DOMAIN w : w[n] = q)
    BY <2>1, InAppend
  <2> QED BY <2>2, <2>3
<1>7. /\ p \in PubRec /\ p.pc = pub[u].pc /\ p.queue = t
      /\ p.sess = pub[u].sess /\ p.id = pub[u].id /\ p.port = pub[u].port
      /\ p.data = pub[u].data
  BY <1>3, <1>6 DEF PubRec
<1> HIDE DEF h, p, t
<1>8. /\ pub' \in [Pubs -> PubRec] /\ hnd' \in [Opens -> HandlerRec]
      /\ pub'[u] = p /\ hnd'[o] = h
      /\ \A v \in Pubs : v # u => pub'[v] = pub[v]
      /\ \A q \in Opens : q # o => hnd'[q] = hnd[q]
  BY <1>3, <1>4, <1>5, <1>7
<1>9. hnd[o].to = Nil /\ hnd[o].port # Nil
  BY <1>2 DEF DataInv, NotDialled
<1>10. pub[u].pc \notin {"idle", "listen"}
  BY <1>1, <1>9 DEF DataInv, Stage
<1>11. SameIDs
  BY <1>2, SameSessions DEF DataInv
<1>12. TypeOK'
  BY <1>8, <1>11, TypesKept
<1>13. Room'
  <2>1. Listening' \subseteq Listening
    BY <1>7, <1>8 DEF Listening
  <2> QED BY <1>11, <2>1, RoomKept
<1>14. ASSUME NEW v \in Pubs
       PROVE  Stage(v)'
  <2>1. Stage(v) /\ pub[v] \in PubRec
    BY <1>3 DEF DataInv
  <2>2. ASSUME pub[v].pc = "relay"
        PROVE  hnd'[pub[v].data] = hnd[pub[v].data]
    <3>1. pub[v].data \in Opens
      BY <2>1, <2>2 DEF Stage, PubRec
    <3>2. hnd[pub[v].data].to = v
      BY <3>1 DEF DataInv, DataOwned, Holds
    <3>3. pub[v].data # o
      BY <1>9, <3>2, Numbers
    <3> QED BY <1>8, <3>1, <3>3
  <2>3. CASE v = u
    BY <1>2, <1>7, <1>8, <1>10, <2>1, <2>2, <2>3 DEF Stage
  <2>4. CASE v # u
    BY <1>2, <1>8, <2>1, <2>2, <2>4 DEF Stage
  <2> QED BY <2>3, <2>4
<1>15. IDsDiffer'
  <2>1. \A v \in Pubs : pub'[v].id = pub[v].id /\ pub'[v].sess = pub[v].sess
    BY <1>7, <1>8
  <2> QED BY <2>1 DEF DataInv, IDsDiffer
<1>16. \A q \in Opens : NotDialled(q)'
  BY <1>5, <1>8 DEF DataInv, NotDialled
<1>17. DataOwned'
  <2> SUFFICES ASSUME NEW q \in Opens, NEW v \in Pubs
               PROVE  hnd'[q].to = v <=> Has(pub'[v], q)
    BY DEF DataOwned, Holds, Has
  <2>1. hnd[q].to = v <=> Has(pub[v], q)
    BY DEF DataInv, DataOwned, Holds, Has
  <2>2. Has(pub'[v], q) <=> Has(pub[v], q) \/ (v = u /\ q = o)
    <3>1. CASE v = u
      <4>1. (\E n \in DOMAIN t : t[n] = q) <=> (o = q \/ \E n \in DOMAIN w : w[n] = q)
        BY <1>6
      <4>2. Has(p, q) <=> p.data = q \/ \E n \in DOMAIN t : t[n] = q
        BY <1>7 DEF Has
      <4>3. Has(pub[u], q) <=> p.data = q \/ \E n \in DOMAIN w : w[n] = q
        BY <1>7 DEF Has
      <4> QED BY <1>8, <3>1, <4>1, <4>2, <4>3
    <3>2. CASE v # u
      BY <1>8, <3>2
    <3> QED BY <3>1, <3>2
  <2>3. CASE q = o
    BY <1>5, <1>8, <1>9, <2>1, <2>2, <2>3, Numbers
  <2>4. CASE q # o
    BY <1>8, <2>1, <2>2, <2>4
  <2> QED BY <2>3, <2>4
<1> QED BY <1>12, <1>13, <1>14, <1>15, <1>16, <1>17 DEF DataInv

LEMMA HandleOpenInv ==
  ASSUME DataInv, NEW o \in Opens, HandleOpen(o) \/ HandlerReturns(o)
  PROVE  DataInv'
<1>1. ASSUME DialFails(o) \/ WriteFails(o) \/ NoTarget(o) \/ HandlerReturns(o)
      PROVE  DataInv'
  <2>1. End(o) /\ UNCHANGED <<sess, cur, pub>>
    BY <1>1 DEF DialFails, WriteFails, NoTarget, HandlerReturns
  <2> QED BY <2>1, EndInv
<1> QED BY <1>1, DialInv, WriteHeaderInv, DialTargetInv DEF HandleOpen
-----------------------------------------------------------------------------
(* DataInv is inductive                                                     *)

LEMMA InitInv == Init => DataInv
<1> SUFFICES ASSUME Init PROVE DataInv
  OBVIOUS
<1>1. /\ sess = <<NewSession>> /\ cur = 1
      /\ pub = [u \in Pubs |-> NoPub]
      /\ hnd = [o \in Opens |-> NoHandler]
  BY DEF Init
<1>2. NewSession \in SessionRec /\ NewSession.nextID = 0
  <2>1. <<>> \in Seq([id: ConnIDs, port: Ports]) /\ 0 \in 0..MaxConns
    BY Numbers
  <2> QED BY <2>1 DEF NewSession, SessionRec
<1>3. TypeOK
  <2>1. sess \in Seq(SessionRec) /\ Len(sess) = 1
    <3> HIDE DEF NewSession
    <3> QED BY <1>1, <1>2
  <2>2. 1 \in Sessions
    BY Numbers DEF Sessions
  <2>3. pub \in [Pubs -> PubRec] /\ hnd \in [Opens -> HandlerRec]
    BY <1>1, Blank
  <2> QED BY <1>1, <2>1, <2>2, <2>3 DEF TypeOK, SessionRec, PubRec, HandlerRec
<1>4. /\ NoPub.pc = "idle" /\ NoPub.sess = Nil /\ NoPub.id = Nil /\ NoPub.port = Nil
      /\ NoPub.queue = <<>> /\ NoPub.data = Nil
      /\ NoHandler.pc = "idle" /\ NoHandler.to = Nil
  BY DEF NoPub, NoHandler
<1>5. Room
  <2>1. Listening = {}
    BY <1>1, <1>4 DEF Listening
  <2>2. ASSUME NEW x \in Drawn
        PROVE  FALSE
    <3>1. x \in (1..cur) \X ConnIDs /\ x[2] <= sess[x[1]].nextID
      BY DEF Drawn
    <3>2. x[1] \in 1..cur /\ x[2] \in ConnIDs
      BY <3>1
    <3>3. x[1] = 1 /\ x[2] >= 1 /\ x[2] \in Nat
      BY <1>1, <3>2, Numbers DEF ConnIDs
    <3>4. sess[x[1]].nextID = 0
      <4> HIDE DEF NewSession
      <4> QED BY <1>1, <1>2, <3>3
    <3> QED BY <3>1, <3>3, <3>4
  <2>3. Drawn = {}
    BY <2>2
  <2>4. Cardinality(Drawn) = 0 /\ Cardinality(Listening) = 0
    BY <2>1, <2>3, FS_EmptySet
  <2> QED BY <2>4, Numbers DEF Room
<1>6. \A u \in Pubs : Stage(u)
  BY <1>1, <1>4 DEF Stage
<1>7. IDsDiffer
  BY <1>1, <1>4 DEF IDsDiffer
<1>8. \A o \in Opens : NotDialled(o)
  BY <1>1, <1>4 DEF NotDialled
<1>9. DataOwned
  BY <1>1, <1>4, Numbers DEF DataOwned, Holds
<1> QED BY <1>3, <1>5, <1>6, <1>7, <1>8, <1>9 DEF DataInv

LEMMA NextInv == DataInv /\ [Next]_vars => DataInv'
<1> SUFFICES ASSUME DataInv, [Next]_vars PROVE DataInv'
  OBVIOUS
<1>1. CASE Environment
  BY <1>1, LoseInv, ReconnectInv, CloseSessionInv, acceptPublicInv DEF Environment
<1>2. CASE serve
  BY <1>2, serveInv
<1>3. ASSUME NEW u \in Pubs, OpenData(u) \/ RelayReturns(u)
      PROVE  DataInv'
  BY <1>3, OpenDataInv
<1>4. ASSUME NEW o \in Opens, HandleOpen(o) \/ HandlerReturns(o)
      PROVE  DataInv'
  BY <1>4, HandleOpenInv
<1>5. CASE UNCHANGED vars
  <2>1. SameIDs /\ UNCHANGED <<pub, hnd>>
    BY <1>5, SameSessions DEF DataInv, vars
  <2> QED BY <2>1, SessionStep
<1> QED BY <1>1, <1>2, <1>3, <1>4, <1>5 DEF Next

(* The inductive invariant holds for any number of public connections, open *)
(* frames and sessions.                                                     *)
THEOREM DataInvariant == Spec => []DataInv
<1>1. Init => DataInv
  BY InitInv
<1>2. DataInv /\ [Next]_vars => DataInv'
  BY NextInv
<1> QED BY <1>1, <1>2, PTL DEF Spec

(* The records of the sessions and of the goroutines keep their types, and  *)
(* no session draws more IDs than there are connections.                    *)
THEOREM TypeCorrect == Spec => []TypeOK
<1>1. DataInv => TypeOK
  BY DEF DataInv
<1> QED BY <1>1, DataInvariant, PTL

(* openData relays a public connection with the data connection opened for  *)
(* it, and a session has no other connection under its ID.                  *)
THEOREM ConnectionsMatched == Spec => []Matched
<1>1. DataInv => Matched
  <2> SUFFICES ASSUME DataInv, NEW u \in Pubs, pub[u].pc = "relay"
               PROVE  /\ hnd[pub[u].data].id = pub[u].id
                      /\ \A v \in Pubs \ {u} :
                           pub[v].sess = pub[u].sess => pub[v].id # pub[u].id
    BY DEF Matched
  <2>1. /\ hnd[pub[u].data].id = pub[u].id
        /\ pub[u].id \in 1..sess[pub[u].sess].nextID
    BY DEF DataInv, Stage
  <2>2. pub[u].id # Nil
    BY <2>1, Numbers
  <2> QED BY <2>1, <2>2 DEF DataInv, IDsDiffer
<1> QED BY <1>1, DataInvariant, PTL

(* The server's end of a data connection is in one place: accepted by one   *)
(* openData goroutine, or in the queue of its listener.                     *)
THEOREM DataConnectionsOwned == Spec => []DataOwned
<1>1. DataInv => DataOwned
  BY DEF DataInv
<1> QED BY <1>1, DataInvariant, PTL
=============================================================================
