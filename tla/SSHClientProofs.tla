-------------------------- MODULE SSHClientProofs --------------------------
(***************************************************************************)
(* Proofs about SSHClient, for every number of callers, rules, connections *)
(* and entries.  ClientInv is the inductive invariant: its parts say what  *)
(* a goroutine holds at each label (HeldOK), who owns an entry (EntsOK),   *)
(* which connection can be up (ConnOK), which content a subscribe under    *)
(* way will use (AgreeOK) and that no rule falls between the goroutines    *)
(* (ForgottenOK).  The five safety invariants follow from it.              *)
(***************************************************************************)
EXTENDS SSHClient, TLAPS

(* What a call and Run hold at each label.                                  *)
HeldOK ==
  /\ \A p \in Callers :
       /\ at(p, "idle") => frame[p].conn = Nil
       /\ at(p, "sub") => /\ frame[p].id \in IDs
                          /\ frame[p].content \in Contents
                          /\ frame[p].conn \in Conns
       /\ ~at(p, "closing") => frame[p].closing = {}
       /\ frame[p].ent # Nil => ent[frame[p].ent] # Nil
  /\ run.pc = "told" <=> run.ent # Nil
  /\ run.ent # Nil => ent[run.ent] # Nil
  /\ run.pc \notin {"sub", "told"} => run.todo = NoRules
  /\ run.pc \in {"top", "dial", "stopped"} <=> run.conn = Nil

(* An entry in c.lns or in the hands of a Shutdown has its stop channel     *)
(* open and no other owner, and an open listener has an owner.              *)
EntsOK ==
  /\ \A i \in IDs : lns[i] # Nil =>
       /\ ent[lns[i]] # Nil
       /\ ent[lns[i]].id = i
       /\ ent[lns[i]].stops = 0
  /\ \A p \in Callers : \A e \in frame[p].closing :
       /\ ent[e] # Nil
       /\ ent[e].stops = 0
       /\ \A i \in IDs : lns[i] # e
       /\ \A q \in Callers \ {p} : e \notin frame[q].closing
  /\ StopsOnce
  /\ ListenersOwned

(* No Shutdown is about to close the connection Run works with.             *)
Undisturbed == \A p \in Callers : at(p, "closing") => frame[p].conn # run.conn

(* Only Run's connection is up; nobody else has seen it before it is        *)
(* published, and afterwards only a Shutdown takes it out of c.conn.        *)
ConnOK ==
  /\ alive \subseteq {run.conn}
  /\ run.pc \in {"top", "dial", "drain", "clear", "stopped"} => alive = {}
  /\ run.pc = "install" =>
       conn # run.conn /\ \A p \in Callers : frame[p].conn # run.conn
  /\ run.pc \in {"snapshot", "sub", "told", "wait"} /\ run.conn \in alive
       /\ Undisturbed => conn = run.conn

(* A rule without a listener takes effect as it is registered.  Until it    *)
(* changes with a subscribe under way, its listener has the content that    *)
(* took effect, and every subscribe that can still succeed the one it is    *)
(* registered with.                                                         *)
EffectOK == \A id \in IDs : lns[id] = Nil => effective[id] = pending[id]

AgreeOK ==
  /\ EffectOK
  /\ \A id \in IDs \ raced :
    /\ lns[id] # Nil => pending[id] # Nil /\ ent[lns[id]].content = effective[id]
    /\ \A p \in Callers :
         at(p, "sub") /\ frame[p].id = id /\ frame[p].conn \in alive
           => frame[p].content = pending[id]
    /\ run.todo[id] # Nil => run.todo[id] = pending[id]

(* NothingForgotten from the snapshot on, with the calls that count: those  *)
(* on the connection Run works with.                                        *)
ForgottenOK ==
  run.pc \in {"sub", "told", "wait"} /\ run.conn \in alive /\ Undisturbed =>
    \A id \in IDs : pending[id] # Nil =>
      \/ lns[id] # Nil \/ id \in refused \/ run.todo[id] # Nil
      \/ \E p \in Callers :
           at(p, "sub") /\ frame[p].id = id /\ frame[p].conn = run.conn

ClientInv ==
  TypeOK /\ HeldOK /\ EntsOK /\ ConnOK /\ AgreeOK /\ ForgottenOK
-----------------------------------------------------------------------------
(* Steps that make no entry and close no stop channel.                      *)
EntsKept ==
  /\ ent' \in [Ents -> Entry \cup {Nil}]
  /\ \A e \in Ents : ent[e] = Nil <=> ent'[e] = Nil
  /\ \A e \in Ents : ent[e] # Nil =>
       /\ ent'[e].id = ent[e].id
       /\ ent'[e].content = ent[e].content
       /\ ent'[e].conn = ent[e].conn
       /\ ent'[e].stops = ent[e].stops
       /\ ent'[e].open => ent[e].open

(* Closing listeners, because they are closed or their connection ends,     *)
(* is such a step, and closes them.                                         *)
LEMMA ClosedKeeps ==
  ASSUME TypeOK, NEW E, \A e \in Ents \cap E : ent[e] # Nil,
         ent' = Closed(E)
  PROVE  EntsKept /\ \A e \in Ents \cap E : ~ent'[e].open
<1>1. ASSUME NEW e \in Ents, ent[e] # Nil
      PROVE  /\ [ent[e] EXCEPT !.open = FALSE] \in Entry
             /\ [ent[e] EXCEPT !.open = FALSE] # Nil
  <2>1. ent[e] \in Entry
    BY <1>1 DEF TypeOK
  <2>2. [ent[e] EXCEPT !.open = FALSE] \in Entry
    BY <2>1 DEF Entry
  <2> QED BY <2>2, NilAssumption
<1>2. ent' \in [Ents -> Entry \cup {Nil}]
  BY <1>1 DEF TypeOK, Closed
<1>3. ASSUME NEW e \in Ents, e \notin E
      PROVE  ent'[e] = ent[e]
  BY <1>3 DEF Closed
<1>4. ASSUME NEW e \in Ents, e \in E
      PROVE  /\ ent[e] # Nil
             /\ ent'[e] = [ent[e] EXCEPT !.open = FALSE]
             /\ ent[e] \in Entry
             /\ ent'[e] # Nil
  BY <1>1, <1>4 DEF Closed, TypeOK
<1>5. ASSUME NEW e \in Ents, e \in E
      PROVE  /\ ent'[e].id = ent[e].id
             /\ ent'[e].content = ent[e].content
             /\ ent'[e].conn = ent[e].conn
             /\ ent'[e].stops = ent[e].stops
             /\ ~ent'[e].open
  BY <1>4, <1>5 DEF Entry
<1> QED BY <1>2, <1>3, <1>4, <1>5 DEF EntsKept

(* So is a change of the accept loop.                                       *)
LEMMA LoopKeeps ==
  ASSUME TypeOK, NEW x \in Ents, ent[x] # Nil, NEW l \in {"none", "accept", "done"},
         ent' = [ent EXCEPT ![x].loop = l]
  PROVE  EntsKept
<1>1. /\ ent[x] \in Entry
      /\ ent'[x] = [ent[x] EXCEPT !.loop = l]
      /\ \A e \in Ents \ {x} : ent'[e] = ent[e]
  BY DEF TypeOK
<1>2. ent'[x] \in Entry /\ ent'[x] # Nil
  BY <1>1, NilAssumption DEF Entry
<1>3. ent' \in [Ents -> Entry \cup {Nil}]
  BY <1>1, <1>2 DEF TypeOK
<1>4. /\ ent'[x].id = ent[x].id
      /\ ent'[x].content = ent[x].content
      /\ ent'[x].conn = ent[x].conn
      /\ ent'[x].stops = ent[x].stops
      /\ ent'[x].open = ent[x].open
  BY <1>1 DEF Entry
<1> QED BY <1>1, <1>2, <1>3, <1>4 DEF EntsKept

LEMMA SpawnedKeeps ==
  ASSUME TypeOK, NEW x \in Ents \cup {Nil}, x # Nil => ent[x] # Nil, ent' = Spawned(x)
  PROVE  EntsKept
<1>1. CASE x = Nil
  BY <1>1 DEF Spawned, EntsKept, TypeOK
<1>2. CASE x # Nil
  BY <1>2, LoopKeeps DEF Spawned
<1> QED BY <1>1, <1>2

LEMMA EndKeeps ==
  ASSUME TypeOK, NEW k \in Conns, End(k)
  PROVE  EntsKept
<1>1. \A e \in Ents \cap OpenOn(k) : ent[e] # Nil
  BY DEF OpenOn
<1>2. ent' = Closed(OpenOn(k))
  BY DEF End
<1> HIDE DEF OpenOn
<1> QED BY <1>1, <1>2, ClosedKeeps

(* Dropping c.lns: whoever is still open is being shut down.                *)
LEMMA DropKeeps ==
  ASSUME TypeOK, EntsOK, ent' = Closed(Listening)
  PROVE  /\ EntsKept
         /\ \A i \in IDs : lns[i] # Nil => ~ent'[lns[i]].open
<1>1. \A e \in Ents \cap Listening : ent[e] # Nil
  BY DEF EntsOK, Listening
<1>2. \A i \in IDs : lns[i] # Nil => lns[i] \in Ents \cap Listening
  BY DEF TypeOK, Listening
<1> HIDE DEF Listening
<1>3. EntsKept /\ \A e \in Ents \cap Listening : ~ent'[e].open
  BY <1>1, ClosedKeeps
<1> QED BY <1>2, <1>3

-----------------------------------------------------------------------------
(* Steps of the environment and of the accept loops                         *)

(* A step that at most closes listeners, ends loops and connections.        *)
LEMMA FadeInv ==
  ASSUME ClientInv, EntsKept, alive' \subseteq alive,
         UNCHANGED <<pending, lns, conn, run, backoff, frame, refused, raced, effective>>,
         cancelled' \in BOOLEAN
  PROVE  ClientInv'
<1>1. TypeOK'
  BY DEF ClientInv, TypeOK, EntsKept
<1>2. HeldOK'
  BY DEF ClientInv, TypeOK, EntsKept, HeldOK, at
<1>3. EntsOK'
  BY DEF ClientInv, TypeOK, EntsKept, EntsOK, StopsOnce, ListenersOwned
<1>4. ConnOK'
  BY DEF ClientInv, ConnOK, Undisturbed, at
<1>5. AgreeOK'
  BY DEF ClientInv, TypeOK, EntsKept, EntsOK, AgreeOK, EffectOK, at
<1>6. ForgottenOK'
  BY DEF ClientInv, ForgottenOK, Undisturbed, at
<1> QED BY <1>1, <1>2, <1>3, <1>4, <1>5, <1>6 DEF ClientInv

LEMMA ConnDiesInv ==
  ASSUME ClientInv, NEW k \in Conns, ConnDies(k)
  PROVE  ClientInv'
<1>1. EntsKept
  BY EndKeeps DEF ConnDies, ClientInv
<1> QED BY <1>1, FadeInv DEF ConnDies, End, ClientInv, TypeOK

LEMMA CancelInv ==
  ASSUME ClientInv, Cancel
  PROVE  ClientInv'
<1>1. EntsKept
  BY DEF Cancel, EntsKept, ClientInv, TypeOK
<1> QED BY <1>1, FadeInv DEF Cancel

LEMMA AcceptEOFInv ==
  ASSUME ClientInv, NEW e \in Ents, AcceptEOF(e)
  PROVE  ClientInv'
<1>1. EntsKept
  BY LoopKeeps DEF AcceptEOF, ClientInv
<1> QED BY <1>1, FadeInv DEF AcceptEOF, ClientInv, TypeOK
-----------------------------------------------------------------------------
(* The calls                                                                *)

LEMMA AddBeginInv ==
  ASSUME ClientInv, NEW p \in Callers, NEW id \in IDs, NEW c \in Contents,
         AddBegin(p, id, c)
  PROVE  ClientInv'
<1> DEFINE f == [Idle EXCEPT !.pc = IF conn # Nil THEN "sub" ELSE "told",
                             !.id = id, !.content = c, !.conn = conn]
<1>1. /\ f.pc \in {"sub", "told"}
      /\ f.pc = "sub" <=> conn # Nil
      /\ f.id = id
      /\ f.content = c
      /\ f.conn = conn
      /\ f.ent = Nil
      /\ f.closing = {}
      /\ f \in [pc: {"idle", "sub", "told", "closing"}, id: IDs \cup {Nil},
                content: Contents \cup {Nil}, conn: Conns \cup {Nil},
                ent: Ents \cup {Nil}, closing: SUBSET Ents]
  BY DEF Idle, ClientInv, TypeOK
<1>2. /\ frame' = [frame EXCEPT ![p] = f]
      /\ at(p, "idle")
      /\ pending' = [pending EXCEPT ![id] = c]
  BY DEF AddBegin
<1> HIDE DEF f
<1>3. /\ frame'[p] = f
      /\ \A q \in Callers \ {p} : frame'[q] = frame[q]
  BY <1>2 DEF ClientInv, TypeOK
<1>4. /\ pending'[id] = c
      /\ \A i \in IDs \ {id} : pending'[i] = pending[i]
  BY <1>2 DEF ClientInv, TypeOK
<1>5. TypeOK'
  <2>1. frame' \in [Callers ->
          [pc: {"idle", "sub", "told", "closing"}, id: IDs \cup {Nil},
           content: Contents \cup {Nil}, conn: Conns \cup {Nil},
           ent: Ents \cup {Nil}, closing: SUBSET Ents]]
    BY <1>1, <1>2 DEF ClientInv, TypeOK
  <2>2. pending' \in [IDs -> Contents \cup {Nil}]
    BY <1>2 DEF ClientInv, TypeOK
  <2>3. refused' \subseteq IDs /\ raced' \subseteq IDs
    BY DEF ClientInv, TypeOK, AddBegin
  <2> QED BY <2>1, <2>2, <2>3 DEF ClientInv, TypeOK, AddBegin
<1>6. HeldOK'
  <2>1. ASSUME NEW q \in Callers
        PROVE  /\ at(q, "idle")' => frame'[q].conn = Nil
               /\ at(q, "sub")' => /\ frame'[q].id \in IDs
                                  /\ frame'[q].content \in Contents
                                  /\ frame'[q].conn \in Conns
               /\ ~at(q, "closing")' => frame'[q].closing = {}
               /\ frame'[q].ent # Nil => ent'[frame'[q].ent] # Nil
    <3>1. CASE q = p
      BY <1>1, <1>3, <3>1 DEF ClientInv, TypeOK, at
    <3>2. CASE q # p
      BY <1>3, <3>2 DEF ClientInv, AddBegin, HeldOK, at
    <3> QED BY <3>1, <3>2
  <2> QED BY <2>1 DEF ClientInv, AddBegin, HeldOK
<1>7. EntsOK'
  <2>1. frame[p].closing = {}
    BY <1>2 DEF ClientInv, HeldOK, at
  <2>2. \A q \in Callers : frame'[q].closing = frame[q].closing
    BY <1>1, <1>3, <2>1
  <2> QED BY <2>2 DEF ClientInv, AddBegin, EntsOK, StopsOnce, ListenersOwned
<1>8. Undisturbed' => Undisturbed
  BY <1>2, <1>3 DEF AddBegin, Undisturbed, at
<1>9. ConnOK'
  BY <1>1, <1>3, <1>8 DEF ClientInv, AddBegin, ConnOK
<1>10. AgreeOK'
  <2>1. /\ EffectOK'
        /\ \A i \in IDs : lns[i] # Nil => effective'[i] = effective[i]
    BY <1>4 DEF ClientInv, TypeOK, AddBegin, AgreeOK, EffectOK
  <2>2. c # Nil /\ UNCHANGED <<lns, ent, alive, run>>
    BY NilAssumption DEF AddBegin
  <2> SUFFICES ASSUME NEW i \in IDs \ raced'
               PROVE  /\ lns[i] # Nil =>
                           pending'[i] # Nil /\ ent[lns[i]].content = effective[i]
                      /\ \A q \in Callers :
                           at(q, "sub")' /\ frame'[q].id = i /\ frame'[q].conn \in alive
                             => frame'[q].content = pending'[i]
                      /\ run.todo[i] # Nil => run.todo[i] = pending'[i]
    BY <2>1, <2>2 DEF AgreeOK, at
  <2>3. i \notin raced
    BY DEF AddBegin
  <2>4. CASE i = id
    <3>1. ~Subscribing(id)
      BY <2>4 DEF AddBegin
    <3> QED BY <1>1, <1>3, <1>4, <2>2, <2>3, <2>4, <3>1
            DEF ClientInv, AgreeOK, Subscribing, at
  <2>5. CASE i # id
    BY <1>1, <1>3, <1>4, <2>3, <2>5 DEF ClientInv, AgreeOK, at
  <2> QED BY <2>4, <2>5
<1>11. ForgottenOK'
  <2> SUFFICES ASSUME run.pc \in {"sub", "told", "wait"}, run.conn \in alive,
                      Undisturbed, NEW i \in IDs, pending'[i] # Nil
               PROVE  \/ lns[i] # Nil \/ i \in refused' \/ run.todo[i] # Nil
                      \/ \E q \in Callers :
                           at(q, "sub")' /\ frame'[q].id = i /\ frame'[q].conn = run.conn
    BY <1>8 DEF AddBegin, ForgottenOK
  <2>1. CASE i = id
    <3>1. conn = run.conn /\ conn # Nil
      BY NilAssumption DEF ClientInv, TypeOK, ConnOK
    <3> QED BY <1>1, <1>3, <2>1, <3>1 DEF at
  <2>2. CASE i # id
    BY <1>2, <1>3, <1>4, <2>2 DEF ClientInv, AddBegin, ForgottenOK, at
  <2> QED BY <2>1, <2>2
<1> QED BY <1>5, <1>6, <1>7, <1>9, <1>10, <1>11 DEF ClientInv

(* A call that ends, with or without a listener closed on the way.          *)
LEMMA CallEnds ==
  ASSUME ClientInv, NEW p \in Callers, EntsKept, alive' \subseteq alive,
         frame' = [frame EXCEPT ![p] = Idle], frame[p].closing = {},
         at(p, "closing") => alive' = alive \ {frame[p].conn},
         at(p, "sub") => lns[frame[p].id] # Nil \/ frame[p].id \in refused'
                           \/ frame[p].conn \notin alive,
         refused \subseteq refused', refused' \subseteq IDs,
         UNCHANGED <<pending, lns, conn, run, backoff, cancelled, raced, effective>>
  PROVE  ClientInv'
<1>1. /\ Idle.pc = "idle"
      /\ Idle.id = Nil
      /\ Idle.conn = Nil
      /\ Idle.ent = Nil
      /\ Idle.closing = {}
      /\ Idle \in [pc: {"idle", "sub", "told", "closing"}, id: IDs \cup {Nil},
                   content: Contents \cup {Nil}, conn: Conns \cup {Nil},
                   ent: Ents \cup {Nil}, closing: SUBSET Ents]
  BY DEF Idle
<1>2. /\ frame'[p] = Idle
      /\ \A q \in Callers \ {p} : frame'[q] = frame[q]
  BY DEF ClientInv, TypeOK
<1>3. TypeOK'
  BY <1>1 DEF ClientInv, TypeOK, EntsKept
<1>4. HeldOK'
  BY <1>1, <1>2 DEF ClientInv, TypeOK, EntsKept, HeldOK, at
<1>5. EntsOK'
  <2>1. \A q \in Callers : frame'[q].closing = frame[q].closing
    BY <1>1, <1>2
  <2>2. \A i \in IDs : lns'[i] # Nil =>
          ent'[lns'[i]] # Nil /\ ent'[lns'[i]].id = i /\ ent'[lns'[i]].stops = 0
    BY DEF ClientInv, TypeOK, EntsKept, EntsOK
  <2>3. ASSUME NEW q \in Callers, NEW e \in frame'[q].closing
        PROVE  /\ ent'[e] # Nil
               /\ ent'[e].stops = 0
               /\ \A i \in IDs : lns'[i] # e
               /\ \A r \in Callers \ {q} : e \notin frame'[r].closing
    <3>1. e \in Ents /\ e \in frame[q].closing
      BY <2>1, <2>3 DEF ClientInv, TypeOK
    <3> QED BY <2>1, <3>1 DEF ClientInv, EntsKept, EntsOK
  <2>4. StopsOnce'
    BY DEF ClientInv, EntsKept, EntsOK, StopsOnce
  <2>5. ListenersOwned'
    BY <2>1 DEF ClientInv, EntsKept, EntsOK, ListenersOwned
  <2> QED BY <2>2, <2>3, <2>4, <2>5 DEF EntsOK
<1>6. run.conn \in alive' /\ Undisturbed' => run.conn \in alive /\ Undisturbed
  BY <1>2 DEF Undisturbed, at
<1>7. ConnOK'
  <2>1. run.pc = "install" => run.conn # Nil
    BY DEF ClientInv, HeldOK
  <2> QED BY <1>1, <1>2, <1>6, <2>1 DEF ClientInv, ConnOK
<1>8. AgreeOK'
  BY <1>1, <1>2 DEF ClientInv, TypeOK, EntsKept, EntsOK, AgreeOK, EffectOK, at
<1>9. ForgottenOK'
  BY <1>1, <1>2, <1>6 DEF ClientInv, ForgottenOK, at
<1> QED BY <1>3, <1>4, <1>5, <1>7, <1>8, <1>9 DEF ClientInv
LEMMA AddReportInv ==
  ASSUME ClientInv, NEW p \in Callers, AddReport(p)
  PROVE  ClientInv'
<1>1. /\ at(p, "told")
      /\ ent' = Spawned(frame[p].ent)
      /\ frame' = [frame EXCEPT ![p] = Idle]
  BY DEF AddReport
<1>2. /\ frame[p].closing = {}
      /\ ~at(p, "sub")
      /\ ~at(p, "closing")
      /\ frame[p].ent \in Ents \cup {Nil}
      /\ frame[p].ent # Nil => ent[frame[p].ent] # Nil
  BY <1>1 DEF ClientInv, TypeOK, HeldOK, at
<1>3. EntsKept
  BY <1>1, <1>2, SpawnedKeeps DEF ClientInv
<1>4. refused' \subseteq IDs
  BY DEF ClientInv, TypeOK, AddReport
<1> QED BY <1>1, <1>2, <1>3, <1>4, CallEnds DEF AddReport

LEMMA ShutdownEndInv ==
  ASSUME ClientInv, NEW p \in Callers, ShutdownEnd(p)
  PROVE  ClientInv'
<1>1. ~at(p, "sub") /\ refused' \subseteq IDs
  BY DEF ClientInv, TypeOK, ShutdownEnd, at
<1>2. EntsKept
  <2>1. CASE frame[p].conn = Nil
    BY <2>1 DEF ClientInv, TypeOK, ShutdownEnd, EntsKept
  <2>2. CASE frame[p].conn # Nil
    <3>1. frame[p].conn \in Conns
      BY <2>2 DEF ClientInv, TypeOK
    <3> QED BY <2>2, <3>1, EndKeeps DEF ClientInv, ShutdownEnd
  <2> QED BY <2>1, <2>2
<1>3. alive' = alive \ {frame[p].conn}
  <2>1. Nil \notin alive
    BY NilAssumption DEF ClientInv, TypeOK
  <2> QED BY <2>1 DEF ShutdownEnd, End
<1> QED BY <1>1, <1>2, <1>3, CallEnds DEF ShutdownEnd

(* What a successful conn.Listen does to the entries: e is new to everybody.*)
LEMMA SubscribeOKEffect ==
  ASSUME ClientInv, NEW id \in IDs, NEW c \in Contents, NEW k \in Conns,
         NEW e \in Ents, SubscribeOK(id, c, k, e)
  PROVE  /\ ent' \in [Ents -> Entry \cup {Nil}]
         /\ ent'[e] # Nil
         /\ ent'[e].id = id
         /\ ent'[e].content = c
         /\ ent'[e].stops = 0
         /\ \A x \in Ents \ {e} : ent'[x] = ent[x]
         /\ lns' \in [IDs -> Ents \cup {Nil}]
         /\ lns[id] = Nil
         /\ lns'[id] = e
         /\ \A i \in IDs \ {id} : lns'[i] = lns[i]
         /\ \A i \in IDs : lns[i] # e
         /\ \A q \in Callers : e \notin frame[q].closing
         /\ e # Nil
<1> DEFINE n == [id |-> id, content |-> c, conn |-> k,
                 open |-> TRUE, stops |-> 0, loop |-> "none"]
<1>1. n \in Entry /\ n # Nil
  <2>1. n \in Entry
    BY DEF Entry
  <2> QED BY <2>1, NilAssumption
<1>2. n.id = id /\ n.content = c /\ n.stops = 0
  OBVIOUS
<1>3. ent' = [ent EXCEPT ![e] = n] /\ lns' = [lns EXCEPT ![id] = e]
  BY DEF SubscribeOK
<1> HIDE DEF n
<1>4. /\ ent' \in [Ents -> Entry \cup {Nil}]
      /\ ent'[e] = n
      /\ \A x \in Ents \ {e} : ent'[x] = ent[x]
  BY <1>1, <1>3 DEF ClientInv, TypeOK
<1>5. /\ lns' \in [IDs -> Ents \cup {Nil}]
      /\ lns'[id] = e
      /\ \A i \in IDs \ {id} : lns'[i] = lns[i]
  BY <1>3 DEF ClientInv, TypeOK
<1>6. /\ lns[id] = Nil
      /\ \A i \in IDs : lns[i] # e
      /\ \A q \in Callers : e \notin frame[q].closing
  BY DEF SubscribeOK, FreeEnt
<1> QED BY <1>1, <1>2, <1>4, <1>5, <1>6, NilAssumption

(* The calls go on, or one of them leaves subscribe for its report.         *)
CallsGoOn ==
  \A q \in Callers :
    /\ frame'[q].closing = frame[q].closing
    /\ frame'[q].conn = frame[q].conn
    /\ at(q, "closing")' <=> at(q, "closing")
    /\ at(q, "sub")' => frame'[q] = frame[q]

(* So does Run.                                                             *)
RunGoesOn ==
  /\ run'.conn = run.conn
  /\ run'.pc = run.pc \/ (run.pc = "sub" /\ run'.pc = "told")
  /\ \A i \in IDs : run'.todo[i] # Nil => run'.todo[i] = run.todo[i]

(* It preserves the parts of ClientInv about entries and connections, and   *)
(* the agreement, whichever goroutine makes it and goes on to its report.   *)
LEMMA SubscribeOKInv ==
  ASSUME ClientInv, NEW id \in IDs, NEW c \in Contents, NEW k \in Conns,
         NEW e \in Ents, SubscribeOK(id, c, k, e),
         id \notin raced => c = pending[id],
         CallsGoOn, RunGoesOn,
         UNCHANGED <<pending, conn, alive, raced, effective>>
  PROVE  EntsOK' /\ ConnOK' /\ AgreeOK'
<1> USE DEF CallsGoOn, RunGoesOn
<1>1. EntsOK'
  <2>1. ASSUME NEW i \in IDs, lns'[i] # Nil
        PROVE  ent'[lns'[i]] # Nil /\ ent'[lns'[i]].id = i /\ ent'[lns'[i]].stops = 0
    <3>1. CASE i = id
      BY <3>1, SubscribeOKEffect
    <3>2. CASE i # id
      BY <2>1, <3>2, SubscribeOKEffect DEF ClientInv, TypeOK, EntsOK
    <3> QED BY <3>1, <3>2
  <2>2. ASSUME NEW q \in Callers, NEW x \in frame'[q].closing
        PROVE  /\ ent'[x] # Nil
               /\ ent'[x].stops = 0
               /\ \A i \in IDs : lns'[i] # x
               /\ \A r \in Callers \ {q} : x \notin frame'[r].closing
    <3>1. x \in frame[q].closing /\ x \in Ents \ {e}
      BY <2>2, SubscribeOKEffect DEF ClientInv, TypeOK
    <3>2. ent'[x] = ent[x]
      BY <3>1, SubscribeOKEffect
    <3>3. \A i \in IDs : lns'[i] \in {lns[i], e}
      BY SubscribeOKEffect
    <3> QED BY <3>1, <3>2, <3>3 DEF ClientInv, EntsOK
  <2>3. StopsOnce'
    <3> SUFFICES ASSUME NEW x \in Ents, ent'[x] # Nil
                 PROVE  ent'[x].stops <= 1
      BY DEF StopsOnce
    <3>1. CASE x = e
      BY <3>1, SubscribeOKEffect
    <3>2. CASE x # e
      BY <3>2, SubscribeOKEffect DEF ClientInv, EntsOK, StopsOnce
    <3> QED BY <3>1, <3>2
  <2>4. ListenersOwned'
    <3> SUFFICES ASSUME NEW x \in Ents, ent'[x] # Nil, ent'[x].open
                 PROVE  \/ lns'[ent'[x].id] = x
                        \/ \E q \in Callers : x \in frame'[q].closing
      BY DEF ListenersOwned
    <3>1. CASE x = e
      BY <3>1, SubscribeOKEffect
    <3>2. CASE x # e
      <4>1. ent'[x] = ent[x]
        BY <3>2, SubscribeOKEffect
      <4>2. ent[x].id \in IDs
        BY <4>1 DEF ClientInv, TypeOK, Entry
      <4>3. CASE lns[ent[x].id] = x
        BY <4>1, <4>2, <4>3, SubscribeOKEffect, NilAssumption
      <4>4. CASE \E q \in Callers : x \in frame[q].closing
        BY <4>4
      <4> QED BY <4>1, <4>3, <4>4 DEF ClientInv, EntsOK, ListenersOwned
    <3> QED BY <3>1, <3>2
  <2> QED BY <2>1, <2>2, <2>3, <2>4 DEF EntsOK
<1>2. Undisturbed' => Undisturbed
  BY DEF Undisturbed, at
<1>3. ConnOK'
  BY <1>2 DEF ClientInv, ConnOK
<1>4. AgreeOK'
  <2>0. EffectOK'
    <3> SUFFICES ASSUME NEW i \in IDs, lns'[i] = Nil
                 PROVE  effective[i] = pending[i]
      BY DEF EffectOK
    <3>1. lns[i] = Nil
      BY SubscribeOKEffect, NilAssumption DEF SubscribeOK
    <3> QED BY <3>1 DEF ClientInv, AgreeOK, EffectOK
  <2> SUFFICES ASSUME NEW i \in IDs \ raced
               PROVE  /\ lns'[i] # Nil =>
                           pending[i] # Nil /\ ent'[lns'[i]].content = effective[i]
                      /\ \A q \in Callers :
                           at(q, "sub")' /\ frame'[q].id = i /\ frame'[q].conn \in alive
                             => frame'[q].content = pending[i]
                      /\ run'.todo[i] # Nil => run'.todo[i] = pending[i]
    BY <2>0 DEF AgreeOK
  <2>1. lns'[i] # Nil => pending[i] # Nil /\ ent'[lns'[i]].content = effective[i]
    <3>1. CASE i = id
      <4>1. lns[id] = Nil /\ c # Nil
        BY NilAssumption DEF SubscribeOK
      <4>2. effective[id] = pending[id]
        BY <4>1 DEF ClientInv, AgreeOK, EffectOK
      <4> QED BY <3>1, <4>1, <4>2, SubscribeOKEffect
    <3>2. CASE i # id
      <4>1. lns'[i] = lns[i] /\ lns[i] # e
        BY <3>2, SubscribeOKEffect
      <4>2. lns[i] # Nil => ent'[lns[i]] = ent[lns[i]]
        BY <4>1, SubscribeOKEffect DEF ClientInv, TypeOK
      <4> QED BY <4>1, <4>2 DEF ClientInv, AgreeOK
    <3> QED BY <3>1, <3>2
  <2>2. \A q \in Callers :
          at(q, "sub")' /\ frame'[q].id = i /\ frame'[q].conn \in alive
            => frame'[q].content = pending[i]
    BY DEF ClientInv, AgreeOK, EffectOK, at
  <2>3. run'.todo[i] # Nil => run'.todo[i] = pending[i]
    BY DEF ClientInv, AgreeOK, EffectOK
  <2> QED BY <2>1, <2>2, <2>3
<1> QED BY <1>1, <1>3, <1>4
LEMMA AddSubscribeInv ==
  ASSUME ClientInv, NEW p \in Callers, AddSubscribe(p)
  PROVE  ClientInv'
<1> DEFINE id == frame[p].id
           c == frame[p].content
           k == frame[p].conn
<1>1. /\ at(p, "sub")
      /\ id \in IDs
      /\ c \in Contents
      /\ k \in Conns
      /\ frame[p].closing = {}
      /\ ~at(p, "closing")
  BY DEF AddSubscribe, ClientInv, HeldOK, at
<1>2. CASE SubscribeExists(id) /\ frame' = [frame EXCEPT ![p] = Idle]
  <2>1. EntsKept
    BY <1>2 DEF SubscribeExists, EntsKept, ClientInv, TypeOK
  <2>2. refused' = refused /\ refused \subseteq IDs
    BY <1>2 DEF SubscribeExists, ClientInv, TypeOK
  <2> QED BY <1>1, <1>2, <2>1, <2>2, CallEnds DEF SubscribeExists, AddSubscribe
<1>3. CASE SubscribeFails(id, k) /\ frame' = [frame EXCEPT ![p] = Idle]
  <2>1. EntsKept
    BY <1>3 DEF SubscribeFails, EntsKept, ClientInv, TypeOK
  <2>2. refused' \subseteq IDs
    BY <1>1, <1>3 DEF SubscribeFails, ClientInv, TypeOK
  <2> QED BY <1>1, <1>3, <2>1, <2>2, CallEnds DEF SubscribeFails, AddSubscribe
<1>4. ASSUME NEW e \in Ents, SubscribeOK(id, c, k, e),
             frame' = [frame EXCEPT ![p].pc = "told", ![p].ent = e]
      PROVE  ClientInv'
  <2> HIDE DEF id, c, k
  <2>1. /\ frame'[p] = [frame[p] EXCEPT !.pc = "told", !.ent = e]
        /\ \A q \in Callers \ {p} : frame'[q] = frame[q]
        /\ frame' \in [Callers ->
             [pc: {"idle", "sub", "told", "closing"}, id: IDs \cup {Nil},
              content: Contents \cup {Nil}, conn: Conns \cup {Nil},
              ent: Ents \cup {Nil}, closing: SUBSET Ents]]
    <3> DEFINE f == [frame[p] EXCEPT !.pc = "told", !.ent = e]
    <3>1. f \in [pc: {"idle", "sub", "told", "closing"}, id: IDs \cup {Nil},
                 content: Contents \cup {Nil}, conn: Conns \cup {Nil},
                 ent: Ents \cup {Nil}, closing: SUBSET Ents]
      <4> DEFINE g == [frame[p] EXCEPT !.pc = "told"]
      <4>1. g \in [pc: {"idle", "sub", "told", "closing"}, id: IDs \cup {Nil},
                   content: Contents \cup {Nil}, conn: Conns \cup {Nil},
                   ent: Ents \cup {Nil}, closing: SUBSET Ents]
        BY DEF ClientInv, TypeOK
      <4>2. f = [g EXCEPT !.ent = e]
        OBVIOUS
      <4> HIDE DEF f, g
      <4> QED BY <4>1, <4>2
    <3>2. frame' = [frame EXCEPT ![p] = f]
      BY <1>4 DEF ClientInv, TypeOK
    <3> QED BY <3>1, <3>2 DEF ClientInv, TypeOK
  <2>2. /\ frame'[p].pc = "told"
        /\ frame'[p].ent = e
        /\ frame'[p].conn = frame[p].conn
        /\ frame'[p].closing = frame[p].closing
    BY <2>1 DEF ClientInv, TypeOK
  <2>3. id \notin raced => c = pending[id]
    BY <1>1, <1>4 DEF id, c, k, SubscribeOK, ClientInv, AgreeOK, EffectOK
  <2>4. CallsGoOn
    BY <1>1, <2>1, <2>2 DEF at, CallsGoOn
  <2>5. UNCHANGED <<pending, conn, alive, run, backoff, cancelled, raced, refused, effective>>
    BY <1>4 DEF AddSubscribe, SubscribeOK
  <2>6. EntsOK' /\ ConnOK' /\ AgreeOK'
    <3>1. RunGoesOn /\ UNCHANGED <<pending, conn, alive, raced, effective>>
      BY <2>5 DEF RunGoesOn
    <3> QED BY <1>1, <1>4, <2>3, <2>4, <3>1, SubscribeOKInv
  <2>7. TypeOK'
    BY <1>1, <1>4, <2>1, <2>5, SubscribeOKEffect DEF ClientInv, TypeOK
  <2>8. HeldOK'
    <3>1. \A x \in Ents : ent[x] # Nil => ent'[x] # Nil
      BY <1>1, <1>4, SubscribeOKEffect
    <3>2. ASSUME NEW q \in Callers
          PROVE  /\ at(q, "idle")' => frame'[q].conn = Nil
                 /\ at(q, "sub")' => /\ frame'[q].id \in IDs
                                    /\ frame'[q].content \in Contents
                                    /\ frame'[q].conn \in Conns
                 /\ ~at(q, "closing")' => frame'[q].closing = {}
                 /\ frame'[q].ent # Nil => ent'[frame'[q].ent] # Nil
      <4>1. CASE q = p
        <5>1. ent'[e] # Nil
          BY <1>1, <1>4, SubscribeOKEffect
        <5> QED BY <1>1, <2>2, <4>1, <5>1 DEF at
      <4>2. CASE q # p
        BY <2>1, <3>1, <4>2 DEF ClientInv, TypeOK, HeldOK, at
      <4> QED BY <4>1, <4>2
    <3> QED BY <2>5, <3>1, <3>2 DEF ClientInv, TypeOK, HeldOK
  <2>9. ForgottenOK'
    <3>1. Undisturbed' => Undisturbed
      BY <2>4, <2>5 DEF Undisturbed, CallsGoOn, at
    <3>2. \A i \in IDs : lns[i] # Nil => lns'[i] # Nil
      BY <1>1, <1>4, SubscribeOKEffect
    <3>3. lns'[id] # Nil
      BY <1>1, <1>4, SubscribeOKEffect
    <3> QED BY <2>1, <2>5, <3>1, <3>2, <3>3 DEF ClientInv, ForgottenOK, at, id
  <2> QED BY <2>6, <2>7, <2>8, <2>9 DEF ClientInv
<1> QED BY <1>2, <1>3, <1>4 DEF AddSubscribe

(* Closing the listener and the stop channel of one entry whose stop        *)
(* channel is open.                                                         *)
LEMMA StoppedEffect ==
  ASSUME ClientInv, NEW e \in Ents, ent[e] # Nil, ent[e].stops = 0,
         ent' = Stopped({e})
  PROVE  /\ ent' \in [Ents -> Entry \cup {Nil}]
         /\ ent'[e] # Nil
         /\ ent'[e].id = ent[e].id
         /\ ent'[e].content = ent[e].content
         /\ ent'[e].stops = 1
         /\ ~ent'[e].open
         /\ \A x \in Ents \ {e} : ent'[x] = ent[x]
<1> DEFINE n == [ent[e] EXCEPT !.open = FALSE, !.stops = @ + 1]
<1>1. ent[e] \in Entry
  BY DEF ClientInv, TypeOK
<1>2. /\ n.id = ent[e].id
      /\ n.content = ent[e].content
      /\ n.stops = 1
      /\ ~n.open
  BY <1>1 DEF Entry
<1>6. n \in Entry
  <2>1. ent[e].stops + 1 \in 0..2
    OBVIOUS
  <2> QED BY <1>1, <2>1 DEF Entry
<1>3. ent'[e] = n /\ \A x \in Ents \ {e} : ent'[x] = ent[x]
  BY DEF Stopped
<1>4. ent' = [x \in Ents |-> IF x \in {e} THEN n ELSE ent[x]]
  BY DEF Stopped
<1> HIDE DEF n
<1>5. ent' \in [Ents -> Entry \cup {Nil}]
  BY <1>6, <1>4 DEF ClientInv, TypeOK
<1> QED BY <1>2, <1>3, <1>5, <1>6, NilAssumption
LEMMA RemoveInv ==
  ASSUME ClientInv, NEW p \in Callers, NEW id \in IDs, Remove(p, id)
  PROVE  ClientInv'
<1>1. /\ lns' \in [IDs -> Ents \cup {Nil}]
      /\ lns'[id] = Nil
      /\ \A i \in IDs \ {id} : lns'[i] = lns[i]
      /\ pending' \in [IDs -> Contents \cup {Nil}]
      /\ pending'[id] = Nil
      /\ \A i \in IDs \ {id} : pending'[i] = pending[i]
  BY DEF ClientInv, TypeOK, Remove
<1>2. UNCHANGED <<conn, alive, run, backoff, cancelled, frame, refused>>
  BY DEF Remove
<1>3. /\ ent' \in [Ents -> Entry \cup {Nil}]
      /\ \A x \in Ents : ent[x] = Nil <=> ent'[x] = Nil
      /\ \A x \in Ents : x # lns[id] => ent'[x] = ent[x]
      /\ lns[id] # Nil => /\ ent'[lns[id]].stops = 1
                          /\ ~ent'[lns[id]].open
  <2>1. CASE lns[id] = Nil
    BY <2>1 DEF ClientInv, TypeOK, Remove
  <2>2. CASE lns[id] # Nil
    <3>1. /\ lns[id] \in Ents
          /\ ent[lns[id]] # Nil
          /\ ent[lns[id]].stops = 0
          /\ ent' = Stopped({lns[id]})
      BY <2>2 DEF ClientInv, TypeOK, EntsOK, Remove
    <3> QED BY <3>1, StoppedEffect
  <2> QED BY <2>1, <2>2
<1>4. TypeOK'
  BY <1>1, <1>2, <1>3 DEF ClientInv, TypeOK, Remove
<1>5. HeldOK'
  BY <1>2, <1>3 DEF ClientInv, TypeOK, HeldOK, at
<1>6. EntsOK'
  <2>1. ASSUME NEW i \in IDs, lns'[i] # Nil
        PROVE  ent'[lns'[i]] # Nil /\ ent'[lns'[i]].id = i /\ ent'[lns'[i]].stops = 0
    <3>1. i # id /\ lns'[i] = lns[i] /\ lns[i] \in Ents
      BY <1>1, <2>1 DEF ClientInv, TypeOK
    <3>2. lns[i] # lns[id]
      BY <2>1, <3>1 DEF ClientInv, EntsOK
    <3> QED BY <1>3, <2>1, <3>1, <3>2 DEF ClientInv, EntsOK
  <2>2. ASSUME NEW q \in Callers, NEW x \in frame'[q].closing
        PROVE  /\ ent'[x] # Nil
               /\ ent'[x].stops = 0
               /\ \A i \in IDs : lns'[i] # x
               /\ \A r \in Callers \ {q} : x \notin frame'[r].closing
    <3>1. x \in frame[q].closing /\ x \in Ents /\ x # Nil
      BY <1>2, <2>2, NilAssumption DEF ClientInv, TypeOK
    <3>2. x # lns[id]
      BY <3>1 DEF ClientInv, EntsOK
    <3> QED BY <1>1, <1>2, <1>3, <3>1, <3>2 DEF ClientInv, EntsOK
  <2>3. StopsOnce'
    <3> SUFFICES ASSUME NEW x \in Ents, ent'[x] # Nil
                 PROVE  ent'[x].stops <= 1
      BY DEF StopsOnce
    <3>1. CASE x = lns[id]
      BY <1>3, <3>1, NilAssumption
    <3>2. CASE x # lns[id]
      BY <1>3, <3>2 DEF ClientInv, EntsOK, StopsOnce
    <3> QED BY <3>1, <3>2
  <2>4. ListenersOwned'
    <3> SUFFICES ASSUME NEW x \in Ents, ent'[x] # Nil, ent'[x].open
                 PROVE  \/ lns'[ent'[x].id] = x
                        \/ \E q \in Callers : x \in frame'[q].closing
      BY DEF ListenersOwned
    <3>1. x # lns[id]
      BY <1>3, NilAssumption
    <3>2. ent'[x] = ent[x] /\ ent[x].id \in IDs
      BY <1>3, <3>1 DEF ClientInv, TypeOK, Entry
    <3> QED BY <1>1, <1>2, <3>1, <3>2 DEF ClientInv, EntsOK, ListenersOwned
  <2> QED BY <2>1, <2>2, <2>3, <2>4 DEF EntsOK
<1>7. ConnOK'
  BY <1>2 DEF ClientInv, ConnOK, Undisturbed, at
<1>8. AgreeOK'
  <2>0. /\ \A i \in IDs \ {id} : effective'[i] = effective[i]
        /\ effective'[id] = Nil
    BY DEF ClientInv, TypeOK, Remove
  <2>1. EffectOK'
    BY <1>1, <2>0 DEF ClientInv, AgreeOK, EffectOK
  <2> SUFFICES ASSUME NEW i \in IDs \ raced'
               PROVE  /\ lns'[i] # Nil =>
                           pending'[i] # Nil /\ ent'[lns'[i]].content = effective'[i]
                      /\ \A q \in Callers :
                           at(q, "sub") /\ frame[q].id = i /\ frame[q].conn \in alive
                             => frame[q].content = pending'[i]
                      /\ run.todo[i] # Nil => run.todo[i] = pending'[i]
    BY <1>2, <2>1 DEF AgreeOK, at
  <2>2. CASE i = id
    BY <1>1, <2>2 DEF Remove, Subscribing
  <2>3. CASE i # id
    <3>1. i \notin raced /\ lns'[i] = lns[i] /\ pending'[i] = pending[i]
      BY <1>1, <2>3 DEF Remove
    <3>2. lns[i] # Nil => lns[i] # lns[id] /\ lns[i] \in Ents
      BY <2>3 DEF ClientInv, TypeOK, EntsOK
    <3>3. lns[i] # Nil => ent'[lns[i]] = ent[lns[i]]
      BY <1>3, <3>2
    <3> QED BY <2>0, <2>3, <3>1, <3>3 DEF ClientInv, AgreeOK
  <2> QED BY <2>2, <2>3
<1>9. ForgottenOK'
  BY <1>1, <1>2 DEF ClientInv, ForgottenOK, Undisturbed, at
<1> QED BY <1>4, <1>5, <1>6, <1>7, <1>8, <1>9 DEF ClientInv
LEMMA ShutdownBeginInv ==
  ASSUME ClientInv, NEW p \in Callers, ShutdownBegin(p)
  PROVE  ClientInv'
<1> DEFINE f == [Idle EXCEPT !.pc = "closing", !.conn = conn, !.closing = Listening]
<1>1. Listening \subseteq Ents
  BY DEF ClientInv, TypeOK, Listening
<1>2. \A x \in Ents : x \in Listening <=> \E i \in IDs : lns[i] = x
  BY NilAssumption DEF Listening
<1>3. /\ at(p, "idle")
      /\ frame' = [frame EXCEPT ![p] = f]
      /\ lns' = NoRules
      /\ pending' = NoRules
      /\ conn' = Nil
      /\ UNCHANGED <<ent, alive, run, backoff, cancelled, refused>>
  BY DEF ShutdownBegin
<1> HIDE DEF Listening
<1>4. /\ f.pc = "closing"
      /\ f.conn = conn
      /\ f.ent = Nil
      /\ f.closing = Listening
      /\ f \in [pc: {"idle", "sub", "told", "closing"}, id: IDs \cup {Nil},
                content: Contents \cup {Nil}, conn: Conns \cup {Nil},
                ent: Ents \cup {Nil}, closing: SUBSET Ents]
  BY <1>1 DEF Idle, ClientInv, TypeOK
<1> HIDE DEF f
<1>5. /\ frame'[p] = f
      /\ \A q \in Callers \ {p} : frame'[q] = frame[q]
      /\ frame[p].closing = {}
      /\ frame[p].conn = Nil
  BY <1>3 DEF ClientInv, TypeOK, HeldOK, at
<1>6. \A i \in IDs : lns'[i] = Nil /\ pending'[i] = Nil
  BY <1>3 DEF NoRules
<1>7. TypeOK'
  <2>1. frame' \in [Callers ->
          [pc: {"idle", "sub", "told", "closing"}, id: IDs \cup {Nil},
           content: Contents \cup {Nil}, conn: Conns \cup {Nil},
           ent: Ents \cup {Nil}, closing: SUBSET Ents]]
    BY <1>3, <1>4 DEF ClientInv, TypeOK
  <2>2. /\ pending' \in [IDs -> Contents \cup {Nil}]
        /\ lns' \in [IDs -> Ents \cup {Nil}]
        /\ raced' \subseteq IDs
        /\ effective' \in [IDs -> Contents \cup {Nil}]
    BY <1>3 DEF ClientInv, TypeOK, NoRules, ShutdownBegin
  <2> QED BY <1>3, <2>1, <2>2 DEF ClientInv, TypeOK
<1>8. HeldOK'
  <2>1. ASSUME NEW q \in Callers
        PROVE  /\ at(q, "idle")' => frame'[q].conn = Nil
               /\ at(q, "sub")' => /\ frame'[q].id \in IDs
                                  /\ frame'[q].content \in Contents
                                  /\ frame'[q].conn \in Conns
               /\ ~at(q, "closing")' => frame'[q].closing = {}
               /\ frame'[q].ent # Nil => ent'[frame'[q].ent] # Nil
    <3>1. CASE q = p
      BY <1>4, <1>5, <3>1 DEF at
    <3>2. CASE q # p
      BY <1>3, <1>5, <3>2 DEF ClientInv, HeldOK, at
    <3> QED BY <3>1, <3>2
  <2> QED BY <1>3, <2>1 DEF ClientInv, HeldOK
<1>9. EntsOK'
  <2>1. ASSUME NEW q \in Callers, NEW x \in frame'[q].closing
        PROVE  /\ ent'[x] # Nil
               /\ ent'[x].stops = 0
               /\ \A i \in IDs : lns'[i] # x
               /\ \A r \in Callers \ {q} : x \notin frame'[r].closing
    <3>1. x \in Ents /\ x # Nil
      <4>1. frame'[q].closing \subseteq Ents
        BY <1>1, <1>4, <1>5 DEF ClientInv, TypeOK
      <4> QED BY <2>1, <4>1, NilAssumption
    <3>2. CASE q = p
      <4>1. PICK i \in IDs : lns[i] = x
        BY <1>2, <1>4, <1>5, <2>1, <3>1, <3>2
      <4>2. \A r \in Callers : x \notin frame[r].closing
        BY <4>1 DEF ClientInv, EntsOK
      <4> QED BY <1>3, <1>5, <1>6, <3>1, <3>2, <4>1, <4>2 DEF ClientInv, EntsOK
    <3>3. CASE q # p
      <4>1. x \in frame[q].closing
        BY <1>5, <2>1, <3>3
      <4>2. x \notin Listening
        BY <1>2, <3>1, <4>1 DEF ClientInv, EntsOK
      <4> QED BY <1>3, <1>4, <1>5, <1>6, <3>1, <3>3, <4>1, <4>2 DEF ClientInv, EntsOK
    <3> QED BY <3>2, <3>3
  <2>2. ListenersOwned'
    <3> SUFFICES ASSUME NEW x \in Ents, ent[x] # Nil, ent[x].open
                 PROVE  \E q \in Callers : x \in frame'[q].closing
      BY <1>3 DEF ListenersOwned
    <3>1. CASE lns[ent[x].id] = x
      <4>1. ent[x].id \in IDs
        BY DEF ClientInv, TypeOK, Entry
      <4>2. x \in Listening
        BY <1>2, <3>1, <4>1
      <4> QED BY <1>4, <1>5, <4>2
    <3>2. CASE \E q \in Callers : x \in frame[q].closing
      BY <1>5, <3>2
    <3> QED BY <3>1, <3>2 DEF ClientInv, EntsOK, ListenersOwned
  <2> QED BY <1>3, <1>6, <2>1, <2>2 DEF ClientInv, EntsOK, StopsOnce
<1>10. ConnOK'
  <2>1. run.conn \in alive /\ Undisturbed' => Undisturbed
    BY <1>3, <1>5 DEF Undisturbed, at
  <2>2. run.conn \in alive => run.conn # Nil
    BY NilAssumption DEF ClientInv, TypeOK
  <2>3. conn = run.conn => ~Undisturbed'
    BY <1>3, <1>4, <1>5 DEF Undisturbed, at
  <2>4. run.pc = "install" =>
          conn' # run.conn /\ \A q \in Callers : frame'[q].conn # run.conn
    <3>1. run.pc = "install" => run.conn # Nil
      BY DEF ClientInv, HeldOK
    <3> QED BY <1>3, <1>4, <1>5, <3>1 DEF ClientInv, ConnOK
  <2> QED BY <1>3, <2>1, <2>2, <2>3, <2>4 DEF ClientInv, ConnOK
<1>11. AgreeOK'
  <2> SUFFICES ASSUME NEW i \in IDs \ raced'
               PROVE  /\ \A q \in Callers : ~(at(q, "sub")' /\ frame'[q].id = i)
                      /\ run.todo[i] = Nil
    <3>1. EffectOK'
      BY <1>3 DEF ShutdownBegin, EffectOK
    <3> QED BY <1>3, <1>6, <3>1 DEF AgreeOK
  <2>1. ~Subscribing(i)
    BY DEF ShutdownBegin
  <2> QED BY <1>4, <1>5, <2>1 DEF Subscribing, at
<1>12. ForgottenOK'
  BY <1>6 DEF ForgottenOK
<1> QED BY <1>7, <1>8, <1>9, <1>10, <1>11, <1>12 DEF ClientInv

LEMMA ShutdownEntryInv ==
  ASSUME ClientInv, NEW p \in Callers, NEW e \in Ents, ShutdownEntry(p, e)
  PROVE  ClientInv'
<1>1. /\ at(p, "closing")
      /\ e \in frame[p].closing
      /\ ent' = Stopped({e})
      /\ frame' = [frame EXCEPT ![p].closing = @ \ {e}]
      /\ UNCHANGED <<pending, lns, conn, alive, run, backoff, cancelled, refused, raced, effective>>
  BY DEF ShutdownEntry
<1>2. ent[e] # Nil /\ ent[e].stops = 0 /\ \A i \in IDs : lns[i] # e
  BY <1>1 DEF ClientInv, EntsOK
<1>3. /\ ent' \in [Ents -> Entry \cup {Nil}]
      /\ ent'[e] # Nil
      /\ ent'[e].stops = 1
      /\ ~ent'[e].open
      /\ \A x \in Ents \ {e} : ent'[x] = ent[x]
  BY <1>1, <1>2, StoppedEffect
<1>4. /\ frame'[p].closing = frame[p].closing \ {e}
      /\ frame'[p].pc = frame[p].pc
      /\ frame'[p].conn = frame[p].conn
      /\ frame'[p].ent = frame[p].ent
      /\ \A q \in Callers \ {p} : frame'[q] = frame[q]
      /\ frame' \in [Callers ->
           [pc: {"idle", "sub", "told", "closing"}, id: IDs \cup {Nil},
            content: Contents \cup {Nil}, conn: Conns \cup {Nil},
            ent: Ents \cup {Nil}, closing: SUBSET Ents]]
  <2> DEFINE f == [frame[p] EXCEPT !.closing = @ \ {e}]
  <2>1. frame[p] \in
          [pc: {"idle", "sub", "told", "closing"}, id: IDs \cup {Nil},
           content: Contents \cup {Nil}, conn: Conns \cup {Nil},
           ent: Ents \cup {Nil}, closing: SUBSET Ents]
    BY DEF ClientInv, TypeOK
  <2>2. /\ f \in
             [pc: {"idle", "sub", "told", "closing"}, id: IDs \cup {Nil},
              content: Contents \cup {Nil}, conn: Conns \cup {Nil},
              ent: Ents \cup {Nil}, closing: SUBSET Ents]
        /\ f.closing = frame[p].closing \ {e}
        /\ f.pc = frame[p].pc
        /\ f.conn = frame[p].conn
        /\ f.ent = frame[p].ent
    BY <2>1
  <2>3. frame' = [frame EXCEPT ![p] = f]
    BY <1>1
  <2> HIDE DEF f
  <2> QED BY <2>2, <2>3 DEF ClientInv, TypeOK
<1>5. TypeOK'
  BY <1>1, <1>3, <1>4 DEF ClientInv, TypeOK
<1>6. HeldOK'
  <2>1. \A x \in Ents : ent[x] # Nil => ent'[x] # Nil
    BY <1>3
  <2>2. \A q \in Callers : frame'[q].ent = frame[q].ent
    BY <1>4
  <2>3. \A q \in Callers : ~at(q, "closing")' => frame'[q] = frame[q]
    BY <1>1, <1>4 DEF at
  <2>4. ASSUME NEW q \in Callers
        PROVE  /\ at(q, "idle")' => frame'[q].conn = Nil
               /\ at(q, "sub")' => /\ frame'[q].id \in IDs
                                  /\ frame'[q].content \in Contents
                                  /\ frame'[q].conn \in Conns
               /\ ~at(q, "closing")' => frame'[q].closing = {}
               /\ frame'[q].ent # Nil => ent'[frame'[q].ent] # Nil
    <3>1. frame[q].ent # Nil => ent'[frame[q].ent] # Nil
      BY <2>1 DEF ClientInv, TypeOK, HeldOK
    <3>2. CASE at(q, "closing")'
      BY <2>2, <3>1, <3>2 DEF at
    <3>3. CASE ~at(q, "closing")'
      BY <2>2, <2>3, <3>1, <3>3 DEF ClientInv, HeldOK, at
    <3> QED BY <3>2, <3>3
  <2> QED BY <1>1, <2>1, <2>4 DEF ClientInv, TypeOK, HeldOK
<1>7. EntsOK'
  <2>1. \A i \in IDs : lns[i] # Nil => lns[i] \in Ents \ {e}
    BY <1>2 DEF ClientInv, TypeOK
  <2>2. \A i \in IDs : lns'[i] # Nil =>
          ent'[lns'[i]] # Nil /\ ent'[lns'[i]].id = i /\ ent'[lns'[i]].stops = 0
    <3>1. \A i \in IDs : lns[i] # Nil =>
            ent[lns[i]] # Nil /\ ent[lns[i]].id = i /\ ent[lns[i]].stops = 0
      BY DEF ClientInv, EntsOK
    <3>2. \A i \in IDs : lns[i] # Nil => ent'[lns[i]] = ent[lns[i]]
      BY <1>3, <2>1
    <3> QED BY <1>1, <3>1, <3>2
  <2>3. ASSUME NEW q \in Callers, NEW x \in frame'[q].closing
        PROVE  /\ ent'[x] # Nil
               /\ ent'[x].stops = 0
               /\ \A i \in IDs : lns'[i] # x
               /\ \A r \in Callers \ {q} : x \notin frame'[r].closing
    <3>1. x \in frame[q].closing /\ x # e
      BY <1>1, <1>4, <2>3 DEF ClientInv, EntsOK
    <3>2. ent'[x] = ent[x]
      BY <1>3, <3>1 DEF ClientInv, TypeOK
    <3>3. \A r \in Callers : frame'[r].closing \subseteq frame[r].closing
      BY <1>4
    <3> QED BY <1>1, <3>1, <3>2, <3>3 DEF ClientInv, EntsOK
  <2>4. StopsOnce'
    <3> SUFFICES ASSUME NEW x \in Ents, ent'[x] # Nil
                 PROVE  ent'[x].stops <= 1
      BY DEF StopsOnce
    <3> QED BY <1>3 DEF ClientInv, EntsOK, StopsOnce
  <2>5. ListenersOwned'
    <3> SUFFICES ASSUME NEW x \in Ents, ent'[x] # Nil, ent'[x].open
                 PROVE  \/ lns'[ent'[x].id] = x
                        \/ \E q \in Callers : x \in frame'[q].closing
      BY DEF ListenersOwned
    <3>1. x # e /\ ent'[x] = ent[x]
      BY <1>3
    <3>2. CASE \E q \in Callers : x \in frame[q].closing
      BY <1>4, <3>1, <3>2
    <3>3. CASE lns[ent[x].id] = x
      BY <1>1, <3>1, <3>3
    <3> QED BY <3>1, <3>2, <3>3 DEF ClientInv, EntsOK, ListenersOwned
  <2> QED BY <2>2, <2>3, <2>4, <2>5 DEF EntsOK
<1>8. Undisturbed' => Undisturbed
  BY <1>1, <1>4 DEF Undisturbed, at
<1>9. ConnOK'
  <2>1. \A q \in Callers : frame'[q].conn = frame[q].conn
    BY <1>4
  <2> QED BY <1>1, <1>8, <2>1 DEF ClientInv, ConnOK
<1>10. AgreeOK'
  <2>1. \A q \in Callers : at(q, "sub")' => frame'[q] = frame[q]
    BY <1>1, <1>4 DEF at
  <2>2. \A i \in IDs : lns[i] # Nil => ent'[lns[i]] = ent[lns[i]]
    BY <1>2, <1>3 DEF ClientInv, TypeOK
  <2>3. EffectOK'
    BY <1>1 DEF ClientInv, AgreeOK, EffectOK
  <2> SUFFICES ASSUME NEW i \in IDs \ raced
               PROVE  /\ lns[i] # Nil =>
                           pending[i] # Nil /\ ent'[lns[i]].content = effective[i]
                      /\ \A q \in Callers :
                           at(q, "sub")' /\ frame'[q].id = i /\ frame'[q].conn \in alive
                             => frame'[q].content = pending[i]
                      /\ run.todo[i] # Nil => run.todo[i] = pending[i]
    BY ZenonT(60), <1>1, <2>3 DEF AgreeOK
  <2>4. lns[i] # Nil => pending[i] # Nil /\ ent'[lns[i]].content = effective[i]
    BY <2>2 DEF ClientInv, AgreeOK
  <2>5. run.todo[i] # Nil => run.todo[i] = pending[i]
    BY DEF ClientInv, AgreeOK
  <2> QED BY <2>1, <2>4, <2>5 DEF ClientInv, AgreeOK, at
<1>11. ForgottenOK'
  <2>1. \A q \in Callers : at(q, "sub") => at(q, "sub")' /\ frame'[q] = frame[q]
    BY <1>1, <1>4 DEF at
  <2> QED BY <1>1, <1>8, <2>1 DEF ClientInv, ForgottenOK
<1> QED BY <1>5, <1>6, <1>7, <1>9, <1>10, <1>11 DEF ClientInv
-----------------------------------------------------------------------------
(* Run                                                                      *)

(* Run moves on, with the connection it has.                                *)
RunAt(label) ==
  /\ run'.pc = label
  /\ run'.conn = run.conn
  /\ run'.ent = run.ent
  /\ run'.todo = run.todo
  /\ run' \in [pc: {"top", "dial", "install", "snapshot", "sub", "told", "wait",
                    "drain", "clear", "stopped"},
               conn: Conns \cup {Nil}, ent: Ents \cup {Nil},
               todo: [IDs -> Contents \cup {Nil}]]

LEMMA RunMoves ==
  ASSUME TypeOK,
         NEW label \in {"top", "dial", "install", "snapshot", "sub", "told", "wait",
                        "drain", "clear", "stopped"},
         run' = [run EXCEPT !.pc = label]
  PROVE  RunAt(label)
  BY DEF TypeOK, RunAt

LEMMA RunTopInv ==
  ASSUME ClientInv, RunTop
  PROVE  ClientInv'
<1>1. \E l \in {"stopped", "dial"} : RunAt(l)
  BY RunMoves DEF RunTop, ClientInv
<1>2. TypeOK' /\ HeldOK'
  BY <1>1 DEF RunTop, RunAt, ClientInv, TypeOK, HeldOK, at
<1>3. EntsOK'
  BY DEF RunTop, ClientInv, EntsOK, StopsOnce, ListenersOwned
<1>4. ConnOK'
  BY <1>1 DEF RunTop, RunAt, ClientInv, ConnOK, Undisturbed, at
<1>5. AgreeOK' /\ ForgottenOK'
  BY <1>1 DEF RunTop, RunAt, ClientInv, AgreeOK, EffectOK, ForgottenOK, at
<1> QED BY <1>2, <1>3, <1>4, <1>5 DEF ClientInv

LEMMA DialFailsInv ==
  ASSUME ClientInv, DialFails
  PROVE  ClientInv'
<1>1. RunAt("top")
  BY RunMoves DEF DialFails, ClientInv
<1>2. backoff' \in 1..MaxBackoff
  BY DEF DialFails, nextBackoff, MaxBackoff, ClientInv, TypeOK
<1>3. TypeOK' /\ HeldOK'
  BY <1>1, <1>2 DEF DialFails, RunAt, ClientInv, TypeOK, HeldOK, at
<1>4. EntsOK'
  BY DEF DialFails, ClientInv, EntsOK, StopsOnce, ListenersOwned
<1>5. ConnOK'
  BY <1>1 DEF DialFails, RunAt, ClientInv, ConnOK, Undisturbed, at
<1>6. AgreeOK' /\ ForgottenOK'
  BY <1>1 DEF DialFails, RunAt, ClientInv, AgreeOK, EffectOK, ForgottenOK, at
<1> QED BY <1>3, <1>4, <1>5, <1>6 DEF ClientInv

(* The new connection is nobody else's: no call in progress can use it.     *)
LEMMA DialOKInv ==
  ASSUME ClientInv, DialOK
  PROVE  ClientInv'
<1>1. PICK k \in Conns : /\ FreeConn(k)
                         /\ alive' = alive \cup {k}
                         /\ run' = [run EXCEPT !.pc = "install", !.conn = k]
  BY DEF DialOK
<1>2. /\ run'.pc = "install"
      /\ run'.conn = k
      /\ run'.ent = run.ent
      /\ run'.todo = run.todo
  BY <1>1 DEF ClientInv, TypeOK
<1>3. /\ run.pc = "dial"
      /\ backoff' = 1
      /\ UNCHANGED <<pending, lns, conn, ent, cancelled, frame, refused, raced, effective>>
  BY DEF DialOK
<1>4. TypeOK'
  <2> DEFINE T == [pc: {"top", "dial", "install", "snapshot", "sub", "told", "wait",
                        "drain", "clear", "stopped"},
                   conn: Conns \cup {Nil}, ent: Ents \cup {Nil},
                   todo: [IDs -> Contents \cup {Nil}]]
             g == [run EXCEPT !.pc = "install"]
  <2>1. g \in T
    BY DEF ClientInv, TypeOK
  <2>2. run' = [g EXCEPT !.conn = k]
    BY <1>1
  <2> HIDE DEF g
  <2>3. run' \in T
    BY <2>1, <2>2
  <2>4. backoff' \in 1..MaxBackoff
    BY <1>3 DEF MaxBackoff
  <2> QED BY <1>1, <1>3, <2>3, <2>4 DEF ClientInv, TypeOK
<1>5. HeldOK'
  BY <1>2, <1>3, NilAssumption DEF ClientInv, TypeOK, HeldOK, at
<1>6. EntsOK'
  BY <1>3 DEF ClientInv, EntsOK, StopsOnce, ListenersOwned
<1>7. ConnOK'
  BY <1>1, <1>2, <1>3 DEF ClientInv, ConnOK, FreeConn
<1>8. AgreeOK'
  BY <1>1, <1>2, <1>3 DEF ClientInv, AgreeOK, EffectOK, FreeConn, at
<1>9. ForgottenOK'
  BY <1>2 DEF ForgottenOK
<1> QED BY <1>4, <1>5, <1>6, <1>7, <1>8, <1>9 DEF ClientInv
(* Emptying c.lns after closing what is in it leaves no listener ownerless. *)
LEMMA DropInv ==
  ASSUME ClientInv, ent' = Closed(Listening), lns' = NoRules, frame' = frame
  PROVE  EntsOK' /\ EntsKept /\ lns' \in [IDs -> Ents \cup {Nil}]
<1>1. /\ EntsKept
      /\ \A i \in IDs : lns[i] # Nil => ~ent'[lns[i]].open
  BY DropKeeps DEF ClientInv
<1>2. \A i \in IDs : lns'[i] = Nil
  BY DEF NoRules
<1>3. ASSUME NEW q \in Callers, NEW x \in frame'[q].closing
      PROVE  /\ ent'[x] # Nil
             /\ ent'[x].stops = 0
             /\ \A i \in IDs : lns'[i] # x
             /\ \A r \in Callers \ {q} : x \notin frame'[r].closing
  <2>1. x \in frame[q].closing /\ x \in Ents
    BY <1>3 DEF ClientInv, TypeOK
  <2> QED BY <1>1, <1>2, <2>1, NilAssumption DEF ClientInv, EntsOK, EntsKept
<1>4. StopsOnce'
  BY <1>1 DEF ClientInv, EntsKept, EntsOK, StopsOnce
<1>5. ListenersOwned'
  <2> SUFFICES ASSUME NEW x \in Ents, ent'[x] # Nil, ent'[x].open
               PROVE  \E q \in Callers : x \in frame'[q].closing
    BY DEF ListenersOwned
  <2>1. ent[x] # Nil /\ ent[x].open /\ ent[x].id \in IDs /\ x # Nil
    BY <1>1, NilAssumption DEF ClientInv, TypeOK, EntsKept, Entry
  <2>2. lns[ent[x].id] # x
    BY <1>1, <2>1
  <2> QED BY <2>1, <2>2 DEF ClientInv, EntsOK, ListenersOwned
<1> QED BY <1>1, <1>2, <1>3, <1>4, <1>5 DEF EntsOK, NoRules

LEMMA RunInstallInv ==
  ASSUME ClientInv, RunInstall
  PROVE  ClientInv'
<1>1. RunAt("snapshot")
  BY RunMoves DEF RunInstall, ClientInv
<1>2. EntsOK' /\ EntsKept /\ lns' \in [IDs -> Ents \cup {Nil}]
  BY DropInv DEF RunInstall
<1>3. TypeOK'
  BY <1>1, <1>2 DEF RunInstall, RunAt, EntsKept, ClientInv, TypeOK
<1>4. HeldOK'
  BY <1>1, <1>2 DEF RunInstall, RunAt, EntsKept, ClientInv, TypeOK, HeldOK, at
<1>5. ConnOK'
  BY <1>1 DEF RunInstall, RunAt, ClientInv, ConnOK, Undisturbed, at
<1>6. AgreeOK'
  <2>1. \A i \in IDs : lns'[i] = Nil /\ run'.todo[i] = Nil
    BY <1>1 DEF RunInstall, RunAt, NoRules, ClientInv, HeldOK
  <2>2. \A q \in Callers : frame[q].conn \notin alive
    BY DEF RunInstall, ClientInv, ConnOK
  <2> QED BY <2>1, <2>2 DEF RunInstall, AgreeOK, EffectOK, at
<1>7. ForgottenOK'
  BY <1>1 DEF RunAt, ForgottenOK
<1> QED BY <1>2, <1>3, <1>4, <1>5, <1>6, <1>7 DEF ClientInv

LEMMA RunDrainInv ==
  ASSUME ClientInv, RunDrain
  PROVE  ClientInv'
<1>1. RunAt("clear")
  BY RunMoves DEF RunDrain, ClientInv
<1>2. EntsOK' /\ EntsKept /\ lns' \in [IDs -> Ents \cup {Nil}]
  BY DropInv DEF RunDrain
<1>3. TypeOK'
  BY <1>1, <1>2 DEF RunDrain, RunAt, EntsKept, ClientInv, TypeOK
<1>4. HeldOK'
  BY <1>1, <1>2 DEF RunDrain, RunAt, EntsKept, ClientInv, TypeOK, HeldOK, at
<1>5. ConnOK'
  BY <1>1 DEF RunDrain, RunAt, ClientInv, ConnOK, Undisturbed, at
<1>6. AgreeOK'
  <2>1. \A i \in IDs : lns'[i] = Nil
    BY DEF RunDrain, NoRules
  <2> QED BY <1>1, <2>1 DEF RunDrain, RunAt, ClientInv, AgreeOK, EffectOK, at
<1>7. ForgottenOK'
  BY <1>1 DEF RunAt, ForgottenOK
<1> QED BY <1>2, <1>3, <1>4, <1>5, <1>6, <1>7 DEF ClientInv

LEMMA RunSnapshotInv ==
  ASSUME ClientInv, RunSnapshot
  PROVE  ClientInv'
<1>1. /\ run'.pc = "sub"
      /\ run'.conn = run.conn
      /\ run'.ent = run.ent
      /\ run'.todo = pending
  BY DEF RunSnapshot, ClientInv, TypeOK
<1>2. TypeOK'
  <2> DEFINE T == [pc: {"top", "dial", "install", "snapshot", "sub", "told", "wait",
                        "drain", "clear", "stopped"},
                   conn: Conns \cup {Nil}, ent: Ents \cup {Nil},
                   todo: [IDs -> Contents \cup {Nil}]]
             g == [run EXCEPT !.pc = "sub"]
  <2>1. g \in T
    BY DEF ClientInv, TypeOK
  <2>2. run' = [g EXCEPT !.todo = pending]
    BY DEF RunSnapshot
  <2> HIDE DEF g
  <2>3. run' \in T
    BY <2>1, <2>2 DEF ClientInv, TypeOK
  <2> QED BY <2>3 DEF RunSnapshot, ClientInv, TypeOK
<1>3. HeldOK'
  BY <1>1 DEF RunSnapshot, ClientInv, TypeOK, HeldOK, at
<1>4. EntsOK'
  BY DEF RunSnapshot, ClientInv, EntsOK, StopsOnce, ListenersOwned
<1>5. ConnOK'
  BY <1>1 DEF RunSnapshot, ClientInv, ConnOK, Undisturbed, at
<1>6. AgreeOK' /\ ForgottenOK'
  BY <1>1 DEF RunSnapshot, ClientInv, AgreeOK, EffectOK, ForgottenOK, at
<1> QED BY <1>2, <1>3, <1>4, <1>5, <1>6 DEF ClientInv

LEMMA RunSubscribedInv ==
  ASSUME ClientInv, RunSubscribed
  PROVE  ClientInv'
<1>1. RunAt("wait")
  BY RunMoves DEF RunSubscribed, ClientInv
<1>2. TypeOK' /\ HeldOK'
  BY <1>1 DEF RunSubscribed, RunAt, ClientInv, TypeOK, HeldOK, at
<1>3. EntsOK'
  BY DEF RunSubscribed, ClientInv, EntsOK, StopsOnce, ListenersOwned
<1>4. ConnOK'
  BY <1>1 DEF RunSubscribed, RunAt, ClientInv, ConnOK, Undisturbed, at
<1>5. AgreeOK' /\ ForgottenOK'
  BY <1>1 DEF RunSubscribed, RunAt, ClientInv, AgreeOK, EffectOK, ForgottenOK, Undisturbed, at
<1> QED BY <1>2, <1>3, <1>4, <1>5 DEF ClientInv

LEMMA RunDeadInv ==
  ASSUME ClientInv, RunDead
  PROVE  ClientInv'
<1>1. RunAt("drain")
  BY RunMoves DEF RunDead, ClientInv
<1>2. TypeOK' /\ HeldOK'
  BY <1>1 DEF RunDead, RunAt, ClientInv, TypeOK, HeldOK, at
<1>3. EntsOK'
  BY DEF RunDead, ClientInv, EntsOK, StopsOnce, ListenersOwned
<1>4. ConnOK'
  BY <1>1 DEF RunDead, RunAt, ClientInv, ConnOK, Undisturbed, at
<1>5. AgreeOK' /\ ForgottenOK'
  BY <1>1 DEF RunDead, RunAt, ClientInv, AgreeOK, EffectOK, ForgottenOK, at
<1> QED BY <1>2, <1>3, <1>4, <1>5 DEF ClientInv

LEMMA RunCancelledInv ==
  ASSUME ClientInv, RunCancelled
  PROVE  ClientInv'
<1>1. RunAt("clear")
  BY RunMoves DEF RunCancelled, ClientInv
<1>2. run.conn \in Conns
  BY DEF RunCancelled, ClientInv, TypeOK, HeldOK
<1>3. EntsKept /\ alive' = alive \ {run.conn}
  BY <1>2, EndKeeps DEF RunCancelled, End, ClientInv
<1>4. TypeOK'
  BY <1>1, <1>3 DEF RunCancelled, RunAt, EntsKept, ClientInv, TypeOK
<1>5. HeldOK'
  BY <1>1, <1>3 DEF RunCancelled, RunAt, EntsKept, ClientInv, TypeOK, HeldOK, at
<1>6. EntsOK'
  BY <1>3 DEF RunCancelled, ClientInv, TypeOK, EntsKept, EntsOK, StopsOnce, ListenersOwned
<1>7. ConnOK'
  BY <1>1, <1>3 DEF RunCancelled, RunAt, ClientInv, ConnOK, Undisturbed, at
<1>8. AgreeOK'
  BY <1>1, <1>3 DEF RunCancelled, RunAt, ClientInv, TypeOK, EntsKept, EntsOK, AgreeOK, EffectOK, at
<1>9. ForgottenOK'
  BY <1>1 DEF RunAt, ForgottenOK
<1> QED BY <1>4, <1>5, <1>6, <1>7, <1>8, <1>9 DEF ClientInv
LEMMA RunClearInv ==
  ASSUME ClientInv, RunClear
  PROVE  ClientInv'
<1>1. /\ run'.pc = "top"
      /\ run'.conn = Nil
      /\ run'.ent = run.ent
      /\ run'.todo = run.todo
  BY DEF RunClear, ClientInv, TypeOK
<1>2. TypeOK'
  <2> DEFINE T == [pc: {"top", "dial", "install", "snapshot", "sub", "told", "wait",
                        "drain", "clear", "stopped"},
                   conn: Conns \cup {Nil}, ent: Ents \cup {Nil},
                   todo: [IDs -> Contents \cup {Nil}]]
             g == [run EXCEPT !.pc = "top"]
  <2>1. g \in T
    BY DEF ClientInv, TypeOK
  <2>2. run' = [g EXCEPT !.conn = Nil]
    BY DEF RunClear
  <2> HIDE DEF g
  <2>3. run' \in T
    BY <2>1, <2>2
  <2> QED BY <2>3 DEF RunClear, ClientInv, TypeOK
<1>3. HeldOK'
  BY <1>1 DEF RunClear, ClientInv, TypeOK, HeldOK, at
<1>4. EntsOK'
  BY DEF RunClear, ClientInv, EntsOK, StopsOnce, ListenersOwned
<1>5. ConnOK'
  BY <1>1 DEF RunClear, ClientInv, ConnOK, Undisturbed, at
<1>6. AgreeOK' /\ ForgottenOK'
  BY <1>1 DEF RunClear, ClientInv, AgreeOK, EffectOK, ForgottenOK, at
<1> QED BY <1>2, <1>3, <1>4, <1>5, <1>6 DEF ClientInv

LEMMA RunReportInv ==
  ASSUME ClientInv, RunReport
  PROVE  ClientInv'
<1>1. /\ run.pc = "told"
      /\ run'.pc = "sub"
      /\ run'.conn = run.conn
      /\ run'.ent = Nil
      /\ run'.todo = run.todo
      /\ UNCHANGED <<pending, lns, conn, alive, backoff, cancelled, frame, refused, raced, effective>>
  BY DEF RunReport, ClientInv, TypeOK
<1>2. EntsKept
  <2>1. run.ent \in Ents \cup {Nil} /\ (run.ent # Nil => ent[run.ent] # Nil)
    BY DEF ClientInv, TypeOK, HeldOK
  <2> QED BY <2>1, SpawnedKeeps DEF RunReport, ClientInv
<1>3. TypeOK'
  <2> DEFINE T == [pc: {"top", "dial", "install", "snapshot", "sub", "told", "wait",
                        "drain", "clear", "stopped"},
                   conn: Conns \cup {Nil}, ent: Ents \cup {Nil},
                   todo: [IDs -> Contents \cup {Nil}]]
             g == [run EXCEPT !.pc = "sub"]
  <2>1. g \in T
    BY DEF ClientInv, TypeOK
  <2>2. run' = [g EXCEPT !.ent = Nil]
    BY DEF RunReport
  <2> HIDE DEF g
  <2>3. run' \in T
    BY <2>1, <2>2
  <2> QED BY <1>1, <1>2, <2>3 DEF EntsKept, ClientInv, TypeOK
<1>4. HeldOK'
  BY <1>1, <1>2 DEF EntsKept, ClientInv, TypeOK, HeldOK, at
<1>5. EntsOK'
  BY <1>1, <1>2 DEF ClientInv, TypeOK, EntsKept, EntsOK, StopsOnce, ListenersOwned
<1>6. ConnOK'
  BY <1>1 DEF ClientInv, ConnOK, Undisturbed, at
<1>7. AgreeOK'
  BY <1>1, <1>2 DEF ClientInv, TypeOK, EntsKept, EntsOK, AgreeOK, EffectOK, at
<1>8. ForgottenOK'
  BY <1>1 DEF ClientInv, ForgottenOK, Undisturbed, at
<1> QED BY <1>3, <1>4, <1>5, <1>6, <1>7, <1>8 DEF ClientInv

LEMMA RunSubscribeInv ==
  ASSUME ClientInv, NEW id \in IDs, RunSubscribe(id)
  PROVE  ClientInv'
<1> DEFINE T == [pc: {"top", "dial", "install", "snapshot", "sub", "told", "wait",
                      "drain", "clear", "stopped"},
                 conn: Conns \cup {Nil}, ent: Ents \cup {Nil},
                 todo: [IDs -> Contents \cup {Nil}]]
<1>1. /\ run.pc = "sub"
      /\ run.todo[id] \in Contents
      /\ run.conn \in Conns
      /\ run.ent = Nil
      /\ run.todo \in [IDs -> Contents \cup {Nil}]
      /\ run \in T
      /\ UNCHANGED <<pending, conn, alive, backoff, cancelled, frame, raced, effective>>
  <2>1. /\ run.pc = "sub"
        /\ run.todo[id] # Nil
        /\ UNCHANGED <<pending, conn, alive, backoff, cancelled, frame, raced, effective>>
    BY DEF RunSubscribe
  <2>2. run \in T
    BY DEF ClientInv, TypeOK
  <2>3. run.todo \in [IDs -> Contents \cup {Nil}] /\ run.conn \in Conns \cup {Nil}
    BY <2>2
  <2>4. run.ent = Nil /\ run.conn # Nil
    BY <2>1 DEF ClientInv, HeldOK
  <2> HIDE DEF T
  <2> QED BY <2>1, <2>2, <2>3, <2>4
<1>2. CASE /\ SubscribeExists(id) \/ SubscribeFails(id, run.conn)
           /\ run' = [run EXCEPT !.todo[id] = Nil]
  <2>1. /\ UNCHANGED <<lns, ent>>
        /\ refused \subseteq refused'
        /\ refused' \subseteq IDs
        /\ run.conn \in alive => lns[id] # Nil \/ id \in refused'
    BY <1>2 DEF SubscribeExists, SubscribeFails, ClientInv, TypeOK
  <2>2. /\ run' \in T
        /\ run'.pc = "sub"
        /\ run'.conn = run.conn
        /\ run'.ent = Nil
        /\ \A i \in IDs : run'.todo[i] = IF i = id THEN Nil ELSE run.todo[i]
    BY <1>1, <1>2
  <2> HIDE DEF T
  <2>3. TypeOK'
    BY <1>1, <2>1, <2>2 DEF ClientInv, TypeOK, T
  <2>4. HeldOK'
    BY <1>1, <2>1, <2>2 DEF ClientInv, TypeOK, HeldOK, at
  <2>5. EntsOK'
    BY <1>1, <2>1 DEF ClientInv, EntsOK, StopsOnce, ListenersOwned
  <2>6. ConnOK'
    BY <1>1, <2>2 DEF ClientInv, ConnOK, Undisturbed, at
  <2>7. AgreeOK'
    BY <1>1, <2>1, <2>2 DEF ClientInv, AgreeOK, EffectOK, at
  <2>8. ForgottenOK'
    BY <1>1, <2>1, <2>2 DEF ClientInv, ForgottenOK, Undisturbed, at
  <2> QED BY <2>3, <2>4, <2>5, <2>6, <2>7, <2>8 DEF ClientInv
<1>3. ASSUME NEW e \in Ents, SubscribeOK(id, run.todo[id], run.conn, e),
             run' = [run EXCEPT !.pc = "told", !.ent = e, !.todo[id] = Nil]
      PROVE  ClientInv'
  <2>1. /\ run' \in T
        /\ run'.pc = "told"
        /\ run'.conn = run.conn
        /\ run'.ent = e
        /\ \A i \in IDs : run'.todo[i] = IF i = id THEN Nil ELSE run.todo[i]
    <3> DEFINE g == [run EXCEPT !.pc = "told"]
               h == [g EXCEPT !.ent = e]
    <3>1. g \in T /\ g.conn = run.conn /\ g.todo = run.todo /\ g.pc = "told"
      BY <1>1
    <3> HIDE DEF g
    <3>2. /\ h \in T
          /\ h.conn = run.conn
          /\ h.todo = run.todo
          /\ h.pc = "told"
          /\ h.ent = e
      BY <3>1
    <3>3. run' = [h EXCEPT !.todo[id] = Nil]
      BY <1>3 DEF g
    <3> HIDE DEF h
    <3> QED BY <3>2, <3>3
  <2> HIDE DEF T
  <2>2. /\ \A x \in Ents : ent[x] # Nil => ent'[x] # Nil
        /\ ent'[e] # Nil
        /\ ent' \in [Ents -> Entry \cup {Nil}]
        /\ lns' \in [IDs -> Ents \cup {Nil}]
        /\ lns'[id] # Nil
        /\ \A i \in IDs : lns[i] # Nil => lns'[i] # Nil
        /\ e # Nil
    BY <1>1, <1>3, SubscribeOKEffect
  <2>3. refused' = refused
    BY <1>3 DEF SubscribeOK
  <2>4. EntsOK' /\ ConnOK' /\ AgreeOK'
    <3>1. id \notin raced => run.todo[id] = pending[id]
      BY <1>1, NilAssumption DEF ClientInv, AgreeOK, EffectOK
    <3>2. CallsGoOn
      BY <1>1 DEF CallsGoOn, at
    <3>3. RunGoesOn
      BY <1>1, <2>1 DEF RunGoesOn
    <3> QED BY <1>1, <1>3, <3>1, <3>2, <3>3, SubscribeOKInv
  <2>5. TypeOK'
    BY <1>1, <2>1, <2>2, <2>3 DEF ClientInv, TypeOK, T
  <2>6. HeldOK'
    BY <1>1, <2>1, <2>2 DEF ClientInv, TypeOK, HeldOK, at
  <2>7. ForgottenOK'
    BY <1>1, <2>1, <2>2, <2>3 DEF ClientInv, ForgottenOK, Undisturbed, at
  <2> QED BY <2>4, <2>5, <2>6, <2>7 DEF ClientInv
<1> QED BY <1>2, <1>3 DEF RunSubscribe

-----------------------------------------------------------------------------
(* The theorems                                                             *)

LEMMA InitInv == Init => ClientInv
<1> SUFFICES ASSUME Init PROVE ClientInv
  OBVIOUS
<1>1. TypeOK
  <2>1. NoRules \in [IDs -> Contents \cup {Nil}] /\ NoRules \in [IDs -> Ents \cup {Nil}]
    BY DEF NoRules
  <2>2. run \in [pc: {"top", "dial", "install", "snapshot", "sub", "told", "wait",
                      "drain", "clear", "stopped"},
                 conn: Conns \cup {Nil}, ent: Ents \cup {Nil},
                 todo: [IDs -> Contents \cup {Nil}]]
    BY <2>1 DEF Init
  <2>3. frame \in [Callers ->
          [pc: {"idle", "sub", "told", "closing"}, id: IDs \cup {Nil},
           content: Contents \cup {Nil}, conn: Conns \cup {Nil},
           ent: Ents \cup {Nil}, closing: SUBSET Ents]]
    BY DEF Init, Idle
  <2>4. backoff \in 1..MaxBackoff
    BY DEF Init, MaxBackoff
  <2>5. /\ ent \in [Ents -> Entry \cup {Nil}]
        /\ alive \subseteq Conns
        /\ conn \in Conns \cup {Nil}
        /\ cancelled \in BOOLEAN
        /\ refused \subseteq IDs
        /\ raced \subseteq IDs
    BY DEF Init
  <2> QED BY <2>1, <2>2, <2>3, <2>4, <2>5 DEF Init, TypeOK
<1>2. HeldOK
  BY DEF Init, HeldOK, NoRules, Idle, at
<1>3. EntsOK
  BY DEF Init, EntsOK, StopsOnce, ListenersOwned, NoRules, Idle
<1>4. ConnOK
  BY DEF Init, ConnOK
<1>5. AgreeOK /\ ForgottenOK
  BY DEF Init, AgreeOK, EffectOK, ForgottenOK, NoRules, Idle, at
<1> QED BY <1>1, <1>2, <1>3, <1>4, <1>5 DEF ClientInv

LEMMA NextInv == ClientInv /\ [Next]_vars => ClientInv'
<1> SUFFICES ASSUME ClientInv, [Next]_vars PROVE ClientInv'
  OBVIOUS
<1>1. ASSUME NEW p \in Callers, Call(p) PROVE ClientInv'
  BY <1>1, RemoveInv, AddBeginInv, ShutdownBeginInv DEF Call
<1>2. ASSUME NEW p \in Callers, Continue(p) PROVE ClientInv'
  BY <1>2, AddSubscribeInv, AddReportInv, ShutdownEntryInv, ShutdownEndInv DEF Continue
<1>3. CASE Run
  BY <1>3, RunTopInv, DialFailsInv, DialOKInv, RunInstallInv, RunSnapshotInv,
     RunSubscribeInv, RunReportInv, RunSubscribedInv, RunDeadInv,
     RunCancelledInv, RunDrainInv, RunClearInv DEF Run
<1>4. CASE Environment
  BY <1>4, CancelInv, ConnDiesInv DEF Environment
<1>5. CASE UNCHANGED vars
  <2>1. EntsKept
    BY <1>5 DEF vars, EntsKept, ClientInv, TypeOK
  <2> QED BY <1>5, <2>1, FadeInv DEF vars, ClientInv, TypeOK
<1> QED BY <1>1, <1>2, <1>3, <1>4, <1>5, AcceptEOFInv DEF Next

(* ClientInv is an invariant of the client, however many goroutines call    *)
(* Add, Remove and Shutdown while Run dials, subscribes and reconnects.     *)
THEOREM ClientInvariant == Spec => []ClientInv
BY InitInv, NextInv, PTL DEF Spec

(* Every variable has its type, and nextBackoff never leaves its cap.       *)
THEOREM TypeCorrect == Spec => []TypeOK
<1>1. ClientInv => TypeOK
  BY DEF ClientInv
<1> QED BY <1>1, ClientInvariant, PTL

(* While Run waits on a live connection, no rule registered is without a    *)
(* listener, a refusal or a subscribe under way.                            *)
THEOREM NoRuleForgotten == Spec => []NothingForgotten
<1>1. ClientInv => NothingForgotten
  BY DEF ClientInv, ForgottenOK, Undisturbed, NothingForgotten, Subscribing
<1> QED BY <1>1, ClientInvariant, PTL

(* A listener in c.lns forwards for its rule as it is registered now,       *)
(* unless the rule changed with a subscribe for it under way.               *)
THEOREM ListenersUpToDate == Spec => []ListenersAgree
<1>1. ClientInv => ListenersAgree
  BY DEF ClientInv, AgreeOK, EffectOK, ListenersAgree
<1> QED BY <1>1, ClientInvariant, PTL

(* No listener leaks: each open one is in c.lns or about to be closed.      *)
THEOREM NoListenerLeaks == Spec => []ListenersOwned
<1>1. ClientInv => ListenersOwned
  BY DEF ClientInv, EntsOK
<1> QED BY <1>1, ClientInvariant, PTL

(* No stop channel is closed twice, which would panic.                      *)
THEOREM NoDoubleClose == Spec => []StopsOnce
<1>1. ClientInv => StopsOnce
  BY DEF ClientInv, EntsOK
<1> QED BY <1>1, ClientInvariant, PTL

(* Never more than the one connection Run works with is up.                 *)
THEOREM AtMostOneConnection == Spec => []OneConnection
<1>1. ClientInv => OneConnection
  BY DEF ClientInv, ConnOK, OneConnection
<1> QED BY <1>1, ClientInvariant, PTL
=============================================================================
