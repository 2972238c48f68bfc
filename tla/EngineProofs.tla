---------------------------- MODULE EngineProofs ----------------------------
(***************************************************************************)
(* Proofs about Engine, for every number of goroutines, rules, listeners   *)
(* and addresses.  IdInv is the inductive invariant: BaseInv (types, who   *)
(* holds e.mu, the pointers a call follows) and IdsOK (which rule IDs are  *)
(* taken).  From it follow type correctness and IDsNotReused.              *)
(***************************************************************************)
EXTENDS Engine, TLAPS

(* A step that hands out no ID and publishes no rule.                       *)
IdsKept ==
  /\ nextID' = nextID
  /\ boot' = boot
  /\ raced \subseteq raced'
  /\ \A i \in IDs : rules'[i] \in {rules[i], Nil}
  /\ \A p \in Procs, i \in IDs : Inserting(p, i)' => Inserting(p, i)

(* A goroutine in the middle of a call on a rule holds a valid *Rule.        *)
LEMMA Pointers ==
  ASSUME BaseInv, NEW p \in Procs, frame[p].pc \notin {"idle", "loop", "selflock"}
  PROVE  /\ frame[p] \in Frame
         /\ frame[p].obj \in Objs
         /\ Obj(p) \in Rule
         /\ Obj(p) # Nil
         /\ Obj(p).id \in IDs
         /\ Obj(p).listen \in Addrs
         /\ Obj(p).target \in Targets
  BY NilAssumption DEF BaseInv, TypeOK, FrameOK, Frame, Rule, Obj

(* Assigning the fields of a rule keeps the type of the heap and every ID.  *)
LEMMA ConfigureKeeps ==
  ASSUME BaseInv, NEW o \in Objs, heap[o] # Nil,
         NEW a \in Addrs, NEW t \in Targets, NEW s \in Status
  PROVE  /\ Configure(o, a, t, s) \in [Objs -> Rule \cup {Nil}]
         /\ \A x \in Objs : heap[x] # Nil =>
              /\ Configure(o, a, t, s)[x] # Nil
              /\ Configure(o, a, t, s)[x].id = heap[x].id
<1>1. heap[o] \in Rule
  BY DEF BaseInv, TypeOK
<1>2. heap \in [Objs -> Rule \cup {Nil}]
  BY DEF BaseInv, TypeOK
<1>3. /\ Configure(o, a, t, s)[o] \in Rule
      /\ Configure(o, a, t, s)[o].id = heap[o].id
  BY <1>1, <1>2 DEF Configure, Rule
<1>4. \A x \in Objs \ {o} : Configure(o, a, t, s)[x] = heap[x]
  BY <1>2 DEF Configure
<1>5. DOMAIN Configure(o, a, t, s) = Objs
  BY <1>2 DEF Configure
<1>6. Configure(o, a, t, s) \in [Objs -> Rule \cup {Nil}]
  BY <1>2, <1>3, <1>4, <1>5 DEF Configure
<1> QED BY <1>3, <1>4, <1>6, NilAssumption

(* So does assigning its status.                                            *)
LEMMA SetStatusKeeps ==
  ASSUME BaseInv, NEW o \in Objs, heap[o] # Nil, NEW s \in Status
  PROVE  /\ SetStatus(o, s) \in [Objs -> Rule \cup {Nil}]
         /\ \A x \in Objs : heap[x] # Nil =>
              SetStatus(o, s)[x] # Nil /\ SetStatus(o, s)[x].id = heap[x].id
<1>1. heap[o] \in Rule
  BY DEF BaseInv, TypeOK
<1>2. heap \in [Objs -> Rule \cup {Nil}]
  BY DEF BaseInv, TypeOK
<1>3. /\ SetStatus(o, s)[o] \in Rule
      /\ SetStatus(o, s)[o].id = heap[o].id
  BY <1>1, <1>2 DEF SetStatus, Rule
<1>4. \A x \in Objs \ {o} : SetStatus(o, s)[x] = heap[x]
  BY <1>2 DEF SetStatus
<1>5. SetStatus(o, s) \in [Objs -> Rule \cup {Nil}]
  BY <1>1, <1>2 DEF SetStatus, Rule
<1> QED BY <1>3, <1>4, <1>5, NilAssumption

-----------------------------------------------------------------------------
(* One lemma per action: it preserves BaseInv, and every action other than  *)
(* AddBegin, AddInsert and Restore also IdsKept.                            *)
LEMMA AddBeginBase ==
  ASSUME BaseInv, NEW p \in Procs, AddBegin(p)
  PROVE  BaseInv'
<1>1. PICK o \in Objs, c \in Config :
        /\ heap[o] = Nil
        /\ heap' = [heap EXCEPT ![o] =
             [id |-> nextID, typ |-> c.typ, listen |-> c.listen,
              target |-> c.target, status |-> "running"]]
        /\ frame' = [frame EXCEPT ![p] =
             [Idle EXCEPT !.pc = "insert", !.op = "add", !.obj = o]]
  BY DEF AddBegin
<1> DEFINE r == [id |-> nextID, typ |-> c.typ, listen |-> c.listen,
                 target |-> c.target, status |-> "running"]
           f == [Idle EXCEPT !.pc = "insert", !.op = "add", !.obj = o]
<1>2. r \in Rule /\ r # Nil
  <2>1. /\ c.typ \in {"local", "remote"}
        /\ c.listen \in Addrs
        /\ c.target \in Targets
    BY <1>1 DEF Config
  <2>2. nextID \in IDs
    BY DEF AddBegin
  <2>3. r \in Rule
    BY <2>1, <2>2 DEF Rule, Status
  <2> QED BY <2>3, NilAssumption
<1>3. /\ f \in Frame
      /\ f.obj = o
      /\ f.pc = "insert"
      /\ f.op = "add"
      /\ f.todo = {}
  BY DEF Idle, Frame, Labels
<1> HIDE DEF r, f
<1>4. /\ heap' = [heap EXCEPT ![o] = r]
      /\ heap' \in [Objs -> Rule \cup {Nil}]
      /\ \A x \in Objs : heap[x] # Nil => heap'[x] = heap[x]
  BY <1>1, <1>2 DEF BaseInv, TypeOK, r
<1>5. /\ frame' = [frame EXCEPT ![p] = f]
      /\ frame' \in [Procs -> Frame]
      /\ \A q \in Procs \ {p} : frame'[q] = frame[q]
  BY <1>1, <1>3 DEF BaseInv, TypeOK, f
<1>6. TypeOK'
  BY <1>4, <1>5 DEF BaseInv, TypeOK, AddBegin
<1>7. LockOK'
  BY <1>3, <1>5 DEF BaseInv, TypeOK, LockOK, Holds, AddBegin
<1>8. ASSUME NEW q \in Procs PROVE FrameOK(q)'
  <2>1. CASE q = p
    <3>1. frame'[p] = f /\ heap'[o] = r
      BY <1>4, <1>5 DEF BaseInv, TypeOK
    <3>2. o # Nil
      BY NilAssumption
    <3> QED BY <1>2, <1>3, <2>1, <3>1, <3>2 DEF FrameOK
  <2>2. CASE q # p
    BY <1>4, <1>5, <2>2 DEF BaseInv, TypeOK, FrameOK, Frame, Holds, Obj,
       AddBegin
  <2> QED BY <2>1, <2>2
<1>9. RefsOK'
  BY <1>4 DEF BaseInv, TypeOK, RefsOK, AddBegin
<1> QED BY <1>6, <1>7, <1>8, <1>9 DEF BaseInv

(* AddInsert preserves BaseInv. *)
LEMMA AddInsertBase ==
  ASSUME BaseInv, NEW p \in Procs, AddInsert(p)
  PROVE  BaseInv'
<1>1. frame[p].pc \notin {"idle", "loop", "selflock"}
  BY DEF AddInsert, at
<1>2. /\ frame[p] \in Frame
      /\ frame[p].obj \in Objs
      /\ Obj(p) \in Rule
      /\ Obj(p) # Nil
      /\ Obj(p).id \in IDs
      /\ Obj(p).listen \in Addrs
      /\ Obj(p).target \in Targets
  BY <1>1, Pointers
<1>3. /\ frame' \in [Procs -> Frame]
      /\ \A q \in Procs \ {p} : frame'[q] = frame[q]
  BY <1>2, NilAssumption DEF BaseInv, TypeOK, AddInsert, NextIDAfterAdd,
     Obj, Frame, Labels, at
<1>4. TypeOK'
  BY <1>2, <1>3 DEF BaseInv, TypeOK, FrameOK, RefsOK, AddInsert,
     NextIDAfterAdd, Obj, at, Rule, Frame
<1>5. LockOK'
  BY <1>2, <1>3, NilAssumption DEF BaseInv, TypeOK, LockOK, Holds, FrameOK,
     AddInsert, NextIDAfterAdd, Obj, at, Frame
<1>6. ASSUME NEW q \in Procs PROVE FrameOK(q)'
  BY <1>2, <1>3, NilAssumption DEF BaseInv, TypeOK, LockOK, RefsOK, Holds,
     FrameOK, AddInsert, NextIDAfterAdd, Obj, at, Frame
<1>7. RefsOK'
  BY <1>2, <1>3 DEF BaseInv, TypeOK, FrameOK, RefsOK, AddInsert,
     NextIDAfterAdd, Obj, at, Frame, Rule
<1> QED BY <1>4, <1>5, <1>6, <1>7 DEF BaseInv

(* AddPending preserves BaseInv and IdsKept. *)
LEMMA AddPendingBase ==
  ASSUME BaseInv, NEW p \in Procs, AddPending(p)
  PROVE  BaseInv' /\ IdsKept
<1>1. frame[p].pc \notin {"idle", "loop", "selflock"}
  BY DEF AddPending, at
<1>2. /\ frame[p] \in Frame
      /\ frame[p].obj \in Objs
      /\ Obj(p) \in Rule
      /\ Obj(p) # Nil
      /\ Obj(p).id \in IDs
      /\ Obj(p).listen \in Addrs
      /\ Obj(p).target \in Targets
  BY <1>1, Pointers
<1>3. /\ frame' \in [Procs -> Frame]
      /\ \A q \in Procs \ {p} : frame'[q] = frame[q]
  BY <1>2, NilAssumption DEF BaseInv, TypeOK, AddPending, Frame, Labels,
     Idle, at
<1>4. /\ heap' \in [Objs -> Rule \cup {Nil}]
      /\ \A o \in Objs : heap[o] # Nil =>
           heap'[o] # Nil /\ heap'[o].id = heap[o].id
  BY <1>2, SetStatusKeeps DEF AddPending, Obj, Status
<1>5. TypeOK'
  BY <1>2, <1>3, <1>4 DEF BaseInv, TypeOK, FrameOK, RefsOK, AddPending, at,
     Rule, Frame
<1>6. LockOK'
  BY <1>2, <1>3, <1>4, NilAssumption DEF BaseInv, TypeOK, LockOK, Holds,
     FrameOK, AddPending, at, Idle, Frame
<1>7. ASSUME NEW q \in Procs PROVE FrameOK(q)'
  BY <1>2, <1>3, <1>4, NilAssumption DEF BaseInv, TypeOK, LockOK, RefsOK,
     Holds, FrameOK, AddPending, at, Obj, Idle, Frame
<1>8. RefsOK'
  BY <1>2, <1>3, <1>4 DEF BaseInv, TypeOK, FrameOK, RefsOK, AddPending, at,
     Frame, Rule
<1>9. IdsKept
  BY <1>2, <1>3, <1>4, NilAssumption DEF BaseInv, TypeOK, FrameOK, IdsKept,
     Inserting, AddPending, at, Obj, Idle, Frame
<1> QED BY <1>5, <1>6, <1>7, <1>8, <1>9 DEF BaseInv

(* BackendRemove preserves BaseInv and IdsKept. *)
LEMMA BackendRemoveBase ==
  ASSUME BaseInv, NEW p \in Procs, BackendRemove(p)
  PROVE  BaseInv' /\ IdsKept
<1>1. frame[p].pc \notin {"idle", "loop", "selflock"}
  BY DEF BackendRemove, at
<1>2. /\ frame[p] \in Frame
      /\ frame[p].obj \in Objs
      /\ Obj(p) \in Rule
      /\ Obj(p) # Nil
      /\ Obj(p).id \in IDs
      /\ Obj(p).listen \in Addrs
      /\ Obj(p).target \in Targets
  BY <1>1, Pointers
<1>3. /\ frame' \in [Procs -> Frame]
      /\ \A q \in Procs \ {p} : frame'[q] = frame[q]
  BY <1>2, NilAssumption DEF BaseInv, TypeOK, BackendRemove, Obj, Goto,
     Frame, Labels, at
<1>4. TypeOK'
  BY <1>2, <1>3 DEF BaseInv, TypeOK, FrameOK, RefsOK, BackendRemove, Obj,
     at, Rule, Frame
<1>5. LockOK'
  BY <1>2, <1>3, NilAssumption DEF BaseInv, TypeOK, LockOK, Holds, FrameOK,
     BackendRemove, Obj, Goto, at, Frame
<1>6. ASSUME NEW q \in Procs PROVE FrameOK(q)'
  BY <1>2, <1>3, NilAssumption DEF BaseInv, TypeOK, LockOK, RefsOK, Holds,
     FrameOK, BackendRemove, Obj, Goto, at, Frame
<1>7. RefsOK'
  BY <1>2, <1>3 DEF BaseInv, TypeOK, FrameOK, RefsOK, BackendRemove, Obj,
     at, Frame, Rule
<1>8. IdsKept
  BY <1>2, <1>3, NilAssumption DEF BaseInv, TypeOK, FrameOK, IdsKept,
     Inserting, BackendRemove, Obj, Goto, at, Frame
<1> QED BY <1>4, <1>5, <1>6, <1>7, <1>8 DEF BaseInv

(* BackendCopy preserves BaseInv and IdsKept. *)
LEMMA BackendCopyBase ==
  ASSUME BaseInv, NEW p \in Procs, BackendCopy(p)
  PROVE  BaseInv' /\ IdsKept
<1>1. frame[p].pc \notin {"idle", "loop", "selflock"}
  BY DEF BackendCopy, at
<1>2. /\ frame[p] \in Frame
      /\ frame[p].obj \in Objs
      /\ Obj(p) \in Rule
      /\ Obj(p) # Nil
      /\ Obj(p).id \in IDs
      /\ Obj(p).listen \in Addrs
      /\ Obj(p).target \in Targets
  BY <1>1, Pointers
<1>3. /\ frame' \in [Procs -> Frame]
      /\ \A q \in Procs \ {p} : frame'[q] = frame[q]
  BY <1>2, NilAssumption DEF BaseInv, TypeOK, BackendCopy, Obj, Frame,
     Labels, at
<1>4. TypeOK'
  BY <1>2, <1>3 DEF BaseInv, TypeOK, FrameOK, RefsOK, BackendCopy, Obj, at,
     Rule, Frame
<1>5. LockOK'
  BY <1>2, <1>3, NilAssumption DEF BaseInv, TypeOK, LockOK, Holds, FrameOK,
     BackendCopy, Obj, at, Frame
<1>6. ASSUME NEW q \in Procs PROVE FrameOK(q)'
  BY SMTT(30), <1>2, <1>3, NilAssumption DEF BaseInv, TypeOK, LockOK, RefsOK, Holds,
     FrameOK, BackendCopy, Obj, at, Frame
<1>7. RefsOK'
  BY <1>2, <1>3 DEF BaseInv, TypeOK, FrameOK, RefsOK, BackendCopy, Obj, at,
     Frame, Rule
<1>8. IdsKept
  BY SMTT(30), <1>2, <1>3, NilAssumption DEF BaseInv, TypeOK, FrameOK, IdsKept,
     Inserting, BackendCopy, Obj, at, Frame
<1> QED BY <1>4, <1>5, <1>6, <1>7, <1>8 DEF BaseInv

(* BackendAdd preserves BaseInv and IdsKept. *)
LEMMA BackendAddBase ==
  ASSUME BaseInv, NEW p \in Procs, BackendAdd(p)
  PROVE  BaseInv' /\ IdsKept
<1>1. frame[p].pc \notin {"idle", "loop", "selflock"}
  BY DEF BackendAdd, at
<1>2. /\ frame[p] \in Frame
      /\ frame[p].obj \in Objs
      /\ Obj(p) \in Rule
      /\ Obj(p) # Nil
      /\ Obj(p).id \in IDs
      /\ Obj(p).listen \in Addrs
      /\ Obj(p).target \in Targets
  BY <1>1, Pointers
<1>3. /\ frame' \in [Procs -> Frame]
      /\ \A q \in Procs \ {p} : frame'[q] = frame[q]
  BY <1>2, NilAssumption DEF BaseInv, TypeOK, BackendAdd, Obj, Return,
     Frame, Labels, Idle, at
<1>4. TypeOK'
  BY <1>2, <1>3 DEF BaseInv, TypeOK, FrameOK, RefsOK, BackendAdd, Obj, at,
     Rule, Frame
<1>5. LockOK'
  BY <1>2, <1>3, NilAssumption DEF BaseInv, TypeOK, LockOK, Holds, FrameOK,
     BackendAdd, Obj, Return, at, Idle, Frame
<1>6. ASSUME NEW q \in Procs PROVE FrameOK(q)'
  BY <1>2, <1>3, NilAssumption DEF BaseInv, TypeOK, LockOK, RefsOK, Holds,
     FrameOK, BackendAdd, Obj, Return, at, Idle, Frame
<1>7. RefsOK'
  BY <1>2, <1>3 DEF BaseInv, TypeOK, FrameOK, RefsOK, BackendAdd, Obj, at,
     Frame, Rule
<1>8. IdsKept
  BY <1>2, <1>3, NilAssumption DEF BaseInv, TypeOK, FrameOK, IdsKept,
     Inserting, BackendAdd, Obj, Return, at, Idle, Frame
<1> QED BY <1>4, <1>5, <1>6, <1>7, <1>8 DEF BaseInv

(* StartListen preserves BaseInv and IdsKept. *)
LEMMA StartListenBase ==
  ASSUME BaseInv, NEW p \in Procs, StartListen(p)
  PROVE  BaseInv' /\ IdsKept
<1>1. frame[p].pc \notin {"idle", "loop", "selflock"}
  BY DEF StartListen, at
<1>2. /\ frame[p] \in Frame
      /\ frame[p].obj \in Objs
      /\ Obj(p) \in Rule
      /\ Obj(p) # Nil
      /\ Obj(p).id \in IDs
      /\ Obj(p).listen \in Addrs
      /\ Obj(p).target \in Targets
  BY <1>1, Pointers
<1>3. /\ frame' \in [Procs -> Frame]
      /\ \A q \in Procs \ {p} : frame'[q] = frame[q]
  BY <1>2, NilAssumption DEF BaseInv, TypeOK, StartListen, CanBind, Unused,
     NewListener, Obj, Frame, Labels, at
<1>4. lsn' \in [Lsns -> Listener \cup {Nil}]
  BY DEF BaseInv, TypeOK, FrameOK, RefsOK, StartListen, CanBind, Unused,
     NewListener, Obj, Listener, Rule, Frame, at
<1>5. \A m \in Lsns : lsn[m] # Nil /\ ~Unused(m) => lsn'[m] = lsn[m]
  BY <1>4 DEF BaseInv, TypeOK, FrameOK, RefsOK, StartListen, CanBind,
     Unused, NewListener, Obj, Listener
<1>6. TypeOK'
  BY <1>2, <1>3, <1>4, <1>5 DEF BaseInv, TypeOK, FrameOK, RefsOK,
     StartListen, CanBind, Unused, NewListener, Obj, at, Rule, Frame
<1>7. LockOK'
  BY <1>2, <1>3, <1>4, <1>5, NilAssumption DEF BaseInv, TypeOK, LockOK,
     Holds, FrameOK, StartListen, CanBind, Unused, NewListener, Obj, at,
     Frame
<1>8. ASSUME NEW q \in Procs PROVE FrameOK(q)'
  BY <1>2, <1>3, <1>4, <1>5, NilAssumption DEF BaseInv, TypeOK, LockOK,
     RefsOK, Holds, FrameOK, StartListen, CanBind, Unused, NewListener, Obj,
     at, Frame
<1>9. RefsOK'
  BY <1>2, <1>3, <1>4, <1>5 DEF BaseInv, TypeOK, FrameOK, RefsOK,
     StartListen, CanBind, Unused, NewListener, Obj, at, Frame, Rule
<1>10. IdsKept
  BY <1>2, <1>3, <1>4, <1>5, NilAssumption DEF BaseInv, TypeOK, FrameOK,
     IdsKept, Inserting, StartListen, CanBind, Unused, NewListener, Obj, at,
     Frame
<1> QED BY <1>6, <1>7, <1>8, <1>9, <1>10 DEF BaseInv

(* StartListenFails preserves BaseInv and IdsKept. *)
LEMMA StartListenFailsBase ==
  ASSUME BaseInv, NEW p \in Procs, StartListenFails(p)
  PROVE  BaseInv' /\ IdsKept
<1>1. frame[p].pc \notin {"idle", "loop", "selflock"}
  BY DEF StartListenFails, at
<1>2. /\ frame[p] \in Frame
      /\ frame[p].obj \in Objs
      /\ Obj(p) \in Rule
      /\ Obj(p) # Nil
      /\ Obj(p).id \in IDs
      /\ Obj(p).listen \in Addrs
      /\ Obj(p).target \in Targets
  BY <1>1, Pointers
<1>3. /\ frame' \in [Procs -> Frame]
      /\ \A q \in Procs \ {p} : frame'[q] = frame[q]
  BY <1>2, NilAssumption DEF BaseInv, TypeOK, StartListenFails, Goto, Frame,
     Labels, at
<1>4. TypeOK'
  BY <1>2, <1>3 DEF BaseInv, TypeOK, FrameOK, RefsOK, StartListenFails, at,
     Rule, Frame
<1>5. LockOK'
  BY <1>2, <1>3, NilAssumption DEF BaseInv, TypeOK, LockOK, Holds, FrameOK,
     StartListenFails, Goto, at, Frame
<1>6. ASSUME NEW q \in Procs PROVE FrameOK(q)'
  BY <1>2, <1>3, NilAssumption DEF BaseInv, TypeOK, LockOK, RefsOK, Holds,
     FrameOK, StartListenFails, Goto, at, Obj, Frame
<1>7. RefsOK'
  BY <1>2, <1>3 DEF BaseInv, TypeOK, FrameOK, RefsOK, StartListenFails, at,
     Frame, Rule
<1>8. IdsKept
  BY <1>2, <1>3, NilAssumption DEF BaseInv, TypeOK, FrameOK, IdsKept,
     Inserting, StartListenFails, Goto, at, Obj, Frame
<1> QED BY <1>4, <1>5, <1>6, <1>7, <1>8 DEF BaseInv

(* StartPutListener preserves BaseInv and IdsKept. *)
LEMMA StartPutListenerBase ==
  ASSUME BaseInv, NEW p \in Procs, StartPutListener(p)
  PROVE  BaseInv' /\ IdsKept
<1>1. frame[p].pc \notin {"idle", "loop", "selflock"}
  BY DEF StartPutListener, at
<1>2. /\ frame[p] \in Frame
      /\ frame[p].obj \in Objs
      /\ Obj(p) \in Rule
      /\ Obj(p) # Nil
      /\ Obj(p).id \in IDs
      /\ Obj(p).listen \in Addrs
      /\ Obj(p).target \in Targets
  BY <1>1, Pointers
<1>3. /\ frame' \in [Procs -> Frame]
      /\ \A q \in Procs \ {p} : frame'[q] = frame[q]
  BY <1>2, NilAssumption DEF BaseInv, TypeOK, StartPutListener, Obj, Goto,
     Frame, Labels, at
<1>4. TypeOK'
  BY <1>2, <1>3 DEF BaseInv, TypeOK, FrameOK, RefsOK, StartPutListener, Obj,
     at, Rule, Frame
<1>5. LockOK'
  BY <1>2, <1>3, NilAssumption DEF BaseInv, TypeOK, LockOK, Holds, FrameOK,
     StartPutListener, Obj, Goto, at, Frame
<1>6. ASSUME NEW q \in Procs PROVE FrameOK(q)'
  BY <1>2, <1>3, NilAssumption DEF BaseInv, TypeOK, LockOK, RefsOK, Holds,
     FrameOK, StartPutListener, Obj, Goto, at, Frame
<1>7. RefsOK'
  BY <1>2, <1>3 DEF BaseInv, TypeOK, FrameOK, RefsOK, StartPutListener, Obj,
     at, Frame, Rule
<1>8. IdsKept
  BY <1>2, <1>3, NilAssumption DEF BaseInv, TypeOK, FrameOK, IdsKept,
     Inserting, StartPutListener, Obj, Goto, at, Frame
<1> QED BY <1>4, <1>5, <1>6, <1>7, <1>8 DEF BaseInv

(* StartSpawn preserves BaseInv and IdsKept. *)
LEMMA StartSpawnBase ==
  ASSUME BaseInv, NEW p \in Procs, StartSpawn(p)
  PROVE  BaseInv' /\ IdsKept
<1>1. frame[p].pc \notin {"idle", "loop", "selflock"}
  BY DEF StartSpawn, at
<1>2. /\ frame[p] \in Frame
      /\ frame[p].obj \in Objs
      /\ Obj(p) \in Rule
      /\ Obj(p) # Nil
      /\ Obj(p).id \in IDs
      /\ Obj(p).listen \in Addrs
      /\ Obj(p).target \in Targets
  BY <1>1, Pointers
<1>3. /\ frame' \in [Procs -> Frame]
      /\ \A q \in Procs \ {p} : frame'[q] = frame[q]
  BY <1>2, NilAssumption DEF BaseInv, TypeOK, StartSpawn, Obj, Return,
     Frame, Labels, Idle, at
<1>4. /\ heap' \in [Objs -> Rule \cup {Nil}]
      /\ \A o \in Objs : heap[o] # Nil =>
           heap'[o] # Nil /\ heap'[o].id = heap[o].id
  <2>1. CASE frame[p].op = "restart"
    <3>1. heap' = SetStatus(frame[p].obj, "running")
      BY <2>1 DEF StartSpawn
    <3>2. "running" \in Status
      BY DEF Status
    <3> QED BY <1>2, <3>1, <3>2, SetStatusKeeps DEF Obj
  <2>2. CASE frame[p].op # "restart"
    BY <2>2 DEF StartSpawn, BaseInv, TypeOK
  <2> QED BY <2>1, <2>2
<1>5. lsn' \in [Lsns -> Listener \cup {Nil}]
  BY SMTT(30) DEF BaseInv, TypeOK, FrameOK, RefsOK, StartSpawn, Obj, Listener, Rule,
     Frame, at
<1>6. \A m \in Lsns : lsn[m] # Nil =>
        lsn'[m] # Nil /\ lsn'[m].id = lsn[m].id
  BY <1>5, NilAssumption DEF BaseInv, TypeOK, FrameOK, RefsOK, StartSpawn,
     Obj, Listener, at
<1>7. TypeOK'
  BY <1>2, <1>3, <1>4, <1>5, <1>6 DEF BaseInv, TypeOK, FrameOK, RefsOK,
     StartSpawn, Obj, at, Rule, Frame
<1>8. LockOK'
  BY SMTT(30), <1>2, <1>3, <1>4, <1>5, <1>6, NilAssumption DEF BaseInv, TypeOK,
     LockOK, Holds, FrameOK, StartSpawn, Obj, Return, at, Idle, Frame
<1>9. ASSUME NEW q \in Procs PROVE FrameOK(q)'
  <2>1. FrameOK(q)
    BY DEF BaseInv
  <2>2. rules' = rules
    BY DEF StartSpawn
  <2>3. CASE q # p
    <3>1. /\ frame[q].obj \in Objs \cup {Nil}
          /\ frame[q].ln \in Lsns \cup {Nil}
      BY DEF BaseInv, TypeOK, Frame
    <3> QED BY <1>3, <1>4, <1>5, <1>6, <2>1, <2>2, <2>3, <3>1 DEF FrameOK,
       Holds, Obj
  <2>4. CASE q = p /\ frame[p].op = "restart"
    <3>1. /\ frame'[p].pc = "loop"
          /\ frame'[p].op = "restart"
          /\ frame'[p].obj = Nil
          /\ frame'[p].todo = frame[p].todo
      BY <1>2, <2>4 DEF StartSpawn, BaseInv, TypeOK, Frame
    <3> QED BY <2>1, <2>2, <2>4, <3>1 DEF FrameOK, Holds
  <2>5. CASE q = p /\ frame[p].op # "restart"
    <3>1. frame'[p] = Idle
      BY <1>2, <2>5 DEF StartSpawn, Return, BaseInv, TypeOK
    <3> QED BY <2>5, <3>1 DEF FrameOK, Idle
  <2> QED BY <2>3, <2>4, <2>5
<1>10. RefsOK'
  BY <1>2, <1>3, <1>4, <1>5, <1>6 DEF BaseInv, TypeOK, FrameOK, RefsOK,
     StartSpawn, Obj, at, Frame, Rule
<1>11. IdsKept
  BY <1>2, <1>3, <1>4, <1>5, <1>6, NilAssumption DEF BaseInv, TypeOK,
     FrameOK, IdsKept, Inserting, StartSpawn, Obj, Return, at, Idle, Frame
<1> QED BY <1>7, <1>8, <1>9, <1>10, <1>11 DEF BaseInv

(* StartFailed preserves BaseInv and IdsKept. *)
LEMMA StartFailedBase ==
  ASSUME BaseInv, NEW p \in Procs, StartFailed(p)
  PROVE  BaseInv' /\ IdsKept
<1>1. frame[p].pc \notin {"idle", "loop", "selflock"}
  BY DEF StartFailed, at
<1>2. /\ frame[p] \in Frame
      /\ frame[p].obj \in Objs
      /\ Obj(p) \in Rule
      /\ Obj(p) # Nil
      /\ Obj(p).id \in IDs
      /\ Obj(p).listen \in Addrs
      /\ Obj(p).target \in Targets
  BY <1>1, Pointers
<1>3. /\ frame' \in [Procs -> Frame]
      /\ \A q \in Procs \ {p} : frame'[q] = frame[q]
  BY <1>2, NilAssumption DEF BaseInv, TypeOK, StartFailed, Frame, Labels,
     Idle, at
<1>4. /\ heap' \in [Objs -> Rule \cup {Nil}]
      /\ \A o \in Objs : heap[o] # Nil =>
           heap'[o] # Nil /\ heap'[o].id = heap[o].id
  BY <1>2, SetStatusKeeps DEF StartFailed, Obj, Status
<1>5. TypeOK'
  BY <1>2, <1>3, <1>4 DEF BaseInv, TypeOK, FrameOK, RefsOK, StartFailed, at,
     Rule, Frame
<1>6. LockOK'
  BY <1>2, <1>3, <1>4, NilAssumption DEF BaseInv, TypeOK, LockOK, Holds,
     FrameOK, StartFailed, at, Idle, Frame
<1>7. ASSUME NEW q \in Procs PROVE FrameOK(q)'
  BY <1>2, <1>3, <1>4, NilAssumption DEF BaseInv, TypeOK, LockOK, RefsOK,
     Holds, FrameOK, StartFailed, at, Obj, Idle, Frame
<1>8. RefsOK'
  BY <1>2, <1>3, <1>4 DEF BaseInv, TypeOK, FrameOK, RefsOK, StartFailed, at,
     Frame, Rule
<1>9. IdsKept
  BY <1>2, <1>3, <1>4, NilAssumption DEF BaseInv, TypeOK, FrameOK, IdsKept,
     Inserting, StartFailed, at, Obj, Idle, Frame
<1> QED BY <1>5, <1>6, <1>7, <1>8, <1>9 DEF BaseInv

(* StopClose preserves BaseInv and IdsKept. *)
LEMMA StopCloseBase ==
  ASSUME BaseInv, NEW p \in Procs, StopClose(p)
  PROVE  BaseInv' /\ IdsKept
<1>1. frame[p].pc \notin {"idle", "loop", "selflock"}
  BY DEF StopClose, at
<1>2. /\ frame[p] \in Frame
      /\ frame[p].obj \in Objs
      /\ Obj(p) \in Rule
      /\ Obj(p) # Nil
      /\ Obj(p).id \in IDs
      /\ Obj(p).listen \in Addrs
      /\ Obj(p).target \in Targets
  BY <1>1, Pointers
<1>3. /\ frame' \in [Procs -> Frame]
      /\ \A q \in Procs \ {p} : frame'[q] = frame[q]
  BY <1>2, NilAssumption DEF BaseInv, TypeOK, StopClose, Obj, Goto, Frame,
     Labels, at
<1>4. /\ lsn' \in [Lsns -> Listener \cup {Nil}]
      /\ \A m \in Lsns : lsn[m] # Nil =>
           lsn'[m] # Nil /\ lsn'[m].id = lsn[m].id
  <2>1. CASE lns[Obj(p).id] = Nil
    BY <2>1 DEF StopClose, BaseInv, TypeOK
  <2>2. CASE lns[Obj(p).id] # Nil
    <3>1. /\ lns[Obj(p).id] \in Lsns
          /\ lsn[lns[Obj(p).id]] \in Listener
      BY <1>2, <2>2 DEF BaseInv, TypeOK, RefsOK
    <3>2. lsn' = [lsn EXCEPT ![lns[Obj(p).id]].open = FALSE]
      BY <2>2 DEF StopClose
    <3> QED BY <3>1, <3>2, NilAssumption DEF BaseInv, TypeOK, Listener
  <2> QED BY <2>1, <2>2
<1>5. TypeOK'
  BY <1>2, <1>3, <1>4 DEF BaseInv, TypeOK, FrameOK, RefsOK, StopClose, Obj,
     at, Rule, Frame
<1>6. LockOK'
  BY <1>2, <1>3, <1>4, NilAssumption DEF BaseInv, TypeOK, LockOK, Holds,
     FrameOK, StopClose, Obj, Goto, at, Frame
<1>7. ASSUME NEW q \in Procs PROVE FrameOK(q)'
  BY <1>2, <1>3, <1>4, NilAssumption DEF BaseInv, TypeOK, LockOK, RefsOK,
     Holds, FrameOK, StopClose, Obj, Goto, at, Frame
<1>8. RefsOK'
  BY <1>2, <1>3, <1>4 DEF BaseInv, TypeOK, FrameOK, RefsOK, StopClose, Obj,
     at, Frame, Rule
<1>9. IdsKept
  BY <1>2, <1>3, <1>4, NilAssumption DEF BaseInv, TypeOK, FrameOK, IdsKept,
     Inserting, StopClose, Obj, Goto, at, Frame
<1> QED BY <1>5, <1>6, <1>7, <1>8, <1>9 DEF BaseInv

(* StopSignal preserves BaseInv and IdsKept. *)
LEMMA StopSignalBase ==
  ASSUME BaseInv, NEW p \in Procs, StopSignal(p)
  PROVE  BaseInv' /\ IdsKept
<1>1. frame[p].pc \notin {"idle", "loop", "selflock"}
  BY DEF StopSignal, at
<1>2. /\ frame[p] \in Frame
      /\ frame[p].obj \in Objs
      /\ Obj(p) \in Rule
      /\ Obj(p) # Nil
      /\ Obj(p).id \in IDs
      /\ Obj(p).listen \in Addrs
      /\ Obj(p).target \in Targets
  BY <1>1, Pointers
<1>3. /\ frame' \in [Procs -> Frame]
      /\ \A q \in Procs \ {p} : frame'[q] = frame[q]
  BY <1>2, NilAssumption DEF BaseInv, TypeOK, StopSignal, Obj, Goto, Frame,
     Labels, at
<1>4. /\ heap' \in [Objs -> Rule \cup {Nil}]
      /\ \A o \in Objs : heap[o] # Nil =>
           heap'[o] # Nil /\ heap'[o].id = heap[o].id
  BY <1>2, SetStatusKeeps DEF StopSignal, Obj, Status
<1>5. /\ lsn' \in [Lsns -> Listener \cup {Nil}]
      /\ \A m \in Lsns : lsn[m] # Nil =>
           lsn'[m] # Nil /\ lsn'[m].id = lsn[m].id
  <2>1. CASE stop[Obj(p).id] = Nil
    BY <2>1 DEF StopSignal, BaseInv, TypeOK
  <2>2. CASE stop[Obj(p).id] # Nil
    <3>1. /\ stop[Obj(p).id] \in Lsns
          /\ lsn[stop[Obj(p).id]] \in Listener
      BY <1>2, <2>2 DEF BaseInv, TypeOK, RefsOK
    <3>2. lsn' = [lsn EXCEPT ![stop[Obj(p).id]].stopped = TRUE]
      BY <2>2 DEF StopSignal
    <3> QED BY <3>1, <3>2, NilAssumption DEF BaseInv, TypeOK, Listener
  <2> QED BY <2>1, <2>2
<1>6. TypeOK'
  BY <1>2, <1>3, <1>4, <1>5 DEF BaseInv, TypeOK, FrameOK, RefsOK,
     StopSignal, Obj, at, Rule, Frame
<1>7. LockOK'
  BY ZenonT(60), <1>2, <1>3, <1>4, <1>5, NilAssumption DEF BaseInv, TypeOK, LockOK,
     Holds, FrameOK, StopSignal, Obj, Goto, at, Frame
<1>8. ASSUME NEW q \in Procs PROVE FrameOK(q)'
  <2>1. /\ frame'[q].pc = IF q = p THEN "stopped" ELSE frame[q].pc
        /\ frame'[q].op = frame[q].op
        /\ frame'[q].obj = frame[q].obj
        /\ frame'[q].ln = frame[q].ln
        /\ frame'[q].arg = frame[q].arg
        /\ frame'[q].todo = frame[q].todo
    BY DEF StopSignal, Goto, BaseInv, TypeOK, Frame
  <2>2. /\ frame[q].obj \in Objs \cup {Nil}
        /\ frame[q].ln \in Lsns \cup {Nil}
    BY DEF BaseInv, TypeOK, Frame
  <2>3. rules' = rules
    BY DEF StopSignal
  <2>4. FrameOK(q)
    BY DEF BaseInv
  <2>5. CASE q = p
    BY <1>4, <2>1, <2>2, <2>3, <2>4, <2>5 DEF FrameOK, Holds, Obj,
       StopSignal, at
  <2>6. CASE q # p
    BY <1>4, <1>5, <2>1, <2>2, <2>3, <2>4, <2>6 DEF FrameOK, Holds, Obj
  <2> QED BY <2>5, <2>6
<1>9. RefsOK'
  <2>1. \A i \in IDs : lns'[i] \in {lns[i], Nil} /\ stop'[i] \in {stop[i], Nil}
    BY <1>2 DEF StopSignal, BaseInv, TypeOK
  <2>2. rules' = rules
    BY DEF StopSignal
  <2> QED BY <1>4, <1>5, <2>1, <2>2 DEF BaseInv, TypeOK, RefsOK
<1>10. IdsKept
  BY ZenonT(60), <1>2, <1>3, <1>4, <1>5, NilAssumption DEF BaseInv, TypeOK, FrameOK,
     IdsKept, Inserting, StopSignal, Obj, Goto, at, Frame
<1> QED BY <1>6, <1>7, <1>8, <1>9, <1>10 DEF BaseInv

(* StopPanics preserves BaseInv and IdsKept. *)
LEMMA StopPanicsBase ==
  ASSUME BaseInv, NEW p \in Procs, StopPanics(p)
  PROVE  BaseInv' /\ IdsKept
<1>1. frame[p].pc \notin {"idle", "loop", "selflock"}
  BY DEF StopPanics, at
<1>2. /\ frame[p] \in Frame
      /\ frame[p].obj \in Objs
      /\ Obj(p) \in Rule
      /\ Obj(p) # Nil
      /\ Obj(p).id \in IDs
      /\ Obj(p).listen \in Addrs
      /\ Obj(p).target \in Targets
  BY <1>1, Pointers
<1>3. /\ frame' \in [Procs -> Frame]
      /\ \A q \in Procs \ {p} : frame'[q] = frame[q]
  BY <1>2, NilAssumption DEF BaseInv, TypeOK, StopPanics, Obj, Goto, Return,
     Frame, Labels, Idle, at
<1>4. TypeOK'
  BY <1>2, <1>3 DEF BaseInv, TypeOK, FrameOK, RefsOK, StopPanics, Obj, at,
     Rule, Frame
<1>5. LockOK'
  BY <1>2, <1>3, NilAssumption DEF BaseInv, TypeOK, LockOK, Holds, FrameOK,
     StopPanics, Obj, Goto, Return, at, Idle, Frame
<1>6. ASSUME NEW q \in Procs PROVE FrameOK(q)'
  BY <1>2, <1>3, NilAssumption DEF BaseInv, TypeOK, LockOK, RefsOK, Holds,
     FrameOK, StopPanics, Obj, Goto, Return, at, Idle, Frame
<1>7. RefsOK'
  BY <1>2, <1>3 DEF BaseInv, TypeOK, FrameOK, RefsOK, StopPanics, Obj, at,
     Frame, Rule
<1>8. IdsKept
  BY <1>2, <1>3, NilAssumption DEF BaseInv, TypeOK, FrameOK, IdsKept,
     Inserting, StopPanics, Obj, Goto, Return, at, Idle, Frame
<1> QED BY <1>4, <1>5, <1>6, <1>7, <1>8 DEF BaseInv

(* RemoveDelete preserves BaseInv and IdsKept. *)
LEMMA RemoveDeleteBase ==
  ASSUME BaseInv, NEW p \in Procs, RemoveDelete(p)
  PROVE  BaseInv' /\ IdsKept
<1>1. frame[p].pc \notin {"idle", "loop", "selflock"}
  BY DEF RemoveDelete, at
<1>2. /\ frame[p] \in Frame
      /\ frame[p].obj \in Objs
      /\ Obj(p) \in Rule
      /\ Obj(p) # Nil
      /\ Obj(p).id \in IDs
      /\ Obj(p).listen \in Addrs
      /\ Obj(p).target \in Targets
  BY <1>1, Pointers
<1>3. /\ frame' \in [Procs -> Frame]
      /\ \A q \in Procs \ {p} : frame'[q] = frame[q]
  BY <1>2, NilAssumption DEF BaseInv, TypeOK, RemoveDelete, Obj, Return,
     Frame, Labels, Idle, at
<1>4. TypeOK'
  BY <1>2, <1>3 DEF BaseInv, TypeOK, FrameOK, RefsOK, RemoveDelete, Obj, at,
     Rule, Frame
<1>5. LockOK'
  BY <1>2, <1>3, NilAssumption DEF BaseInv, TypeOK, LockOK, Holds, FrameOK,
     RemoveDelete, Obj, Return, at, Idle, Frame
<1>6. ASSUME NEW q \in Procs PROVE FrameOK(q)'
  BY <1>2, <1>3, NilAssumption DEF BaseInv, TypeOK, LockOK, RefsOK, Holds,
     FrameOK, RemoveDelete, Obj, Return, at, Idle, Frame
<1>7. RefsOK'
  BY <1>2, <1>3 DEF BaseInv, TypeOK, FrameOK, RefsOK, RemoveDelete, Obj, at,
     Frame, Rule
<1>8. IdsKept
  BY <1>2, <1>3, NilAssumption DEF BaseInv, TypeOK, FrameOK, IdsKept,
     Inserting, RemoveDelete, Obj, Return, at, Idle, Frame
<1> QED BY <1>4, <1>5, <1>6, <1>7, <1>8 DEF BaseInv

(* UpdateApply preserves BaseInv and IdsKept. *)
LEMMA UpdateApplyBase ==
  ASSUME BaseInv, NEW p \in Procs, UpdateApply(p)
  PROVE  BaseInv' /\ IdsKept
<1>1. frame[p].pc \notin {"idle", "loop", "selflock"}
  BY DEF UpdateApply, at
<1>2. /\ frame[p] \in Frame
      /\ frame[p].obj \in Objs
      /\ Obj(p) \in Rule
      /\ Obj(p) # Nil
      /\ Obj(p).id \in IDs
      /\ Obj(p).listen \in Addrs
      /\ Obj(p).target \in Targets
  BY <1>1, Pointers
<1>3. /\ frame' \in [Procs -> Frame]
      /\ \A q \in Procs \ {p} : frame'[q] = frame[q]
  BY <1>2, NilAssumption DEF BaseInv, TypeOK, UpdateApply, Frame, Labels, at
<1>4. /\ frame[p].arg.listen \in Addrs
      /\ frame[p].arg.target \in Targets
  BY <1>2, NilAssumption DEF UpdateApply, BaseInv, FrameOK, Frame, at
<1>5. /\ heap' \in [Objs -> Rule \cup {Nil}]
      /\ \A o \in Objs : heap[o] # Nil =>
           heap'[o] # Nil /\ heap'[o].id = heap[o].id
  <2>1. PICK a \in Addrs, t \in Targets :
          heap' = Configure(frame[p].obj, a, t, "running")
    BY <1>2, <1>4 DEF UpdateApply
  <2>2. "running" \in Status
    BY DEF Status
  <2> QED BY <1>2, <1>4, <2>1, <2>2, ConfigureKeeps DEF Obj
<1>6. TypeOK'
  BY <1>2, <1>3, <1>5 DEF BaseInv, TypeOK, FrameOK, RefsOK, UpdateApply, at,
     Rule, Frame
<1>7. LockOK'
  BY <1>2, <1>3, <1>5, NilAssumption DEF BaseInv, TypeOK, LockOK, Holds,
     FrameOK, UpdateApply, at, Frame
<1>8. ASSUME NEW q \in Procs PROVE FrameOK(q)'
  BY SMTT(30), <1>2, <1>3, <1>5, NilAssumption DEF BaseInv, TypeOK, LockOK, RefsOK,
     Holds, FrameOK, UpdateApply, at, Obj, Frame
<1>9. RefsOK'
  BY <1>2, <1>3, <1>5 DEF BaseInv, TypeOK, FrameOK, RefsOK, UpdateApply, at,
     Frame, Rule
<1>10. IdsKept
  BY <1>2, <1>3, <1>5, NilAssumption DEF BaseInv, TypeOK, FrameOK, IdsKept,
     Inserting, UpdateApply, at, Obj, Frame
<1> QED BY <1>6, <1>7, <1>8, <1>9, <1>10 DEF BaseInv

(* RestartBegin preserves BaseInv and IdsKept. *)
LEMMA RestartBeginBase ==
  ASSUME BaseInv, NEW p \in Procs, RestartBegin(p)
  PROVE  BaseInv' /\ IdsKept
<1>1. /\ frame' \in [Procs -> Frame]
      /\ \A q \in Procs \ {p} : frame'[q] = frame[q]
  BY NilAssumption DEF BaseInv, TypeOK, RestartBegin, Frame, Labels, Idle, at
<1>2. TypeOK'
  BY <1>1 DEF BaseInv, TypeOK, FrameOK, RefsOK, RestartBegin, at, Rule, Frame
<1>3. LockOK'
  <2>1. \A q \in Procs : ~Holds(q)
    BY NilAssumption DEF BaseInv, LockOK, RestartBegin
  <2> QED BY <1>1, <2>1 DEF LockOK, Holds, RestartBegin
<1>4. ASSUME NEW q \in Procs PROVE FrameOK(q)'
  <2>1. CASE q = p
    <3> DEFINE f == [Idle EXCEPT !.pc = "loop", !.op = "restart",
          !.todo = {i \in IDs : rules[i] # Nil /\ heap[rules[i]].typ = "local"}]
    <3>1. frame'[p] = f
      BY DEF RestartBegin, BaseInv, TypeOK
    <3>2. /\ f.pc = "loop"
          /\ f.op = "restart"
          /\ f.obj = Nil
          /\ \A i \in f.todo : rules[i] # Nil
      BY DEF Idle
    <3> HIDE DEF f
    <3> QED BY <2>1, <3>1, <3>2 DEF FrameOK, Holds, RestartBegin
  <2>2. CASE q # p
    BY <1>1, <2>2 DEF BaseInv, FrameOK, Holds, Obj, RestartBegin
  <2> QED BY <2>1, <2>2
<1>5. RefsOK'
  BY <1>1 DEF BaseInv, TypeOK, FrameOK, RefsOK, RestartBegin, at, Frame, Rule
<1>6. IdsKept
  BY <1>1, NilAssumption DEF BaseInv, TypeOK, FrameOK, IdsKept, Inserting,
     RestartBegin, at, Obj, Idle, Frame
<1> QED BY <1>2, <1>3, <1>4, <1>5, <1>6 DEF BaseInv

(* RestartStart preserves BaseInv and IdsKept. *)
LEMMA RestartStartBase ==
  ASSUME BaseInv, NEW p \in Procs, RestartStart(p)
  PROVE  BaseInv' /\ IdsKept
<1>1. frame[p].pc \notin {"idle", "loop", "selflock"}
  BY DEF RestartStart, at
<1>2. /\ frame[p] \in Frame
      /\ frame[p].obj \in Objs
      /\ Obj(p) \in Rule
      /\ Obj(p) # Nil
      /\ Obj(p).id \in IDs
      /\ Obj(p).listen \in Addrs
      /\ Obj(p).target \in Targets
  BY <1>1, Pointers
<1>3. /\ frame' \in [Procs -> Frame]
      /\ \A q \in Procs \ {p} : frame'[q] = frame[q]
  BY <1>2, NilAssumption DEF BaseInv, TypeOK, RestartStart, Frame, Labels, at
<1>4. TypeOK'
  BY <1>2, <1>3 DEF BaseInv, TypeOK, FrameOK, RefsOK, RestartStart, at,
     Rule, Frame
<1>5. LockOK'
  BY <1>2, <1>3, NilAssumption DEF BaseInv, TypeOK, LockOK, Holds, FrameOK,
     RestartStart, at, Frame
<1>6. ASSUME NEW q \in Procs PROVE FrameOK(q)'
  BY <1>2, <1>3, NilAssumption DEF BaseInv, TypeOK, LockOK, RefsOK, Holds,
     FrameOK, RestartStart, at, Obj, Frame
<1>7. RefsOK'
  BY <1>2, <1>3 DEF BaseInv, TypeOK, FrameOK, RefsOK, RestartStart, at,
     Frame, Rule
<1>8. IdsKept
  BY <1>2, <1>3, NilAssumption DEF BaseInv, TypeOK, FrameOK, IdsKept,
     Inserting, RestartStart, at, Obj, Frame
<1> QED BY <1>4, <1>5, <1>6, <1>7, <1>8 DEF BaseInv

(* RestartEnd preserves BaseInv and IdsKept. *)
LEMMA RestartEndBase ==
  ASSUME BaseInv, NEW p \in Procs, RestartEnd(p)
  PROVE  BaseInv' /\ IdsKept
<1>1. /\ frame' \in [Procs -> Frame]
      /\ \A q \in Procs \ {p} : frame'[q] = frame[q]
  BY NilAssumption DEF BaseInv, TypeOK, RestartEnd, Return, Frame, Labels,
     Idle, at
<1>2. TypeOK'
  BY <1>1 DEF BaseInv, TypeOK, FrameOK, RefsOK, RestartEnd, at, Rule, Frame
<1>3. LockOK'
  <2>1. mu = p
    BY DEF BaseInv, LockOK, FrameOK, Holds, RestartEnd, at
  <2>2. \A q \in Procs \ {p} : ~Holds(q)
    BY <2>1 DEF BaseInv, LockOK
  <2>3. ~Holds(p)'
    BY DEF RestartEnd, Return, Holds, Idle, BaseInv, TypeOK
  <2> QED BY <1>1, <2>2, <2>3 DEF LockOK, Holds, RestartEnd
<1>4. ASSUME NEW q \in Procs PROVE FrameOK(q)'
  BY <1>1, NilAssumption DEF BaseInv, TypeOK, LockOK, RefsOK, Holds,
     FrameOK, RestartEnd, Return, at, Obj, Idle, Frame
<1>5. RefsOK'
  BY <1>1 DEF BaseInv, TypeOK, FrameOK, RefsOK, RestartEnd, at, Frame, Rule
<1>6. IdsKept
  BY <1>1, NilAssumption DEF BaseInv, TypeOK, FrameOK, IdsKept, Inserting,
     RestartEnd, Return, at, Obj, Idle, Frame
<1> QED BY <1>2, <1>3, <1>4, <1>5, <1>6 DEF BaseInv

(* RemoveRemoteRule preserves BaseInv and IdsKept. *)
LEMMA RemoveRemoteRuleBase ==
  ASSUME BaseInv, NEW p \in Procs, NEW id \in IDs, RemoveRemoteRule(p, id)
  PROVE  BaseInv' /\ IdsKept
<1>1. TypeOK'
  BY DEF BaseInv, TypeOK, FrameOK, RefsOK, RemoveRemoteRule, Overlap, at,
     Rule, Frame
<1>2. LockOK'
  BY NilAssumption DEF BaseInv, TypeOK, LockOK, Holds, FrameOK,
     RemoveRemoteRule, at, Frame
<1>3. ASSUME NEW q \in Procs PROVE FrameOK(q)'
  BY NilAssumption DEF BaseInv, TypeOK, LockOK, RefsOK, Holds, FrameOK,
     RemoveRemoteRule, at, Obj, Frame
<1>4. RefsOK'
  BY DEF BaseInv, TypeOK, FrameOK, RefsOK, RemoveRemoteRule, at, Frame, Rule
<1>5. IdsKept
  BY NilAssumption DEF BaseInv, TypeOK, FrameOK, IdsKept, Inserting,
     RemoveRemoteRule, at, Obj, Frame, Overlap
<1> QED BY <1>1, <1>2, <1>3, <1>4, <1>5 DEF BaseInv

(* RemoveBegin preserves BaseInv and IdsKept. *)
LEMMA RemoveBeginBase ==
  ASSUME BaseInv, NEW p \in Procs, NEW id \in IDs, RemoveBegin(p, id)
  PROVE  BaseInv' /\ IdsKept
<1>1. /\ frame' \in [Procs -> Frame]
      /\ \A q \in Procs \ {p} : frame'[q] = frame[q]
  BY NilAssumption DEF BaseInv, TypeOK, RemoveBegin, Frame, Labels, Idle, at
<1>2. TypeOK'
  BY <1>1 DEF BaseInv, TypeOK, FrameOK, RefsOK, RemoveBegin, Overlap, at,
     Rule, Frame
<1>3. LockOK'
  BY <1>1, NilAssumption DEF BaseInv, TypeOK, LockOK, Holds, FrameOK,
     RemoveBegin, at, Idle, Frame
<1>4. ASSUME NEW q \in Procs PROVE FrameOK(q)'
  BY <1>1, NilAssumption DEF BaseInv, TypeOK, LockOK, RefsOK, Holds,
     FrameOK, RemoveBegin, at, Obj, Idle, Frame
<1>5. RefsOK'
  BY <1>1 DEF BaseInv, TypeOK, FrameOK, RefsOK, RemoveBegin, at, Frame, Rule
<1>6. IdsKept
  BY <1>1, NilAssumption DEF BaseInv, TypeOK, FrameOK, IdsKept, Inserting,
     RemoveBegin, at, Obj, Idle, Frame, Overlap
<1> QED BY <1>2, <1>3, <1>4, <1>5, <1>6 DEF BaseInv

(* UpdateRemoteRule preserves BaseInv and IdsKept. *)
LEMMA UpdateRemoteRuleBase ==
  ASSUME BaseInv, NEW p \in Procs, NEW id \in IDs, UpdateRemoteRule(p, id)
  PROVE  BaseInv' /\ IdsKept
<1>1. /\ frame' \in [Procs -> Frame]
      /\ \A q \in Procs \ {p} : frame'[q] = frame[q]
  BY NilAssumption DEF BaseInv, TypeOK, UpdateRemoteRule, Frame, Labels,
     Idle, at
<1>2. /\ rules[id] \in Objs
      /\ heap[rules[id]] # Nil
      /\ heap[rules[id]] \in Rule
      /\ heap[rules[id]].listen \in Addrs
      /\ heap[rules[id]].target \in Targets
  BY DEF UpdateRemoteRule, BaseInv, TypeOK, RefsOK, Rule
<1>3. /\ heap' \in [Objs -> Rule \cup {Nil}]
      /\ \A o \in Objs : heap[o] # Nil =>
           heap'[o] # Nil /\ heap'[o].id = heap[o].id
  <2>1. PICK a \in Addrs, t \in Targets :
          heap' = Configure(rules[id], a, t, "pending")
    BY <1>2 DEF UpdateRemoteRule
  <2>2. "pending" \in Status
    BY DEF Status
  <2> QED BY <1>2, <2>1, <2>2, ConfigureKeeps DEF Obj
<1>4. TypeOK'
  BY <1>1, <1>2, <1>3 DEF BaseInv, TypeOK, FrameOK, RefsOK,
     UpdateRemoteRule, Overlap, at, Rule, Frame
<1>5. LockOK'
  BY <1>1, <1>2, <1>3, NilAssumption DEF BaseInv, TypeOK, LockOK, Holds,
     FrameOK, UpdateRemoteRule, at, Idle, Frame
<1>6. ASSUME NEW q \in Procs PROVE FrameOK(q)'
  BY <1>1, <1>2, <1>3, NilAssumption DEF BaseInv, TypeOK, LockOK, RefsOK,
     Holds, FrameOK, UpdateRemoteRule, at, Obj, Idle, Frame
<1>7. RefsOK'
  BY <1>1, <1>2, <1>3 DEF BaseInv, TypeOK, FrameOK, RefsOK,
     UpdateRemoteRule, at, Frame, Rule
<1>8. IdsKept
  BY <1>1, <1>2, <1>3, NilAssumption DEF BaseInv, TypeOK, FrameOK, IdsKept,
     Inserting, UpdateRemoteRule, at, Obj, Idle, Frame, Overlap
<1> QED BY <1>4, <1>5, <1>6, <1>7, <1>8 DEF BaseInv

(* UpdateBegin preserves BaseInv and IdsKept. *)
LEMMA UpdateBeginBase ==
  ASSUME BaseInv, NEW p \in Procs, NEW id \in IDs, UpdateBegin(p, id)
  PROVE  BaseInv' /\ IdsKept
<1>1. /\ frame' \in [Procs -> Frame]
      /\ \A q \in Procs \ {p} : frame'[q] = frame[q]
  <2>1. PICK a \in Addrs, t \in Targets :
          frame' = [frame EXCEPT ![p] =
            [Idle EXCEPT !.pc = "stopClose", !.op = "update", !.obj = rules[id],
                         !.arg = [listen |-> a, target |-> t]]]
    BY DEF UpdateBegin
  <2>2. rules[id] \in Objs
    BY DEF UpdateBegin, BaseInv, TypeOK
  <2>3. [Idle EXCEPT !.pc = "stopClose", !.op = "update", !.obj = rules[id],
                     !.arg = [listen |-> a, target |-> t]] \in Frame
    BY <2>2 DEF Idle, Frame, Labels
  <2> QED BY <2>1, <2>3 DEF BaseInv, TypeOK
<1>2. TypeOK'
  BY <1>1 DEF BaseInv, TypeOK, FrameOK, RefsOK, UpdateBegin, Overlap, at,
     Rule, Frame
<1>3. LockOK'
  BY <1>1, NilAssumption DEF BaseInv, TypeOK, LockOK, Holds, FrameOK,
     UpdateBegin, at, Idle, Frame
<1>4. ASSUME NEW q \in Procs PROVE FrameOK(q)'
  BY <1>1, NilAssumption DEF BaseInv, TypeOK, LockOK, RefsOK, Holds,
     FrameOK, UpdateBegin, at, Obj, Idle, Frame
<1>5. RefsOK'
  BY <1>1 DEF BaseInv, TypeOK, FrameOK, RefsOK, UpdateBegin, at, Frame, Rule
<1>6. IdsKept
  BY <1>1, NilAssumption DEF BaseInv, TypeOK, FrameOK, IdsKept, Inserting,
     UpdateBegin, at, Obj, Idle, Frame, Overlap
<1> QED BY <1>2, <1>3, <1>4, <1>5, <1>6 DEF BaseInv

(* RestartRule preserves BaseInv and IdsKept. *)
LEMMA RestartRuleBase ==
  ASSUME BaseInv, NEW p \in Procs, NEW id \in IDs, RestartRule(p, id)
  PROVE  BaseInv' /\ IdsKept
<1>1. /\ frame' \in [Procs -> Frame]
      /\ \A q \in Procs \ {p} : frame'[q] = frame[q]
  BY NilAssumption DEF BaseInv, TypeOK, RestartRule, Frame, Labels, at
<1>2. TypeOK'
  BY <1>1 DEF BaseInv, TypeOK, FrameOK, RefsOK, RestartRule, Overlap, at,
     Rule, Frame
<1>3. LockOK'
  BY <1>1, NilAssumption DEF BaseInv, TypeOK, LockOK, Holds, FrameOK,
     RestartRule, at, Frame
<1>4. ASSUME NEW q \in Procs PROVE FrameOK(q)'
  BY <1>1, NilAssumption DEF BaseInv, TypeOK, LockOK, RefsOK, Holds,
     FrameOK, RestartRule, at, Obj, Frame
<1>5. RefsOK'
  BY <1>1 DEF BaseInv, TypeOK, FrameOK, RefsOK, RestartRule, at, Frame, Rule
<1>6. IdsKept
  BY <1>1, NilAssumption DEF BaseInv, TypeOK, FrameOK, IdsKept, Inserting,
     RestartRule, at, Obj, Frame, Overlap
<1> QED BY <1>2, <1>3, <1>4, <1>5, <1>6 DEF BaseInv

(* ReportRunning preserves BaseInv and IdsKept. *)
LEMMA ReportRunningBase ==
  ASSUME BaseInv, NEW p \in Procs, NEW id \in IDs, ReportRunning(p, id)
  PROVE  BaseInv' /\ IdsKept
<1>1. /\ rules[id] \in Objs
      /\ heap[rules[id]] # Nil
      /\ heap[rules[id]] \in Rule
      /\ heap[rules[id]].listen \in Addrs
      /\ heap[rules[id]].target \in Targets
  BY DEF ReportRunning, BaseInv, TypeOK, RefsOK, Rule
<1>2. /\ heap' \in [Objs -> Rule \cup {Nil}]
      /\ \A o \in Objs : heap[o] # Nil =>
           heap'[o] # Nil /\ heap'[o].id = heap[o].id
  <2>1. PICK a \in Addrs, t \in Targets :
          heap' = Configure(rules[id], a, t, "running")
    BY <1>1, NilAssumption DEF ReportRunning
  <2>2. "running" \in Status
    BY DEF Status
  <2> QED BY <1>1, <2>1, <2>2, ConfigureKeeps DEF Obj
<1>3. TypeOK'
  BY <1>1, <1>2 DEF BaseInv, TypeOK, FrameOK, RefsOK, ReportRunning, at,
     Rule, Frame
<1>4. LockOK'
  BY <1>1, <1>2, NilAssumption DEF BaseInv, TypeOK, LockOK, Holds, FrameOK,
     ReportRunning, at, Frame
<1>5. ASSUME NEW q \in Procs PROVE FrameOK(q)'
  BY <1>1, <1>2, NilAssumption DEF BaseInv, TypeOK, LockOK, RefsOK, Holds,
     FrameOK, ReportRunning, at, Obj, Frame
<1>6. RefsOK'
  BY <1>1, <1>2 DEF BaseInv, TypeOK, FrameOK, RefsOK, ReportRunning, at,
     Frame, Rule
<1>7. IdsKept
  BY <1>1, <1>2, NilAssumption DEF BaseInv, TypeOK, FrameOK, IdsKept,
     Inserting, ReportRunning, at, Obj, Frame
<1> QED BY <1>3, <1>4, <1>5, <1>6, <1>7 DEF BaseInv

(* ReportError preserves BaseInv and IdsKept. *)
LEMMA ReportErrorBase ==
  ASSUME BaseInv, NEW p \in Procs, NEW id \in IDs, ReportError(p, id)
  PROVE  BaseInv' /\ IdsKept
<1>1. /\ frame' \in [Procs -> Frame]
      /\ \A q \in Procs \ {p} : frame'[q] = frame[q]
  BY NilAssumption DEF BaseInv, TypeOK, ReportError, Frame, Labels, Idle, at
<1>2. /\ rules[id] \in Objs
      /\ heap[rules[id]] # Nil
      /\ heap[rules[id]] \in Rule
      /\ heap[rules[id]].listen \in Addrs
      /\ heap[rules[id]].target \in Targets
  BY DEF ReportError, BaseInv, TypeOK, RefsOK, Rule
<1>3. /\ heap' \in [Objs -> Rule \cup {Nil}]
      /\ \A o \in Objs : heap[o] # Nil =>
           heap'[o] # Nil /\ heap'[o].id = heap[o].id
  BY <1>2, SetStatusKeeps DEF ReportError, Obj, Status
<1>4. TypeOK'
  BY <1>1, <1>2, <1>3 DEF BaseInv, TypeOK, FrameOK, RefsOK, ReportError, at,
     Rule, Frame
<1>5. LockOK'
  BY <1>1, <1>2, <1>3, NilAssumption DEF BaseInv, TypeOK, LockOK, Holds,
     FrameOK, ReportError, at, Idle, Frame
<1>6. ASSUME NEW q \in Procs PROVE FrameOK(q)'
  BY <1>1, <1>2, <1>3, NilAssumption DEF BaseInv, TypeOK, LockOK, RefsOK,
     Holds, FrameOK, ReportError, at, Obj, Idle, Frame
<1>7. RefsOK'
  BY <1>1, <1>2, <1>3 DEF BaseInv, TypeOK, FrameOK, RefsOK, ReportError, at,
     Frame, Rule
<1>8. IdsKept
  BY <1>1, <1>2, <1>3, NilAssumption DEF BaseInv, TypeOK, FrameOK, IdsKept,
     Inserting, ReportError, at, Obj, Idle, Frame
<1> QED BY <1>4, <1>5, <1>6, <1>7, <1>8 DEF BaseInv

(* AcceptError preserves BaseInv and IdsKept. *)
LEMMA AcceptErrorBase ==
  ASSUME BaseInv, NEW l \in Lsns, AcceptError(l)
  PROVE  BaseInv' /\ IdsKept
<1>1. lsn' \in [Lsns -> Listener \cup {Nil}]
  BY DEF BaseInv, TypeOK, FrameOK, RefsOK, AcceptError, Listener, Rule,
     Frame, at
<1>2. \A m \in Lsns : lsn[m] # Nil =>
        lsn'[m] # Nil /\ lsn'[m].id = lsn[m].id
  BY <1>1, NilAssumption DEF BaseInv, TypeOK, FrameOK, RefsOK, AcceptError,
     Listener, at
<1>3. TypeOK'
  BY <1>1, <1>2 DEF BaseInv, TypeOK, FrameOK, RefsOK, AcceptError, at, Rule,
     Frame
<1>4. LockOK'
  BY <1>1, <1>2, NilAssumption DEF BaseInv, TypeOK, LockOK, Holds, FrameOK,
     AcceptError, at, Frame
<1>5. ASSUME NEW q \in Procs PROVE FrameOK(q)'
  BY <1>1, <1>2, NilAssumption DEF BaseInv, TypeOK, LockOK, RefsOK, Holds,
     FrameOK, AcceptError, at, Obj, Frame
<1>6. RefsOK'
  BY <1>1, <1>2 DEF BaseInv, TypeOK, FrameOK, RefsOK, AcceptError, at,
     Frame, Rule
<1>7. IdsKept
  BY <1>1, <1>2, NilAssumption DEF BaseInv, TypeOK, FrameOK, IdsKept,
     Inserting, AcceptError, at, Obj, Frame
<1> QED BY <1>3, <1>4, <1>5, <1>6, <1>7 DEF BaseInv

(* AcceptClosed preserves BaseInv and IdsKept. *)
LEMMA AcceptClosedBase ==
  ASSUME BaseInv, NEW l \in Lsns, AcceptClosed(l)
  PROVE  BaseInv' /\ IdsKept
<1>1. lsn' \in [Lsns -> Listener \cup {Nil}]
  BY DEF BaseInv, TypeOK, FrameOK, RefsOK, AcceptClosed, Listener, Rule,
     Frame, at
<1>2. \A m \in Lsns : lsn[m] # Nil =>
        lsn'[m] # Nil /\ lsn'[m].id = lsn[m].id
  BY <1>1, NilAssumption DEF BaseInv, TypeOK, FrameOK, RefsOK, AcceptClosed,
     Listener, at
<1>3. TypeOK'
  BY <1>1, <1>2 DEF BaseInv, TypeOK, FrameOK, RefsOK, AcceptClosed, at,
     Rule, Frame
<1>4. LockOK'
  BY <1>1, <1>2, NilAssumption DEF BaseInv, TypeOK, LockOK, Holds, FrameOK,
     AcceptClosed, at, Frame
<1>5. ASSUME NEW q \in Procs PROVE FrameOK(q)'
  BY <1>1, <1>2, NilAssumption DEF BaseInv, TypeOK, LockOK, RefsOK, Holds,
     FrameOK, AcceptClosed, at, Obj, Frame
<1>6. RefsOK'
  BY <1>1, <1>2 DEF BaseInv, TypeOK, FrameOK, RefsOK, AcceptClosed, at,
     Frame, Rule
<1>7. IdsKept
  BY <1>1, <1>2, NilAssumption DEF BaseInv, TypeOK, FrameOK, IdsKept,
     Inserting, AcceptClosed, at, Obj, Frame
<1> QED BY <1>3, <1>4, <1>5, <1>6, <1>7 DEF BaseInv

(* AcceptReport preserves BaseInv and IdsKept. *)
LEMMA AcceptReportBase ==
  ASSUME BaseInv, NEW l \in Lsns, AcceptReport(l)
  PROVE  BaseInv' /\ IdsKept
<1>1. lsn' \in [Lsns -> Listener \cup {Nil}]
  BY DEF BaseInv, TypeOK, FrameOK, RefsOK, AcceptReport, Listener, Rule,
     Frame, at
<1>2. \A m \in Lsns : lsn[m] # Nil =>
        lsn'[m] # Nil /\ lsn'[m].id = lsn[m].id
  BY <1>1, NilAssumption DEF BaseInv, TypeOK, FrameOK, RefsOK, AcceptReport,
     Listener, at
<1>3. TypeOK'
  BY <1>1, <1>2 DEF BaseInv, TypeOK, FrameOK, RefsOK, AcceptReport, at,
     Rule, Frame
<1>4. LockOK'
  BY <1>1, <1>2, NilAssumption DEF BaseInv, TypeOK, LockOK, Holds, FrameOK,
     AcceptReport, at, Frame
<1>5. ASSUME NEW q \in Procs PROVE FrameOK(q)'
  BY <1>1, <1>2, NilAssumption DEF BaseInv, TypeOK, LockOK, RefsOK, Holds,
     FrameOK, AcceptReport, at, Obj, Frame
<1>6. RefsOK'
  BY <1>1, <1>2 DEF BaseInv, TypeOK, FrameOK, RefsOK, AcceptReport, at,
     Frame, Rule
<1>7. IdsKept
  BY <1>1, <1>2, NilAssumption DEF BaseInv, TypeOK, FrameOK, IdsKept,
     Inserting, AcceptReport, at, Obj, Frame
<1> QED BY <1>3, <1>4, <1>5, <1>6, <1>7 DEF BaseInv

(* Restore preserves BaseInv.                                               *)
LEMMA RestoreBase ==
  ASSUME BaseInv, NEW id \in IDs, Restore(id)
  PROVE  BaseInv'
<1>1. /\ id \in DOMAIN Saved
      /\ Saved[id] \in Config
  BY SavedAssumption DEF Restore, BaseInv, TypeOK
<1>2. PICK o \in Objs :
        /\ heap[o] = Nil
        /\ rules' = [rules EXCEPT ![id] = o]
        /\ \/ RestoreRemote(id, o)
           \/ \E l \in Lsns :
                /\ CanBind(l, Saved[id].listen)
                /\ RestoreLocal(id, o, "")
                /\ lns' = [lns EXCEPT ![id] = l]
                /\ stop' = [stop EXCEPT ![id] = l]
                /\ lsn' = [lsn EXCEPT ![l] =
                             NewListener(id, Saved[id].listen, "accept")]
           \/ /\ RestoreLocal(id, o, "error")
              /\ UNCHANGED <<lns, stop, lsn>>
  BY DEF Restore
<1>3. PICK st \in Status : heap' = [heap EXCEPT ![o] = Restored(id, st)]
  <2>1. \A b \in {"", "pending", "error"} : b \in Status
    BY DEF Status
  <2> QED BY <1>2, <2>1 DEF RestoreRemote, RestoreLocal
<1> DEFINE r == Restored(id, st)
<1>r. r \in Rule /\ r.id = id /\ r # Nil
  <2>1. r \in Rule /\ r.id = id
    BY <1>1, <1>3 DEF Restored, Rule, Config
  <2> QED BY <2>1, NilAssumption
<1> HIDE DEF r
<1>4. /\ heap' \in [Objs -> Rule \cup {Nil}]
      /\ heap'[o] # Nil
      /\ heap'[o].id = id
      /\ \A x \in Objs : heap[x] # Nil => heap'[x] = heap[x]
  BY <1>2, <1>3, <1>r DEF BaseInv, TypeOK, r
<1>5. /\ lns' \in [IDs -> Lsns \cup {Nil}]
      /\ stop' \in [IDs -> Lsns \cup {Nil}]
      /\ lsn' \in [Lsns -> Listener \cup {Nil}]
      /\ \A i \in IDs : lns'[i] # Nil =>
           lsn'[lns'[i]] # Nil /\ lsn'[lns'[i]].id = i
      /\ \A i \in IDs : stop'[i] # Nil =>
           lsn'[stop'[i]] # Nil /\ lsn'[stop'[i]].id = i
      /\ \A m \in Lsns : lsn[m] # Nil /\ ~Unused(m) => lsn'[m] = lsn[m]
  <2>1. CASE UNCHANGED <<lns, stop, lsn>>
    BY <2>1 DEF BaseInv, TypeOK, RefsOK
  <2>2. CASE \E l \in Lsns :
               /\ Unused(l)
               /\ lns' = [lns EXCEPT ![id] = l]
               /\ stop' = [stop EXCEPT ![id] = l]
               /\ lsn' = [lsn EXCEPT ![l] =
                            NewListener(id, Saved[id].listen, "accept")]
    <3>1. PICK l \in Lsns :
               /\ Unused(l)
               /\ lns' = [lns EXCEPT ![id] = l]
               /\ stop' = [stop EXCEPT ![id] = l]
               /\ lsn' = [lsn EXCEPT ![l] =
                            NewListener(id, Saved[id].listen, "accept")]
      BY <2>2
    <3>2. /\ NewListener(id, Saved[id].listen, "accept") \in Listener
          /\ NewListener(id, Saved[id].listen, "accept").id = id
      BY <1>1 DEF NewListener, Listener, Config
    <3>3. /\ lns' \in [IDs -> Lsns \cup {Nil}]
          /\ stop' \in [IDs -> Lsns \cup {Nil}]
          /\ lsn' \in [Lsns -> Listener \cup {Nil}]
      BY <3>1, <3>2 DEF BaseInv, TypeOK
    <3>4. \A i \in IDs : lns[i] # l /\ stop[i] # l
      BY <3>1 DEF Unused
    <3> QED BY <3>1, <3>2, <3>3, <3>4, NilAssumption DEF BaseInv, TypeOK, RefsOK
  <2> QED BY <1>2, <2>1, <2>2 DEF RestoreRemote, CanBind
<1>6. backend' \in [IDs -> Targets \cup {Nil}]
  <2>1. Saved[id].target \in Targets
    BY <1>1 DEF Config
  <2>2. backend' = [backend EXCEPT ![id] = Saved[id].target] \/ backend' = backend
    BY <1>2 DEF RestoreRemote, RestoreLocal
  <2> QED BY <2>1, <2>2 DEF BaseInv, TypeOK
<1>7. nextID' \in Nat \ {0}
  <2>1. id \in Nat /\ id + 1 \in Nat \ {0}
    BY MaxIDAssumption DEF IDs
  <2> QED BY <2>1 DEF Restore, NextIDAfterRestore, BaseInv, TypeOK
<1>8. TypeOK'
  BY <1>2, <1>4, <1>5, <1>6, <1>7 DEF Restore, BaseInv, TypeOK
<1>9. LockOK'
  BY DEF Restore, BaseInv, LockOK, Holds
<1>10. ASSUME NEW q \in Procs PROVE FrameOK(q)'
  <2>1. FrameOK(q) /\ frame' = frame
    BY DEF BaseInv, Restore
  <2>2. /\ frame[q].obj \in Objs \cup {Nil}
        /\ frame[q].ln \in Lsns \cup {Nil}
        /\ frame[q].todo \subseteq IDs
    BY DEF BaseInv, TypeOK, Frame
  <2>3. \A i \in IDs : rules[i] # Nil => rules'[i] # Nil
    BY <1>2, NilAssumption DEF BaseInv, TypeOK
  <2>4. frame[q].ln # Nil /\ lsn[frame[q].ln] # Nil =>
          lsn'[frame[q].ln] = lsn[frame[q].ln]
    BY <1>5, <2>2 DEF Unused
  <2> QED BY <1>4, <2>1, <2>2, <2>3, <2>4 DEF FrameOK, Holds, Obj
<1>11. RefsOK'
  <2>1. \A i \in IDs : rules'[i] # Nil =>
          heap'[rules'[i]] # Nil /\ heap'[rules'[i]].id = i
    <3>1. rules'[id] = o /\ \A i \in IDs \ {id} : rules'[i] = rules[i]
      BY <1>2 DEF BaseInv, TypeOK
    <3>2. \A i \in IDs : rules[i] # Nil =>
            rules[i] \in Objs /\ heap[rules[i]] # Nil /\ heap[rules[i]].id = i
      BY DEF BaseInv, TypeOK, RefsOK
    <3> QED BY <1>4, <3>1, <3>2
  <2> QED BY <1>5, <2>1 DEF RefsOK
<1> QED BY <1>8, <1>9, <1>10, <1>11 DEF BaseInv

-----------------------------------------------------------------------------
(* IdsOK                                                                    *)

(* A step that hands out no ID and publishes no rule preserves IdsOK.       *)
LEMMA IdsKeptOK ==
  ASSUME BaseInv, IdsOK, IdsKept, boot = {}
  PROVE  IdsOK'
  BY DEF BaseInv, TypeOK, IdsOK, IdsKept

(* The ID Add reads is free; if somebody else holds it too, it is raced.     *)
LEMMA AddBeginIds ==
  ASSUME BaseInv, IdsOK, NEW p \in Procs, AddBegin(p)
  PROVE  IdsOK'
<1>1. PICK o \in Objs, r \in Rule :
        /\ heap[o] = Nil
        /\ r.id = nextID
        /\ heap' = [heap EXCEPT ![o] = r]
        /\ frame' = [frame EXCEPT ![p] =
             [Idle EXCEPT !.pc = "insert", !.op = "add", !.obj = o]]
  <2>1. PICK o \in Objs, c \in Config :
          /\ heap[o] = Nil
          /\ heap' = [heap EXCEPT ![o] =
               [id |-> nextID, typ |-> c.typ, listen |-> c.listen,
                target |-> c.target, status |-> "running"]]
          /\ frame' = [frame EXCEPT ![p] =
               [Idle EXCEPT !.pc = "insert", !.op = "add", !.obj = o]]
    BY DEF AddBegin
  <2>2. [id |-> nextID, typ |-> c.typ, listen |-> c.listen,
         target |-> c.target, status |-> "running"] \in Rule
    BY <2>1 DEF AddBegin, Config, Rule, Status
  <2> QED BY <2>1, <2>2
<1>2. \A q \in Procs \ {p}, i \in IDs : Inserting(q, i)' => Inserting(q, i)
  <2> SUFFICES ASSUME NEW q \in Procs \ {p}, NEW i \in IDs, Inserting(q, i)'
               PROVE  Inserting(q, i)
    OBVIOUS
  <2>1. frame'[q] = frame[q]
    BY <1>1 DEF BaseInv, TypeOK
  <2>2. frame[q].pc = "insert"
    BY <2>1 DEF Inserting, at
  <2>3. frame[q].obj \in Objs /\ heap[frame[q].obj] # Nil
    BY <2>2, Pointers DEF Obj
  <2>4. heap'[frame[q].obj] = heap[frame[q].obj]
    BY <1>1, <2>3 DEF BaseInv, TypeOK
  <2> QED BY <2>1, <2>2, <2>4 DEF Inserting, at, Obj
<1>3. \A i \in IDs : Inserting(p, i)' => i = nextID
  <2>1. frame'[p].obj = o /\ heap'[o] = r
    BY <1>1 DEF BaseInv, TypeOK, Idle
  <2> QED BY <1>1, <2>1 DEF Inserting, Obj
<1>4. /\ nextID' = nextID /\ nextID \in IDs /\ IDs \subseteq Nat
      /\ rules' = rules /\ boot' = boot /\ boot = {}
      /\ raced \subseteq raced'
      /\ \A q \in Procs \ {p} : Inserting(q, nextID) => nextID \in raced'
  BY MaxIDAssumption DEF AddBegin, Serving, Inserting, IDs
<1>5. rules[nextID] = Nil
  BY <1>4 DEF IdsOK
<1> QED
  BY <1>2, <1>3, <1>4, <1>5 DEF IdsOK, BaseInv, TypeOK

(* Publishing a rule moves e.nextID past its ID.                             *)
LEMMA AddInsertIds ==
  ASSUME BaseInv, IdsOK, NEW p \in Procs, AddInsert(p)
  PROVE  IdsOK'
<1>1. frame[p].pc = "insert" /\ Obj(p).id \in IDs /\ frame[p].obj \in Objs
  BY Pointers DEF AddInsert, at
<1> DEFINE id == Obj(p).id
<1>2. Inserting(p, id)
  BY <1>1 DEF Inserting, at
<1>3. /\ nextID' = nextID + 1
      /\ rules' = [rules EXCEPT ![id] = frame[p].obj]
      /\ boot' = boot /\ raced' = raced /\ heap' = heap
  BY DEF AddInsert, NextIDAfterAdd
<1>4. boot = {}
  BY <1>1 DEF IdsOK, at
<1>5. \A q \in Procs, i \in IDs : Inserting(q, i)' => Inserting(q, i) /\ q # p
  BY <1>1, <1>3 DEF AddInsert, Inserting, at, Obj, BaseInv, TypeOK, Frame
<1>6. id <= nextID /\ id < nextID + 1
  BY <1>1, <1>2, MaxIDAssumption DEF IdsOK, BaseInv, TypeOK, IDs
<1>7. \A i \in IDs : rules'[i] # Nil => i < nextID'
  BY <1>1, <1>3, <1>6, MaxIDAssumption DEF IdsOK, BaseInv, TypeOK, IDs
<1>8. ASSUME NEW q \in Procs, NEW i \in IDs, Inserting(q, i)'
      PROVE  /\ i <= nextID'
             /\ i \notin raced' => /\ rules'[i] = Nil
                                  /\ \A q2 \in Procs \ {q} : ~Inserting(q2, i)'
  <2>1. Inserting(q, i) /\ q # p
    BY <1>5, <1>8
  <2>2. i <= nextID'
    BY <1>3, <2>1, MaxIDAssumption DEF IdsOK, BaseInv, TypeOK, IDs
  <2>3. i \notin raced => i # id
    BY <1>1, <1>2, <2>1 DEF IdsOK
  <2> QED BY <1>1, <1>3, <1>5, <2>1, <2>2, <2>3 DEF IdsOK, BaseInv, TypeOK
<1> QED BY <1>3, <1>4, <1>7, <1>8 DEF IdsOK

(* Restore moves e.nextID past the ID it registers.                          *)
LEMMA RestoreIds ==
  ASSUME BaseInv, IdsOK, NEW id \in IDs, Restore(id)
  PROVE  IdsOK'
<1>1. /\ id \in boot
      /\ boot' = boot \ {id}
      /\ frame' = frame
      /\ nextID' = NextIDAfterRestore(id)
      /\ \A i \in IDs \ {id} : rules'[i] = rules[i]
  BY DEF Restore, BaseInv, TypeOK
<1>2. /\ id < nextID' /\ nextID <= nextID'
      /\ nextID' \in Nat /\ nextID \in Nat /\ IDs \subseteq Nat
  BY <1>1, MaxIDAssumption DEF NextIDAfterRestore, BaseInv, TypeOK, IDs
<1>3. \A p \in Procs : at(p, "idle") /\ at(p, "idle")'
  BY <1>1 DEF IdsOK, at
<1>4. \A i \in IDs : rules'[i] # Nil => i < nextID' /\ i \notin boot'
  <2> SUFFICES ASSUME NEW i \in IDs, rules'[i] # Nil
               PROVE  i < nextID' /\ i \notin boot'
    OBVIOUS
  <2>1. CASE i = id
    BY <1>1, <1>2, <2>1
  <2>2. CASE i # id
    <3>1. i < nextID /\ i \notin boot
      BY <1>1, <2>2 DEF IdsOK
    <3>2. i \in Nat
      BY <1>2
    <3> QED BY <1>1, <1>2, <3>1, <3>2
  <2> QED BY <2>1, <2>2
<1>5. \A p \in Procs, i \in IDs : ~Inserting(p, i)'
  BY <1>3 DEF Inserting, at
<1> QED BY <1>3, <1>4, <1>5 DEF IdsOK

-----------------------------------------------------------------------------
(* The inductive invariant                                                  *)

(* It holds initially.                                                      *)
LEMMA InitInv == Init => IdInv
<1> SUFFICES ASSUME Init PROVE IdInv
  OBVIOUS
<1>1. \A p \in Procs :
        /\ frame[p] = Idle
        /\ Idle \in Frame
        /\ Idle.pc = "idle" /\ Idle.obj = Nil /\ Idle.todo = {}
  BY DEF Init, Idle, Frame, Labels
<1>2. TypeOK
  BY <1>1 DEF Init, TypeOK
<1>3. LockOK /\ \A p \in Procs : FrameOK(p)
  BY <1>1 DEF LockOK, Holds, FrameOK
<1>4. RefsOK
  BY DEF Init, RefsOK
<1>5. IdsOK
  BY <1>1 DEF Init, IdsOK, Inserting, at
<1> QED BY <1>2, <1>3, <1>4, <1>5 DEF BaseInv, IdInv

(* A call runs only after Restore is done.                                  *)
LEMMA Booted ==
  ASSUME IdsOK, NEW p \in Procs, Call(p) \/ Acquire(p) \/ Continue(p)
  PROVE  boot = {}
<1>1. CASE Call(p)
  BY <1>1 DEF Call, AddBegin, RestartBegin, RemoveRemoteRule, RemoveBegin,
     UpdateRemoteRule, UpdateBegin, ReportRunning, ReportError, Serving
<1>2. CASE Acquire(p) \/ Continue(p)
  <2>1. ~at(p, "idle")
    BY <1>2 DEF Acquire, AddInsert, AddPending, Continue, BackendRemove,
       BackendCopy, BackendAdd, StartListen, StartListenFails, StartPutListener,
       StartSpawn, StartFailed, StopClose, StopSignal, StopPanics, RemoveDelete,
       UpdateApply, RestartRule, RestartStart, RestartEnd, at
  <2> QED BY <2>1 DEF IdsOK
<1> QED BY <1>1, <1>2

(* Every step preserves it.                                                 *)
LEMMA NextInv == IdInv /\ [Next]_vars => IdInv'
<1> SUFFICES ASSUME IdInv, [Next]_vars PROVE IdInv'
  OBVIOUS
<1> USE DEF IdInv
<1>1. CASE UNCHANGED vars
  BY <1>1 DEF vars, BaseInv, TypeOK, LockOK, FrameOK, RefsOK, Holds, Obj, IdsOK,
     Inserting, at
<1>2. ASSUME NEW id \in IDs, Restore(id) PROVE IdInv'
  BY <1>2, RestoreBase, RestoreIds
<1>3. ASSUME NEW p \in Procs, AddBegin(p) PROVE IdInv'
  BY <1>3, AddBeginBase, AddBeginIds
<1>4. ASSUME NEW p \in Procs, AddInsert(p) PROVE IdInv'
  BY <1>4, AddInsertBase, AddInsertIds
<1>5. ASSUME NEW p \in Procs, Call(p), ~AddBegin(p) PROVE BaseInv' /\ IdsKept
  BY <1>5, RestartBeginBase, RemoveRemoteRuleBase, RemoveBeginBase,
     UpdateRemoteRuleBase, UpdateBeginBase, ReportRunningBase, ReportErrorBase
     DEF Call
<1>6. ASSUME NEW p \in Procs, Acquire(p) \/ Continue(p), ~AddInsert(p)
      PROVE  BaseInv' /\ IdsKept
  BY <1>6, AddPendingBase, BackendRemoveBase, BackendCopyBase, BackendAddBase,
     StartListenBase, StartListenFailsBase, StartPutListenerBase, StartSpawnBase,
     StartFailedBase, StopCloseBase, StopSignalBase, StopPanicsBase,
     RemoveDeleteBase, UpdateApplyBase, RestartRuleBase, RestartStartBase,
     RestartEndBase
     DEF Acquire, Continue
<1>7. ASSUME NEW p \in Procs, Call(p) \/ Acquire(p) \/ Continue(p) PROVE IdInv'
  BY <1>3, <1>4, <1>5, <1>6, <1>7, Booted, IdsKeptOK
<1>8. ASSUME NEW l \in Lsns, AcceptError(l) \/ Loop(l) PROVE IdInv'
  <2>1. BaseInv' /\ IdsKept
    BY <1>8, AcceptErrorBase, AcceptClosedBase, AcceptReportBase DEF Loop
  <2>2. frame' = frame
    BY <1>8 DEF Loop, AcceptError, AcceptClosed, AcceptReport
  <2> QED BY <2>1, <2>2 DEF BaseInv, TypeOK, IdsOK, IdsKept, at
<1> QED BY <1>1, <1>2, <1>7, <1>8 DEF Next

(* The inductive invariant behind the theorems holds in every state.        *)
THEOREM IdInvariant == Spec => []IdInv
<1>1. Init => IdInv
  BY InitInv
<1>2. IdInv /\ [Next]_vars => IdInv'
  BY NextInv
<1> QED BY <1>1, <1>2, PTL DEF Spec

(* Every variable of the engine keeps its type (TypeOK): in particular no   *)
(* call of Add, Remove, Update, Restart, Restore or UpdateRemoteStatus ever  *)
(* stores a pointer, listener or status the code could not hold.             *)
THEOREM TypeCorrect == Spec => []TypeOK
<1>1. IdInv => TypeOK
  BY DEF IdInv, BaseInv
<1> QED BY <1>1, IdInvariant, PTL

(* Add never takes the ID of an existing rule (IDsNotReused), although it   *)
(* reads e.nextID before it takes e.mu: only two Adds that read it at the    *)
(* same time can, and raced records those.                                   *)
THEOREM NoIDReuse == Spec => IDsNotReused
<1> DEFINE Kept == \A id \in IDs :
             rules[id] # Nil /\ rules'[id] # rules[id] =>
               rules'[id] = Nil \/ id \in raced
<1>1. IdInv /\ [Next]_vars => [Kept]_vars
  <2> SUFFICES ASSUME IdInv, Next PROVE Kept
    OBVIOUS
  <2>1. ASSUME NEW id \in IDs, Restore(id) PROVE Kept
    <3>1. /\ rules[id] = Nil
          /\ \A i \in IDs \ {id} : rules'[i] = rules[i]
      BY <2>1 DEF Restore, IdInv, BaseInv, TypeOK, IdsOK
    <3> QED BY <3>1
  <2>2. ASSUME NEW p \in Procs, AddBegin(p) PROVE Kept
    BY <2>2 DEF AddBegin
  <2>3. ASSUME NEW p \in Procs, AddInsert(p) PROVE Kept
    <3>1. Obj(p).id \in IDs
      BY <2>3, Pointers DEF AddInsert, at, IdInv
    <3>2. Obj(p).id \notin raced => rules[Obj(p).id] = Nil
      BY <2>3, <3>1 DEF AddInsert, Inserting, at, IdInv, IdsOK
    <3>3. \A i \in IDs : i # Obj(p).id => rules'[i] = rules[i]
      BY <2>3 DEF AddInsert, IdInv, BaseInv, TypeOK
    <3> QED BY <3>2, <3>3
  <2>4. ASSUME IdsKept PROVE Kept
    BY <2>4 DEF IdsKept
  <2>5. ASSUME NEW p \in Procs, Call(p) PROVE Kept
    BY <2>2, <2>4, <2>5, RestartBeginBase, RemoveRemoteRuleBase,
       RemoveBeginBase, UpdateRemoteRuleBase, UpdateBeginBase,
       ReportRunningBase, ReportErrorBase
       DEF Call, IdInv
  <2>6. ASSUME NEW p \in Procs, Acquire(p) \/ Continue(p) PROVE Kept
    BY <2>3, <2>4, <2>6, AddPendingBase, BackendRemoveBase, BackendCopyBase,
       BackendAddBase, StartListenBase, StartListenFailsBase,
       StartPutListenerBase, StartSpawnBase, StartFailedBase, StopCloseBase,
       StopSignalBase, StopPanicsBase, RemoveDeleteBase, UpdateApplyBase,
       RestartRuleBase, RestartStartBase, RestartEndBase
       DEF Acquire, Continue, IdInv
  <2>7. ASSUME NEW l \in Lsns, AcceptError(l) \/ Loop(l) PROVE Kept
    BY <2>4, <2>7, AcceptErrorBase, AcceptClosedBase, AcceptReportBase
       DEF Loop, IdInv
  <2> QED BY <2>1, <2>5, <2>6, <2>7 DEF Next
<1>2. Spec => []IdInv
  BY IdInvariant
<1> QED BY <1>1, <1>2, PTL DEF Spec, IDsNotReused
=============================================================================
