---------------------------- MODULE DaemonProofs ----------------------------
(***************************************************************************)
(* Proofs about Daemon, for any number of requests, rules, credentials and *)
(* clients and any sequence of crashes.  Three inductive invariants build  *)
(* on each other: BaseInv says what a request has in each of its stages    *)
(* and where the SSH clients are, DurableInv what the user was told        *)
(* against the file and the engine, ForwardInv which client forwards a     *)
(* rule in the middle of the requests that change it.                      *)
(***************************************************************************)
EXTENDS Daemon, FiniteSetTheorems, WellFoundedInduction, TLAPS

PCs == {"idle", "restore", "register", "ensure", "get", "insert", "add",
        "unregister", "remove", "list", "save", "cut", "kill", "shutdown", "forget", "key"}
Ops == {"none", "boot", "create", "update", "delete", "addcred", "delcred"}
FrameRec == [op: Ops, pc: PCs, id: IDs \cup {Nil}, conf: Creds \cup {Nil},
             cl: Cls \cup {Nil}, ids: SUBSET IDs, late: SUBSET IDs]

AddRemotePCs == {"register", "ensure", "get", "insert", "add"}

(* The stages of each request, and what it has in them.                     *)
FrameOK(p) ==
  LET f == frame[p] IN
  /\ f.op = "none" <=> f.pc = "idle"
  /\ f.pc = "idle" => f = Idle
  /\ f.op = "boot" => f.pc \in {"restore"} \cup AddRemotePCs
  /\ f.op = "create" => f.pc \in {"list", "save"} \cup AddRemotePCs
  /\ f.op = "update" => f.pc \in {"unregister", "remove", "list", "save"} \cup AddRemotePCs
  /\ f.op = "delete" => f.pc \in {"unregister", "remove", "list", "save"}
  /\ f.op = "addcred" => f.pc = "key"
  /\ f.op = "delcred" => f.pc \in {"cut", "kill", "unregister", "remove", "shutdown", "forget"}
  /\ f.pc \in {"unregister", "remove", "list", "save"} \cup AddRemotePCs =>
       f.id \in IDs /\ f.id < nextID
  /\ f.pc \in {"idle", "restore", "cut", "kill", "shutdown", "forget", "key"} => f.id = Nil
  /\ f.pc \in {"key"} \cup AddRemotePCs \/ f.op = "delcred" => f.conf \in Creds
  /\ f.pc \in {"insert", "add"} => f.cl \in Cls
  /\ f.pc \notin {"insert", "add", "remove", "shutdown"} => f.cl = Nil
  /\ f.op = "update" /\ f.pc \in {"unregister", "remove"} => conf[f.id] \in Creds
  /\ f.pc # "save" => f.late = {}
  /\ f.pc = "kill" => f.ids # {}

(* Only the goroutine that starts the daemon works while it does; what it   *)
(* has restored is what the file says.                                      *)
BootOK ==
  /\ up \in {"down", "exited"} => rules = {} /\ \A p \in Procs : frame[p] = Idle
  /\ \A p \in Procs : frame[p].op = "boot" =>
       /\ up = "boot"
       /\ \A q \in Procs \ {p} : frame[q] = Idle
       /\ frame[p].ids \subseteq Saved
       /\ rules = Saved \ frame[p].ids
       /\ \A i \in rules : conf[i] = rfile[i]
  /\ up = "boot" => \E p \in Procs : frame[p].op = "boot"

(* The manager's clients run, each for its credential; one that is about to *)
(* be stored is known to its request alone, and one that is about to be     *)
(* shut down is not the manager's any more.                                 *)
ClientsOK ==
  /\ \A k \in Creds : clients[k] # Nil =>
       cl[clients[k]] # Nil /\ cl[clients[k]].cred = k
  /\ \A p \in Procs : frame[p].pc = "insert" =>
       /\ cl[frame[p].cl] # Nil /\ cl[frame[p].cl].cred = frame[p].conf
       /\ cl[frame[p].cl].rules = {}
       /\ \A q \in Procs \ {p} : frame[q].cl # frame[p].cl
       /\ \A k \in Creds : clients[k] # frame[p].cl
  /\ \A p \in Procs : frame[p].pc = "shutdown" =>
       \A k \in Creds : clients[k] # Nil => clients[k] # frame[p].cl
  /\ ClientsOwned

(* No credential in use has an ID above s.next.                             *)
CredsOK == \A k \in used : k <= next

BaseInv ==
  /\ TypeOK
  /\ \A p \in Procs : FrameOK(p)
  /\ BootOK
  /\ ClientsOK
  /\ CredsOK

(* The user knows nothing of a rule while a request changes it; a list of   *)
(* rules that waits to be saved is right but for those that came or went    *)
(* since; and only the daemon that serves has anything unsaved.             *)
AnswersOpen ==
  \A p \in Procs : frame[p].op # "boot" /\ frame[p].id # Nil => known[frame[p].id] = Nil
ListsRight ==
  \A p \in Procs : frame[p].pc = "save" =>
    \A i \in IDs \ frame[p].late : i \in frame[p].ids <=> i \in rules

UnsavedUp == up # "up" => unsaved = {}

DurableInv == AnswersOpen /\ ListsRight /\ UnsavedUp /\ Durable

(* Client c forwards rule i.                                                *)
Has(c, i) == cl[c] # Nil /\ i \in cl[c].rules

(* The clients that forward rule i, and are not about to be shut down.      *)
Doomed(c) == \E q \in Procs : frame[q].pc = "shutdown" /\ frame[q].cl = c
Live(i) == {c \in Cls : Has(c, i) /\ ~Doomed(c)}

(* A rule nobody works on.                                                  *)
Settled(i) ==
  IF i \in rules /\ Remote(i) /\ i \notin off
  THEN byRule[i] = conf[i] /\ clients[conf[i]] # Nil /\ Live(i) = {clients[conf[i]]}
  ELSE Live(i) = {}

(* A rule p works on.                                                       *)
Changing(p, i) ==
  LET f == frame[p] IN
  /\ f.op = "update" => i \in rules
  /\ f.pc = "unregister" => Live(i) \subseteq {RuleClient(i)}
  /\ f.pc = "remove" => Live(i) \subseteq {f.cl}
  /\ f.pc \in AddRemotePCs => Live(i) = {} /\ f.conf = conf[i] /\ i \in rules
  /\ f.pc \in AddRemotePCs \ {"register"} => byRule[i] = f.conf
  /\ f.pc = "add" => clients[f.conf] = f.cl

RuleOK(i) ==
  /\ \A p, q \in Procs : Working(p, i) /\ Working(q, i) => p = q
  /\ \A p \in Procs : Working(p, i) => Changing(p, i)
  /\ (\A p \in Procs : ~Working(p, i)) => Settled(i)

ForwardInv == \A i \in IDs \ raced : RuleOK(i)
-----------------------------------------------------------------------------
(* The fields of a frame after each kind of assignment to it.               *)
IsFrame(g, o, x, i, k, c, s, l) ==
  /\ g \in FrameRec
  /\ g.op = o /\ g.pc = x /\ g.id = i /\ g.conf = k /\ g.cl = c /\ g.ids = s /\ g.late = l

LEMMA IdleFrame == IsFrame(Idle, "none", "idle", Nil, Nil, Nil, {}, {})
  BY DEF Idle, IsFrame, FrameRec, PCs, Ops

LEMMA AtPC ==
  ASSUME NEW f \in FrameRec, NEW x \in PCs
  PROVE  IsFrame([f EXCEPT !.pc = x], f.op, x, f.id, f.conf, f.cl, f.ids, f.late)
  BY DEF FrameRec, IsFrame

LEMMA AtPCCl ==
  ASSUME NEW f \in FrameRec, NEW x \in PCs, NEW c \in Cls \cup {Nil}
  PROVE  IsFrame([f EXCEPT !.pc = x, !.cl = c], f.op, x, f.id, f.conf, c, f.ids, f.late)
  BY DEF FrameRec, IsFrame

LEMMA AtPCClConf ==
  ASSUME NEW f \in FrameRec, NEW x \in PCs, NEW c \in Cls \cup {Nil}, NEW k \in Creds \cup {Nil}
  PROVE  IsFrame([f EXCEPT !.pc = x, !.cl = c, !.conf = k], f.op, x, f.id, k, c, f.ids, f.late)
  BY DEF FrameRec, IsFrame

LEMMA AtPCClID ==
  ASSUME NEW f \in FrameRec, NEW x \in PCs, NEW c \in Cls \cup {Nil}, NEW i \in IDs \cup {Nil}
  PROVE  IsFrame([f EXCEPT !.pc = x, !.cl = c, !.id = i], f.op, x, i, f.conf, c, f.ids, f.late)
  BY DEF FrameRec, IsFrame

LEMMA AtPCIDConf ==
  ASSUME NEW f \in FrameRec, NEW x \in PCs, NEW k \in Creds \cup {Nil}, NEW i \in IDs \cup {Nil}
  PROVE  IsFrame([f EXCEPT !.pc = x, !.id = i, !.conf = k], f.op, x, i, k, f.cl, f.ids, f.late)
  BY DEF FrameRec, IsFrame

LEMMA AtIDPC ==
  ASSUME NEW f \in FrameRec, NEW x \in PCs, NEW i \in IDs \cup {Nil}
  PROVE  IsFrame([f EXCEPT !.id = i, !.pc = x], f.op, x, i, f.conf, f.cl, f.ids, f.late)
  BY DEF FrameRec, IsFrame

LEMMA AtPCIDs ==
  ASSUME NEW f \in FrameRec, NEW x \in PCs, NEW s \in SUBSET IDs
  PROVE  IsFrame([f EXCEPT !.pc = x, !.ids = s], f.op, x, f.id, f.conf, f.cl, s, f.late)
  BY DEF FrameRec, IsFrame

LEMMA AtPCConf ==
  ASSUME NEW f \in FrameRec, NEW x \in PCs, NEW k \in Creds \cup {Nil}
  PROVE  IsFrame([f EXCEPT !.pc = x, !.conf = k], f.op, x, f.id, k, f.cl, f.ids, f.late)
  BY DEF FrameRec, IsFrame

LEMMA LessIDs ==
  ASSUME NEW f \in FrameRec, NEW i
  PROVE  IsFrame([f EXCEPT !.ids = @ \ {i}], f.op, f.pc, f.id, f.conf, f.cl, f.ids \ {i}, f.late)
  BY DEF FrameRec, IsFrame

LEMMA MoreLate ==
  ASSUME NEW f \in FrameRec, NEW i \in IDs
  PROVE  IsFrame([f EXCEPT !.late = @ \cup {i}], f.op, f.pc, f.id, f.conf, f.cl, f.ids, f.late \cup {i})
  BY DEF FrameRec, IsFrame

LEMMA NewOpID ==
  ASSUME NEW o \in Ops, NEW i \in IDs \cup {Nil}
  PROVE  IsFrame([Idle EXCEPT !.op = o, !.id = i], o, "idle", i, Nil, Nil, {}, {})
  BY IdleFrame DEF FrameRec, IsFrame

LEMMA NewOpPCID ==
  ASSUME NEW o \in Ops, NEW x \in PCs, NEW i \in IDs \cup {Nil}
  PROVE  IsFrame([Idle EXCEPT !.op = o, !.pc = x, !.id = i], o, x, i, Nil, Nil, {}, {})
  BY IdleFrame DEF FrameRec, IsFrame

LEMMA NewOpPCIDs ==
  ASSUME NEW o \in Ops, NEW x \in PCs, NEW s \in SUBSET IDs
  PROVE  IsFrame([Idle EXCEPT !.op = o, !.pc = x, !.ids = s], o, x, Nil, Nil, Nil, s, {})
  BY IdleFrame DEF FrameRec, IsFrame

LEMMA NewOpPCConf ==
  ASSUME NEW o \in Ops, NEW x \in PCs, NEW k \in Creds
  PROVE  IsFrame([Idle EXCEPT !.op = o, !.pc = x, !.conf = k], o, x, Nil, k, Nil, {}, {})
  BY IdleFrame DEF FrameRec, IsFrame

LEMMA NewOpPCConfIDs ==
  ASSUME NEW o \in Ops, NEW x \in PCs, NEW k \in Creds, NEW s \in SUBSET IDs
  PROVE  IsFrame([Idle EXCEPT !.op = o, !.pc = x, !.conf = k, !.ids = s], o, x, Nil, k, Nil, s, {})
  BY IdleFrame DEF FrameRec, IsFrame
-----------------------------------------------------------------------------
(* The constants, and the smallest and the largest of a set of IDs.         *)
LEMMA Numbers ==
  /\ MaxID \in Nat /\ MaxCred \in Nat /\ MaxCalls \in Nat /\ MaxCrashes \in Nat
  /\ IDs \subseteq Nat /\ Creds \subseteq Nat /\ Creds \subseteq Confs
  /\ Nil \notin IDs /\ Nil \notin Creds /\ Nil \notin Locals /\ Nil \notin Cls
  /\ Gone # Nil /\ Gone \notin Confs
  /\ Nil \notin Confs /\ Nil \notin [cred: Creds, rules: SUBSET IDs]
BY BoundsAssumption, NilAssumption DEF IDs, Creds, Confs

LEMMA MinOf ==
  ASSUME NEW S, S \subseteq Nat, S # {}
  PROVE  Min(S) \in S /\ \A x \in S : Min(S) <= x
<1>1. PICK m \in S : \A y \in S : <<y, m>> \notin OpToRel(<, Nat)
  BY NatLessThanWellFounded, WFMin
<1>2. \A y \in S : m <= y
  <2> TAKE y \in S
  <2>1. ~(y < m)
    BY <1>1 DEF OpToRel
  <2> QED BY <2>1
<1> QED BY <1>2 DEF Min

LEMMA MaxOf ==
  ASSUME NEW n \in Nat, NEW S, S \subseteq 0..n, S # {}
  PROVE  Max(S) \in S /\ \A x \in S : x <= Max(S)
<1> DEFINE T == {n - x : x \in S}
<1>1. T \subseteq Nat /\ T # {}
  OBVIOUS
<1>2. Min(T) \in T /\ \A y \in T : Min(T) <= y
  <2> HIDE DEF T
  <2> QED BY <1>1, MinOf
<1>3. PICK m \in S : Min(T) = n - m
  BY <1>2
<1>4. \A x \in S : x <= m
  <2> TAKE x \in S
  <2>1. n - m <= n - x
    BY <1>2, <1>3
  <2> QED BY <2>1
<1> QED BY <1>4 DEF Max

LEMMA NextAfter ==
  ASSUME NEW s \in SUBSET Creds
  PROVE  NextAfterLoad(s) \in 0..(MaxCred + 1) /\ \A k \in s : k <= NextAfterLoad(s)
<1>1. CASE s = {}
  BY <1>1, Numbers DEF NextAfterLoad
<1>2. CASE s # {}
  <2>1. s \subseteq 0..MaxCred
    BY Numbers DEF Creds
  <2>2. Max(s) \in s /\ \A x \in s : x <= Max(s)
    BY <1>2, <2>1, Numbers, MaxOf
  <2>3. NextAfterLoad(s) = Max(s) + 1
    BY <1>2 DEF NextAfterLoad
  <2> HIDE DEF NextAfterLoad
  <2>4. Max(s) \in 0..MaxCred
    BY <2>1, <2>2
  <2>5. NextAfterLoad(s) \in 0..(MaxCred + 1)
    BY <2>4, <2>3, Numbers
  <2>6. ASSUME NEW k \in s PROVE k <= NextAfterLoad(s)
    <3>1. k <= Max(s) /\ k \in 0..MaxCred
      BY <2>1, <2>2
    <3> QED BY <2>4, <2>3, <3>1
  <2> QED BY <2>5, <2>6
<1> QED BY <1>1, <1>2
-----------------------------------------------------------------------------
(* What each step does to the frames.  Moved is the frame of the goroutine  *)
(* that steps; the others keep theirs, or, once a rule came or went, learn  *)
(* that the list they wait to save is out of date.                          *)
Moved(p, o, x, i, k, c, s, l) ==
  frame' \in [Procs -> FrameRec] /\ IsFrame(frame'[p], o, x, i, k, c, s, l)

Others(p) == \A q \in Procs \ {p} : frame'[q] = frame[q]

Overtaken(p, i) ==
  \A q \in Procs \ {p} :
    IF frame[q].pc = "save"
    THEN IsFrame(frame'[q], frame[q].op, "save", frame[q].id, frame[q].conf,
                 frame[q].cl, frame[q].ids, frame[q].late \cup {i})
    ELSE frame'[q] = frame[q]

(* What holds of them in both cases.                                        *)
Kept(p) ==
  /\ frame' \in [Procs -> FrameRec]
  /\ \A q \in Procs \ {p} :
       /\ frame'[q].op = frame[q].op /\ frame'[q].pc = frame[q].pc
       /\ frame'[q].id = frame[q].id /\ frame'[q].conf = frame[q].conf
       /\ frame'[q].cl = frame[q].cl /\ frame'[q].ids = frame[q].ids
       /\ frame[q].pc # "save" => frame'[q] = frame[q]

LEMMA OthersKept ==
  ASSUME NEW p \in Procs, frame' \in [Procs -> FrameRec], Others(p)
  PROVE  Kept(p)
BY DEF Others, Kept

LEMMA OvertakenKept ==
  ASSUME NEW p \in Procs, NEW i, frame' \in [Procs -> FrameRec], Overtaken(p, i)
  PROVE  Kept(p)
BY DEF Overtaken, Kept, IsFrame

LEMMA Frames ==
  ASSUME TypeOK
  PROVE  frame \in [Procs -> FrameRec] /\ \A p \in Procs : frame[p] \in FrameRec
BY DEF TypeOK, FrameRec, PCs, Ops

LEMMA GotoMoved ==
  ASSUME TypeOK, NEW p \in Procs, NEW f, Goto(p, f),
         NEW o, NEW x, NEW i, NEW k, NEW c, NEW s, NEW l,
         IsFrame(f, o, x, i, k, c, s, l)
  PROVE  Moved(p, o, x, i, k, c, s, l) /\ Others(p)
BY Frames DEF Goto, Moved, Others, IsFrame

LEMMA OvertakeMoved ==
  ASSUME TypeOK, NEW p \in Procs, NEW j \in IDs, NEW f, frame' = Overtake(p, j, f),
         NEW o, NEW x, NEW i, NEW k, NEW c, NEW s, NEW l,
         IsFrame(f, o, x, i, k, c, s, l)
  PROVE  Moved(p, o, x, i, k, c, s, l) /\ Overtaken(p, j)
<1> DEFINE g(q) == [frame[q] EXCEPT !.late = @ \cup {j}]
<1>1. \A q \in Procs : IsFrame(g(q), frame[q].op, frame[q].pc, frame[q].id,
                               frame[q].conf, frame[q].cl, frame[q].ids,
                               frame[q].late \cup {j})
  BY Frames, MoreLate
<1>2. frame' = [q \in Procs |-> IF q = p THEN f
                                ELSE IF frame[q].pc = "save" THEN g(q) ELSE frame[q]]
  BY DEF Overtake
<1> HIDE DEF g
<1>3. \A q \in Procs : frame'[q] \in FrameRec
  BY <1>1, <1>2, Frames DEF IsFrame
<1>4. frame' \in [Procs -> FrameRec] /\ frame'[p] = f
  BY <1>2, <1>3
<1>5. ASSUME NEW q \in Procs \ {p}
      PROVE  IF frame[q].pc = "save"
             THEN IsFrame(frame'[q], frame[q].op, "save", frame[q].id, frame[q].conf,
                          frame[q].cl, frame[q].ids, frame[q].late \cup {j})
             ELSE frame'[q] = frame[q]
  BY <1>1, <1>2
<1> QED BY <1>4, <1>5 DEF Moved, Overtaken

LEMMA RulesTyped ==
  ASSUME TypeOK
  PROVE  /\ nextID \in Nat /\ nextID >= 1 /\ nextID <= MaxID + 1
         /\ rules \subseteq IDs /\ \A i \in rules : i < nextID
BY Numbers DEF TypeOK, IDs

LEMMA EngineTyped ==
  ASSUME nextID \in 1..(MaxID + 1), rules \subseteq IDs, \A i \in rules : i < nextID
  PROVE  rules \subseteq 1..(nextID - 1)
BY Numbers DEF IDs

(* TypeOK after a step whose frames are typed, from the parts it changes.   *)
EngineType ==
  /\ nextID \in 1..(MaxID + 1) /\ rules \subseteq 1..(nextID - 1)
  /\ conf \in [IDs -> Confs \cup {Nil}]
ManagerType ==
  /\ byRule \in [IDs -> Creds \cup {Nil}]
  /\ clients \in [Creds -> Cls \cup {Nil}]
  /\ cl \in [Cls -> [cred: Creds, rules: SUBSET IDs] \cup {Nil}]
StoreType ==
  creds \subseteq Creds /\ used \subseteq Creds /\ next \in 0..(MaxCred + 1)
FilesType ==
  /\ rfile \in [IDs -> Confs \cup {Nil}] \cup {Torn}
  /\ cfile \in (SUBSET Creds) \cup {Torn}
ProcessType ==
  /\ up \in {"down", "boot", "up", "exited"} /\ crashes \in 0..MaxCrashes
  /\ calls \in 0..MaxCalls
HistoryType ==
  /\ known \in [IDs -> Confs \cup {Gone, Nil}]
  /\ unsaved \subseteq IDs /\ lost \subseteq IDs
  /\ off \subseteq IDs /\ raced \subseteq IDs

LEMMA TypeSplit ==
  /\ TypeOK <=> /\ EngineType /\ ManagerType /\ StoreType /\ FilesType
                /\ ProcessType /\ HistoryType /\ frame \in [Procs -> FrameRec]
  /\ TypeOK' <=> /\ EngineType' /\ ManagerType' /\ StoreType' /\ FilesType'
                 /\ ProcessType' /\ HistoryType' /\ frame' \in [Procs -> FrameRec]
BY DEF TypeOK, EngineType, ManagerType, StoreType, FilesType, ProcessType,
       HistoryType, FrameRec, PCs, Ops
-----------------------------------------------------------------------------
(* The frame of p after each of its steps, and the type invariant.          *)
LEMMA FrameMoved ==
  ASSUME TypeOK, NEW p \in Procs, NEW f, Goto(p, f),
         NEW o, NEW x, NEW i, NEW k, NEW c, NEW s, NEW l,
         IsFrame(f, o, x, i, k, c, s, l),
         EngineType', ManagerType', StoreType', FilesType', ProcessType', HistoryType'
  PROVE  Moved(p, o, x, i, k, c, s, l) /\ Others(p) /\ Kept(p) /\ TypeOK'
<1>1. Moved(p, o, x, i, k, c, s, l) /\ Others(p)
  BY GotoMoved
<1>2. TypeOK'
  BY <1>1, TypeSplit DEF Moved
<1>3. Kept(p)
  BY <1>1, OthersKept DEF Moved
<1> QED BY <1>1, <1>2, <1>3

(* Steps that change one part leave the others typed.                       *)
LEMMA Unchanged ==
  ASSUME TypeOK
  PROVE  /\ UNCHANGED engine => EngineType'
         /\ UNCHANGED manager => ManagerType'
         /\ UNCHANGED store => StoreType'
         /\ UNCHANGED files => FilesType'
         /\ UNCHANGED process => ProcessType'
         /\ UNCHANGED <<answers, off, raced>> => HistoryType'
<1>1. /\ EngineType /\ ManagerType /\ StoreType /\ FilesType
      /\ ProcessType /\ HistoryType
  BY TypeSplit
<1> QED BY <1>1 DEF EngineType, ManagerType, StoreType, FilesType, ProcessType,
                    HistoryType, engine, manager, store, files, process, answers

LEMMA RestoreRuleMoves ==
  ASSUME TypeOK, BootOK, NEW p \in Procs, FrameOK(p), RestoreRule(p)
  PROVE  LET i == Min(frame[p].ids)
             f == frame[p]
         IN /\ i \in frame[p].ids /\ i \in IDs /\ rfile \in [IDs -> Confs \cup {Nil}]
            /\ rfile[i] # Nil
            /\ nextID' \in Nat /\ nextID' >= nextID /\ i < nextID'
            /\ rules' = rules \cup {i} /\ conf' = [conf EXCEPT ![i] = rfile[i]]
            /\ f.op = "boot"
            /\ \/ /\ rfile[i] \in Creds
                  /\ Moved(p, "boot", "register", i, rfile[i], f.cl, f.ids \ {i}, f.late)
               \/ /\ rfile[i] \in Locals
                  /\ Moved(p, "boot", "restore", f.id, f.conf, f.cl, f.ids \ {i}, f.late)
            /\ Others(p) /\ Kept(p) /\ TypeOK'
<1> DEFINE i == Min(frame[p].ids)
           f == [frame[p] EXCEPT !.ids = @ \ {i}]
           g == [f EXCEPT !.pc = "register", !.id = i, !.conf = rfile[i]]
<1>1. frame[p] \in FrameRec /\ frame[p].ids \subseteq IDs /\ frame[p].ids # {}
  BY Frames DEF RestoreRule, FrameRec
<1>2. i \in frame[p].ids /\ i \in IDs
  BY <1>1, Numbers, MinOf
<1>3. frame[p].op = "boot" /\ i \in Saved
  BY <1>1, <1>2 DEF FrameOK, RestoreRule, FrameRec, Ops, BootOK, AddRemotePCs
<1>4. rfile \in [IDs -> Confs \cup {Nil}] /\ rfile[i] # Nil /\ rfile[i] \in Confs
  BY <1>2, <1>3 DEF Saved, OnDisk, TypeOK
<1>5. IsFrame(f, "boot", "restore", frame[p].id, frame[p].conf, frame[p].cl,
              frame[p].ids \ {i}, frame[p].late)
  BY <1>1, <1>3, LessIDs DEF RestoreRule, IsFrame
<1>6. rfile[i] \in Creds =>
        IsFrame(g, "boot", "register", i, rfile[i], frame[p].cl, frame[p].ids \ {i},
                frame[p].late)
  <2> SUFFICES ASSUME rfile[i] \in Creds PROVE <1>6!2
    OBVIOUS
  <2> HIDE DEF f
  <2>1. f \in FrameRec /\ "register" \in PCs
    BY <1>5 DEF IsFrame, PCs
  <2>2. IsFrame(g, f.op, "register", i, rfile[i], f.cl, f.ids, f.late)
    <3> HIDE DEF i
    <3> QED BY <1>2, <2>1, AtPCIDConf
  <2> QED BY <2>2, <1>5 DEF IsFrame
<1>7. /\ nextID' = NextIDAfterRestore(i) /\ rules' = rules \cup {i}
      /\ conf' = [conf EXCEPT ![i] = rfile[i]]
      /\ Goto(p, IF rfile[i] \in Creds THEN g ELSE f)
      /\ UNCHANGED <<process, files, store, manager, answers, off, raced>>
  BY DEF RestoreRule
<1> HIDE DEF f, g, i
<1>8. nextID' \in 1..(MaxID + 1) /\ nextID' >= nextID /\ i < nextID' /\ nextID' \in Nat
  <2>1. i \in Nat /\ i <= MaxID /\ i >= 1
    BY <1>2, Numbers DEF IDs
  <2>2. nextID' = IF i >= nextID THEN i + 1 ELSE nextID
    BY <1>7 DEF NextIDAfterRestore
  <2>3. nextID \in Nat /\ nextID >= 1 /\ nextID <= MaxID + 1 /\ MaxID \in Nat
    BY RulesTyped, Numbers
  <2>4. CASE i >= nextID
    BY <2>1, <2>2, <2>3, <2>4
  <2>5. CASE ~(i >= nextID)
    BY <2>1, <2>2, <2>3, <2>5
  <2> QED BY <2>4, <2>5
<1>9. rules' \subseteq 1..(nextID' - 1)
  <2>1. \A j \in rules : j \in IDs /\ j < nextID'
    <3> TAKE j \in rules
    <3>1. j \in IDs /\ j < nextID /\ j \in Nat
      BY RulesTyped, Numbers
    <3> QED BY <3>1, <1>8, RulesTyped
  <2>2. \A j \in rules' : j \in 1..(nextID' - 1)
    BY <2>1, <1>2, <1>7, <1>8, Numbers DEF IDs
  <2> QED BY <2>2
<1>10. EngineType'
  BY <1>4, <1>7, <1>8, <1>9 DEF EngineType, TypeOK
<1>11. ManagerType' /\ StoreType' /\ FilesType' /\ ProcessType' /\ HistoryType'
  BY <1>7, Unchanged
<1>12. CASE rfile[i] \in Creds
  <2>1. Goto(p, g)
    BY <1>7, <1>12
  <2>2. /\ Moved(p, "boot", "register", i, rfile[i], frame[p].cl, frame[p].ids \ {i},
                 frame[p].late)
        /\ Others(p) /\ Kept(p) /\ TypeOK'
    BY <1>6, <1>10, <1>11, <1>12, <2>1, FrameMoved
  <2> QED BY <2>2, <1>12, <1>2, <1>3, <1>4, <1>7, <1>8 DEF i
<1>13. CASE rfile[i] \notin Creds
  <2>1. Goto(p, f) /\ rfile[i] \in Locals
    BY <1>4, <1>7, <1>13 DEF Confs
  <2>2. /\ Moved(p, "boot", "restore", frame[p].id, frame[p].conf, frame[p].cl,
                 frame[p].ids \ {i}, frame[p].late)
        /\ Others(p) /\ Kept(p) /\ TypeOK'
    BY <1>5, <1>10, <1>11, <2>1, FrameMoved
  <2> QED BY <2>1, <2>2, <1>2, <1>3, <1>4, <1>7, <1>8 DEF i
<1> QED BY <1>12, <1>13

LEMMA RegisteredFrame ==
  ASSUME NEW f \in FrameRec
  PROVE  IF f.op = "boot"
         THEN IsFrame(Registered(f), "boot", "restore", Nil, Nil, Nil, f.ids, {})
         ELSE IsFrame(Registered(f), f.op, "list", f.id, Nil, Nil, {}, {})
<1>1. /\ f.op \in Ops /\ f.id \in IDs \cup {Nil} /\ f.ids \in SUBSET IDs
      /\ "boot" \in Ops /\ "restore" \in PCs /\ "list" \in PCs
  BY DEF FrameRec, Ops, PCs
<1>2. CASE f.op = "boot"
  <2>1. Registered(f) = [Idle EXCEPT !.op = "boot", !.pc = "restore", !.ids = f.ids]
    BY <1>2 DEF Registered
  <2>2. IsFrame([Idle EXCEPT !.op = "boot", !.pc = "restore", !.ids = f.ids],
                "boot", "restore", Nil, Nil, Nil, f.ids, {})
    BY <1>1, NewOpPCIDs
  <2> QED BY <1>2, <2>1, <2>2
<1>3. CASE f.op # "boot"
  <2>1. Registered(f) = [Idle EXCEPT !.op = f.op, !.pc = "list", !.id = f.id]
    BY <1>3 DEF Registered
  <2>2. IsFrame([Idle EXCEPT !.op = f.op, !.pc = "list", !.id = f.id],
                f.op, "list", f.id, Nil, Nil, {}, {})
    BY <1>1, NewOpPCID
  <2> QED BY <1>3, <2>1, <2>2
<1> QED BY <1>2, <1>3

LEMMA RestoreEndMoves ==
  ASSUME TypeOK, NEW p \in Procs, RestoreEnd(p)
  PROVE  /\ Moved(p, "none", "idle", Nil, Nil, Nil, {}, {})
         /\ Others(p) /\ Kept(p) /\ TypeOK'
<1>1. /\ up' = "up" /\ Goto(p, Idle)
      /\ UNCHANGED <<crashes, calls, files, engine, manager, store, answers, off, raced>>
  BY DEF RestoreEnd
<1>2. EngineType' /\ ManagerType' /\ StoreType' /\ FilesType' /\ HistoryType'
  BY <1>1, Unchanged
<1>3. ProcessType'
  BY <1>1 DEF ProcessType, TypeOK
<1> QED BY <1>1, <1>2, <1>3, IdleFrame, FrameMoved

LEMMA RegisterMoves ==
  ASSUME TypeOK, NEW p \in Procs, FrameOK(p), Register(p)
  PROVE  LET f == frame[p]
         IN /\ Moved(p, f.op, "ensure", f.id, f.conf, f.cl, f.ids, f.late)
            /\ Others(p) /\ Kept(p) /\ TypeOK'
<1>1. /\ byRule' = [byRule EXCEPT ![frame[p].id] = frame[p].conf]
      /\ Goto(p, [frame[p] EXCEPT !.pc = "ensure"])
      /\ UNCHANGED <<process, files, engine, store, clients, cl, answers, off, raced>>
      /\ frame[p].pc = "register"
  BY DEF Register
<1>2. frame[p].conf \in Creds /\ frame[p].id \in IDs /\ "ensure" \in PCs
  BY <1>1 DEF FrameOK, AddRemotePCs, PCs
<1>3. ManagerType'
  BY <1>1, <1>2 DEF ManagerType, TypeOK
<1>4. EngineType' /\ StoreType' /\ FilesType' /\ ProcessType' /\ HistoryType'
  BY <1>1, Unchanged
<1>5. IsFrame([frame[p] EXCEPT !.pc = "ensure"], frame[p].op, "ensure", frame[p].id,
              frame[p].conf, frame[p].cl, frame[p].ids, frame[p].late)
  BY <1>2, Frames, AtPC
<1> QED BY <1>1, <1>3, <1>4, <1>5, FrameMoved

LEMMA EnsureClientMoves ==
  ASSUME TypeOK, NEW p \in Procs, FrameOK(p), EnsureClient(p)
  PROVE  LET f == frame[p]
             c == clients[f.conf]
         IN /\ Moved(p, f.op, IF c = Nil THEN "get" ELSE "add", f.id, f.conf, c,
                     f.ids, f.late)
            /\ Others(p) /\ Kept(p) /\ TypeOK'
<1> DEFINE c == clients[frame[p].conf]
           x == IF c = Nil THEN "get" ELSE "add"
<1>1. /\ Goto(p, [frame[p] EXCEPT !.pc = x, !.cl = c])
      /\ UNCHANGED <<process, files, engine, store, manager, answers, off, raced>>
      /\ frame[p].pc = "ensure"
  BY DEF EnsureClient
<1>2. frame[p].conf \in Creds /\ c \in Cls \cup {Nil} /\ x \in PCs
  BY <1>1 DEF FrameOK, AddRemotePCs, TypeOK, PCs
<1> HIDE DEF x
<1>3. IsFrame([frame[p] EXCEPT !.pc = x, !.cl = c], frame[p].op, x, frame[p].id,
              frame[p].conf, c, frame[p].ids, frame[p].late)
  <2> HIDE DEF c
  <2> QED BY <1>2, Frames, AtPCCl
<1>4. /\ EngineType' /\ ManagerType' /\ StoreType' /\ FilesType'
      /\ ProcessType' /\ HistoryType'
  BY <1>1, Unchanged
<1>5. /\ Moved(p, frame[p].op, x, frame[p].id, frame[p].conf, c, frame[p].ids,
               frame[p].late)
      /\ Others(p) /\ Kept(p) /\ TypeOK'
  BY <1>1, <1>3, <1>4, FrameMoved
<1> QED BY <1>5 DEF x

LEMMA StartClientMoves ==
  ASSUME TypeOK, NEW p \in Procs, FrameOK(p), StartClient(p)
  PROVE  \E c \in Cls :
           LET f == frame[p]
           IN /\ cl[c] = Nil /\ \A q \in Procs : frame[q].cl # c
              /\ cl' = [cl EXCEPT ![c] = [cred |-> f.conf, rules |-> {}]]
              /\ Moved(p, f.op, "insert", f.id, f.conf, c, f.ids, f.late)
              /\ Others(p) /\ Kept(p) /\ TypeOK'
<1>1. PICK c \in Cls :
        /\ cl[c] = Nil /\ \A q \in Procs : frame[q].cl # c
        /\ cl' = [cl EXCEPT ![c] = [cred |-> frame[p].conf, rules |-> {}]]
        /\ Goto(p, [frame[p] EXCEPT !.pc = "insert", !.cl = c])
  BY DEF StartClient
<1>2. /\ UNCHANGED <<process, files, engine, store, byRule, clients, answers, off, raced>>
      /\ frame[p].pc = "get"
  BY DEF StartClient
<1>3. frame[p].conf \in Creds /\ "insert" \in PCs
  BY <1>2 DEF FrameOK, AddRemotePCs, PCs
<1>4. IsFrame([frame[p] EXCEPT !.pc = "insert", !.cl = c], frame[p].op, "insert",
              frame[p].id, frame[p].conf, c, frame[p].ids, frame[p].late)
  BY <1>3, Frames, AtPCCl
<1>5. ManagerType'
  <2>1. [cred |-> frame[p].conf, rules |-> {}] \in [cred: Creds, rules: SUBSET IDs]
    BY <1>3
  <2> QED BY <1>1, <1>2, <2>1 DEF ManagerType, TypeOK
<1>6. EngineType' /\ StoreType' /\ FilesType' /\ ProcessType' /\ HistoryType'
  BY <1>2, Unchanged
<1>7. /\ Moved(p, frame[p].op, "insert", frame[p].id, frame[p].conf, c, frame[p].ids,
               frame[p].late)
      /\ Others(p) /\ Kept(p) /\ TypeOK'
  BY <1>1, <1>4, <1>5, <1>6, FrameMoved
<1> QED BY <1>1, <1>7

(* Unavailable, and the end of ClientAdd.                                   *)
LEMMA RegisteredMoves ==
  ASSUME TypeOK, NEW p \in Procs, Goto(p, Registered(frame[p])),
         EngineType', ManagerType', StoreType', FilesType', ProcessType', HistoryType'
  PROVE  /\ IF frame[p].op = "boot"
            THEN Moved(p, "boot", "restore", Nil, Nil, Nil, frame[p].ids, {})
            ELSE Moved(p, frame[p].op, "list", frame[p].id, Nil, Nil, {}, {})
         /\ Others(p) /\ Kept(p) /\ TypeOK'
<1>1. IF frame[p].op = "boot"
      THEN IsFrame(Registered(frame[p]), "boot", "restore", Nil, Nil, Nil,
                   frame[p].ids, {})
      ELSE IsFrame(Registered(frame[p]), frame[p].op, "list", frame[p].id, Nil, Nil,
                   {}, {})
  BY Frames, RegisteredFrame
<1>2. CASE frame[p].op = "boot"
  BY <1>1, <1>2, FrameMoved
<1>3. CASE frame[p].op # "boot"
  BY <1>1, <1>3, FrameMoved
<1> QED BY <1>2, <1>3

LEMMA UnavailableMoves ==
  ASSUME TypeOK, NEW p \in Procs, FrameOK(p), Unavailable(p)
  PROVE  /\ IF frame[p].op = "boot"
            THEN Moved(p, "boot", "restore", Nil, Nil, Nil, frame[p].ids, {})
            ELSE Moved(p, frame[p].op, "list", frame[p].id, Nil, Nil, {}, {})
         /\ Others(p) /\ Kept(p) /\ TypeOK'
<1>1. /\ frame[p].pc = "get" /\ off' = off \cup {frame[p].id}
      /\ Goto(p, Registered(frame[p]))
      /\ UNCHANGED <<process, files, engine, store, manager, answers, raced>>
  BY DEF Unavailable
<1>2. frame[p].id \in IDs
  BY <1>1 DEF FrameOK, AddRemotePCs
<1>3. HistoryType'
  BY <1>1, <1>2 DEF HistoryType, TypeOK, answers
<1>4. EngineType' /\ ManagerType' /\ StoreType' /\ FilesType' /\ ProcessType'
  BY <1>1, Unchanged
<1> QED BY <1>1, <1>3, <1>4, RegisteredMoves

LEMMA ClientAddMoves ==
  ASSUME TypeOK, NEW p \in Procs, FrameOK(p), ClientAdd(p)
  PROVE  /\ IF frame[p].op = "boot"
            THEN Moved(p, "boot", "restore", Nil, Nil, Nil, frame[p].ids, {})
            ELSE Moved(p, frame[p].op, "list", frame[p].id, Nil, Nil, {}, {})
         /\ Others(p) /\ Kept(p) /\ TypeOK'
<1> DEFINE c == frame[p].cl
<1>1. /\ frame[p].pc = "add" /\ off' = off \ {frame[p].id}
      /\ cl' = IF cl[c] = Nil THEN cl ELSE [cl EXCEPT ![c].rules = @ \cup {frame[p].id}]
      /\ Goto(p, Registered(frame[p]))
      /\ UNCHANGED <<process, files, engine, store, byRule, clients, answers, raced>>
  BY DEF ClientAdd
<1>2. frame[p].id \in IDs /\ c \in Cls
  BY <1>1 DEF FrameOK, AddRemotePCs
<1>3. HistoryType'
  BY <1>1, <1>2 DEF HistoryType, TypeOK, answers
<1>4. EngineType' /\ StoreType' /\ FilesType' /\ ProcessType'
  BY <1>1, Unchanged
<1>5. cl' \in [Cls -> [cred: Creds, rules: SUBSET IDs] \cup {Nil}]
  <2> HIDE DEF c
  <2>1. CASE cl[c] = Nil
    BY <1>1, <2>1 DEF TypeOK
  <2>2. CASE cl[c] # Nil
    <3>1. cl[c] \in [cred: Creds, rules: SUBSET IDs]
      BY <1>2, <2>2 DEF TypeOK
    <3> DEFINE r == [cl[c] EXCEPT !.rules = @ \cup {frame[p].id}]
    <3>2. r \in [cred: Creds, rules: SUBSET IDs]
      BY <1>2, <3>1
    <3>3. cl' = [cl EXCEPT ![c] = r]
      BY <1>1, <2>2
    <3> HIDE DEF r
    <3> QED BY <1>2, <3>2, <3>3 DEF TypeOK
  <2> QED BY <2>1, <2>2
<1>6. ManagerType'
  BY <1>1, <1>5 DEF ManagerType, TypeOK
<1> QED BY <1>1, <1>3, <1>4, <1>6, RegisteredMoves

LEMMA InsertClientMoves ==
  ASSUME TypeOK, NEW p \in Procs, FrameOK(p), InsertClient(p)
  PROVE  LET f == frame[p]
             k == f.conf
             c == IF clients[k] = Nil THEN f.cl ELSE clients[k]
         IN /\ Moved(p, f.op, "add", f.id, k, c, f.ids, f.late)
            /\ Others(p) /\ Kept(p) /\ TypeOK'
<1> DEFINE f == frame[p]
           k == f.conf
<1>1. /\ f.pc = "insert"
      /\ UNCHANGED <<process, files, engine, store, byRule, answers, off, raced>>
  BY DEF InsertClient
<1>2. k \in Creds /\ f.cl \in Cls /\ f \in FrameRec /\ "add" \in PCs
  BY <1>1, Frames DEF FrameOK, AddRemotePCs, PCs
<1>3. EngineType' /\ StoreType' /\ FilesType' /\ ProcessType' /\ HistoryType'
  BY <1>1, Unchanged
<1>4. CASE clients[k] = Nil
  <2>1. /\ clients' = [clients EXCEPT ![k] = f.cl] /\ UNCHANGED cl
        /\ Goto(p, [f EXCEPT !.pc = "add"])
    BY <1>4 DEF InsertClient
  <2>2. ManagerType'
    BY <1>1, <1>2, <2>1 DEF ManagerType, TypeOK
  <2>3. IsFrame([f EXCEPT !.pc = "add"], f.op, "add", f.id, k, f.cl, f.ids, f.late)
    BY <1>2, AtPC
  <2>4. /\ Moved(p, f.op, "add", f.id, k, f.cl, f.ids, f.late)
        /\ Others(p) /\ Kept(p) /\ TypeOK'
    BY <1>3, <2>1, <2>2, <2>3, FrameMoved
  <2> QED BY <1>4, <2>4
<1>5. CASE clients[k] # Nil
  <2>1. /\ cl' = [cl EXCEPT ![f.cl] = Nil] /\ UNCHANGED clients
        /\ Goto(p, [f EXCEPT !.pc = "add", !.cl = clients[k]])
    BY <1>5 DEF InsertClient
  <2>2. ManagerType'
    BY <1>1, <1>2, <2>1 DEF ManagerType, TypeOK
  <2>3. clients[k] \in Cls \cup {Nil}
    BY <1>2 DEF TypeOK
  <2>4. IsFrame([f EXCEPT !.pc = "add", !.cl = clients[k]], f.op, "add", f.id, k,
                clients[k], f.ids, f.late)
    BY <1>2, <2>3, AtPCCl
  <2>5. /\ Moved(p, f.op, "add", f.id, k, clients[k], f.ids, f.late)
        /\ Others(p) /\ Kept(p) /\ TypeOK'
    BY <1>3, <2>1, <2>2, <2>4, FrameMoved
  <2> QED BY <1>5, <2>5
<1> QED BY <1>4, <1>5

LEMMA UnregisterMoves ==
  ASSUME TypeOK, NEW p \in Procs, FrameOK(p), Unregister(p)
  PROVE  LET f == frame[p]
         IN /\ Moved(p, f.op, "remove", f.id, f.conf, RuleClient(f.id), f.ids, f.late)
            /\ Others(p) /\ Kept(p) /\ TypeOK'
<1> DEFINE f == frame[p]
           c == RuleClient(f.id)
<1>1. /\ f.pc = "unregister"
      /\ byRule' = [byRule EXCEPT ![f.id] = Nil]
      /\ Goto(p, [f EXCEPT !.pc = "remove", !.cl = c])
      /\ UNCHANGED <<process, files, engine, store, clients, cl, answers, off, raced>>
  BY DEF Unregister
<1>2. f.id \in IDs /\ f \in FrameRec /\ "remove" \in PCs
  BY <1>1, Frames DEF FrameOK, PCs
<1>3. c \in Cls \cup {Nil}
  BY <1>2 DEF RuleClient, TypeOK
<1> HIDE DEF c
<1>4. ManagerType'
  BY <1>1, <1>2 DEF ManagerType, TypeOK
<1>5. EngineType' /\ StoreType' /\ FilesType' /\ ProcessType' /\ HistoryType'
  BY <1>1, Unchanged
<1>6. IsFrame([f EXCEPT !.pc = "remove", !.cl = c], f.op, "remove", f.id, f.conf, c,
              f.ids, f.late)
  BY <1>2, <1>3, AtPCCl
<1>7. /\ Moved(p, f.op, "remove", f.id, f.conf, c, f.ids, f.late)
      /\ Others(p) /\ Kept(p) /\ TypeOK'
  BY <1>1, <1>4, <1>5, <1>6, FrameMoved
<1> QED BY <1>7 DEF c

(* A rule that a request removes from the engine, and the list it overtakes.*)
LEMMA OvertakeTyped ==
  ASSUME TypeOK, NEW p \in Procs, NEW j \in IDs, NEW f, frame' = Overtake(p, j, f),
         NEW o, NEW x, NEW i, NEW k, NEW c, NEW s, NEW l,
         IsFrame(f, o, x, i, k, c, s, l),
         EngineType', ManagerType', StoreType', FilesType', ProcessType', HistoryType'
  PROVE  Moved(p, o, x, i, k, c, s, l) /\ Overtaken(p, j) /\ Kept(p) /\ TypeOK'
<1>1. Moved(p, o, x, i, k, c, s, l) /\ Overtaken(p, j)
  BY OvertakeMoved
<1>2. TypeOK'
  BY <1>1, TypeSplit DEF Moved
<1>3. Kept(p)
  BY <1>1, OvertakenKept DEF Moved
<1> QED BY <1>1, <1>2, <1>3

LEMMA ClientRemoveMoves ==
  ASSUME TypeOK, NEW p \in Procs, FrameOK(p), ClientRemove(p)
  PROVE  LET f == frame[p]
         IN /\ \/ /\ f.op = "update" /\ UNCHANGED rules
                  /\ Moved(p, f.op, "register", f.id, conf[f.id], Nil, f.ids, f.late)
                  /\ Others(p)
               \/ /\ f.op = "delete" /\ rules' = rules \ {f.id}
                  /\ Moved(p, f.op, "list", f.id, f.conf, Nil, f.ids, f.late)
                  /\ Overtaken(p, f.id)
               \/ /\ f.op = "delcred" /\ rules' = rules \ {f.id}
                  /\ Moved(p, f.op, "cut", Nil, f.conf, Nil, f.ids, f.late)
                  /\ Overtaken(p, f.id)
            /\ Kept(p) /\ TypeOK'
<1> DEFINE f == frame[p]
           i == f.id
<1>1. /\ f.pc = "remove"
      /\ cl' = IF f.cl = Nil \/ cl[f.cl] = Nil THEN cl
               ELSE [cl EXCEPT ![f.cl].rules = @ \ {i}]
      /\ UNCHANGED <<process, files, nextID, conf, store, byRule, clients,
                     answers, off, raced>>
  BY DEF ClientRemove
<1>2. /\ i \in IDs /\ f \in FrameRec /\ f.cl \in Cls \cup {Nil} /\ Nil \in Cls \cup {Nil}
      /\ Nil \in IDs \cup {Nil}
      /\ "register" \in PCs /\ "list" \in PCs /\ "cut" \in PCs
  BY <1>1, Frames DEF FrameOK, FrameRec, PCs
<1>3. StoreType' /\ FilesType' /\ ProcessType' /\ HistoryType'
  BY <1>1, Unchanged
<1>4. cl' \in [Cls -> [cred: Creds, rules: SUBSET IDs] \cup {Nil}]
  <2>1. CASE f.cl = Nil \/ cl[f.cl] = Nil
    BY <1>1, <2>1 DEF TypeOK
  <2>2. CASE ~(f.cl = Nil \/ cl[f.cl] = Nil)
    <3>1. f.cl \in Cls /\ cl[f.cl] \in [cred: Creds, rules: SUBSET IDs]
      BY <1>2, <2>2 DEF TypeOK
    <3> DEFINE r == [cl[f.cl] EXCEPT !.rules = @ \ {i}]
    <3>2. r \in [cred: Creds, rules: SUBSET IDs]
      BY <3>1
    <3>3. cl' = [cl EXCEPT ![f.cl] = r]
      BY <1>1, <2>2
    <3> HIDE DEF r
    <3> QED BY <3>1, <3>2, <3>3 DEF TypeOK
  <2> QED BY <2>1, <2>2
<1>5. ManagerType'
  BY <1>1, <1>4 DEF ManagerType, TypeOK
<1>6. rules' \subseteq rules => EngineType'
  BY <1>1 DEF EngineType, TypeOK
<1> HIDE DEF f, i
<1>7. CASE f.op = "update" /\ Goto(p, [f EXCEPT !.pc = "register", !.cl = Nil,
                                                !.conf = conf[i]])
           /\ UNCHANGED rules
  <2>1. conf[i] \in Creds
    BY <1>1, <1>7 DEF FrameOK, f, i
  <2>2. IsFrame([f EXCEPT !.pc = "register", !.cl = Nil, !.conf = conf[i]], f.op,
                "register", f.id, conf[i], Nil, f.ids, f.late)
    BY <1>2, <2>1, AtPCClConf
  <2>3. /\ Moved(p, f.op, "register", f.id, conf[i], Nil, f.ids, f.late)
        /\ Others(p) /\ Kept(p) /\ TypeOK'
    BY <1>3, <1>5, <1>6, <1>7, <2>2, FrameMoved
  <2> QED BY <1>7, <2>3 DEF f, i
<1>8. CASE f.op = "delete" /\ Stop(p, i, [f EXCEPT !.pc = "list", !.cl = Nil])
  <2>1. IsFrame([f EXCEPT !.pc = "list", !.cl = Nil], f.op, "list", f.id, f.conf, Nil,
                f.ids, f.late)
    BY <1>2, AtPCCl
  <2>2. /\ rules' = rules \ {i}
        /\ frame' = Overtake(p, i, [f EXCEPT !.pc = "list", !.cl = Nil])
    BY <1>8 DEF Stop
  <2>3. /\ Moved(p, f.op, "list", f.id, f.conf, Nil, f.ids, f.late)
        /\ Overtaken(p, i) /\ Kept(p) /\ TypeOK'
    BY <1>2, <1>3, <1>5, <1>6, <2>1, <2>2, OvertakeTyped
  <2> QED BY <1>8, <2>2, <2>3 DEF f, i
<1>9. CASE f.op = "delcred" /\ Stop(p, i, [f EXCEPT !.pc = "cut", !.cl = Nil, !.id = Nil])
  <2>1. IsFrame([f EXCEPT !.pc = "cut", !.cl = Nil, !.id = Nil], f.op, "cut", Nil,
                f.conf, Nil, f.ids, f.late)
    BY <1>2, AtPCClID
  <2>2. /\ rules' = rules \ {i}
        /\ frame' = Overtake(p, i, [f EXCEPT !.pc = "cut", !.cl = Nil, !.id = Nil])
    BY <1>9 DEF Stop
  <2>3. /\ Moved(p, f.op, "cut", Nil, f.conf, Nil, f.ids, f.late)
        /\ Overtaken(p, i) /\ Kept(p) /\ TypeOK'
    BY <1>2, <1>3, <1>5, <1>6, <2>1, <2>2, OvertakeTyped
  <2> QED BY <1>9, <2>2, <2>3 DEF f, i
<1> QED BY <1>7, <1>8, <1>9 DEF ClientRemove, f, i

LEMMA ListRulesMoves ==
  ASSUME TypeOK, NEW p \in Procs, ListRules(p)
  PROVE  LET f == frame[p]
         IN /\ Moved(p, f.op, "save", f.id, f.conf, f.cl, rules, f.late)
            /\ Others(p) /\ Kept(p) /\ TypeOK'
<1>1. /\ Goto(p, [frame[p] EXCEPT !.pc = "save", !.ids = rules])
      /\ UNCHANGED <<process, files, engine, store, manager, answers, off, raced>>
  BY DEF ListRules
<1>2. rules \in SUBSET IDs /\ "save" \in PCs
  BY RulesTyped DEF PCs
<1>3. IsFrame([frame[p] EXCEPT !.pc = "save", !.ids = rules], frame[p].op, "save",
              frame[p].id, frame[p].conf, frame[p].cl, rules, frame[p].late)
  BY <1>2, Frames, AtPCIDs
<1>4. /\ EngineType' /\ ManagerType' /\ StoreType' /\ FilesType'
      /\ ProcessType' /\ HistoryType'
  BY <1>1, Unchanged
<1> QED BY <1>1, <1>3, <1>4, FrameMoved

LEMMA PersistedTyped ==
  ASSUME TypeOK, NEW s
  PROVE  Persisted(s) \in [IDs -> Confs \cup {Nil}]
BY DEF Persisted, TypeOK

LEMMA ToldTyped ==
  ASSUME TypeOK, NEW p \in Procs
  PROVE  Told(p) \in [IDs -> Confs \cup {Gone, Nil}]
<1>1. \A i \in IDs : conf[i] \in Confs \cup {Nil}
  BY DEF TypeOK
<1>2. frame[p].id \in IDs \cup {Nil} /\ known \in [IDs -> Confs \cup {Gone, Nil}]
  BY Frames DEF FrameRec, TypeOK
<1> QED BY <1>1, <1>2, Numbers DEF Told

(* SaveRules and SaveRulesFails.                                            *)
LEMMA SaveMoves ==
  ASSUME TypeOK, NEW p \in Procs, FrameOK(p), SaveRules(p) \/ SaveRulesFails(p)
  PROVE  /\ Moved(p, "none", "idle", Nil, Nil, Nil, {}, {})
         /\ Others(p) /\ Kept(p) /\ TypeOK'
<1>1. /\ frame[p].pc = "save" /\ Goto(p, Idle)
      /\ UNCHANGED <<process, cfile, engine, store, manager, lost, off, raced>>
  BY DEF SaveRules, SaveRulesFails
<1>2. /\ rfile' \in [IDs -> Confs \cup {Nil}] \cup {Torn}
      /\ known' \in [IDs -> Confs \cup {Gone, Nil}]
      /\ unsaved' \subseteq IDs
  <2>1. CASE SaveRules(p)
    <3>1. rfile' \in [IDs -> Confs \cup {Nil}] /\ unsaved' = {}
      BY <2>1, PersistedTyped DEF SaveRules
    <3>2. known' = [i \in IDs |-> IF i \in frame[p].late THEN Nil ELSE Told(p)[i]]
      BY <2>1 DEF SaveRules
    <3> QED BY <3>1, <3>2, ToldTyped
  <2>2. CASE SaveRulesFails(p)
    <3>1. frame[p].id \in IDs
      BY <1>1 DEF FrameOK
    <3> QED BY <2>2, <3>1, ToldTyped DEF SaveRulesFails, TypeOK
  <2> QED BY <2>1, <2>2
<1>3. FilesType' /\ HistoryType'
  BY <1>1, <1>2 DEF FilesType, HistoryType, TypeOK
<1>4. EngineType' /\ ManagerType' /\ StoreType' /\ ProcessType'
  BY <1>1, Unchanged
<1> QED BY <1>1, <1>3, <1>4, IdleFrame, FrameMoved

LEMMA CutRuleMoves ==
  ASSUME TypeOK, NEW p \in Procs, CutRule(p)
  PROVE  LET f == frame[p]
             i == Min(f.ids)
         IN /\ f.ids # {}
            /\ \/ Moved(p, f.op, "kill", f.id, f.conf, f.cl, f.ids, f.late)
               \/ Moved(p, f.op, "cut", f.id, f.conf, f.cl, f.ids \ {i}, f.late)
            /\ Others(p) /\ Kept(p) /\ TypeOK'
<1> DEFINE f == frame[p]
           i == Min(f.ids)
           g == [f EXCEPT !.pc = "kill"]
           h == [f EXCEPT !.ids = @ \ {i}]
<1>1. /\ f.pc = "cut" /\ f.ids # {}
      /\ Goto(p, IF conf[i] = f.conf THEN g ELSE h)
      /\ UNCHANGED <<process, files, engine, store, manager, answers, off, raced>>
  BY DEF CutRule
<1> HIDE DEF i
<1>2. IsFrame(g, f.op, "kill", f.id, f.conf, f.cl, f.ids, f.late)
  BY Frames, AtPC DEF PCs
<1>3. IsFrame(h, f.op, "cut", f.id, f.conf, f.cl, f.ids \ {i}, f.late)
  BY <1>1, Frames, LessIDs DEF IsFrame
<1>4. /\ EngineType' /\ ManagerType' /\ StoreType' /\ FilesType'
      /\ ProcessType' /\ HistoryType'
  BY <1>1, Unchanged
<1> HIDE DEF g, h
<1>5. CASE conf[i] = f.conf
  <2>1. /\ Moved(p, f.op, "kill", f.id, f.conf, f.cl, f.ids, f.late)
        /\ Others(p) /\ Kept(p) /\ TypeOK'
    BY <1>1, <1>2, <1>4, <1>5, FrameMoved
  <2> QED BY <1>1, <2>1
<1>6. CASE conf[i] # f.conf
  <2>1. /\ Moved(p, f.op, "cut", f.id, f.conf, f.cl, f.ids \ {i}, f.late)
        /\ Others(p) /\ Kept(p) /\ TypeOK'
    BY <1>1, <1>3, <1>4, <1>6, FrameMoved
  <2> QED BY <1>1, <2>1 DEF i
<1> QED BY <1>5, <1>6

LEMMA KillRuleMoves ==
  ASSUME TypeOK, NEW p \in Procs, FrameOK(p), KillRule(p)
  PROVE  LET i == Min(frame[p].ids)
             f == frame[p]
         IN /\ i \in IDs /\ i \in f.ids
            /\ \/ /\ i \in rules /\ Begin(p, i)
                  /\ Moved(p, f.op, "unregister", i, f.conf, f.cl, f.ids \ {i}, f.late)
               \/ /\ i \notin rules /\ UNCHANGED <<answers, raced>>
                  /\ Moved(p, f.op, "cut", f.id, f.conf, f.cl, f.ids \ {i}, f.late)
            /\ Others(p) /\ Kept(p) /\ TypeOK'
<1> DEFINE i == Min(frame[p].ids)
           f == [frame[p] EXCEPT !.ids = @ \ {i}]
           g == [f EXCEPT !.id = i, !.pc = "unregister"]
           h == [f EXCEPT !.pc = "cut"]
<1>1. /\ frame[p].pc = "kill" /\ frame[p].ids # {}
      /\ IF i \in rules THEN Begin(p, i) /\ Goto(p, g)
         ELSE Goto(p, h) /\ UNCHANGED <<answers, raced>>
      /\ UNCHANGED <<process, files, engine, store, manager, off>>
  BY DEF KillRule, FrameOK
<1>2. i \in IDs /\ i \in frame[p].ids /\ {"unregister", "cut"} \subseteq PCs
  <2>1. frame[p].ids \subseteq IDs
    BY Frames DEF FrameRec
  <2> QED BY <1>1, <2>1, Numbers, MinOf DEF PCs
<1> HIDE DEF i
<1>3. IsFrame(f, frame[p].op, "kill", frame[p].id, frame[p].conf, frame[p].cl,
              frame[p].ids \ {i}, frame[p].late)
  BY <1>1, Frames, LessIDs DEF IsFrame
<1>4. IsFrame(g, frame[p].op, "unregister", i, frame[p].conf, frame[p].cl,
              frame[p].ids \ {i}, frame[p].late)
  <2> HIDE DEF f
  <2>1. f \in FrameRec
    BY <1>3 DEF IsFrame
  <2>2. IsFrame(g, f.op, "unregister", i, f.conf, f.cl, f.ids, f.late)
    BY <1>2, <2>1, AtIDPC
  <2> QED BY <1>3, <2>2 DEF IsFrame
<1>9. IsFrame(h, frame[p].op, "cut", frame[p].id, frame[p].conf, frame[p].cl,
              frame[p].ids \ {i}, frame[p].late)
  <2> HIDE DEF f
  <2>1. f \in FrameRec
    BY <1>3 DEF IsFrame
  <2>2. IsFrame(h, f.op, "cut", f.id, f.conf, f.cl, f.ids, f.late)
    BY <1>2, <2>1, AtPC
  <2> QED BY <1>3, <2>2 DEF IsFrame
<1>5. EngineType' /\ ManagerType' /\ StoreType' /\ FilesType' /\ ProcessType'
  BY <1>1, Unchanged
<1>6. HistoryType'
  BY <1>1, <1>2 DEF HistoryType, TypeOK, Begin, answers
<1> HIDE DEF f, g, h
<1>7. CASE i \in rules
  <2>1. /\ Moved(p, frame[p].op, "unregister", i, frame[p].conf, frame[p].cl,
                 frame[p].ids \ {i}, frame[p].late)
        /\ Others(p) /\ Kept(p) /\ TypeOK'
    BY <1>1, <1>4, <1>5, <1>6, <1>7, FrameMoved
  <2> QED BY <1>1, <1>2, <1>7, <2>1 DEF i
<1>8. CASE i \notin rules
  <2>1. /\ Moved(p, frame[p].op, "cut", frame[p].id, frame[p].conf, frame[p].cl,
                 frame[p].ids \ {i}, frame[p].late)
        /\ Others(p) /\ Kept(p) /\ TypeOK'
    BY <1>1, <1>5, <1>6, <1>8, <1>9, FrameMoved
  <2> QED BY <1>1, <1>2, <1>8, <2>1 DEF i
<1> QED BY <1>7, <1>8

LEMMA PurgeCredMoves ==
  ASSUME TypeOK, NEW p \in Procs, FrameOK(p), PurgeCred(p)
  PROVE  LET f == frame[p]
         IN /\ f.conf \in Creds
            /\ Moved(p, f.op, "shutdown", f.id, f.conf, clients[f.conf], f.ids, f.late)
            /\ Others(p) /\ Kept(p) /\ TypeOK'
<1> DEFINE k == frame[p].conf
           cut == {i \in IDs : byRule[i] = k}
<1>1. /\ frame[p].pc = "cut"
      /\ byRule' = [i \in IDs |-> IF i \in cut THEN Nil ELSE byRule[i]]
      /\ clients' = [clients EXCEPT ![k] = Nil]
      /\ off' = off \cup cut
      /\ raced' = raced \cup {i \in cut : \E q \in Procs : Working(q, i)}
      /\ Goto(p, [frame[p] EXCEPT !.pc = "shutdown", !.cl = clients[k]])
      /\ UNCHANGED <<process, files, engine, store, cl, answers>>
  BY DEF PurgeCred
<1>2. k \in Creds /\ frame[p] \in FrameRec /\ "shutdown" \in PCs
  <2>1. frame[p].op = "delcred"
    BY <1>1, Frames DEF FrameOK, FrameRec, Ops, AddRemotePCs
  <2> QED BY <2>1, Frames DEF FrameOK, PCs
<1>3. clients[k] \in Cls \cup {Nil}
  BY <1>2 DEF TypeOK
<1>4. IsFrame([frame[p] EXCEPT !.pc = "shutdown", !.cl = clients[k]], frame[p].op,
              "shutdown", frame[p].id, k, clients[k], frame[p].ids, frame[p].late)
  BY <1>2, <1>3, AtPCCl
<1>5. HistoryType'
  BY <1>1 DEF HistoryType, TypeOK, answers
<1>6. ManagerType'
  BY <1>1, <1>2 DEF ManagerType, TypeOK
<1>7. EngineType' /\ StoreType' /\ FilesType' /\ ProcessType'
  BY <1>1, Unchanged
<1> QED BY <1>1, <1>2, <1>4, <1>5, <1>6, <1>7, FrameMoved

LEMMA ShutdownClientMoves ==
  ASSUME TypeOK, NEW p \in Procs, ShutdownClient(p)
  PROVE  LET f == frame[p]
         IN /\ Moved(p, f.op, "forget", f.id, f.conf, Nil, f.ids, f.late)
            /\ Others(p) /\ Kept(p) /\ TypeOK'
<1>1. /\ cl' = [c \in Cls |-> IF c = frame[p].cl THEN Nil ELSE cl[c]]
      /\ Goto(p, [frame[p] EXCEPT !.pc = "forget", !.cl = Nil])
      /\ UNCHANGED <<process, files, engine, store, byRule, clients, answers, off, raced>>
  BY DEF ShutdownClient
<1>2. IsFrame([frame[p] EXCEPT !.pc = "forget", !.cl = Nil], frame[p].op, "forget",
              frame[p].id, frame[p].conf, Nil, frame[p].ids, frame[p].late)
  <2>1. frame[p] \in FrameRec /\ "forget" \in PCs /\ Nil \in Cls \cup {Nil}
    BY Frames DEF PCs
  <2> QED BY <2>1, AtPCCl
<1>3. ManagerType'
  BY <1>1 DEF ManagerType, TypeOK
<1>4. EngineType' /\ StoreType' /\ FilesType' /\ ProcessType' /\ HistoryType'
  BY <1>1, Unchanged
<1> QED BY <1>1, <1>2, <1>3, <1>4, FrameMoved

(* ForgetCred and SaveKey.                                                  *)
LEMMA StoreMoves ==
  ASSUME TypeOK, NEW p \in Procs, ForgetCred(p) \/ SaveKey(p)
  PROVE  /\ Moved(p, "none", "idle", Nil, Nil, Nil, {}, {})
         /\ Others(p) /\ Kept(p) /\ TypeOK'
<1>1. /\ Goto(p, Idle)
      /\ UNCHANGED <<process, rfile, engine, next, used, manager, answers, off, raced>>
      /\ creds' \subseteq creds
  BY DEF ForgetCred, SaveKey, store
<1>2. cfile' \in {cfile, Torn, creds, creds'}
  BY DEF ForgetCred, SaveKey, SaveCreds, SaveCredsFails
<1>3. StoreType' /\ FilesType'
  <2>1. StoreType /\ FilesType
    BY TypeSplit
  <2>2. creds' \in SUBSET Creds /\ cfile' \in (SUBSET Creds) \cup {Torn}
    BY <1>1, <1>2, <2>1 DEF StoreType, FilesType
  <2> QED BY <1>1, <2>1, <2>2 DEF StoreType, FilesType
<1>4. EngineType' /\ ManagerType' /\ ProcessType' /\ HistoryType'
  BY <1>1, Unchanged
<1> QED BY <1>1, <1>3, <1>4, IdleFrame, FrameMoved

LEMMA BootMoves ==
  ASSUME TypeOK, NEW p \in Procs, Boot(p)
  PROVE  /\ Moved(p, "boot", "restore", Nil, Nil, Nil, Saved, {})
         /\ Others(p) /\ Kept(p) /\ TypeOK'
<1>1. /\ up' = "boot" /\ cfile # Torn
      /\ creds' = cfile /\ used' = cfile /\ next' = NextAfterLoad(cfile)
      /\ Goto(p, [Idle EXCEPT !.op = "boot", !.pc = "restore", !.ids = Saved])
      /\ UNCHANGED <<crashes, calls, files, engine, manager, answers, off, raced>>
  BY DEF Boot
<1>2. cfile \in SUBSET Creds
  <2>1. cfile \in (SUBSET Creds) \cup {Torn}
    BY DEF TypeOK
  <2> QED BY <1>1, <2>1
<1>3. StoreType' /\ ProcessType'
  BY <1>1, <1>2, NextAfter DEF StoreType, ProcessType, TypeOK
<1>4. IsFrame([Idle EXCEPT !.op = "boot", !.pc = "restore", !.ids = Saved], "boot",
              "restore", Nil, Nil, Nil, Saved, {})
  <2>1. "boot" \in Ops /\ "restore" \in PCs /\ Saved \in SUBSET IDs
    BY DEF Ops, PCs, Saved
  <2> QED BY <2>1, NewOpPCIDs
<1>5. EngineType' /\ ManagerType' /\ FilesType' /\ HistoryType'
  BY <1>1, Unchanged
<1> QED BY <1>1, <1>3, <1>4, <1>5, FrameMoved

(* The requests; each is counted.                                           *)
Counted == calls < MaxCalls /\ calls' = calls + 1

LEMMA CountedTyped ==
  ASSUME TypeOK, Counted, UNCHANGED <<up, crashes>>
  PROVE  ProcessType'
BY Numbers DEF Counted, ProcessType, TypeOK

LEMMA AddRuleMoves ==
  ASSUME TypeOK, Counted, NEW p \in Procs, NEW v \in Confs, AddRule(p, v)
  PROVE  /\ nextID \in IDs /\ nextID' = nextID + 1
         /\ \/ v \in Creds /\ Moved(p, "create", "register", nextID, v, Nil, {}, {})
            \/ v \in Locals /\ Moved(p, "create", "list", nextID, Nil, Nil, {}, {})
            \/ v \in Locals /\ Moved(p, "none", "idle", Nil, Nil, Nil, {}, {})
         /\ Overtaken(p, nextID) /\ Kept(p) /\ TypeOK'
<1> DEFINE f == [Idle EXCEPT !.op = "create", !.id = nextID]
<1>1. /\ nextID \in IDs /\ nextID' = nextID + 1 /\ rules' = rules \cup {nextID}
      /\ conf' = [conf EXCEPT ![nextID] = v]
      /\ Begin(p, nextID)
      /\ UNCHANGED <<up, crashes, files, store, manager, off>>
  BY DEF AddRule
<1>2. "create" \in Ops /\ "register" \in PCs /\ "list" \in PCs
  BY DEF Ops, PCs
<1>3. ManagerType' /\ StoreType' /\ FilesType' /\ ProcessType'
  BY <1>1, Unchanged, CountedTyped
<1>4. HistoryType'
  BY <1>1 DEF HistoryType, TypeOK, Begin
<1>5. EngineType'
  <2>1. nextID \in 1..MaxID
    BY <1>1 DEF IDs
  <2>2. rules' \subseteq IDs /\ \A i \in rules' : i < nextID + 1
    <3>1. rules \subseteq IDs /\ nextID \in Nat /\ \A i \in rules : i < nextID /\ i \in Nat
      BY RulesTyped, Numbers
    <3>2. ASSUME NEW i \in rules PROVE i < nextID + 1
      <4>1. i < nextID /\ i \in Nat /\ nextID \in Nat
        BY <3>1, <3>2
      <4> QED BY <4>1
    <3>3. nextID < nextID + 1
      BY <3>1
    <3> QED BY <1>1, <3>1, <3>2, <3>3
  <2>3. nextID' \in 1..(MaxID + 1)
    BY <1>1, <2>1, Numbers
  <2>4. rules' \subseteq 1..(nextID' - 1)
    BY <1>1, <2>1, <2>2, Numbers DEF IDs
  <2> QED BY <1>1, <2>3, <2>4 DEF EngineType, TypeOK
<1>6. IsFrame(f, "create", "idle", nextID, Nil, Nil, {}, {})
  BY <1>1, <1>2, NewOpID
<1> HIDE DEF f
<1>7. f \in FrameRec
  BY <1>6 DEF IsFrame
<1>8. CASE v \in Creds /\ frame' = Overtake(p, nextID, [f EXCEPT !.pc = "register", !.conf = v])
  <2>1. IsFrame([f EXCEPT !.pc = "register", !.conf = v], f.op, "register", f.id, v,
                f.cl, f.ids, f.late)
    BY <1>2, <1>7, <1>8, AtPCConf
  <2>2. IsFrame([f EXCEPT !.pc = "register", !.conf = v], "create", "register", nextID,
                v, Nil, {}, {})
    BY <1>6, <2>1 DEF IsFrame
  <2>3. /\ Moved(p, "create", "register", nextID, v, Nil, {}, {})
        /\ Overtaken(p, nextID) /\ Kept(p) /\ TypeOK'
    BY <1>1, <1>3, <1>4, <1>5, <1>8, <2>2, OvertakeTyped
  <2> QED BY <1>1, <1>8, <2>3
<1>9. CASE v \in Locals /\ frame' = Overtake(p, nextID, [f EXCEPT !.pc = "list"])
  <2>1. IsFrame([f EXCEPT !.pc = "list"], f.op, "list", f.id, f.conf, f.cl, f.ids, f.late)
    BY <1>2, <1>7, AtPC
  <2>2. IsFrame([f EXCEPT !.pc = "list"], "create", "list", nextID, Nil, Nil, {}, {})
    BY <1>6, <2>1 DEF IsFrame
  <2>3. /\ Moved(p, "create", "list", nextID, Nil, Nil, {}, {})
        /\ Overtaken(p, nextID) /\ Kept(p) /\ TypeOK'
    BY <1>1, <1>3, <1>4, <1>5, <1>9, <2>2, OvertakeTyped
  <2> QED BY <1>1, <1>9, <2>3
<1>10. CASE v \in Locals /\ frame' = Overtake(p, nextID, Idle)
  <2>1. /\ Moved(p, "none", "idle", Nil, Nil, Nil, {}, {})
        /\ Overtaken(p, nextID) /\ Kept(p) /\ TypeOK'
    BY <1>1, <1>3, <1>4, <1>5, <1>10, IdleFrame, OvertakeTyped
  <2> QED BY <1>1, <1>10, <2>1
<1> QED BY <1>8, <1>9, <1>10 DEF AddRule, f

LEMMA UpdateRuleMoves ==
  ASSUME TypeOK, Counted, NEW p \in Procs, NEW i \in IDs, NEW v \in Confs,
         UpdateRule(p, i, v)
  PROVE  /\ \/ v \in Creds /\ Moved(p, "update", "unregister", i, Nil, Nil, {}, {})
            \/ v \in Locals /\ Moved(p, "update", "list", i, Nil, Nil, {}, {})
            \/ v \in Locals /\ Moved(p, "none", "idle", Nil, Nil, Nil, {}, {})
         /\ Others(p) /\ Kept(p) /\ TypeOK'
<1> DEFINE f == [Idle EXCEPT !.op = "update", !.id = i]
<1>1. /\ conf' = [conf EXCEPT ![i] = v]
      /\ Begin(p, i)
      /\ UNCHANGED <<up, crashes, files, nextID, rules, store, manager, off>>
  BY DEF UpdateRule
<1>2. "update" \in Ops /\ "unregister" \in PCs /\ "list" \in PCs
  BY DEF Ops, PCs
<1>3. ManagerType' /\ StoreType' /\ FilesType' /\ ProcessType'
  BY <1>1, Unchanged, CountedTyped
<1>4. HistoryType'
  BY <1>1 DEF HistoryType, TypeOK, Begin
<1>5. EngineType'
  BY <1>1 DEF EngineType, TypeOK
<1>6. IsFrame(f, "update", "idle", i, Nil, Nil, {}, {})
  BY <1>2, NewOpID
<1> HIDE DEF f
<1>7. f \in FrameRec
  BY <1>6 DEF IsFrame
<1>8. CASE v \in Creds /\ Goto(p, [f EXCEPT !.pc = "unregister"])
  <2>1. IsFrame([f EXCEPT !.pc = "unregister"], f.op, "unregister", f.id, f.conf, f.cl,
                f.ids, f.late)
    BY <1>2, <1>7, AtPC
  <2>2. IsFrame([f EXCEPT !.pc = "unregister"], "update", "unregister", i, Nil, Nil, {}, {})
    BY <1>6, <2>1 DEF IsFrame
  <2> QED BY <1>3, <1>4, <1>5, <1>8, <2>2, FrameMoved
<1>9. CASE v \in Locals /\ Goto(p, [f EXCEPT !.pc = "list"])
  <2>1. IsFrame([f EXCEPT !.pc = "list"], f.op, "list", f.id, f.conf, f.cl, f.ids, f.late)
    BY <1>2, <1>7, AtPC
  <2>2. IsFrame([f EXCEPT !.pc = "list"], "update", "list", i, Nil, Nil, {}, {})
    BY <1>6, <2>1 DEF IsFrame
  <2> QED BY <1>3, <1>4, <1>5, <1>9, <2>2, FrameMoved
<1>10. CASE v \in Locals /\ Goto(p, Idle)
  BY <1>3, <1>4, <1>5, <1>10, IdleFrame, FrameMoved
<1> QED BY <1>8, <1>9, <1>10 DEF UpdateRule, f

LEMMA RemoveRuleMoves ==
  ASSUME TypeOK, Counted, NEW p \in Procs, NEW i \in IDs, RemoveRule(p, i)
  PROVE  /\ \/ /\ Remote(i) /\ UNCHANGED rules
               /\ Moved(p, "delete", "unregister", i, Nil, Nil, {}, {}) /\ Others(p)
            \/ /\ ~Remote(i) /\ rules' = rules \ {i}
               /\ Moved(p, "delete", "list", i, Nil, Nil, {}, {}) /\ Overtaken(p, i)
         /\ Kept(p) /\ TypeOK'
<1> DEFINE f == [Idle EXCEPT !.op = "delete", !.id = i]
<1>1. /\ Begin(p, i)
      /\ IF Remote(i) THEN Goto(p, [f EXCEPT !.pc = "unregister"]) /\ UNCHANGED rules
         ELSE Stop(p, i, [f EXCEPT !.pc = "list"])
      /\ UNCHANGED <<up, crashes, files, nextID, conf, store, manager, off>>
  BY DEF RemoveRule
<1>2. "delete" \in Ops /\ "unregister" \in PCs /\ "list" \in PCs
  BY DEF Ops, PCs
<1>3. ManagerType' /\ StoreType' /\ FilesType' /\ ProcessType'
  BY <1>1, Unchanged, CountedTyped
<1>4. HistoryType'
  BY <1>1 DEF HistoryType, TypeOK, Begin
<1>5. EngineType'
  BY <1>1 DEF EngineType, TypeOK, Stop
<1>6. IsFrame(f, "delete", "idle", i, Nil, Nil, {}, {})
  BY <1>2, NewOpID
<1> HIDE DEF f
<1>7. f \in FrameRec
  BY <1>6 DEF IsFrame
<1>8. CASE Remote(i)
  <2>1. IsFrame([f EXCEPT !.pc = "unregister"], f.op, "unregister", f.id, f.conf, f.cl,
                f.ids, f.late)
    BY <1>2, <1>7, AtPC
  <2>2. IsFrame([f EXCEPT !.pc = "unregister"], "delete", "unregister", i, Nil, Nil, {}, {})
    BY <1>6, <2>1 DEF IsFrame
  <2>3. Goto(p, [f EXCEPT !.pc = "unregister"]) /\ UNCHANGED rules
    BY <1>1, <1>8
  <2>4. /\ Moved(p, "delete", "unregister", i, Nil, Nil, {}, {}) /\ Others(p)
        /\ Kept(p) /\ TypeOK'
    BY <1>3, <1>4, <1>5, <2>2, <2>3, FrameMoved
  <2> QED BY <1>8, <2>3, <2>4
<1>9. CASE ~Remote(i)
  <2>1. IsFrame([f EXCEPT !.pc = "list"], f.op, "list", f.id, f.conf, f.cl, f.ids, f.late)
    BY <1>2, <1>7, AtPC
  <2>2. IsFrame([f EXCEPT !.pc = "list"], "delete", "list", i, Nil, Nil, {}, {})
    BY <1>6, <2>1 DEF IsFrame
  <2>3. rules' = rules \ {i} /\ frame' = Overtake(p, i, [f EXCEPT !.pc = "list"])
    BY <1>1, <1>9 DEF Stop
  <2>4. /\ Moved(p, "delete", "list", i, Nil, Nil, {}, {}) /\ Overtaken(p, i)
        /\ Kept(p) /\ TypeOK'
    BY <1>3, <1>4, <1>5, <2>2, <2>3, OvertakeTyped
  <2> QED BY <1>9, <2>3, <2>4
<1> QED BY <1>8, <1>9

LEMMA AddCredMoves ==
  ASSUME TypeOK, Counted, NEW p \in Procs, AddCred(p)
  PROVE  /\ next' = next + 1 /\ next' \in Creds /\ used' \subseteq used \cup {next'}
         /\ \/ Moved(p, "none", "idle", Nil, Nil, Nil, {}, {})
            \/ Moved(p, "addcred", "key", Nil, next + 1, Nil, {}, {})
         /\ Others(p) /\ Kept(p) /\ TypeOK'
<1> DEFINE f == [Idle EXCEPT !.op = "addcred", !.pc = "key", !.conf = next + 1]
<1>1. /\ next + 1 \in Creds /\ next' = next + 1
      /\ creds' \in {creds, creds \cup {next + 1}}
      /\ used' \in {used, used \cup {next + 1}}
      /\ frame' \in {frame, [frame EXCEPT ![p] = f]}
      /\ frame[p] = Idle
      /\ UNCHANGED <<up, crashes, rfile, engine, manager, answers, off, raced>>
  BY DEF AddCred, Serve
<1>2. cfile' \in {cfile, Torn, creds'}
  BY DEF AddCred, SaveCreds, SaveCredsFails
<1>3. IsFrame(f, "addcred", "key", Nil, next + 1, Nil, {}, {})
  <2>1. "addcred" \in Ops /\ "key" \in PCs
    BY DEF Ops, PCs
  <2> QED BY <1>1, <2>1, NewOpPCConf
<1> HIDE DEF f
<1>4. StoreType' /\ FilesType'
  <2>1. StoreType /\ FilesType
    BY TypeSplit
  <2>2. creds' \in SUBSET Creds /\ used' \in SUBSET Creds
    BY <1>1, <2>1 DEF StoreType
  <2>3. cfile' \in (SUBSET Creds) \cup {Torn}
    BY <1>2, <2>1, <2>2 DEF FilesType
  <2>4. next' \in 0..(MaxCred + 1)
    BY <1>1, Numbers DEF Creds
  <2> QED BY <1>1, <2>1, <2>2, <2>3, <2>4 DEF StoreType, FilesType
<1>5. EngineType' /\ ManagerType' /\ HistoryType' /\ ProcessType'
  BY <1>1, Unchanged, CountedTyped
<1>6. CASE frame' = [frame EXCEPT ![p] = f]
  <2>1. /\ Moved(p, "addcred", "key", Nil, next + 1, Nil, {}, {})
        /\ Others(p) /\ Kept(p) /\ TypeOK'
    BY <1>3, <1>4, <1>5, <1>6, FrameMoved DEF Goto
  <2> QED BY <1>1, <2>1
<1>7. CASE frame' = frame
  <2>1. Goto(p, Idle)
    BY <1>1, <1>7, Frames DEF Goto
  <2>2. /\ Moved(p, "none", "idle", Nil, Nil, Nil, {}, {})
        /\ Others(p) /\ Kept(p) /\ TypeOK'
    BY <1>4, <1>5, <2>1, IdleFrame, FrameMoved
  <2> QED BY <1>1, <2>2
<1> QED BY <1>1, <1>6, <1>7

LEMMA UpdateCredMoves ==
  ASSUME TypeOK, Counted, NEW p \in Procs, NEW k \in Creds, UpdateCred(p, k)
  PROVE  /\ Moved(p, "none", "idle", Nil, Nil, Nil, {}, {})
         /\ Others(p) /\ Kept(p) /\ TypeOK'
<1>1. /\ frame' = frame /\ frame[p] = Idle
      /\ UNCHANGED <<up, crashes, rfile, engine, store, manager, answers, off, raced>>
      /\ cfile' \in {cfile, Torn, creds}
  BY DEF UpdateCred, Serve, SaveCreds, SaveCredsFails
<1>2. FilesType'
  <2>1. StoreType /\ FilesType
    BY TypeSplit
  <2>2. cfile' \in (SUBSET Creds) \cup {Torn}
    BY <1>1, <2>1 DEF StoreType, FilesType
  <2> QED BY <1>1, <2>1, <2>2 DEF FilesType
<1>3. EngineType' /\ ManagerType' /\ StoreType' /\ HistoryType' /\ ProcessType'
  BY <1>1, Unchanged, CountedTyped
<1>4. Goto(p, Idle)
  BY <1>1, Frames DEF Goto
<1> QED BY <1>2, <1>3, <1>4, IdleFrame, FrameMoved

LEMMA DeleteCredMoves ==
  ASSUME TypeOK, Counted, NEW p \in Procs, NEW k \in Creds, DeleteCred(p, k)
  PROVE  /\ Moved(p, "delcred", "cut", Nil, k, Nil, rules, {})
         /\ Others(p) /\ Kept(p) /\ TypeOK'
<1> DEFINE s == rules
<1>1. /\ Goto(p, [Idle EXCEPT !.op = "delcred", !.pc = "cut", !.conf = k, !.ids = s])
      /\ UNCHANGED <<up, crashes, files, engine, store, manager, answers, off, raced>>
  BY DEF DeleteCred
<1>2. "delcred" \in Ops /\ "cut" \in PCs /\ s \in SUBSET IDs
  BY RulesTyped DEF Ops, PCs
<1> HIDE DEF s
<1>3. IsFrame([Idle EXCEPT !.op = "delcred", !.pc = "cut", !.conf = k, !.ids = s],
              "delcred", "cut", Nil, k, Nil, s, {})
  BY <1>2, NewOpPCConfIDs
<1>4. /\ EngineType' /\ ManagerType' /\ StoreType' /\ FilesType'
      /\ HistoryType' /\ ProcessType'
  BY <1>1, Unchanged, CountedTyped
<1>5. /\ Moved(p, "delcred", "cut", Nil, k, Nil, s, {})
      /\ Others(p) /\ Kept(p) /\ TypeOK'
  BY <1>1, <1>3, <1>4, FrameMoved
<1> QED BY <1>5 DEF s
-----------------------------------------------------------------------------
(* What the steps have in common: the other requests' frames, the restart,  *)
(* and the clients of a step that neither starts nor ends one.              *)
LEMMA FrameKept ==
  ASSUME TypeOK, NEW p \in Procs, Kept(p), NEW q \in Procs \ {p}, FrameOK(q),
         nextID' \in Nat, nextID' >= nextID,
         frame[q].op = "update" /\ frame[q].pc \in {"unregister", "remove"} =>
           conf'[frame[q].id] \in Creds
  PROVE  FrameOK(q)'
<1>1. /\ frame'[q].op = frame[q].op /\ frame'[q].pc = frame[q].pc
      /\ frame'[q].id = frame[q].id /\ frame'[q].conf = frame[q].conf
      /\ frame'[q].cl = frame[q].cl /\ frame'[q].ids = frame[q].ids
      /\ frame[q].pc # "save" => frame'[q] = frame[q]
  BY DEF Kept
<1>2. frame[q].id \in IDs /\ frame[q].id < nextID => frame[q].id < nextID'
  <2>1. nextID \in Nat /\ (frame[q].id \in IDs => frame[q].id \in Nat)
    BY RulesTyped, Numbers
  <2> QED BY <2>1
<1> QED BY <1>1, <1>2 DEF FrameOK

LEMMA FramesKept ==
  ASSUME BaseInv, NEW p \in Procs, Kept(p), FrameOK(p)', UNCHANGED <<nextID, conf>>
  PROVE  (\A q \in Procs : FrameOK(q))'
<1>1. nextID' \in Nat /\ nextID' >= nextID
  BY RulesTyped DEF BaseInv
<1>2. ASSUME NEW q \in Procs \ {p} PROVE FrameOK(q)'
  <2>1. TypeOK /\ FrameOK(q)
    BY DEF BaseInv
  <2>2. frame[q].op = "update" /\ frame[q].pc \in {"unregister", "remove"} =>
          conf'[frame[q].id] \in Creds
    BY <2>1 DEF FrameOK
  <2> QED BY <1>1, <2>1, <2>2, FrameKept
<1> QED BY <1>2

LEMMA Serving ==
  ASSUME BaseInv
  PROVE  /\ \A p \in Procs : frame[p].op \notin {"none", "boot"} => up = "up"
         /\ up = "up" => \A p \in Procs : frame[p].op # "boot"
<1>1. BootOK /\ TypeOK
  BY DEF BaseInv
<1>2. ASSUME NEW p \in Procs, frame[p].op \notin {"none", "boot"} PROVE up = "up"
  <2>1. frame[p] # Idle
    BY <1>2, IdleFrame DEF IsFrame
  <2>2. up \notin {"down", "exited"}
    BY <1>1, <2>1 DEF BootOK
  <2>3. up # "boot"
    <3> SUFFICES ASSUME up = "boot" PROVE FALSE
      OBVIOUS
    <3>1. PICK q \in Procs : frame[q].op = "boot"
      BY <1>1 DEF BootOK
    <3>2. p # q
      BY <1>2, <3>1
    <3> QED BY <1>1, <2>1, <3>1, <3>2 DEF BootOK
  <2> QED BY <1>1, <2>2, <2>3 DEF TypeOK
<1>3. up = "up" => \A p \in Procs : frame[p].op # "boot"
  BY <1>1 DEF BootOK
<1> QED BY <1>2, <1>3

LEMMA BootServed ==
  ASSUME up' = "up", NEW p \in Procs, Kept(p), frame'[p].op # "boot",
         \A q \in Procs : frame[q].op # "boot"
  PROVE  BootOK'
<1>1. \A q \in Procs : frame'[q].op # "boot"
  BY DEF Kept
<1> QED BY <1>1 DEF BootOK

LEMMA BootKept ==
  ASSUME BaseInv, NEW p \in Procs, Kept(p), frame[p].op # "none",
         frame'[p].op = frame[p].op,
         frame[p].op = "boot" => frame'[p].ids = frame[p].ids,
         UNCHANGED <<up, rfile, rules, conf>>
  PROVE  BootOK'
<1>1. CASE frame[p].op = "boot"
  <2>1. /\ up = "boot" /\ \A q \in Procs \ {p} : frame[q] = Idle
        /\ frame[p].ids \subseteq Saved /\ rules = Saved \ frame[p].ids
        /\ \A i \in rules : conf[i] = rfile[i]
    BY <1>1 DEF BaseInv, BootOK
  <2>2. \A q \in Procs \ {p} : frame'[q] = Idle
    BY <2>1, IdleFrame DEF Kept, IsFrame
  <2>3. \A q \in Procs : frame'[q].op = "boot" => q = p
    BY <2>2, IdleFrame DEF IsFrame
  <2>4. Saved' = Saved
    BY DEF Saved, OnDisk
  <2> QED BY <1>1, <2>1, <2>2, <2>3, <2>4 DEF BootOK
<1>2. CASE frame[p].op # "boot"
  <2>1. up' = "up" /\ \A q \in Procs : frame[q].op # "boot"
    BY <1>2, Serving
  <2> QED BY <2>1, <1>2, BootServed
<1> QED BY <1>1, <1>2

LEMMA ClientsKept ==
  ASSUME BaseInv, NEW p \in Procs, Kept(p), UNCHANGED clients,
         frame[p].pc \notin {"insert", "shutdown"},
         frame'[p].pc \notin {"insert", "shutdown"},
         \/ frame'[p].cl \in {Nil, frame[p].cl}
         \/ \E k \in Creds : frame'[p].cl = clients[k],
         \A c \in Cls : \/ cl'[c] = cl[c]
                        \/ /\ c = frame[p].cl /\ cl[c] # Nil
                           /\ cl'[c] # Nil /\ cl'[c].cred = cl[c].cred
  PROVE  ClientsOK'
<1>1. \A q \in Procs \ {p} : frame'[q].pc = frame[q].pc /\ frame'[q].cl = frame[q].cl
                             /\ frame'[q].conf = frame[q].conf
  BY DEF Kept
<1>2. \A c \in Cls : /\ cl'[c] = Nil <=> cl[c] = Nil
                     /\ cl[c] # Nil => cl'[c].cred = cl[c].cred
  OBVIOUS
<1>3. /\ \A k \in Creds : clients[k] \in Cls \cup {Nil}
      /\ \A q \in Procs : frame[q].pc = "insert" => frame[q].cl \in Cls
      /\ Nil \notin Cls
  BY Numbers DEF BaseInv, TypeOK, FrameOK
<1>4. (\A k \in Creds : clients[k] # Nil =>
         cl[clients[k]] # Nil /\ cl[clients[k]].cred = k)'
  BY <1>2, <1>3 DEF BaseInv, ClientsOK
<1>5. ASSUME NEW q \in Procs, frame'[q].pc = "insert"
      PROVE  /\ cl'[frame'[q].cl] # Nil /\ cl'[frame'[q].cl].cred = frame'[q].conf
             /\ cl'[frame'[q].cl].rules = {}
             /\ \A r \in Procs \ {q} : frame'[r].cl # frame'[q].cl
             /\ \A k \in Creds : clients'[k] # frame'[q].cl
  <2>1. q # p /\ frame[q].pc = "insert" /\ frame'[q].cl = frame[q].cl
        /\ frame'[q].conf = frame[q].conf
    BY <1>1, <1>5
  <2>2. /\ cl[frame[q].cl] # Nil /\ cl[frame[q].cl].cred = frame[q].conf
        /\ cl[frame[q].cl].rules = {}
        /\ \A r \in Procs \ {q} : frame[r].cl # frame[q].cl
        /\ \A k \in Creds : clients[k] # frame[q].cl
    BY <2>1 DEF BaseInv, ClientsOK
  <2>3. cl'[frame[q].cl] = cl[frame[q].cl] /\ frame[q].cl \in Cls
    BY <1>3, <2>1, <2>2
  <2>4. \A r \in Procs \ {q} : frame'[r].cl # frame[q].cl
    BY <1>1, <1>3, <2>1, <2>2, <2>3
  <2> QED BY <2>1, <2>2, <2>3, <2>4
<1>6. \A q \in Procs : frame'[q].pc = "shutdown" =>
        \A k \in Creds : clients'[k] # Nil => clients'[k] # frame'[q].cl
  BY <1>1 DEF BaseInv, ClientsOK
<1>7. ClientsOwned'
  <2> SUFFICES ASSUME NEW c \in Cls, cl'[c] # Nil
               PROVE  \/ clients'[cl'[c].cred] = c
                      \/ \E q \in Procs : /\ frame'[q].cl = c
                                          /\ frame'[q].pc \in {"insert", "shutdown"}
    BY DEF ClientsOwned
  <2>1. cl[c] # Nil /\ cl'[c].cred = cl[c].cred
    BY <1>2
  <2>2. CASE clients[cl[c].cred] = c
    BY <2>1, <2>2
  <2>3. CASE \E q \in Procs : frame[q].cl = c /\ frame[q].pc \in {"insert", "shutdown"}
    BY <1>1, <2>3
  <2> QED BY <2>1, <2>2, <2>3 DEF BaseInv, ClientsOK, ClientsOwned
<1> QED BY <1>4, <1>5, <1>6, <1>7 DEF ClientsOK
-----------------------------------------------------------------------------
(* Each step preserves BaseInv.                                             *)
LEMMA BaseParts ==
  ASSUME BaseInv, NEW p \in Procs
  PROVE  /\ TypeOK /\ BootOK /\ ClientsOK /\ CredsOK /\ FrameOK(p)
         /\ frame[p] \in FrameRec
BY Frames DEF BaseInv

LEMMA CredsKept ==
  ASSUME CredsOK, UNCHANGED <<used, next>>
  PROVE  CredsOK'
BY DEF CredsOK

(* A stage of Manager.AddRemote, in the daemon's start or in a request.     *)
LEMMA AddRemoteStage ==
  ASSUME BaseInv, NEW p \in Procs, Kept(p), TypeOK', FrameOK(p)', ClientsOK',
         frame[p].op # "none", frame'[p].op = frame[p].op,
         frame[p].op = "boot" => frame'[p].ids = frame[p].ids,
         UNCHANGED <<process, files, engine, store>>
  PROVE  BaseInv'
<1>1. BootOK'
  BY BootKept DEF process, files, engine
<1>2. CredsOK'
  BY CredsKept DEF BaseInv, store
<1>3. (\A q \in Procs : FrameOK(q))'
  BY FramesKept DEF engine
<1> QED BY <1>1, <1>2, <1>3 DEF BaseInv

LEMMA BaseRestoreRule ==
  ASSUME BaseInv, NEW p \in Procs, RestoreRule(p)
  PROVE  BaseInv'
<1> DEFINE i == Min(frame[p].ids)
           f == frame[p]
<1>1. TypeOK /\ BootOK /\ ClientsOK /\ CredsOK /\ FrameOK(p)
  BY BaseParts
<1>2. /\ i \in frame[p].ids /\ i \in IDs /\ rfile \in [IDs -> Confs \cup {Nil}]
      /\ rfile[i] # Nil
      /\ nextID' \in Nat /\ nextID' >= nextID /\ i < nextID'
      /\ rules' = rules \cup {i} /\ conf' = [conf EXCEPT ![i] = rfile[i]]
      /\ f.op = "boot"
      /\ \/ /\ rfile[i] \in Creds
            /\ Moved(p, "boot", "register", i, rfile[i], f.cl, f.ids \ {i}, f.late)
         \/ /\ rfile[i] \in Locals
            /\ Moved(p, "boot", "restore", f.id, f.conf, f.cl, f.ids \ {i}, f.late)
      /\ Others(p) /\ Kept(p) /\ TypeOK'
  BY <1>1, RestoreRuleMoves
<1> HIDE DEF i
<1>3. /\ frame[p].pc = "restore"
      /\ UNCHANGED <<process, files, store, manager, answers, off, raced>>
  BY DEF RestoreRule
<1>4. f.cl = Nil /\ f.id = Nil /\ f.late = {}
  BY <1>1, <1>3 DEF FrameOK
<1>5. /\ frame'[p].op = "boot" /\ frame'[p].pc \in {"register", "restore"}
      /\ frame'[p].cl = Nil /\ frame'[p].late = {} /\ frame'[p].ids = f.ids \ {i}
      /\ IF frame'[p].pc = "register"
         THEN frame'[p].id = i /\ frame'[p].conf \in Creds ELSE frame'[p].id = Nil
  BY <1>2, <1>4 DEF Moved, IsFrame
<1>6. FrameOK(p)'
  BY <1>2, <1>5 DEF FrameOK, AddRemotePCs
<1>7. /\ up = "boot" /\ \A q \in Procs \ {p} : frame[q] = Idle
      /\ f.ids \subseteq Saved /\ rules = Saved \ f.ids
      /\ \A j \in rules : conf[j] = rfile[j]
  BY <1>1, <1>2 DEF BootOK
<1>8. \A q \in Procs \ {p} : frame'[q] = Idle
  BY <1>2, <1>7 DEF Others
<1>9. (\A q \in Procs : FrameOK(q))'
  <2>1. ASSUME NEW q \in Procs \ {p} PROVE FrameOK(q)'
    BY <1>8, IdleFrame DEF FrameOK, IsFrame, AddRemotePCs
  <2> QED BY <1>6, <2>1
<1>10. BootOK'
  <2>1. Saved' = Saved /\ up' = "boot" /\ rfile' = rfile
    BY <1>3, <1>7 DEF Saved, OnDisk, files, process
  <2>2. \A j \in rules' : conf'[j] = rfile[j]
    BY <1>1, <1>2, <1>7 DEF TypeOK
  <2>3. rules' = Saved \ frame'[p].ids /\ frame'[p].ids \subseteq Saved
    BY <1>2, <1>5, <1>7
  <2>4. \A q \in Procs : frame'[q].op = "boot" => q = p
    BY <1>8, IdleFrame DEF IsFrame
  <2> QED BY <1>5, <1>8, <2>1, <2>2, <2>3, <2>4 DEF BootOK
<1>11. ClientsOK'
  BY <1>2, <1>3, <1>5, ClientsKept DEF manager
<1>12. CredsOK'
  BY <1>1, <1>3, CredsKept DEF store
<1> QED BY <1>2, <1>9, <1>10, <1>11, <1>12 DEF BaseInv

LEMMA BaseRestoreEnd ==
  ASSUME BaseInv, NEW p \in Procs, RestoreEnd(p)
  PROVE  BaseInv'
<1>1. TypeOK /\ BootOK /\ ClientsOK /\ CredsOK /\ FrameOK(p) /\ frame[p] \in FrameRec
  BY BaseParts
<1>2. /\ Moved(p, "none", "idle", Nil, Nil, Nil, {}, {})
      /\ Others(p) /\ Kept(p) /\ TypeOK'
  BY <1>1, RestoreEndMoves
<1>3. /\ frame[p].pc = "restore" /\ up' = "up" /\ frame'[p] = Idle
      /\ UNCHANGED <<crashes, calls, files, engine, manager, store, answers, off, raced>>
  BY <1>1, Frames DEF RestoreEnd, Goto
<1>4. frame[p].op = "boot"
  BY <1>1, <1>3 DEF FrameOK, FrameRec, Ops, AddRemotePCs
<1>5. FrameOK(p)'
  BY <1>3, IdleFrame DEF FrameOK, IsFrame, AddRemotePCs
<1>6. BootOK'
  <2>1. \A q \in Procs : frame'[q] = Idle
    BY <1>1, <1>2, <1>3, <1>4 DEF BootOK, Others
  <2> QED BY <1>3, <2>1, IdleFrame DEF BootOK, IsFrame
<1>7. ClientsOK'
  BY <1>2, <1>3, ClientsKept, IdleFrame DEF manager, IsFrame
<1>8. CredsOK'
  BY <1>1, <1>3, CredsKept DEF store
<1> QED BY <1>2, <1>3, <1>5, <1>6, <1>7, <1>8, FramesKept DEF BaseInv, engine

LEMMA BaseRegister ==
  ASSUME BaseInv, NEW p \in Procs, Register(p)
  PROVE  BaseInv'
<1>1. TypeOK /\ FrameOK(p)
  BY BaseParts
<1>2. /\ Moved(p, frame[p].op, "ensure", frame[p].id, frame[p].conf, frame[p].cl,
               frame[p].ids, frame[p].late)
      /\ Others(p) /\ Kept(p) /\ TypeOK'
  BY <1>1, RegisterMoves
<1>3. /\ frame[p].pc = "register"
      /\ UNCHANGED <<process, files, engine, store, clients, cl, answers, off, raced>>
  BY DEF Register
<1>4. FrameOK(p)'
  BY <1>1, <1>2, <1>3 DEF FrameOK, Moved, IsFrame, AddRemotePCs, engine
<1>5. ClientsOK'
  BY <1>2, <1>3, ClientsKept DEF Moved, IsFrame
<1>6. frame[p].op # "none"
  BY <1>1, <1>3 DEF FrameOK
<1> QED BY <1>2, <1>3, <1>4, <1>5, <1>6, AddRemoteStage DEF Moved, IsFrame

LEMMA BaseEnsureClient ==
  ASSUME BaseInv, NEW p \in Procs, EnsureClient(p)
  PROVE  BaseInv'
<1> DEFINE c == clients[frame[p].conf]
<1>1. TypeOK /\ FrameOK(p)
  BY BaseParts
<1>2. /\ Moved(p, frame[p].op, IF c = Nil THEN "get" ELSE "add", frame[p].id,
               frame[p].conf, c, frame[p].ids, frame[p].late)
      /\ Others(p) /\ Kept(p) /\ TypeOK'
  BY <1>1, EnsureClientMoves
<1>3. /\ frame[p].pc = "ensure"
      /\ UNCHANGED <<process, files, engine, store, manager, answers, off, raced>>
  BY DEF EnsureClient
<1>4. frame[p].op # "none" /\ frame[p].conf \in Creds /\ c \in Cls \cup {Nil}
  BY <1>1, <1>3 DEF FrameOK, AddRemotePCs, TypeOK
<1>5. FrameOK(p)'
  <2>1. /\ frame'[p].op = frame[p].op
        /\ frame'[p].pc = IF c = Nil THEN "get" ELSE "add"
        /\ frame'[p].id = frame[p].id /\ frame'[p].conf = frame[p].conf
        /\ frame'[p].cl = c /\ frame'[p].late = frame[p].late
    BY <1>2 DEF Moved, IsFrame
  <2> HIDE DEF c
  <2>2. CASE c = Nil
    BY <1>1, <1>3, <1>4, <2>1, <2>2 DEF FrameOK, AddRemotePCs, engine
  <2>3. CASE c # Nil
    BY <1>1, <1>3, <1>4, <2>1, <2>3 DEF FrameOK, AddRemotePCs, engine
  <2> QED BY <2>2, <2>3
<1>6. ClientsOK'
  <2>1. frame'[p].cl = c /\ frame'[p].pc \in {"get", "add"}
    BY <1>2 DEF Moved, IsFrame
  <2> QED BY <1>2, <1>3, <1>4, <2>1, ClientsKept DEF manager
<1> QED BY <1>2, <1>3, <1>4, <1>5, <1>6, AddRemoteStage DEF Moved, IsFrame

LEMMA BaseStartClient ==
  ASSUME BaseInv, NEW p \in Procs, StartClient(p)
  PROVE  BaseInv'
<1>1. TypeOK /\ FrameOK(p) /\ ClientsOK
  BY BaseParts
<1>2. PICK c \in Cls :
        /\ cl[c] = Nil /\ \A q \in Procs : frame[q].cl # c
        /\ cl' = [cl EXCEPT ![c] = [cred |-> frame[p].conf, rules |-> {}]]
        /\ Moved(p, frame[p].op, "insert", frame[p].id, frame[p].conf, c, frame[p].ids,
                 frame[p].late)
        /\ Others(p) /\ Kept(p) /\ TypeOK'
  BY <1>1, StartClientMoves
<1>3. /\ frame[p].pc = "get"
      /\ UNCHANGED <<process, files, engine, store, byRule, clients, answers, off, raced>>
  BY DEF StartClient
<1>4. frame[p].op # "none" /\ frame[p].conf \in Creds
  BY <1>1, <1>3 DEF FrameOK, AddRemotePCs
<1>5. FrameOK(p)'
  BY <1>1, <1>2, <1>3, <1>4 DEF FrameOK, Moved, IsFrame, AddRemotePCs, engine
<1>6. ClientsOK'
  <2>1. /\ frame'[p].pc = "insert" /\ frame'[p].cl = c /\ frame'[p].conf = frame[p].conf
        /\ \A q \in Procs \ {p} : frame'[q] = frame[q]
    BY <1>2 DEF Moved, IsFrame, Others
  <2>2. /\ cl'[c] = [cred |-> frame[p].conf, rules |-> {}] /\ cl'[c] # Nil
        /\ \A d \in Cls \ {c} : cl'[d] = cl[d]
    <3>1. cl'[c] = [cred |-> frame[p].conf, rules |-> {}]
          /\ \A d \in Cls \ {c} : cl'[d] = cl[d]
      BY <1>1, <1>2 DEF TypeOK
    <3>2. [cred |-> frame[p].conf, rules |-> {}] # Nil
      <4>1. [cred |-> frame[p].conf, rules |-> {}] \in [cred: Creds, rules: SUBSET IDs]
        BY <1>4
      <4> QED BY <4>1, Numbers
    <3> QED BY <3>1, <3>2
  <2>3. cl'[c].cred = frame[p].conf /\ cl'[c].rules = {}
    BY <2>2
  <2>4. /\ \A k \in Creds : clients[k] # c
        /\ \A q \in Procs : frame[q].pc = "insert" => frame[q].cl \in Cls
    BY <1>1, <1>2, Numbers DEF ClientsOK, BaseInv, FrameOK
  <2>5. \A k \in Creds : clients[k] \in Cls \cup {Nil}
    BY <1>1 DEF TypeOK
  <2>6. (\A k \in Creds : clients[k] # Nil =>
           cl[clients[k]] # Nil /\ cl[clients[k]].cred = k)'
    BY <1>1, <1>3, <2>2, <2>4, <2>5 DEF ClientsOK
  <2>7. ASSUME NEW q \in Procs, frame'[q].pc = "insert"
        PROVE  /\ cl'[frame'[q].cl] # Nil /\ cl'[frame'[q].cl].cred = frame'[q].conf
               /\ cl'[frame'[q].cl].rules = {}
               /\ \A r \in Procs \ {q} : frame'[r].cl # frame'[q].cl
               /\ \A k \in Creds : clients'[k] # frame'[q].cl
    <3>1. CASE q = p
      BY <1>2, <1>3, <2>1, <2>2, <2>3, <2>4, <3>1
    <3>2. CASE q # p
      <4>1. frame'[q] = frame[q] /\ frame[q].cl \in Cls /\ frame[q].cl # c
        BY <1>2, <2>1, <2>4, <2>7, <3>2
      <4>2. /\ cl[frame[q].cl] # Nil /\ cl[frame[q].cl].cred = frame[q].conf
            /\ cl[frame[q].cl].rules = {}
            /\ \A r \in Procs \ {q} : frame[r].cl # frame[q].cl
            /\ \A k \in Creds : clients[k] # frame[q].cl
        BY <1>1, <2>7, <4>1 DEF ClientsOK
      <4> QED BY <1>3, <2>1, <2>2, <4>1, <4>2
    <3> QED BY <3>1, <3>2
  <2>8. \A q \in Procs : frame'[q].pc = "shutdown" =>
          \A k \in Creds : clients'[k] # Nil => clients'[k] # frame'[q].cl
    BY <1>1, <1>3, <2>1 DEF ClientsOK
  <2>9. ClientsOwned'
    <3> SUFFICES ASSUME NEW d \in Cls, cl'[d] # Nil
                 PROVE  \/ clients'[cl'[d].cred] = d
                        \/ \E q \in Procs : /\ frame'[q].cl = d
                                            /\ frame'[q].pc \in {"insert", "shutdown"}
      BY DEF ClientsOwned
    <3>1. CASE d = c
      BY <2>1, <3>1
    <3>2. CASE d # c
      <4>1. cl'[d] = cl[d]
        BY <2>2, <3>2
      <4>2. \/ clients[cl[d].cred] = d
            \/ \E q \in Procs : frame[q].cl = d /\ frame[q].pc \in {"insert", "shutdown"}
        BY <1>1, <4>1 DEF ClientsOK, ClientsOwned
      <4> QED BY <1>3, <2>1, <4>1, <4>2
    <3> QED BY <3>1, <3>2
  <2> QED BY <2>6, <2>7, <2>8, <2>9 DEF ClientsOK
<1> QED BY <1>2, <1>3, <1>4, <1>5, <1>6, AddRemoteStage DEF Moved, IsFrame

(* Unavailable and ClientAdd.                                               *)
LEMMA RegisteredOK ==
  ASSUME BaseInv, NEW p \in Procs, frame[p].pc \in {"get", "add"}, UNCHANGED engine,
         IF frame[p].op = "boot"
         THEN Moved(p, "boot", "restore", Nil, Nil, Nil, frame[p].ids, {})
         ELSE Moved(p, frame[p].op, "list", frame[p].id, Nil, Nil, {}, {})
  PROVE  /\ FrameOK(p)' /\ frame'[p].op = frame[p].op /\ frame[p].op # "none"
         /\ frame[p].op = "boot" => frame'[p].ids = frame[p].ids
         /\ frame'[p].pc \in {"restore", "list"} /\ frame'[p].cl = Nil
<1>1. FrameOK(p) /\ frame[p] \in FrameRec
  BY BaseParts
<1>2. CASE frame[p].op = "boot"
  BY <1>1, <1>2 DEF FrameOK, Moved, IsFrame, AddRemotePCs
<1>3. CASE frame[p].op # "boot"
  <2>1. /\ frame[p].op \in {"create", "update"}
        /\ frame[p].id \in IDs /\ frame[p].id < nextID
    BY <1>1, <1>3 DEF FrameOK, FrameRec, Ops, AddRemotePCs
  <2>2. /\ frame'[p].op = frame[p].op /\ frame'[p].pc = "list"
        /\ frame'[p].id = frame[p].id /\ frame'[p].cl = Nil /\ frame'[p].late = {}
    BY <1>3 DEF Moved, IsFrame
  <2> QED BY <2>1, <2>2, <1>3 DEF FrameOK, AddRemotePCs, engine
<1> QED BY <1>2, <1>3

LEMMA BaseUnavailable ==
  ASSUME BaseInv, NEW p \in Procs, Unavailable(p)
  PROVE  BaseInv'
<1>1. TypeOK /\ FrameOK(p)
  BY BaseParts
<1>2. /\ IF frame[p].op = "boot"
         THEN Moved(p, "boot", "restore", Nil, Nil, Nil, frame[p].ids, {})
         ELSE Moved(p, frame[p].op, "list", frame[p].id, Nil, Nil, {}, {})
      /\ Others(p) /\ Kept(p) /\ TypeOK'
  BY <1>1, UnavailableMoves
<1>3. /\ frame[p].pc = "get"
      /\ UNCHANGED <<process, files, engine, store, manager, answers, raced>>
  BY DEF Unavailable
<1>4. /\ FrameOK(p)' /\ frame'[p].op = frame[p].op /\ frame[p].op # "none"
      /\ frame[p].op = "boot" => frame'[p].ids = frame[p].ids
      /\ frame'[p].pc \in {"restore", "list"} /\ frame'[p].cl = Nil
  BY <1>2, <1>3, RegisteredOK
<1>5. ClientsOK'
  BY <1>2, <1>3, <1>4, ClientsKept DEF manager
<1> QED BY <1>2, <1>3, <1>4, <1>5, AddRemoteStage

(* The rules of a client after AddRule and RemoveRule of the client.        *)
LEMMA ClientUpdate ==
  ASSUME TypeOK, NEW c \in Cls, cl[c] # Nil, NEW s \in SUBSET IDs,
         cl' = [cl EXCEPT ![c].rules = s]
  PROVE  /\ cl'[c] # Nil /\ cl'[c].cred = cl[c].cred /\ cl'[c].rules = s
         /\ \A d \in Cls \ {c} : cl'[d] = cl[d]
<1>1. cl[c] \in [cred: Creds, rules: SUBSET IDs]
  BY DEF TypeOK
<1> DEFINE r == [cl[c] EXCEPT !.rules = s]
<1>2. r \in [cred: Creds, rules: SUBSET IDs] /\ r.cred = cl[c].cred /\ r.rules = s
  BY <1>1
<1>3. cl' = [cl EXCEPT ![c] = r]
  OBVIOUS
<1> HIDE DEF r
<1>4. r # Nil
  BY <1>2, Numbers
<1> QED BY <1>2, <1>3, <1>4 DEF TypeOK

LEMMA AddEffect ==
  ASSUME BaseInv, NEW p \in Procs, ClientAdd(p)
  PROVE  /\ frame[p].cl \in Cls /\ frame[p].id \in IDs
         /\ \A c \in Cls :
              IF c = frame[p].cl /\ cl[c] # Nil
              THEN /\ cl'[c] # Nil /\ cl'[c].cred = cl[c].cred
                   /\ cl'[c].rules = cl[c].rules \cup {frame[p].id}
              ELSE cl'[c] = cl[c]
<1> DEFINE d == frame[p].cl
           s == cl[d].rules \cup {frame[p].id}
<1>1. TypeOK /\ FrameOK(p)
  BY BaseParts
<1>2. /\ frame[p].pc = "add"
      /\ cl' = IF cl[d] = Nil THEN cl ELSE [cl EXCEPT ![d].rules = @ \cup {frame[p].id}]
  BY DEF ClientAdd
<1>3. d \in Cls /\ frame[p].id \in IDs
  BY <1>1, <1>2 DEF FrameOK, AddRemotePCs
<1>4. CASE cl[d] = Nil
  BY <1>2, <1>3, <1>4
<1>5. CASE cl[d] # Nil
  <2>1. cl[d] \in [cred: Creds, rules: SUBSET IDs]
    BY <1>1, <1>3, <1>5 DEF TypeOK
  <2>2. s \in SUBSET IDs /\ cl' = [cl EXCEPT ![d].rules = s]
    BY <1>2, <1>3, <1>5, <2>1
  <2> HIDE DEF s
  <2>3. /\ cl'[d] # Nil /\ cl'[d].cred = cl[d].cred /\ cl'[d].rules = s
        /\ \A c \in Cls \ {d} : cl'[c] = cl[c]
    BY <1>1, <1>3, <1>5, <2>2, ClientUpdate
  <2> QED BY <1>3, <1>5, <2>3 DEF s
<1> QED BY <1>4, <1>5

LEMMA RemoveEffect ==
  ASSUME BaseInv, NEW p \in Procs, ClientRemove(p)
  PROVE  /\ frame[p].id \in IDs
         /\ \A c \in Cls :
              IF c = frame[p].cl /\ cl[c] # Nil
              THEN /\ cl'[c] # Nil /\ cl'[c].cred = cl[c].cred
                   /\ cl'[c].rules = cl[c].rules \ {frame[p].id}
              ELSE cl'[c] = cl[c]
<1> DEFINE d == frame[p].cl
           s == cl[d].rules \ {frame[p].id}
<1>1. TypeOK /\ FrameOK(p) /\ frame[p] \in FrameRec
  BY BaseParts
<1>2. /\ frame[p].pc = "remove"
      /\ cl' = IF d = Nil \/ cl[d] = Nil THEN cl
               ELSE [cl EXCEPT ![d].rules = @ \ {frame[p].id}]
  BY DEF ClientRemove
<1>3. d \in Cls \cup {Nil} /\ frame[p].id \in IDs
  BY <1>1, <1>2 DEF FrameOK, FrameRec
<1>4. CASE d = Nil \/ cl[d] = Nil
  BY <1>2, <1>3, <1>4, Numbers
<1>5. CASE ~(d = Nil \/ cl[d] = Nil)
  <2>1. d \in Cls /\ cl[d] \in [cred: Creds, rules: SUBSET IDs]
    BY <1>1, <1>3, <1>5 DEF TypeOK
  <2>2. s \in SUBSET IDs /\ cl' = [cl EXCEPT ![d].rules = s]
    BY <1>2, <1>3, <1>5, <2>1
  <2> HIDE DEF s
  <2>3. /\ cl'[d] # Nil /\ cl'[d].cred = cl[d].cred /\ cl'[d].rules = s
        /\ \A c \in Cls \ {d} : cl'[c] = cl[c]
    BY <1>1, <1>5, <2>1, <2>2, ClientUpdate
  <2> QED BY <1>3, <1>5, <2>3 DEF s
<1> QED BY <1>4, <1>5

LEMMA BaseClientAdd ==
  ASSUME BaseInv, NEW p \in Procs, ClientAdd(p)
  PROVE  BaseInv'
<1>1. TypeOK /\ FrameOK(p)
  BY BaseParts
<1>2. /\ IF frame[p].op = "boot"
         THEN Moved(p, "boot", "restore", Nil, Nil, Nil, frame[p].ids, {})
         ELSE Moved(p, frame[p].op, "list", frame[p].id, Nil, Nil, {}, {})
      /\ Others(p) /\ Kept(p) /\ TypeOK'
  BY <1>1, ClientAddMoves
<1>3. /\ frame[p].pc = "add"
      /\ UNCHANGED <<process, files, engine, store, byRule, clients, answers, raced>>
  BY DEF ClientAdd
<1>4. /\ FrameOK(p)' /\ frame'[p].op = frame[p].op /\ frame[p].op # "none"
      /\ frame[p].op = "boot" => frame'[p].ids = frame[p].ids
      /\ frame'[p].pc \in {"restore", "list"} /\ frame'[p].cl = Nil
  BY <1>2, <1>3, RegisteredOK
<1>5. ClientsOK'
  <2>1. \A c \in Cls : \/ cl'[c] = cl[c]
                       \/ /\ c = frame[p].cl /\ cl[c] # Nil
                          /\ cl'[c] # Nil /\ cl'[c].cred = cl[c].cred
    BY AddEffect
  <2> QED BY <1>2, <1>3, <1>4, <2>1, ClientsKept
<1> QED BY <1>2, <1>3, <1>4, <1>5, AddRemoteStage

LEMMA BaseInsertClient ==
  ASSUME BaseInv, NEW p \in Procs, InsertClient(p)
  PROVE  BaseInv'
<1> DEFINE f == frame[p]
           k == f.conf
           c == IF clients[k] = Nil THEN f.cl ELSE clients[k]
<1>1. TypeOK /\ FrameOK(p) /\ ClientsOK
  BY BaseParts
<1>2. /\ Moved(p, f.op, "add", f.id, k, c, f.ids, f.late)
      /\ Others(p) /\ Kept(p) /\ TypeOK'
  BY <1>1, InsertClientMoves
<1>3. /\ f.pc = "insert"
      /\ IF clients[k] = Nil
         THEN clients' = [clients EXCEPT ![k] = f.cl] /\ UNCHANGED cl
         ELSE cl' = [cl EXCEPT ![f.cl] = Nil] /\ UNCHANGED clients
      /\ UNCHANGED <<process, files, engine, store, byRule, answers, off, raced>>
  BY DEF InsertClient
<1>4. /\ f.op # "none" /\ k \in Creds /\ f.cl \in Cls
      /\ clients[k] \in Cls \cup {Nil} /\ c \in Cls
  BY <1>1, <1>3 DEF FrameOK, AddRemotePCs, TypeOK
<1>5. /\ frame'[p].pc = "add" /\ frame'[p].op = f.op /\ frame'[p].ids = f.ids
      /\ frame'[p].id = f.id /\ frame'[p].conf = k /\ frame'[p].cl = c
      /\ frame'[p].late = f.late
      /\ \A q \in Procs \ {p} : frame'[q] = frame[q]
  BY <1>2 DEF Moved, IsFrame, Others
<1> HIDE DEF c
<1>6. FrameOK(p)'
  BY <1>1, <1>3, <1>4, <1>5 DEF FrameOK, AddRemotePCs, engine
<1>7. /\ cl[f.cl] # Nil /\ cl[f.cl].cred = k
      /\ \A q \in Procs \ {p} : frame[q].cl # f.cl
      /\ \A j \in Creds : clients[j] # f.cl
  BY <1>1, <1>3 DEF ClientsOK
<1>8. /\ \A j \in Creds : clients[j] \in Cls \cup {Nil}
      /\ \A q \in Procs : frame[q].pc = "insert" => frame[q].cl \in Cls
  BY DEF BaseInv, TypeOK, FrameOK
<1>9. \A j \in Creds : clients[j] # Nil =>
        cl[clients[j]] # Nil /\ cl[clients[j]].cred = j
  BY <1>1 DEF ClientsOK
<1>10. ASSUME NEW q \in Procs, frame[q].pc = "insert"
       PROVE  /\ cl[frame[q].cl] # Nil /\ cl[frame[q].cl].cred = frame[q].conf
              /\ cl[frame[q].cl].rules = {}
              /\ \A r \in Procs \ {q} : frame[r].cl # frame[q].cl
              /\ \A j \in Creds : clients[j] # frame[q].cl
  BY <1>1, <1>10 DEF ClientsOK
<1>11. \A q \in Procs : frame[q].pc = "shutdown" =>
         \A j \in Creds : clients[j] # Nil => clients[j] # frame[q].cl
  BY <1>1 DEF ClientsOK
<1>12. \A d \in Cls : cl[d] # Nil =>
         \/ clients[cl[d].cred] = d
         \/ \E q \in Procs : frame[q].cl = d /\ frame[q].pc \in {"insert", "shutdown"}
  BY <1>1 DEF ClientsOK, ClientsOwned
<1>13. \A d \in Cls : cl[d] # Nil => cl[d].cred \in Creds
  BY <1>1 DEF TypeOK
<1>14. ASSUME clients[k] = Nil PROVE ClientsOK'
  <2>1. /\ clients'[k] = f.cl /\ \A j \in Creds \ {k} : clients'[j] = clients[j]
        /\ cl' = cl /\ c = f.cl
    BY <1>1, <1>3, <1>4, <1>14 DEF TypeOK, c
  <2>2. (\A j \in Creds : clients[j] # Nil =>
           cl[clients[j]] # Nil /\ cl[clients[j]].cred = j)'
    BY <1>7, <1>9, <2>1
  <2>3. ASSUME NEW q \in Procs, frame'[q].pc = "insert"
        PROVE  /\ cl'[frame'[q].cl] # Nil /\ cl'[frame'[q].cl].cred = frame'[q].conf
               /\ cl'[frame'[q].cl].rules = {}
               /\ \A r \in Procs \ {q} : frame'[r].cl # frame'[q].cl
               /\ \A j \in Creds : clients'[j] # frame'[q].cl
    <3>1. q # p /\ frame'[q] = frame[q]
      BY <1>5, <2>3
    <3> QED BY <1>5, <1>7, <1>10, <2>1, <2>3, <3>1
  <2>4. \A q \in Procs : frame'[q].pc = "shutdown" =>
          \A j \in Creds : clients'[j] # Nil => clients'[j] # frame'[q].cl
    BY <1>5, <1>7, <1>11, <2>1
  <2>5. ClientsOwned'
    <3> SUFFICES ASSUME NEW d \in Cls, cl'[d] # Nil
                 PROVE  \/ clients'[cl'[d].cred] = d
                        \/ \E q \in Procs : /\ frame'[q].cl = d
                                            /\ frame'[q].pc \in {"insert", "shutdown"}
      BY DEF ClientsOwned
    <3>1. CASE d = f.cl
      BY <1>7, <2>1, <3>1
    <3>2. CASE d # f.cl
      <4>1. cl[d] # Nil /\ cl'[d] = cl[d] /\ cl[d].cred \in Creds
        BY <1>13, <2>1
      <4>2. CASE clients[cl[d].cred] = d
        <5>1. cl[d].cred # k
          BY <1>14, <4>2, Numbers
        <5> QED BY <2>1, <4>1, <4>2, <5>1
      <4>3. CASE \E q \in Procs : frame[q].cl = d /\ frame[q].pc \in {"insert", "shutdown"}
        BY <1>5, <3>2, <4>3
      <4> QED BY <1>12, <4>1, <4>2, <4>3
    <3> QED BY <3>1, <3>2
  <2> QED BY <2>2, <2>3, <2>4, <2>5 DEF ClientsOK
<1>15. ASSUME clients[k] # Nil PROVE ClientsOK'
  <2>1. /\ cl'[f.cl] = Nil /\ \A d \in Cls \ {f.cl} : cl'[d] = cl[d]
        /\ clients' = clients /\ c = clients[k]
    BY <1>1, <1>3, <1>4, <1>15 DEF TypeOK, c
  <2>2. (\A j \in Creds : clients[j] # Nil =>
           cl[clients[j]] # Nil /\ cl[clients[j]].cred = j)'
    BY <1>7, <1>8, <1>9, <2>1
  <2>3. ASSUME NEW q \in Procs, frame'[q].pc = "insert"
        PROVE  /\ cl'[frame'[q].cl] # Nil /\ cl'[frame'[q].cl].cred = frame'[q].conf
               /\ cl'[frame'[q].cl].rules = {}
               /\ \A r \in Procs \ {q} : frame'[r].cl # frame'[q].cl
               /\ \A j \in Creds : clients'[j] # frame'[q].cl
    <3>1. q # p /\ frame'[q] = frame[q]
      BY <1>5, <2>3
    <3>2. frame[q].cl # f.cl /\ frame[q].cl \in Cls
      BY <1>7, <1>8, <2>3, <3>1
    <3> QED BY <1>4, <1>5, <1>7, <1>10, <2>1, <2>3, <3>1, <3>2
  <2>4. \A q \in Procs : frame'[q].pc = "shutdown" =>
          \A j \in Creds : clients'[j] # Nil => clients'[j] # frame'[q].cl
    BY <1>5, <1>11, <2>1
  <2>5. ClientsOwned'
    <3> SUFFICES ASSUME NEW d \in Cls, cl'[d] # Nil
                 PROVE  \/ clients'[cl'[d].cred] = d
                        \/ \E q \in Procs : /\ frame'[q].cl = d
                                            /\ frame'[q].pc \in {"insert", "shutdown"}
      BY DEF ClientsOwned
    <3>1. d # f.cl /\ cl'[d] = cl[d]
      BY <2>1
    <3> QED BY <1>3, <1>5, <1>12, <2>1, <3>1
  <2> QED BY <2>2, <2>3, <2>4, <2>5 DEF ClientsOK
<1>16. ClientsOK'
  BY <1>14, <1>15
<1> QED BY <1>2, <1>3, <1>4, <1>5, <1>6, <1>16, AddRemoteStage

(* A step of a request, once the daemon serves.                             *)
LEMMA ServedStep ==
  ASSUME BaseInv, NEW p \in Procs, Kept(p), TypeOK', FrameOK(p)', ClientsOK', CredsOK',
         up = "up", frame'[p].op # "boot", UNCHANGED <<up, nextID, conf>>
  PROVE  BaseInv'
<1>1. (\A q \in Procs : FrameOK(q))'
  BY FramesKept
<1>2. BootOK'
  BY Serving, BootServed
<1> QED BY <1>1, <1>2 DEF BaseInv

LEMMA BaseUnregister ==
  ASSUME BaseInv, NEW p \in Procs, Unregister(p)
  PROVE  BaseInv'
<1> DEFINE c == RuleClient(frame[p].id)
<1>1. TypeOK /\ FrameOK(p) /\ CredsOK /\ frame[p] \in FrameRec
  BY BaseParts
<1>2. /\ Moved(p, frame[p].op, "remove", frame[p].id, frame[p].conf, c, frame[p].ids,
               frame[p].late)
      /\ Others(p) /\ Kept(p) /\ TypeOK'
  BY <1>1, UnregisterMoves
<1>3. /\ frame[p].pc = "unregister"
      /\ UNCHANGED <<process, files, engine, store, clients, cl, answers, off, raced>>
  BY DEF Unregister
<1>4. frame[p].op \in {"update", "delete", "delcred"} /\ frame[p].id \in IDs
  BY <1>1, <1>3 DEF FrameOK, FrameRec, Ops, AddRemotePCs
<1>5. /\ frame'[p].pc = "remove" /\ frame'[p].op = frame[p].op
      /\ frame'[p].id = frame[p].id /\ frame'[p].conf = frame[p].conf
      /\ frame'[p].cl = c /\ frame'[p].late = frame[p].late
  BY <1>2 DEF Moved, IsFrame
<1>6. c = Nil \/ \E k \in Creds : c = clients[k]
  BY <1>1, <1>4 DEF RuleClient, TypeOK
<1> HIDE DEF c
<1>7. FrameOK(p)'
  BY <1>1, <1>3, <1>4, <1>5 DEF FrameOK, AddRemotePCs, engine
<1>8. ClientsOK'
  BY <1>2, <1>3, <1>5, <1>6, ClientsKept
<1>9. CredsOK' /\ up = "up"
  BY <1>1, <1>3, <1>4, CredsKept, Serving DEF store
<1> QED BY <1>2, <1>3, <1>4, <1>5, <1>7, <1>8, <1>9, ServedStep DEF process, engine

LEMMA BaseClientRemove ==
  ASSUME BaseInv, NEW p \in Procs, ClientRemove(p)
  PROVE  BaseInv'
<1> DEFINE f == frame[p]
<1>1. TypeOK /\ FrameOK(p) /\ CredsOK /\ frame[p] \in FrameRec
  BY BaseParts
<1>2. /\ \/ /\ f.op = "update" /\ UNCHANGED rules
            /\ Moved(p, f.op, "register", f.id, conf[f.id], Nil, f.ids, f.late)
            /\ Others(p)
         \/ /\ f.op = "delete" /\ rules' = rules \ {f.id}
            /\ Moved(p, f.op, "list", f.id, f.conf, Nil, f.ids, f.late)
            /\ Overtaken(p, f.id)
         \/ /\ f.op = "delcred" /\ rules' = rules \ {f.id}
            /\ Moved(p, f.op, "cut", Nil, f.conf, Nil, f.ids, f.late)
            /\ Overtaken(p, f.id)
      /\ Kept(p) /\ TypeOK'
  BY <1>1, ClientRemoveMoves
<1>3. /\ f.pc = "remove"
      /\ UNCHANGED <<process, files, nextID, conf, store, byRule, clients,
                     answers, off, raced>>
  BY DEF ClientRemove
<1>4. f.id \in IDs /\ f.id < nextID /\ (f.op = "update" => conf[f.id] \in Creds)
      /\ f.late = {}
  BY <1>1, <1>3 DEF FrameOK
<1>5. FrameOK(p)' /\ frame'[p].op = f.op /\ frame'[p].pc \in {"register", "list", "cut"}
      /\ frame'[p].cl = Nil
  <2>1. CASE f.op = "update"
    BY <1>2, <1>3, <1>4, <2>1 DEF FrameOK, AddRemotePCs, Moved, IsFrame
  <2>2. CASE f.op = "delete"
    BY <1>2, <1>3, <1>4, <2>2 DEF FrameOK, AddRemotePCs, Moved, IsFrame
  <2>3. CASE f.op = "delcred"
    <3>1. f.conf \in Creds
      BY <1>1, <2>3 DEF FrameOK
    <3> QED BY <1>2, <1>3, <1>4, <2>3, <3>1 DEF FrameOK, AddRemotePCs, Moved, IsFrame
  <2> QED BY <1>2, <2>1, <2>2, <2>3
<1>6. ClientsOK'
  <2>1. \A c \in Cls : \/ cl'[c] = cl[c]
                       \/ /\ c = frame[p].cl /\ cl[c] # Nil
                          /\ cl'[c] # Nil /\ cl'[c].cred = cl[c].cred
    BY RemoveEffect
  <2> QED BY <1>2, <1>3, <1>5, <2>1, ClientsKept
<1>7. CredsOK' /\ up = "up" /\ f.op # "boot"
  BY <1>1, <1>2, <1>3, CredsKept, Serving DEF store
<1> QED BY <1>2, <1>3, <1>5, <1>6, <1>7, ServedStep DEF process

LEMMA BaseListRules ==
  ASSUME BaseInv, NEW p \in Procs, ListRules(p)
  PROVE  BaseInv'
<1>1. TypeOK /\ FrameOK(p) /\ CredsOK /\ frame[p] \in FrameRec
  BY BaseParts
<1>2. /\ Moved(p, frame[p].op, "save", frame[p].id, frame[p].conf, frame[p].cl, rules,
               frame[p].late)
      /\ Others(p) /\ Kept(p) /\ TypeOK'
  BY <1>1, ListRulesMoves
<1>3. /\ frame[p].pc = "list"
      /\ UNCHANGED <<process, files, engine, store, manager, answers, off, raced>>
  BY DEF ListRules
<1>4. frame[p].op \in {"create", "update", "delete"}
  BY <1>1, <1>3 DEF FrameOK, FrameRec, Ops, AddRemotePCs
<1>5. /\ frame'[p].pc = "save" /\ frame'[p].op = frame[p].op
      /\ frame'[p].id = frame[p].id /\ frame'[p].conf = frame[p].conf
      /\ frame'[p].cl = frame[p].cl
  BY <1>2 DEF Moved, IsFrame
<1>6. FrameOK(p)'
  BY <1>1, <1>3, <1>4, <1>5 DEF FrameOK, AddRemotePCs, engine
<1>7. ClientsOK'
  BY <1>2, <1>3, <1>5, ClientsKept DEF manager
<1>8. CredsOK' /\ up = "up"
  BY <1>1, <1>3, <1>4, CredsKept, Serving DEF store
<1> QED BY <1>2, <1>3, <1>4, <1>5, <1>6, <1>7, <1>8, ServedStep DEF process, engine

(* A request that is answered.                                              *)
LEMMA AnsweredStep ==
  ASSUME BaseInv, NEW p \in Procs, Moved(p, "none", "idle", Nil, Nil, Nil, {}, {}),
         frame'[p] = Idle, Kept(p), TypeOK', CredsOK', up = "up",
         frame[p].pc \notin {"insert", "shutdown"},
         UNCHANGED <<up, nextID, conf, clients, cl>>
  PROVE  BaseInv'
<1>1. FrameOK(p)'
  BY IdleFrame DEF FrameOK, IsFrame, AddRemotePCs
<1>2. ClientsOK'
  BY ClientsKept, IdleFrame DEF IsFrame
<1> QED BY <1>1, <1>2, ServedStep, IdleFrame DEF IsFrame

LEMMA BaseSave ==
  ASSUME BaseInv, NEW p \in Procs, SaveRules(p) \/ SaveRulesFails(p)
  PROVE  BaseInv'
<1>1. TypeOK /\ FrameOK(p) /\ CredsOK /\ frame[p] \in FrameRec
  BY BaseParts
<1>2. /\ Moved(p, "none", "idle", Nil, Nil, Nil, {}, {})
      /\ Others(p) /\ Kept(p) /\ TypeOK'
  BY <1>1, SaveMoves
<1>3. /\ frame[p].pc = "save" /\ Goto(p, Idle)
      /\ UNCHANGED <<process, cfile, engine, store, manager, lost, off, raced>>
  BY DEF SaveRules, SaveRulesFails
<1>4. frame[p].op \in {"create", "update", "delete"} /\ frame'[p] = Idle
  BY <1>1, <1>3, Frames DEF FrameOK, FrameRec, Ops, AddRemotePCs, Goto
<1>5. CredsOK' /\ up = "up"
  BY <1>1, <1>3, <1>4, CredsKept, Serving DEF store
<1> QED BY <1>2, <1>3, <1>4, <1>5, AnsweredStep DEF process, engine, manager

LEMMA BaseStore ==
  ASSUME BaseInv, NEW p \in Procs, ForgetCred(p) \/ SaveKey(p)
  PROVE  BaseInv'
<1>1. TypeOK /\ FrameOK(p) /\ CredsOK /\ frame[p] \in FrameRec
  BY BaseParts
<1>2. /\ Moved(p, "none", "idle", Nil, Nil, Nil, {}, {})
      /\ Others(p) /\ Kept(p) /\ TypeOK'
  BY <1>1, StoreMoves
<1>3. /\ frame[p].pc \in {"forget", "key"} /\ Goto(p, Idle)
      /\ UNCHANGED <<process, rfile, engine, next, used, manager, answers, off, raced>>
  BY DEF ForgetCred, SaveKey, store
<1>4. frame[p].op \in {"addcred", "delcred"} /\ frame'[p] = Idle
  BY <1>1, <1>3, Frames DEF FrameOK, FrameRec, Ops, AddRemotePCs, Goto
<1>5. CredsOK' /\ up = "up"
  BY <1>1, <1>3, <1>4, CredsKept, Serving
<1> QED BY <1>2, <1>3, <1>4, <1>5, AnsweredStep DEF process, engine, manager

LEMMA BaseCutRule ==
  ASSUME BaseInv, NEW p \in Procs, CutRule(p)
  PROVE  BaseInv'
<1> DEFINE f == frame[p]
           i == Min(f.ids)
<1>1. TypeOK /\ FrameOK(p) /\ CredsOK /\ frame[p] \in FrameRec
  BY BaseParts
<1>2. /\ f.ids # {}
      /\ \/ Moved(p, f.op, "kill", f.id, f.conf, f.cl, f.ids, f.late)
         \/ Moved(p, f.op, "cut", f.id, f.conf, f.cl, f.ids \ {i}, f.late)
      /\ Others(p) /\ Kept(p) /\ TypeOK'
  BY <1>1, CutRuleMoves
<1> HIDE DEF i
<1>3. /\ f.pc = "cut"
      /\ UNCHANGED <<process, files, engine, store, manager, answers, off, raced>>
  BY DEF CutRule
<1>4. f.op = "delcred" /\ f.id = Nil /\ f.cl = Nil /\ f.late = {} /\ f.conf \in Creds
  BY <1>1, <1>3 DEF FrameOK, FrameRec, Ops, AddRemotePCs
<1>5. FrameOK(p)' /\ frame'[p].op = f.op /\ frame'[p].pc \in {"kill", "cut"}
      /\ frame'[p].cl = Nil
  BY <1>2, <1>4 DEF FrameOK, Moved, IsFrame, AddRemotePCs
<1>6. ClientsOK'
  BY <1>2, <1>3, <1>5, ClientsKept DEF manager
<1>7. CredsOK' /\ up = "up"
  BY <1>1, <1>3, <1>4, CredsKept, Serving DEF store
<1> QED BY <1>2, <1>3, <1>4, <1>5, <1>6, <1>7, ServedStep DEF process, engine

LEMMA BaseKillRule ==
  ASSUME BaseInv, NEW p \in Procs, KillRule(p)
  PROVE  BaseInv'
<1> DEFINE i == Min(frame[p].ids)
           f == frame[p]
<1>1. TypeOK /\ FrameOK(p) /\ CredsOK /\ frame[p] \in FrameRec
  BY BaseParts
<1>2. /\ i \in IDs /\ i \in f.ids
      /\ \/ /\ i \in rules /\ Begin(p, i)
            /\ Moved(p, f.op, "unregister", i, f.conf, f.cl, f.ids \ {i}, f.late)
         \/ /\ i \notin rules /\ UNCHANGED <<answers, raced>>
            /\ Moved(p, f.op, "cut", f.id, f.conf, f.cl, f.ids \ {i}, f.late)
      /\ Others(p) /\ Kept(p) /\ TypeOK'
  BY <1>1, KillRuleMoves
<1> HIDE DEF i
<1>3. /\ f.pc = "kill"
      /\ UNCHANGED <<process, files, engine, store, manager, off>>
  BY DEF KillRule
<1>4. f.op = "delcred" /\ f.id = Nil /\ f.cl = Nil /\ f.late = {} /\ f.conf \in Creds
  BY <1>1, <1>3 DEF FrameOK, FrameRec, Ops, AddRemotePCs
<1>5. FrameOK(p)' /\ frame'[p].op = f.op /\ frame'[p].pc \in {"unregister", "cut"}
      /\ frame'[p].cl = Nil
  <2>1. CASE i \in rules
    <3>1. i < nextID
      BY <1>1, <2>1, RulesTyped
    <3> QED BY <1>2, <1>3, <1>4, <2>1, <3>1 DEF FrameOK, Moved, IsFrame, AddRemotePCs, engine
  <2>2. CASE i \notin rules
    BY <1>2, <1>3, <1>4, <2>2 DEF FrameOK, Moved, IsFrame, AddRemotePCs
  <2> QED BY <2>1, <2>2
<1>6. ClientsOK'
  BY <1>2, <1>3, <1>5, ClientsKept DEF manager
<1>7. CredsOK' /\ up = "up"
  BY <1>1, <1>3, <1>4, CredsKept, Serving DEF store
<1> QED BY <1>2, <1>3, <1>4, <1>5, <1>6, <1>7, ServedStep DEF process, engine

LEMMA BasePurgeCred ==
  ASSUME BaseInv, NEW p \in Procs, PurgeCred(p)
  PROVE  BaseInv'
<1> DEFINE k == frame[p].conf
<1>1. TypeOK /\ FrameOK(p) /\ CredsOK /\ ClientsOK /\ frame[p] \in FrameRec
  BY BaseParts
<1>2. /\ k \in Creds
      /\ Moved(p, frame[p].op, "shutdown", frame[p].id, k, clients[k], frame[p].ids,
               frame[p].late)
      /\ Others(p) /\ Kept(p) /\ TypeOK'
  BY <1>1, PurgeCredMoves
<1>3. /\ frame[p].pc = "cut" /\ clients' = [clients EXCEPT ![k] = Nil]
      /\ UNCHANGED <<process, files, engine, store, cl, answers>>
  BY DEF PurgeCred
<1>4. frame[p].op = "delcred" /\ frame[p].id = Nil /\ frame[p].late = {}
  BY <1>1, <1>3 DEF FrameOK, FrameRec, Ops, AddRemotePCs
<1>5. /\ frame'[p].pc = "shutdown" /\ frame'[p].op = "delcred"
      /\ frame'[p].id = Nil /\ frame'[p].conf = k
      /\ frame'[p].cl = clients[k] /\ frame'[p].late = {}
      /\ \A q \in Procs \ {p} : frame'[q] = frame[q]
  BY <1>2, <1>4 DEF Moved, IsFrame, Others
<1>6. FrameOK(p)'
  BY <1>2, <1>5 DEF FrameOK, AddRemotePCs
<1>7. ClientsOK'
  <2>1. clients'[k] = Nil /\ \A j \in Creds \ {k} : clients'[j] = clients[j]
    BY <1>1, <1>2, <1>3 DEF TypeOK
  <2>2. /\ \A j \in Creds : clients[j] # Nil =>
             cl[clients[j]] # Nil /\ cl[clients[j]].cred = j
        /\ cl' = cl
        /\ \A d \in Cls : cl[d] # Nil => cl[d].cred \in Creds
    BY <1>1, <1>3 DEF ClientsOK, TypeOK
  <2>3. (\A j \in Creds : clients[j] # Nil =>
           cl[clients[j]] # Nil /\ cl[clients[j]].cred = j)'
    BY <2>1, <2>2
  <2>4. ASSUME NEW q \in Procs, frame'[q].pc = "insert"
        PROVE  /\ cl'[frame'[q].cl] # Nil /\ cl'[frame'[q].cl].cred = frame'[q].conf
               /\ cl'[frame'[q].cl].rules = {}
               /\ \A r \in Procs \ {q} : frame'[r].cl # frame'[q].cl
               /\ \A j \in Creds : clients'[j] # frame'[q].cl
    <3>1. q # p /\ frame'[q] = frame[q]
      BY <1>5, <2>4
    <3>2. frame[q].cl \in Cls /\ frame[q].cl # Nil
      BY <2>4, <3>1, Numbers DEF BaseInv, FrameOK
    <3>3. /\ cl[frame[q].cl] # Nil /\ cl[frame[q].cl].cred = frame[q].conf
          /\ cl[frame[q].cl].rules = {}
          /\ \A r \in Procs \ {q} : frame[r].cl # frame[q].cl
          /\ \A j \in Creds : clients[j] # frame[q].cl
      BY <1>1, <2>4, <3>1 DEF ClientsOK
    <3>4. \A r \in Procs \ {q} : frame'[r].cl # frame[q].cl
      BY <1>2, <1>5, <3>3
    <3> QED BY <2>1, <2>2, <3>1, <3>2, <3>3, <3>4
  <2>5. ASSUME NEW q \in Procs, frame'[q].pc = "shutdown",
               NEW j \in Creds, clients'[j] # Nil
        PROVE  clients'[j] # frame'[q].cl
    <3>1. j # k /\ clients'[j] = clients[j]
      BY <2>1, <2>5
    <3>2. CASE q = p
      BY <1>2, <1>5, <2>2, <2>5, <3>1, <3>2
    <3>3. CASE q # p
      BY <1>1, <1>5, <2>5, <3>1, <3>3 DEF ClientsOK
    <3> QED BY <3>2, <3>3
  <2>6. ClientsOwned'
    <3> SUFFICES ASSUME NEW d \in Cls, cl'[d] # Nil
                 PROVE  \/ clients'[cl'[d].cred] = d
                        \/ \E q \in Procs : /\ frame'[q].cl = d
                                            /\ frame'[q].pc \in {"insert", "shutdown"}
      BY DEF ClientsOwned
    <3>1. \/ clients[cl[d].cred] = d
          \/ \E q \in Procs : frame[q].cl = d /\ frame[q].pc \in {"insert", "shutdown"}
      BY <1>1, <2>2 DEF ClientsOK, ClientsOwned
    <3>2. CASE clients[cl[d].cred] = d
      <4>1. CASE cl[d].cred = k
        BY <1>5, <3>2, <4>1
      <4>2. CASE cl[d].cred # k
        BY <2>1, <2>2, <3>2, <4>2
      <4> QED BY <4>1, <4>2
    <3>3. CASE \E q \in Procs : frame[q].cl = d /\ frame[q].pc \in {"insert", "shutdown"}
      BY <1>3, <1>5, <3>3
    <3> QED BY <3>1, <3>2, <3>3
  <2> QED BY <2>3, <2>4, <2>5, <2>6 DEF ClientsOK
<1>8. CredsOK' /\ up = "up"
  BY <1>1, <1>3, <1>4, CredsKept, Serving DEF store
<1> QED BY <1>2, <1>3, <1>5, <1>6, <1>7, <1>8, ServedStep DEF process, engine

LEMMA BaseShutdownClient ==
  ASSUME BaseInv, NEW p \in Procs, ShutdownClient(p)
  PROVE  BaseInv'
<1> DEFINE c == frame[p].cl
<1>1. TypeOK /\ FrameOK(p) /\ CredsOK /\ ClientsOK /\ frame[p] \in FrameRec
  BY BaseParts
<1>2. /\ Moved(p, frame[p].op, "forget", frame[p].id, frame[p].conf, Nil, frame[p].ids,
               frame[p].late)
      /\ Others(p) /\ Kept(p) /\ TypeOK'
  BY <1>1, ShutdownClientMoves
<1>3. /\ frame[p].pc = "shutdown"
      /\ cl' = [d \in Cls |-> IF d = c THEN Nil ELSE cl[d]]
      /\ UNCHANGED <<process, files, engine, store, byRule, clients, answers, off, raced>>
  BY DEF ShutdownClient
<1>4. frame[p].op = "delcred" /\ frame[p].id = Nil /\ frame[p].late = {}
      /\ frame[p].conf \in Creds
  BY <1>1, <1>3 DEF FrameOK, FrameRec, Ops, AddRemotePCs
<1>5. /\ frame'[p].pc = "forget" /\ frame'[p].op = "delcred"
      /\ frame'[p].id = Nil /\ frame'[p].conf \in Creds
      /\ frame'[p].cl = Nil /\ frame'[p].late = {}
      /\ \A q \in Procs \ {p} : frame'[q] = frame[q]
  BY <1>2, <1>4 DEF Moved, IsFrame, Others
<1>6. FrameOK(p)'
  BY <1>5 DEF FrameOK, AddRemotePCs
<1>7. ClientsOK'
  <2>1. \A d \in Cls : d # c => cl'[d] = cl[d]
    BY <1>3
  <2>2. \A j \in Creds : clients[j] # Nil =>
          /\ clients[j] \in Cls /\ clients[j] # c
          /\ cl[clients[j]] # Nil /\ cl[clients[j]].cred = j
    BY <1>1, <1>3 DEF ClientsOK, TypeOK
  <2>3. (\A j \in Creds : clients[j] # Nil =>
           cl[clients[j]] # Nil /\ cl[clients[j]].cred = j)'
    BY <1>3, <2>1, <2>2
  <2>4. ASSUME NEW q \in Procs, frame'[q].pc = "insert"
        PROVE  /\ cl'[frame'[q].cl] # Nil /\ cl'[frame'[q].cl].cred = frame'[q].conf
               /\ cl'[frame'[q].cl].rules = {}
               /\ \A r \in Procs \ {q} : frame'[r].cl # frame'[q].cl
               /\ \A j \in Creds : clients'[j] # frame'[q].cl
    <3>1. q # p /\ frame'[q] = frame[q]
      BY <1>5, <2>4
    <3>2. frame[q].cl \in Cls /\ frame[q].cl # Nil
      BY <2>4, <3>1, Numbers DEF BaseInv, FrameOK
    <3>3. /\ cl[frame[q].cl] # Nil /\ cl[frame[q].cl].cred = frame[q].conf
          /\ cl[frame[q].cl].rules = {}
          /\ \A r \in Procs \ {q} : frame[r].cl # frame[q].cl
          /\ \A j \in Creds : clients[j] # frame[q].cl
      BY <1>1, <2>4, <3>1 DEF ClientsOK
    <3>4. \A r \in Procs \ {q} : frame'[r].cl # frame[q].cl
      BY <1>5, <3>2, <3>3
    <3>5. cl'[frame[q].cl] = cl[frame[q].cl]
      BY <2>1, <3>1, <3>2, <3>3
    <3> QED BY <1>3, <3>1, <3>3, <3>4, <3>5
  <2>5. \A q \in Procs : frame'[q].pc = "shutdown" =>
          \A j \in Creds : clients'[j] # Nil => clients'[j] # frame'[q].cl
    BY <1>1, <1>3, <1>5 DEF ClientsOK
  <2>6. ClientsOwned'
    <3> SUFFICES ASSUME NEW d \in Cls, cl'[d] # Nil
                 PROVE  \/ clients'[cl'[d].cred] = d
                        \/ \E q \in Procs : /\ frame'[q].cl = d
                                            /\ frame'[q].pc \in {"insert", "shutdown"}
      BY DEF ClientsOwned
    <3>1. d # c /\ cl'[d] = cl[d]
      BY <1>3
    <3>2. \/ clients[cl[d].cred] = d
          \/ \E q \in Procs : frame[q].cl = d /\ frame[q].pc \in {"insert", "shutdown"}
      BY <1>1, <3>1 DEF ClientsOK, ClientsOwned
    <3> QED BY <1>3, <1>5, <3>1, <3>2
  <2> QED BY <2>3, <2>4, <2>5, <2>6 DEF ClientsOK
<1>8. CredsOK' /\ up = "up"
  BY <1>1, <1>3, <1>4, CredsKept, Serving DEF store
<1> QED BY <1>2, <1>3, <1>5, <1>6, <1>7, <1>8, ServedStep DEF process, engine

LEMMA BaseBoot ==
  ASSUME BaseInv, NEW p \in Procs, Boot(p)
  PROVE  BaseInv'
<1>1. TypeOK /\ BootOK /\ ClientsOK
  BY BaseParts
<1>2. /\ Moved(p, "boot", "restore", Nil, Nil, Nil, Saved, {})
      /\ Others(p) /\ Kept(p) /\ TypeOK'
  BY <1>1, BootMoves
<1>3. /\ up = "down" /\ up' = "boot" /\ cfile # Torn
      /\ creds' = cfile /\ used' = cfile /\ next' = NextAfterLoad(cfile)
      /\ UNCHANGED <<crashes, calls, files, engine, manager, answers, off, raced>>
  BY DEF Boot
<1>4. \A q \in Procs : frame[q] = Idle
  BY <1>1, <1>3 DEF BootOK
<1>5. /\ frame'[p].op = "boot" /\ frame'[p].pc = "restore" /\ frame'[p].id = Nil
      /\ frame'[p].conf = Nil /\ frame'[p].cl = Nil /\ frame'[p].ids = Saved
      /\ frame'[p].late = {}
      /\ \A q \in Procs \ {p} : frame'[q] = Idle
  BY <1>2, <1>4 DEF Moved, IsFrame, Others
<1>6. FrameOK(p)'
  BY <1>5 DEF FrameOK, AddRemotePCs
<1>7. BootOK'
  <2>1. Saved' = Saved
    BY <1>3 DEF Saved, OnDisk, files
  <2>2. rules' = {}
    BY <1>1, <1>3 DEF engine, BootOK
  <2>3. \A q \in Procs : frame'[q].op = "boot" => q = p
    BY <1>5, IdleFrame DEF IsFrame
  <2> QED BY <1>3, <1>5, <2>1, <2>2, <2>3 DEF BootOK
<1>8. ClientsOK'
  BY <1>2, <1>3, <1>4, <1>5, ClientsKept, IdleFrame DEF manager, IsFrame
<1>9. CredsOK'
  <2>1. cfile \in (SUBSET Creds) \cup {Torn}
    BY <1>1 DEF TypeOK
  <2>2. cfile \in SUBSET Creds
    BY <1>3, <2>1
  <2> QED BY <1>3, <2>2, NextAfter DEF CredsOK
<1> QED BY <1>2, <1>3, <1>6, <1>7, <1>8, <1>9, FramesKept DEF BaseInv, engine

LEMMA BaseBootFails ==
  ASSUME BaseInv, BootFails
  PROVE  BaseInv'
<1>1. /\ up = "down" /\ up' = "exited"
      /\ UNCHANGED <<crashes, calls, files, engine, manager, store, frame, answers, off, raced>>
  BY DEF BootFails
<1>2. TypeOK'
  BY <1>1 DEF BaseInv, TypeOK, files, engine, manager, store, answers
<1>3. (\A q \in Procs : FrameOK(q))'
  BY <1>1 DEF BaseInv, FrameOK, engine
<1>4. BootOK'
  BY <1>1, IdleFrame DEF BaseInv, BootOK, IsFrame, engine
<1>5. ClientsOK' /\ CredsOK'
  BY <1>1 DEF BaseInv, ClientsOK, ClientsOwned, CredsOK, manager, store
<1> QED BY <1>2, <1>3, <1>4, <1>5 DEF BaseInv

(* The requests.                                                            *)
LEMMA BaseAddRule ==
  ASSUME BaseInv, Counted, NEW p \in Procs, NEW v \in Confs, AddRule(p, v)
  PROVE  BaseInv'
<1>1. TypeOK /\ CredsOK
  BY BaseParts
<1>2. /\ nextID \in IDs /\ nextID' = nextID + 1
      /\ \/ v \in Creds /\ Moved(p, "create", "register", nextID, v, Nil, {}, {})
         \/ v \in Locals /\ Moved(p, "create", "list", nextID, Nil, Nil, {}, {})
         \/ v \in Locals /\ Moved(p, "none", "idle", Nil, Nil, Nil, {}, {})
      /\ Overtaken(p, nextID) /\ Kept(p) /\ TypeOK'
  BY <1>1, AddRuleMoves
<1>3. /\ up = "up" /\ frame[p] = Idle /\ conf' = [conf EXCEPT ![nextID] = v]
      /\ UNCHANGED <<up, crashes, files, store, manager, off>>
  BY DEF AddRule, Serve
<1>4. nextID \in Nat /\ nextID < nextID + 1 /\ nextID + 1 \in Nat
  BY <1>1, RulesTyped
<1>5. /\ FrameOK(p)' /\ frame'[p].op # "boot" /\ frame'[p].cl = Nil
      /\ frame'[p].pc \in {"register", "list", "idle"}
  <2>1. CASE v \in Creds /\ Moved(p, "create", "register", nextID, v, Nil, {}, {})
    BY <1>2, <1>4, <2>1 DEF FrameOK, Moved, IsFrame, AddRemotePCs
  <2>2. CASE Moved(p, "create", "list", nextID, Nil, Nil, {}, {})
    BY <1>2, <1>4, <2>2 DEF FrameOK, Moved, IsFrame, AddRemotePCs
  <2>3. CASE Moved(p, "none", "idle", Nil, Nil, Nil, {}, {})
    <3>1. frame'[p] = Idle
      BY <2>3 DEF Moved, IsFrame, Idle, FrameRec
    <3> QED BY <2>3, <3>1 DEF FrameOK, Moved, IsFrame, AddRemotePCs
  <2> QED BY <1>2, <2>1, <2>2, <2>3
<1>6. ASSUME NEW q \in Procs \ {p} PROVE FrameOK(q)'
  <2>1. FrameOK(q)
    BY DEF BaseInv
  <2>2. frame[q].op = "update" /\ frame[q].pc \in {"unregister", "remove"} =>
          conf'[frame[q].id] \in Creds
    <3> SUFFICES ASSUME frame[q].op = "update", frame[q].pc \in {"unregister", "remove"}
                 PROVE  conf'[frame[q].id] \in Creds
      OBVIOUS
    <3>1. /\ frame[q].id \in IDs /\ frame[q].id < nextID /\ conf[frame[q].id] \in Creds
      BY <2>1 DEF FrameOK
    <3>2. frame[q].id # nextID
      BY <1>4, <3>1
    <3> QED BY <1>1, <1>3, <3>1, <3>2 DEF TypeOK
  <2>3. nextID' \in Nat /\ nextID' >= nextID
    BY <1>2, <1>4
  <2> QED BY <1>1, <1>2, <2>1, <2>2, <2>3, FrameKept
<1>7. BootOK'
  BY <1>2, <1>3, <1>5, Serving, BootServed
<1>8. ClientsOK'
  BY <1>2, <1>3, <1>5, ClientsKept, IdleFrame DEF manager, IsFrame
<1>9. CredsOK'
  BY <1>1, <1>3, CredsKept DEF store
<1> QED BY <1>2, <1>5, <1>6, <1>7, <1>8, <1>9 DEF BaseInv

LEMMA IdleMoved ==
  ASSUME NEW p \in Procs, Moved(p, "none", "idle", Nil, Nil, Nil, {}, {})
  PROVE  frame'[p] = Idle
BY DEF Moved, IsFrame, Idle, FrameRec

LEMMA BaseUpdateRule ==
  ASSUME BaseInv, Counted, NEW p \in Procs, NEW i \in IDs, NEW v \in Confs,
         UpdateRule(p, i, v)
  PROVE  BaseInv'
<1>1. TypeOK /\ CredsOK
  BY BaseParts
<1>2. /\ \/ v \in Creds /\ Moved(p, "update", "unregister", i, Nil, Nil, {}, {})
         \/ v \in Locals /\ Moved(p, "update", "list", i, Nil, Nil, {}, {})
         \/ v \in Locals /\ Moved(p, "none", "idle", Nil, Nil, Nil, {}, {})
      /\ Others(p) /\ Kept(p) /\ TypeOK'
  BY <1>1, UpdateRuleMoves
<1>3. /\ up = "up" /\ frame[p] = Idle /\ conf' = [conf EXCEPT ![i] = v] /\ i \in rules
      /\ conf[i] \in Creds <=> v \in Creds
      /\ UNCHANGED <<up, crashes, files, nextID, rules, store, manager, off>>
  BY DEF UpdateRule, Serve
<1>4. nextID \in Nat /\ nextID' \in Nat /\ nextID' >= nextID /\ i < nextID
  BY <1>1, <1>3, RulesTyped
<1>5. conf'[i] = v /\ \A j \in IDs : conf[j] \in Creds => conf'[j] \in Creds
  BY <1>1, <1>3 DEF TypeOK
<1>6. /\ FrameOK(p)' /\ frame'[p].op # "boot" /\ frame'[p].cl = Nil
      /\ frame'[p].pc \in {"unregister", "list", "idle"}
  <2>1. CASE v \in Creds /\ Moved(p, "update", "unregister", i, Nil, Nil, {}, {})
    BY <1>3, <1>4, <1>5, <2>1 DEF FrameOK, Moved, IsFrame, AddRemotePCs
  <2>2. CASE Moved(p, "update", "list", i, Nil, Nil, {}, {})
    BY <1>3, <1>4, <2>2 DEF FrameOK, Moved, IsFrame, AddRemotePCs
  <2>3. CASE Moved(p, "none", "idle", Nil, Nil, Nil, {}, {})
    BY <2>3, IdleMoved DEF FrameOK, Moved, IsFrame, AddRemotePCs
  <2> QED BY <1>2, <2>1, <2>2, <2>3
<1>7. ASSUME NEW q \in Procs \ {p} PROVE FrameOK(q)'
  <2>1. FrameOK(q)
    BY DEF BaseInv
  <2>2. frame[q].op = "update" /\ frame[q].pc \in {"unregister", "remove"} =>
          conf'[frame[q].id] \in Creds
    BY <1>5, <2>1 DEF FrameOK
  <2> QED BY <1>1, <1>2, <1>4, <2>1, <2>2, FrameKept
<1>8. BootOK'
  BY <1>2, <1>3, <1>6, Serving, BootServed
<1>9. ClientsOK'
  BY <1>2, <1>3, <1>6, ClientsKept, IdleFrame DEF manager, IsFrame
<1>10. CredsOK'
  BY <1>1, <1>3, CredsKept DEF store
<1> QED BY <1>2, <1>6, <1>7, <1>8, <1>9, <1>10 DEF BaseInv

LEMMA BaseRemoveRule ==
  ASSUME BaseInv, Counted, NEW p \in Procs, NEW i \in IDs, RemoveRule(p, i)
  PROVE  BaseInv'
<1>1. TypeOK /\ CredsOK
  BY BaseParts
<1>2. /\ \/ /\ Remote(i) /\ UNCHANGED rules
            /\ Moved(p, "delete", "unregister", i, Nil, Nil, {}, {}) /\ Others(p)
         \/ /\ ~Remote(i) /\ rules' = rules \ {i}
            /\ Moved(p, "delete", "list", i, Nil, Nil, {}, {}) /\ Overtaken(p, i)
      /\ Kept(p) /\ TypeOK'
  BY <1>1, RemoveRuleMoves
<1>3. /\ up = "up" /\ frame[p] = Idle /\ i \in rules
      /\ UNCHANGED <<up, crashes, files, nextID, conf, store, manager, off>>
  BY DEF RemoveRule, Serve
<1>4. i < nextID
  BY <1>1, <1>3, RulesTyped
<1>5. /\ FrameOK(p)' /\ frame'[p].op = "delete" /\ frame'[p].cl = Nil
      /\ frame'[p].pc \in {"unregister", "list"}
  <2>1. CASE Moved(p, "delete", "unregister", i, Nil, Nil, {}, {})
    BY <1>3, <1>4, <2>1 DEF FrameOK, Moved, IsFrame, AddRemotePCs
  <2>2. CASE Moved(p, "delete", "list", i, Nil, Nil, {}, {})
    BY <1>3, <1>4, <2>2 DEF FrameOK, Moved, IsFrame, AddRemotePCs
  <2> QED BY <1>2, <2>1, <2>2
<1>6. ClientsOK'
  BY <1>2, <1>3, <1>5, ClientsKept, IdleFrame DEF manager, IsFrame
<1>7. CredsOK'
  BY <1>1, <1>3, CredsKept DEF store
<1> QED BY <1>2, <1>3, <1>5, <1>6, <1>7, ServedStep

LEMMA BaseAddCred ==
  ASSUME BaseInv, Counted, NEW p \in Procs, AddCred(p)
  PROVE  BaseInv'
<1>1. TypeOK /\ CredsOK
  BY BaseParts
<1>2. /\ next' = next + 1 /\ next' \in Creds /\ used' \subseteq used \cup {next'}
      /\ \/ Moved(p, "none", "idle", Nil, Nil, Nil, {}, {})
         \/ Moved(p, "addcred", "key", Nil, next + 1, Nil, {}, {})
      /\ Others(p) /\ Kept(p) /\ TypeOK'
  BY <1>1, AddCredMoves
<1>3. /\ up = "up" /\ frame[p] = Idle
      /\ UNCHANGED <<up, crashes, rfile, engine, manager, answers, off, raced>>
  BY DEF AddCred, Serve
<1>4. /\ FrameOK(p)' /\ frame'[p].op # "boot" /\ frame'[p].cl = Nil
      /\ frame'[p].pc \in {"idle", "key"}
  <2>1. CASE Moved(p, "none", "idle", Nil, Nil, Nil, {}, {})
    BY <2>1, IdleMoved DEF FrameOK, Moved, IsFrame, AddRemotePCs
  <2>2. CASE Moved(p, "addcred", "key", Nil, next + 1, Nil, {}, {})
    BY <1>2, <2>2 DEF FrameOK, Moved, IsFrame, AddRemotePCs
  <2> QED BY <1>2, <2>1, <2>2
<1>5. ClientsOK'
  BY <1>2, <1>3, <1>4, ClientsKept, IdleFrame DEF manager, IsFrame
<1>6. CredsOK'
  <2> SUFFICES ASSUME NEW k \in used' PROVE k <= next'
    BY DEF CredsOK
  <2>1. next \in Nat /\ next' = next + 1
    BY <1>1, <1>2, Numbers DEF TypeOK
  <2>2. CASE k = next'
    BY <2>1, <2>2
  <2>3. CASE k \in used
    <3>1. k \in Nat /\ k <= next
      BY <1>1, <2>3, Numbers DEF CredsOK, TypeOK
    <3> QED BY <2>1, <3>1
  <2> QED BY <1>2, <2>2, <2>3
<1> QED BY <1>2, <1>3, <1>4, <1>5, <1>6, ServedStep DEF engine

LEMMA BaseUpdateCred ==
  ASSUME BaseInv, Counted, NEW p \in Procs, NEW k \in Creds, UpdateCred(p, k)
  PROVE  BaseInv'
<1>1. TypeOK /\ CredsOK
  BY BaseParts
<1>2. /\ Moved(p, "none", "idle", Nil, Nil, Nil, {}, {})
      /\ Others(p) /\ Kept(p) /\ TypeOK'
  BY <1>1, UpdateCredMoves
<1>3. /\ up = "up" /\ frame[p] = Idle /\ frame'[p] = Idle
      /\ UNCHANGED <<up, crashes, rfile, engine, store, manager, frame, answers, off, raced>>
  BY DEF UpdateCred, Serve
<1>4. CredsOK'
  BY <1>1, <1>3, CredsKept DEF store
<1> QED BY <1>2, <1>3, <1>4, AnsweredStep, IdleFrame DEF IsFrame, engine, manager

LEMMA BaseDeleteCred ==
  ASSUME BaseInv, Counted, NEW p \in Procs, NEW k \in Creds, DeleteCred(p, k)
  PROVE  BaseInv'
<1>1. TypeOK /\ CredsOK
  BY BaseParts
<1>2. /\ Moved(p, "delcred", "cut", Nil, k, Nil, rules, {})
      /\ Others(p) /\ Kept(p) /\ TypeOK'
  BY <1>1, DeleteCredMoves
<1>3. /\ up = "up" /\ frame[p] = Idle
      /\ UNCHANGED <<up, crashes, files, engine, store, manager, answers, off, raced>>
  BY DEF DeleteCred, Serve
<1>4. /\ frame'[p].op = "delcred" /\ frame'[p].pc = "cut" /\ frame'[p].id = Nil
      /\ frame'[p].conf = k /\ frame'[p].cl = Nil /\ frame'[p].late = {}
  BY <1>2 DEF Moved, IsFrame
<1>5. FrameOK(p)'
  BY <1>4 DEF FrameOK, AddRemotePCs
<1>6. ClientsOK'
  BY <1>2, <1>3, <1>4, ClientsKept, IdleFrame DEF manager, IsFrame
<1>7. CredsOK'
  BY <1>1, <1>3, CredsKept DEF store
<1> QED BY <1>2, <1>3, <1>4, <1>5, <1>6, <1>7, ServedStep DEF engine

LEMMA BaseCrash ==
  ASSUME BaseInv, Crash
  PROVE  BaseInv'
<1>1. /\ crashes < MaxCrashes /\ up' = "down" /\ crashes' = crashes + 1 /\ UNCHANGED calls
      /\ nextID' = 1 /\ rules' = {} /\ conf' = [i \in IDs |-> Nil]
      /\ creds' = {} /\ next' = 0 /\ used' = {}
      /\ byRule' = [i \in IDs |-> Nil]
      /\ clients' = [k \in Creds |-> Nil] /\ cl' = [c \in Cls |-> Nil]
      /\ frame' = [p \in Procs |-> Idle]
      /\ off' = {} /\ raced' = {}
  BY DEF Crash
<1>2. /\ rfile' \in {rfile, Torn} /\ cfile' \in {cfile, Torn}
      /\ known' = known /\ unsaved' = {}
      /\ lost' \in {lost \cup unsaved, lost \cup {i \in IDs : known[i] \notin {Nil, Gone}}}
  BY DEF Crash, files
<1>3. \A p \in Procs : frame'[p] = Idle
  BY <1>1
<1>4. TypeOK'
  <2>1. frame' \in [Procs -> FrameRec]
    BY <1>1, IdleFrame DEF IsFrame
  <2>2. TypeOK
    BY DEF BaseInv
  <2>3. EngineType' /\ ManagerType' /\ StoreType' /\ ProcessType'
    BY <1>1, <2>2, Numbers
    DEF EngineType, ManagerType, StoreType, ProcessType, TypeOK
  <2>4. FilesType'
    BY <1>2, <2>2 DEF FilesType, TypeOK
  <2>5. HistoryType'
    BY <1>1, <1>2, <2>2 DEF HistoryType, TypeOK
  <2> QED BY <2>1, <2>3, <2>4, <2>5, TypeSplit
<1>5. (\A p \in Procs : FrameOK(p))'
  BY <1>3, IdleFrame DEF FrameOK, IsFrame, AddRemotePCs
<1>6. BootOK'
  BY <1>1, <1>3, IdleFrame DEF BootOK, IsFrame
<1>7. ClientsOK'
  BY <1>1, <1>3, IdleFrame DEF ClientsOK, ClientsOwned, IsFrame
<1>8. CredsOK'
  BY <1>1 DEF CredsOK
<1> QED BY <1>4, <1>5, <1>6, <1>7, <1>8 DEF BaseInv

LEMMA BaseInit ==
  ASSUME Init
  PROVE  BaseInv
<1>1. /\ up = "down" /\ crashes = 0 /\ calls = 0
      /\ nextID = 1 /\ rules = {} /\ conf = [i \in IDs |-> Nil]
      /\ creds = {} /\ next = 0 /\ used = {}
      /\ byRule = [i \in IDs |-> Nil]
      /\ clients = [k \in Creds |-> Nil] /\ cl = [c \in Cls |-> Nil]
      /\ frame = [p \in Procs |-> Idle]
      /\ known = [i \in IDs |-> Nil] /\ unsaved = {} /\ lost = {}
      /\ off = {} /\ raced = {}
  BY DEF Init
<1>2. rfile \in [IDs -> Confs \cup {Nil}] /\ cfile \in SUBSET Creds
  BY DisksAssumption DEF Init
<1>3. \A p \in Procs : frame[p] = Idle
  BY <1>1
<1>4. TypeOK
  <2>1. frame \in [Procs -> FrameRec]
    BY <1>1, IdleFrame DEF IsFrame
  <2>2. EngineType /\ ManagerType /\ StoreType /\ ProcessType /\ HistoryType
    BY <1>1, Numbers
    DEF EngineType, ManagerType, StoreType, ProcessType, HistoryType
  <2>3. FilesType
    BY <1>2 DEF FilesType
  <2> QED BY <2>1, <2>2, <2>3, TypeSplit
<1>5. \A p \in Procs : FrameOK(p)
  BY <1>3, IdleFrame DEF FrameOK, IsFrame, AddRemotePCs
<1>6. BootOK
  BY <1>1, <1>3, IdleFrame DEF BootOK, IsFrame
<1>7. ClientsOK
  BY <1>1, <1>3, IdleFrame DEF ClientsOK, ClientsOwned, IsFrame
<1>8. CredsOK
  BY <1>1 DEF CredsOK
<1> QED BY <1>4, <1>5, <1>6, <1>7, <1>8 DEF BaseInv

LEMMA BaseStutter ==
  ASSUME BaseInv, UNCHANGED vars
  PROVE  BaseInv'
<1>1. TypeOK'
  BY DEF BaseInv, TypeOK, vars, engine, manager, store, files, process, answers
<1>2. (\A q \in Procs : FrameOK(q))'
  BY DEF BaseInv, FrameOK, vars, engine
<1>3. BootOK'
  BY DEF BaseInv, BootOK, Saved, OnDisk, vars, engine, files, process
<1>4. ClientsOK' /\ CredsOK'
  BY DEF BaseInv, ClientsOK, ClientsOwned, CredsOK, vars, manager, store
<1> QED BY <1>1, <1>2, <1>3, <1>4 DEF BaseInv

LEMMA BaseStep ==
  ASSUME BaseInv, [Next]_vars
  PROVE  BaseInv'
<1>1. CASE UNCHANGED vars
  BY <1>1, BaseStutter
<1>2. CASE BootFails
  BY <1>2, BaseBootFails
<1>3. CASE Crash
  BY <1>3, BaseCrash
<1>4. ASSUME NEW p \in Procs, Boot(p) PROVE BaseInv'
  BY <1>4, BaseBoot
<1>5. ASSUME NEW p \in Procs, Step(p) PROVE BaseInv'
  BY <1>5, BaseRestoreRule, BaseRestoreEnd, BaseRegister, BaseEnsureClient,
     BaseStartClient, BaseUnavailable, BaseInsertClient, BaseClientAdd, BaseUnregister,
     BaseClientRemove, BaseListRules, BaseSave, BaseCutRule, BaseKillRule, BasePurgeCred,
     BaseShutdownClient, BaseStore
  DEF Step
<1>6. ASSUME NEW p \in Procs, Request(p) PROVE BaseInv'
  <2>1. Counted
    BY <1>6 DEF Request, Counted
  <2> QED BY <1>6, <2>1, BaseAddRule, BaseUpdateRule, BaseRemoveRule, BaseAddCred,
             BaseUpdateCred, BaseDeleteCred DEF Request
<1> QED BY <1>1, <1>2, <1>3, <1>4, <1>5, <1>6 DEF Next

-----------------------------------------------------------------------------
(* The stages of every request, the restart and the SSH clients' owners, in *)
(* every state the daemon can reach.                                        *)
THEOREM BaseInvariant == Spec => []BaseInv
<1>1. Init => BaseInv
  BY BaseInit
<1>2. BaseInv /\ [Next]_vars => BaseInv'
  BY BaseStep
<1> QED BY <1>1, <1>2, PTL DEF Spec

(* Every variable keeps its type; every rule's ID is below e.nextID.        *)
THEOREM TypeCorrect == Spec => []TypeOK
<1>1. BaseInv => TypeOK
  BY DEF BaseInv
<1> QED BY <1>1, BaseInvariant, PTL

(* The manager loses no SSH client (EnsureClient, InsertClient, PurgeCred): *)
(* one that runs is in m.clients, or the call that starts it or shuts it    *)
(* down still has it.                                                       *)
THEOREM NoClientLost == Spec => []ClientsOwned
<1>1. BaseInv => ClientsOwned
  BY DEF BaseInv, ClientsOK
<1> QED BY <1>1, BaseInvariant, PTL

LEMMA CredStep ==
  ASSUME BaseInv, [Next]_vars, next' # next, up = "up"
  PROVE  next' \notin used
<1>1. TypeOK /\ CredsOK
  BY DEF BaseInv
<1>2. CASE Crash
  <2>1. next' = 0
    BY <1>2 DEF Crash
  <2>2. 0 \notin used
    BY <1>1, Numbers DEF TypeOK, Creds
  <2> QED BY <2>1, <2>2
<1>3. ASSUME NEW p \in Procs, AddCred(p) PROVE next' \notin used
  <2>1. next' = next + 1 /\ next \in Nat
    BY <1>1, <1>3, Numbers DEF AddCred, TypeOK
  <2>2. ~(next + 1 <= next)
    BY <2>1
  <2> QED BY <1>1, <2>1, <2>2 DEF CredsOK
<1>4. CASE UNCHANGED vars
  BY <1>4 DEF vars, store
<1>5. ASSUME NEW p \in Procs, Step(p) PROVE FALSE
  BY <1>5 DEF Step, RestoreRule, RestoreEnd, Register, EnsureClient, StartClient,
     Unavailable, InsertClient, ClientAdd, Unregister, ClientRemove, ListRules,
     SaveRules, SaveRulesFails, CutRule, KillRule, PurgeCred, ShutdownClient, ForgetCred,
     SaveKey, store
<1>6. ASSUME NEW p \in Procs, Request(p), ~AddCred(p) PROVE FALSE
  BY <1>6 DEF Request, AddRule, UpdateRule, RemoveRule, UpdateCred, DeleteCred, store
<1>7. BootFails => FALSE
  BY DEF BootFails
<1>8. ASSUME NEW p \in Procs, Boot(p) PROVE FALSE
  BY <1>8 DEF Boot
<1> QED BY <1>2, <1>3, <1>4, <1>5, <1>6, <1>7, <1>8 DEF Next

(* Add of the credential store gives an ID that no credential had since the *)
(* daemon started, whatever was loaded, added or deleted before.            *)
THEOREM CredIDsNeverReused == Spec => CredIDsFresh
<1>1. BaseInv /\ [Next]_vars => [next' # next /\ up = "up" => next' \notin used]_vars
  BY CredStep
<1> QED BY <1>1, BaseInvariant, PTL DEF Spec, CredIDsFresh
-----------------------------------------------------------------------------
(* Each step preserves DurableInv.                                          *)
LEMMA AnswersKept ==
  ASSUME TypeOK, AnswersOpen, NEW p \in Procs, Kept(p),
         \A i \in IDs : known[i] = Nil => known'[i] = Nil,
         frame'[p].op # "boot" /\ frame'[p].id # Nil => known'[frame'[p].id] = Nil
  PROVE  AnswersOpen'
<1> SUFFICES ASSUME NEW q \in Procs, frame'[q].op # "boot", frame'[q].id # Nil
             PROVE  known'[frame'[q].id] = Nil
  BY DEF AnswersOpen
<1>1. CASE q = p
  BY <1>1
<1>2. CASE q # p
  <2>1. frame'[q].op = frame[q].op /\ frame'[q].id = frame[q].id
    BY <1>2 DEF Kept
  <2>2. frame[q].id \in IDs
    BY <2>1, Frames DEF FrameRec
  <2> QED BY <2>1, <2>2 DEF AnswersOpen
<1> QED BY <1>1, <1>2

LEMMA ListsKept ==
  ASSUME ListsRight, NEW p \in Procs, frame'[p].pc # "save",
         \/ Others(p) /\ rules' = rules
         \/ \E i \in IDs : Overtaken(p, i) /\ \A j \in IDs \ {i} : j \in rules' <=> j \in rules
  PROVE  ListsRight'
<1> SUFFICES ASSUME NEW q \in Procs, frame'[q].pc = "save", NEW j \in IDs \ frame'[q].late
             PROVE  j \in frame'[q].ids <=> j \in rules'
  BY DEF ListsRight
<1>1. q # p
  OBVIOUS
<1>2. CASE Others(p) /\ rules' = rules
  BY <1>1, <1>2 DEF ListsRight, Others
<1>3. ASSUME NEW i \in IDs, Overtaken(p, i), \A k \in IDs \ {i} : k \in rules' <=> k \in rules
      PROVE  j \in frame'[q].ids <=> j \in rules'
  <2>1. frame[q].pc = "save"
    BY <1>1, <1>3 DEF Overtaken
  <2>2. frame'[q].ids = frame[q].ids /\ frame'[q].late = frame[q].late \cup {i}
    BY <1>1, <1>3, <2>1 DEF Overtaken, IsFrame
  <2> QED BY <1>3, <2>1, <2>2 DEF ListsRight
<1> QED BY <1>2, <1>3

LEMMA DurableKept ==
  ASSUME Durable, rfile' = rfile, up' = up \/ up' # "up",
         \A i \in IDs \ lost' : known'[i] # Nil =>
           /\ i \notin lost /\ (i \notin unsaved' => i \notin unsaved)
           /\ known'[i] = known[i]
           /\ i \in rules' <=> i \in rules
           /\ conf'[i] = conf[i]
  PROVE  Durable'
BY DEF Durable, OnDisk

(* A step that changes no rule, no file and no answer.                      *)
LEMMA DurableSame ==
  ASSUME BaseInv, DurableInv, NEW p \in Procs, Others(p), Kept(p),
         UNCHANGED <<up, rfile, answers, rules, conf>>, frame'[p].pc # "save",
         \/ frame'[p].op = "boot" \/ frame'[p].id = Nil
         \/ frame[p].op # "boot" /\ frame'[p].id = frame[p].id
  PROVE  DurableInv'
<1>1. AnswersOpen'
  BY AnswersKept DEF BaseInv, DurableInv, AnswersOpen, answers
<1>2. ListsRight' /\ UnsavedUp'
  BY ListsKept DEF DurableInv, UnsavedUp, answers
<1>3. Durable'
  BY DurableKept DEF DurableInv, answers
<1> QED BY <1>1, <1>2, <1>3 DEF DurableInv

(* A request that begins to change rule i.                                  *)
LEMMA DurableBegin ==
  ASSUME BaseInv, DurableInv, NEW p \in Procs, Kept(p), NEW i \in IDs,
         Begin(p, i), UNCHANGED <<up, rfile>>,
         \A j \in IDs \ {i} : (j \in rules' <=> j \in rules) /\ conf'[j] = conf[j],
         \/ Others(p) /\ rules' = rules
         \/ Overtaken(p, i),
         frame'[p].pc # "save", frame'[p].id \in {Nil, i}
  PROVE  DurableInv'
<1>1. /\ known'[i] = Nil /\ \A j \in IDs \ {i} : known'[j] = known[j]
      /\ unsaved' = unsaved \ {i} /\ lost' = lost \ {i}
  BY DEF BaseInv, TypeOK, Begin
<1>2. AnswersOpen'
  BY <1>1, AnswersKept DEF BaseInv, DurableInv
<1>3. ListsRight' /\ UnsavedUp'
  BY <1>1, ListsKept DEF DurableInv, UnsavedUp
<1>4. Durable'
  <2>1. \A j \in IDs : known'[j] # Nil => j # i
    BY <1>1
  <2> QED BY <1>1, <2>1, DurableKept DEF DurableInv
<1> QED BY <1>2, <1>3, <1>4 DEF DurableInv

LEMMA DurableRestoreRule ==
  ASSUME BaseInv, DurableInv, NEW p \in Procs, RestoreRule(p)
  PROVE  DurableInv'
<1> DEFINE i == Min(frame[p].ids)
           f == frame[p]
<1>1. TypeOK /\ BootOK /\ FrameOK(p)
  BY BaseParts
<1>2. /\ f.op = "boot" /\ Others(p) /\ Kept(p)
      /\ \/ Moved(p, "boot", "register", i, rfile[i], f.cl, f.ids \ {i}, f.late)
         \/ Moved(p, "boot", "restore", f.id, f.conf, f.cl, f.ids \ {i}, f.late)
  BY <1>1, RestoreRuleMoves
<1> HIDE DEF i
<1>3. UNCHANGED <<process, files, store, manager, answers, off, raced>>
  BY DEF RestoreRule
<1>4. /\ up' = "boot" /\ frame'[p].op = "boot"
      /\ \A q \in Procs \ {p} : frame'[q] = Idle
  BY <1>1, <1>2, <1>3 DEF BootOK, Others, Moved, IsFrame, process
<1>5. AnswersOpen'
  BY <1>1, <1>2, <1>3, <1>4, AnswersKept DEF DurableInv, answers
<1>6. ListsRight'
  <2>1. \A q \in Procs : frame'[q].pc # "save"
    BY <1>2, <1>4, IdleFrame DEF Moved, IsFrame
  <2> QED BY <2>1 DEF ListsRight
<1>7. UnsavedUp' /\ Durable'
  BY <1>3, <1>4 DEF DurableInv, UnsavedUp, Durable, OnDisk, answers, process, files
<1> QED BY <1>5, <1>6, <1>7 DEF DurableInv

LEMMA DurableRestoreEnd ==
  ASSUME BaseInv, DurableInv, NEW p \in Procs, RestoreEnd(p)
  PROVE  DurableInv'
<1>1. TypeOK /\ BootOK /\ FrameOK(p) /\ frame[p] \in FrameRec
  BY BaseParts
<1>2. /\ Moved(p, "none", "idle", Nil, Nil, Nil, {}, {})
      /\ Others(p) /\ Kept(p)
  BY <1>1, RestoreEndMoves
<1>3. /\ frame[p].pc = "restore" /\ frame[p].ids = {}
      /\ UNCHANGED <<crashes, calls, files, engine, manager, store, answers, off, raced>>
  BY DEF RestoreEnd
<1>4. frame[p].op = "boot"
  BY <1>1, <1>3 DEF FrameOK, FrameRec, Ops, AddRemotePCs
<1>5. rules = Saved /\ \A i \in rules : conf[i] = rfile[i]
  BY <1>1, <1>3, <1>4 DEF BootOK
<1>9. up = "boot" /\ unsaved = {} /\ unsaved' = {}
  BY <1>1, <1>3, <1>4 DEF BootOK, DurableInv, UnsavedUp, answers
<1>6. Durable'
  <2>1. \A i \in IDs \ lost : known[i] # Nil =>
          OnDisk(i) = (IF known[i] = Gone THEN Nil ELSE known[i])
    BY <1>9 DEF DurableInv, UnsavedUp, Durable
  <2>2. \A i \in IDs \ lost : known[i] # Nil =>
          /\ i \in rules <=> known[i] # Gone
          /\ i \in rules => conf[i] = known[i]
    BY <1>5, <2>1, Numbers DEF Saved, OnDisk
  <2> QED BY <1>3, <2>1, <2>2 DEF Durable, OnDisk, files, engine, answers
<1>7. AnswersOpen'
  BY <1>1, <1>2, <1>3, AnswersKept DEF answers, DurableInv, Moved, IsFrame
<1>8. ListsRight'
  BY <1>2, <1>3, ListsKept DEF DurableInv, Moved, IsFrame, engine
<1> QED BY <1>6, <1>7, <1>8, <1>9 DEF DurableInv, UnsavedUp

(* The stages of AddRemote, and the requests about credentials.             *)
LEMMA DurableAddRemote ==
  ASSUME BaseInv, DurableInv, NEW p \in Procs,
         \/ Register(p) \/ EnsureClient(p) \/ StartClient(p) \/ Unavailable(p)
         \/ InsertClient(p) \/ ClientAdd(p) \/ Unregister(p)
         \/ PurgeCred(p) \/ ShutdownClient(p)
  PROVE  DurableInv'
<1>1. TypeOK /\ FrameOK(p) /\ frame[p] \in FrameRec
  BY BaseParts
<1>2. /\ frame'[p].pc # "save" /\ Others(p) /\ Kept(p)
      /\ \/ frame'[p].op = "boot"
         \/ frame'[p].op = frame[p].op /\ frame'[p].id = frame[p].id
  <2>1. CASE Register(p)
    BY <1>1, <2>1, RegisterMoves DEF Moved, IsFrame
  <2>2. CASE EnsureClient(p)
    BY <1>1, <2>2, EnsureClientMoves DEF Moved, IsFrame
  <2>3. CASE StartClient(p)
    BY <1>1, <2>3, StartClientMoves DEF Moved, IsFrame
  <2>4. CASE Unavailable(p)
    BY <1>1, <2>4, UnavailableMoves DEF Moved, IsFrame
  <2>5. CASE InsertClient(p)
    BY <1>1, <2>5, InsertClientMoves DEF Moved, IsFrame
  <2>6. CASE ClientAdd(p)
    BY <1>1, <2>6, ClientAddMoves DEF Moved, IsFrame
  <2>7. CASE Unregister(p)
    BY <1>1, <2>7, UnregisterMoves DEF Moved, IsFrame
  <2>8. CASE PurgeCred(p)
    BY <1>1, <2>8, PurgeCredMoves DEF Moved, IsFrame
  <2>9. CASE ShutdownClient(p)
    BY <1>1, <2>9, ShutdownClientMoves DEF Moved, IsFrame
  <2> QED BY <2>1, <2>2, <2>3, <2>4, <2>5, <2>6, <2>7, <2>8, <2>9
<1>3. UNCHANGED <<up, rfile, answers, rules, conf>>
  BY DEF Register, EnsureClient, StartClient, Unavailable, InsertClient, ClientAdd,
         Unregister, PurgeCred, ShutdownClient, process, files, engine
<1> QED BY <1>2, <1>3, DurableSame

LEMMA DurableCreds ==
  ASSUME BaseInv, DurableInv, NEW p \in Procs,
         \/ ForgetCred(p) \/ SaveKey(p)
         \/ Counted /\ (\/ AddCred(p)
                        \/ \E k \in Creds : UpdateCred(p, k) \/ DeleteCred(p, k))
  PROVE  DurableInv'
<1>1. TypeOK
  BY BaseParts
<1>2. frame'[p].pc # "save" /\ frame'[p].id = Nil /\ Others(p) /\ Kept(p)
  <2>1. CASE ForgetCred(p) \/ SaveKey(p)
    BY <1>1, <2>1, StoreMoves DEF Moved, IsFrame
  <2>2. CASE Counted /\ AddCred(p)
    BY <1>1, <2>2, AddCredMoves DEF Moved, IsFrame
  <2>3. CASE Counted /\ \E k \in Creds : UpdateCred(p, k)
    BY <1>1, <2>3, UpdateCredMoves DEF Moved, IsFrame
  <2>4. CASE Counted /\ \E k \in Creds : DeleteCred(p, k)
    BY <1>1, <2>4, DeleteCredMoves DEF Moved, IsFrame
  <2> QED BY <2>1, <2>2, <2>3, <2>4
<1>3. UNCHANGED <<up, rfile, answers, rules, conf>>
  BY DEF ForgetCred, SaveKey, AddCred, UpdateCred, DeleteCred, process, files, engine
<1> QED BY <1>2, <1>3, DurableSame

LEMMA DurableClientRemove ==
  ASSUME BaseInv, DurableInv, NEW p \in Procs, ClientRemove(p)
  PROVE  DurableInv'
<1> DEFINE f == frame[p]
<1>1. TypeOK /\ FrameOK(p)
  BY BaseParts
<1>2. /\ \/ /\ f.op = "update" /\ UNCHANGED rules
            /\ Moved(p, f.op, "register", f.id, conf[f.id], Nil, f.ids, f.late)
            /\ Others(p)
         \/ /\ f.op = "delete" /\ rules' = rules \ {f.id}
            /\ Moved(p, f.op, "list", f.id, f.conf, Nil, f.ids, f.late)
            /\ Overtaken(p, f.id)
         \/ /\ f.op = "delcred" /\ rules' = rules \ {f.id}
            /\ Moved(p, f.op, "cut", Nil, f.conf, Nil, f.ids, f.late)
            /\ Overtaken(p, f.id)
      /\ Kept(p)
  BY <1>1, ClientRemoveMoves
<1>3. /\ f.pc = "remove"
      /\ UNCHANGED <<process, files, nextID, conf, store, byRule, clients,
                     answers, off, raced>>
  BY DEF ClientRemove
<1>4. f.id \in IDs /\ f.id # Nil
  BY <1>1, <1>3, Numbers DEF FrameOK
<1>5. f.op # "boot" /\ known[f.id] = Nil
  BY <1>2, <1>4 DEF DurableInv, AnswersOpen
<1>6. frame'[p].pc # "save" /\ frame'[p].id \in {f.id, Nil}
  BY <1>2 DEF Moved, IsFrame
<1>7. AnswersOpen'
  BY <1>1, <1>2, <1>3, <1>5, <1>6, AnswersKept DEF answers, DurableInv
<1>8. ListsRight'
  BY <1>2, <1>4, <1>6, ListsKept DEF DurableInv
<1>9. Durable'
  <2>1. \A j \in IDs : known'[j] # Nil => j # f.id /\ (j \in rules' <=> j \in rules)
    BY <1>2, <1>3, <1>5 DEF answers
  <2> QED BY <1>3, <2>1, DurableKept DEF DurableInv, files, process, answers
<1>10. UnsavedUp'
  BY <1>3 DEF DurableInv, UnsavedUp, process, answers
<1> QED BY <1>7, <1>8, <1>9, <1>10 DEF DurableInv

LEMMA DurableListRules ==
  ASSUME BaseInv, DurableInv, NEW p \in Procs, ListRules(p)
  PROVE  DurableInv'
<1> DEFINE f == frame[p]
<1>1. TypeOK /\ FrameOK(p)
  BY BaseParts
<1>2. Moved(p, f.op, "save", f.id, f.conf, f.cl, rules, f.late) /\ Others(p) /\ Kept(p)
  BY <1>1, ListRulesMoves
<1>3. UNCHANGED <<process, files, engine, store, manager, answers, off, raced>>
  BY DEF ListRules
<1>4. AnswersOpen'
  BY <1>1, <1>2, <1>3, AnswersKept DEF answers, DurableInv, AnswersOpen, Moved, IsFrame
<1>5. ListsRight'
  <2>1. frame'[p].ids = rules /\ rules' = rules
    BY <1>2, <1>3 DEF Moved, IsFrame, engine
  <2>2. \A q \in Procs \ {p} : frame'[q] = frame[q]
    BY <1>2 DEF Others
  <2> QED BY <2>1, <2>2 DEF DurableInv, ListsRight
<1>6. Durable'
  BY <1>3, DurableKept DEF DurableInv, files, process, engine, answers
<1>7. UnsavedUp'
  BY <1>3 DEF DurableInv, UnsavedUp, process, answers
<1> QED BY <1>4, <1>5, <1>6, <1>7 DEF DurableInv

(* What p's request tells the user: nothing new but of its own rule, which  *)
(* nobody else changes, and of that what the engine says.                   *)
LEMMA ToldRight ==
  ASSUME BaseInv, DurableInv, NEW p \in Procs, frame[p].pc = "save"
  PROVE  /\ up = "up" /\ frame[p].id \in IDs
         /\ \A i \in IDs \ {frame[p].id} : Told(p)[i] = known[i]
         /\ \A q \in Procs \ {p} :
              frame[q].op # "boot" /\ frame[q].id # Nil => Told(p)[frame[q].id] = Nil
         /\ \A i \in IDs \ lost : Told(p)[i] # Nil =>
              /\ i \in rules <=> Told(p)[i] # Gone
              /\ i \in rules => conf[i] = Told(p)[i]
<1> DEFINE f == frame[p]
<1>1. TypeOK /\ FrameOK(p) /\ f \in FrameRec
  BY BaseParts
<1>2. up = "up"
  <2>1. f.op \in {"create", "update", "delete"}
    BY <1>1 DEF FrameOK, FrameRec, Ops, AddRemotePCs
  <2> QED BY <2>1, Serving
<1>3. f.id \in IDs
  BY <1>1 DEF FrameOK
<1>4. /\ \A i \in IDs \ {f.id} : Told(p)[i] = known[i]
      /\ Told(p)[f.id] =
           IF f.id \in f.late \/ \E q \in Procs \ {p} : frame[q].id = f.id THEN Nil
           ELSE IF f.id \in f.ids THEN conf[f.id] ELSE Gone
  BY <1>1, <1>3 DEF Told, TypeOK
<1>5. ASSUME NEW q \in Procs \ {p}, frame[q].op # "boot", frame[q].id # Nil
      PROVE  Told(p)[frame[q].id] = Nil
  <2>1. frame[q].id \in IDs /\ known[frame[q].id] = Nil
    BY <1>1, <1>5, Frames DEF FrameRec, DurableInv, AnswersOpen
  <2> QED BY <1>4, <2>1
<1>6. ASSUME NEW i \in IDs \ lost, Told(p)[i] # Nil
      PROVE  /\ i \in rules <=> Told(p)[i] # Gone
             /\ i \in rules => conf[i] = Told(p)[i]
  <2>1. conf[i] # Gone
    BY <1>1, Numbers DEF TypeOK
  <2>2. CASE i = f.id
    <3>1. i \notin f.late /\ Told(p)[i] = IF i \in f.ids THEN conf[i] ELSE Gone
      BY <1>4, <1>6, <2>2
    <3>2. i \in f.ids <=> i \in rules
      BY <3>1 DEF DurableInv, ListsRight
    <3> QED BY <2>1, <3>1, <3>2
  <2>3. CASE i # f.id
    BY <1>2, <1>4, <1>6, <2>3 DEF DurableInv, Durable
  <2> QED BY <2>2, <2>3
<1> QED BY <1>2, <1>3, <1>4, <1>5, <1>6

(* The file says what the user is told once it is written: the list p made  *)
(* is right for every rule that is not late.                                *)
LEMMA DurableSaveRules ==
  ASSUME BaseInv, DurableInv, NEW p \in Procs, SaveRules(p)
  PROVE  DurableInv'
<1> DEFINE f == frame[p]
<1>1. TypeOK /\ FrameOK(p)
  BY BaseParts
<1>2. Moved(p, "none", "idle", Nil, Nil, Nil, {}, {}) /\ Others(p) /\ Kept(p)
  BY <1>1, SaveMoves
<1>3. /\ f.pc = "save" /\ rfile' = Persisted(f.ids) /\ unsaved' = {}
      /\ UNCHANGED <<process, cfile, engine, store, manager, lost, off, raced>>
  BY DEF SaveRules
<1>4. \A i \in IDs : known'[i] = IF i \in f.late THEN Nil ELSE Told(p)[i]
  BY DEF SaveRules
<1>5. AnswersOpen'
  <2> SUFFICES ASSUME NEW q \in Procs, frame'[q].op # "boot", frame'[q].id # Nil
               PROVE  known'[frame'[q].id] = Nil
    BY DEF AnswersOpen
  <2>1. q # p
    BY <1>2 DEF Moved, IsFrame
  <2>2. frame'[q] = frame[q] /\ frame[q].id \in IDs
    BY <1>1, <1>2, <2>1, Frames DEF Others, FrameRec
  <2> QED BY <1>3, <1>4, <2>1, <2>2, ToldRight
<1>6. ListsRight' /\ UnsavedUp'
  BY <1>2, <1>3, ListsKept DEF DurableInv, UnsavedUp, Moved, IsFrame, engine
<1>7. Durable'
  <2>1. rfile' # Torn
    BY <1>1, <1>3, PersistedTyped, TornAssumption
  <2>2. \A i \in IDs : OnDisk(i)' = IF i \in f.ids THEN conf[i] ELSE Nil
    BY <1>3, <2>1 DEF Persisted, OnDisk
  <2>3. \A i \in IDs : i \notin f.late => (i \in f.ids <=> i \in rules)
    BY <1>3 DEF DurableInv, ListsRight
  <2>4. rules' = rules /\ conf' = conf /\ lost' = lost
    BY <1>3 DEF engine
  <2> SUFFICES ASSUME NEW i \in IDs \ lost, known'[i] # Nil
               PROVE  /\ OnDisk(i)' = (IF known'[i] = Gone THEN Nil ELSE known'[i])
                      /\ i \in rules <=> known'[i] # Gone
                      /\ i \in rules => conf[i] = known'[i]
    BY <2>4 DEF Durable
  <2>5. i \notin f.late /\ known'[i] = Told(p)[i]
    BY <1>4
  <2>6. /\ i \in rules <=> Told(p)[i] # Gone
        /\ i \in rules => conf[i] = Told(p)[i]
    BY <1>3, <2>5, ToldRight
  <2> QED BY <2>2, <2>3, <2>5, <2>6
<1> QED BY <1>5, <1>6, <1>7 DEF DurableInv

LEMMA DurableSaveFails ==
  ASSUME BaseInv, DurableInv, NEW p \in Procs, SaveRulesFails(p)
  PROVE  DurableInv'
<1> DEFINE f == frame[p]
<1>1. TypeOK /\ FrameOK(p)
  BY BaseParts
<1>2. Moved(p, "none", "idle", Nil, Nil, Nil, {}, {}) /\ Others(p) /\ Kept(p)
  BY <1>1, SaveMoves
<1>3. /\ f.pc = "save" /\ known' = Told(p)
      /\ \/ UNCHANGED rfile /\ unsaved' = unsaved \cup {f.id}
         \/ rfile' = Torn /\ unsaved' = {i \in IDs : known'[i] \notin {Nil, Gone}}
      /\ UNCHANGED <<process, cfile, engine, store, manager, lost, off, raced>>
  BY DEF SaveRulesFails
<1>4. AnswersOpen'
  <2> SUFFICES ASSUME NEW q \in Procs, frame'[q].op # "boot", frame'[q].id # Nil
               PROVE  known'[frame'[q].id] = Nil
    BY DEF AnswersOpen
  <2>1. q # p
    BY <1>2 DEF Moved, IsFrame
  <2>2. frame'[q] = frame[q]
    BY <1>2, <2>1 DEF Others
  <2> QED BY <1>3, <2>1, <2>2, ToldRight
<1>5. ListsRight' /\ UnsavedUp'
  BY <1>2, <1>3, ListsKept, ToldRight
  DEF DurableInv, UnsavedUp, Moved, IsFrame, engine, process
<1>6. Durable'
  <2>1. rules' = rules /\ conf' = conf /\ lost' = lost
    BY <1>3 DEF engine
  <2> SUFFICES ASSUME NEW i \in IDs \ lost, known'[i] # Nil
               PROVE  /\ i \notin unsaved' =>
                           OnDisk(i)' = (IF known'[i] = Gone THEN Nil ELSE known'[i])
                      /\ i \in rules <=> known'[i] # Gone
                      /\ i \in rules => conf[i] = known'[i]
    BY <2>1 DEF Durable
  <2>2. /\ i \in rules <=> known'[i] # Gone
        /\ i \in rules => conf[i] = known'[i]
    BY <1>3, ToldRight
  <2>3. ASSUME i \notin unsaved', UNCHANGED rfile, unsaved' = unsaved \cup {f.id}
        PROVE  OnDisk(i)' = (IF known'[i] = Gone THEN Nil ELSE known'[i])
    <3>1. i # f.id /\ i \notin unsaved
      BY <2>3
    <3>2. known'[i] = known[i] /\ OnDisk(i)' = OnDisk(i)
      BY <1>3, <2>3, <3>1, ToldRight DEF OnDisk
    <3> QED BY <3>1, <3>2 DEF DurableInv, Durable
  <2>4. ASSUME i \notin unsaved', rfile' = Torn,
               unsaved' = {j \in IDs : known'[j] \notin {Nil, Gone}}
        PROVE  OnDisk(i)' = (IF known'[i] = Gone THEN Nil ELSE known'[i])
    BY <2>4 DEF OnDisk
  <2> QED BY <1>3, <2>2, <2>3, <2>4
<1> QED BY <1>4, <1>5, <1>6 DEF DurableInv

LEMMA DurableCutRule ==
  ASSUME BaseInv, DurableInv, NEW p \in Procs, CutRule(p)
  PROVE  DurableInv'
<1>1. TypeOK /\ FrameOK(p) /\ frame[p] \in FrameRec
  BY BaseParts
<1>2. /\ frame'[p].pc # "save" /\ frame'[p].op = frame[p].op
      /\ frame'[p].id = frame[p].id /\ Others(p) /\ Kept(p)
  BY <1>1, CutRuleMoves DEF Moved, IsFrame
<1>3. /\ frame[p].pc = "cut"
      /\ UNCHANGED <<process, files, engine, store, manager, answers, off, raced>>
  BY DEF CutRule
<1>4. frame[p].op = "delcred"
  BY <1>1, <1>3 DEF FrameOK, FrameRec, Ops, AddRemotePCs
<1> QED BY <1>2, <1>3, <1>4, DurableSame DEF process, files, engine

LEMMA DurableKillRule ==
  ASSUME BaseInv, DurableInv, NEW p \in Procs, KillRule(p)
  PROVE  DurableInv'
<1> DEFINE i == Min(frame[p].ids)
           f == frame[p]
<1>1. TypeOK /\ FrameOK(p) /\ f \in FrameRec
  BY BaseParts
<1>2. /\ i \in IDs
      /\ \/ /\ i \in rules /\ Begin(p, i)
            /\ Moved(p, f.op, "unregister", i, f.conf, f.cl, f.ids \ {i}, f.late)
         \/ /\ i \notin rules /\ UNCHANGED <<answers, raced>>
            /\ Moved(p, f.op, "cut", f.id, f.conf, f.cl, f.ids \ {i}, f.late)
      /\ Others(p) /\ Kept(p)
  BY <1>1, KillRuleMoves
<1> HIDE DEF i
<1>3. f.pc = "kill" /\ UNCHANGED <<process, files, engine, store, manager, off>>
  BY DEF KillRule
<1>4. f.op = "delcred"
  BY <1>1, <1>3 DEF FrameOK, FrameRec, Ops, AddRemotePCs
<1>5. CASE i \in rules
  <2>1. Begin(p, i) /\ frame'[p].pc = "unregister" /\ frame'[p].id = i
    BY <1>2, <1>5 DEF Moved, IsFrame
  <2> QED BY <1>2, <1>3, <2>1, DurableBegin DEF process, files, engine
<1>6. CASE i \notin rules
  <2>1. UNCHANGED answers /\ frame'[p].pc = "cut" /\ frame'[p].id = f.id
    BY <1>2, <1>6 DEF Moved, IsFrame
  <2> QED BY <1>2, <1>3, <1>4, <2>1, DurableSame DEF process, files, engine
<1> QED BY <1>5, <1>6

LEMMA DurableAddRule ==
  ASSUME BaseInv, DurableInv, Counted, NEW p \in Procs, NEW v \in Confs, AddRule(p, v)
  PROVE  DurableInv'
<1>1. TypeOK
  BY BaseParts
<1>2. /\ nextID \in IDs /\ Overtaken(p, nextID) /\ Kept(p)
      /\ frame'[p].pc # "save" /\ frame'[p].id \in {Nil, nextID}
  BY <1>1, AddRuleMoves DEF Moved, IsFrame
<1>3. /\ rules' = rules \cup {nextID} /\ conf' = [conf EXCEPT ![nextID] = v]
      /\ Begin(p, nextID)
      /\ UNCHANGED <<up, crashes, files, store, manager, off>>
  BY DEF AddRule
<1>4. \A j \in IDs \ {nextID} : (j \in rules' <=> j \in rules) /\ conf'[j] = conf[j]
  BY <1>1, <1>3 DEF TypeOK
<1> QED BY <1>2, <1>3, <1>4, DurableBegin DEF files

LEMMA DurableUpdateRule ==
  ASSUME BaseInv, DurableInv, Counted, NEW p \in Procs, NEW i \in IDs, NEW v \in Confs,
         UpdateRule(p, i, v)
  PROVE  DurableInv'
<1>1. TypeOK
  BY BaseParts
<1>2. /\ Others(p) /\ Kept(p)
      /\ frame'[p].pc # "save" /\ frame'[p].id \in {Nil, i}
  BY <1>1, UpdateRuleMoves DEF Moved, IsFrame
<1>3. /\ conf' = [conf EXCEPT ![i] = v] /\ Begin(p, i)
      /\ UNCHANGED <<up, crashes, files, nextID, rules, store, manager, off>>
  BY DEF UpdateRule
<1>4. \A j \in IDs \ {i} : (j \in rules' <=> j \in rules) /\ conf'[j] = conf[j]
  BY <1>1, <1>3 DEF TypeOK
<1> QED BY <1>2, <1>3, <1>4, DurableBegin DEF files

LEMMA DurableRemoveRule ==
  ASSUME BaseInv, DurableInv, Counted, NEW p \in Procs, NEW i \in IDs, RemoveRule(p, i)
  PROVE  DurableInv'
<1>1. TypeOK
  BY BaseParts
<1>2. /\ \/ UNCHANGED rules /\ Others(p)
         \/ rules' = rules \ {i} /\ Overtaken(p, i)
      /\ Kept(p) /\ frame'[p].pc # "save" /\ frame'[p].id = i
  BY <1>1, RemoveRuleMoves DEF Moved, IsFrame
<1>3. /\ Begin(p, i)
      /\ UNCHANGED <<up, crashes, files, nextID, conf, store, manager, off>>
  BY DEF RemoveRule
<1>4. \A j \in IDs \ {i} : (j \in rules' <=> j \in rules) /\ conf'[j] = conf[j]
  BY <1>2, <1>3
<1> QED BY <1>2, <1>3, <1>4, DurableBegin DEF files

LEMMA DurableBoot ==
  ASSUME BaseInv, DurableInv, NEW p \in Procs, Boot(p)
  PROVE  DurableInv'
<1>1. TypeOK
  BY BaseParts
<1>2. /\ Others(p) /\ Kept(p)
      /\ frame'[p].pc # "save" /\ frame'[p].id = Nil
  BY <1>1, BootMoves DEF Moved, IsFrame
<1>3. /\ up = "down" /\ up' = "boot"
      /\ UNCHANGED <<crashes, calls, files, engine, manager, answers, off, raced>>
  BY DEF Boot
<1>4. AnswersOpen'
  BY <1>1, <1>2, <1>3, AnswersKept DEF DurableInv, answers
<1>5. ListsRight'
  BY <1>2, <1>3, ListsKept DEF DurableInv, engine
<1>6. Durable'
  BY <1>3, DurableKept DEF DurableInv, files, engine, answers
<1>7. UnsavedUp'
  BY <1>3 DEF DurableInv, UnsavedUp, answers
<1> QED BY <1>4, <1>5, <1>6, <1>7 DEF DurableInv

(* A crash forgets the requests; what is known is in the file, or lost.     *)
LEMMA DurableCrash ==
  ASSUME BaseInv, DurableInv, Crash
  PROVE  DurableInv'
<1>1. /\ up' = "down" /\ known' = known /\ unsaved' = {}
      /\ \A p \in Procs : frame'[p] = Idle
  BY DEF Crash
<1>2. \/ UNCHANGED rfile /\ lost' = lost \cup unsaved
      \/ rfile' = Torn /\ lost' = lost \cup {i \in IDs : known[i] \notin {Nil, Gone}}
  BY DEF Crash, files
<1>3. AnswersOpen' /\ ListsRight' /\ UnsavedUp'
  BY <1>1, IdleFrame DEF AnswersOpen, ListsRight, UnsavedUp, IsFrame
<1>4. Durable'
  <2>1. CASE UNCHANGED rfile /\ lost' = lost \cup unsaved
    BY <1>1, <2>1 DEF DurableInv, Durable, OnDisk
  <2>2. CASE rfile' = Torn /\ lost' = lost \cup {i \in IDs : known[i] \notin {Nil, Gone}}
    BY <1>1, <2>2 DEF Durable, OnDisk
  <2> QED BY <1>2, <2>1, <2>2
<1> QED BY <1>3, <1>4 DEF DurableInv

LEMMA DurableStep ==
  ASSUME BaseInv, DurableInv, [Next]_vars
  PROVE  DurableInv'
<1>1. CASE UNCHANGED vars
  BY <1>1 DEF DurableInv, AnswersOpen, ListsRight, UnsavedUp, Durable, OnDisk, vars,
              process, engine, files, answers
<1>2. CASE BootFails
  <2>1. /\ up = "down" /\ up' = "exited"
        /\ UNCHANGED <<crashes, calls, files, engine, manager, store, frame, answers, off, raced>>
    BY <1>2 DEF BootFails
  <2> QED BY <2>1 DEF DurableInv, AnswersOpen, ListsRight, UnsavedUp, Durable, OnDisk,
                      engine, files, answers
<1>3. CASE Crash
  BY <1>3, DurableCrash
<1>4. ASSUME NEW p \in Procs, Boot(p) PROVE DurableInv'
  BY <1>4, DurableBoot
<1>5. ASSUME NEW p \in Procs, Step(p) PROVE DurableInv'
  BY <1>5, DurableRestoreRule, DurableRestoreEnd, DurableAddRemote, DurableClientRemove,
     DurableListRules, DurableSaveRules, DurableSaveFails, DurableCutRule,
     DurableKillRule, DurableCreds
  DEF Step
<1>6. ASSUME NEW p \in Procs, Request(p) PROVE DurableInv'
  <2>1. Counted
    BY <1>6 DEF Request, Counted
  <2> QED BY <1>6, <2>1, DurableAddRule, DurableUpdateRule, DurableRemoveRule,
             DurableCreds DEF Request
<1> QED BY <1>1, <1>2, <1>3, <1>4, <1>5, <1>6 DEF Next

-----------------------------------------------------------------------------
(* The user knows nothing of a rule in the middle of a change, and a list   *)
(* that waits to be written is wrong only about rules that are late.        *)
THEOREM DurableInvariant == Spec => []DurableInv
<1>1. Init => DurableInv
  <2> SUFFICES ASSUME Init PROVE DurableInv
    OBVIOUS
  <2>1. /\ \A p \in Procs : frame[p] = Idle
        /\ known = [i \in IDs |-> Nil] /\ unsaved = {}
    BY DEF Init
  <2> QED BY <2>1, IdleFrame 
             DEF DurableInv, AnswersOpen, ListsRight, UnsavedUp, Durable, IsFrame
<1>2. BaseInv /\ DurableInv /\ [Next]_vars => DurableInv'
  BY DurableStep
<1> QED BY <1>1, <1>2, BaseInvariant, PTL DEF Spec

(* What a handler has answered stays true of the engine while the daemon    *)
(* serves, whether saveRules could write or not, and of rules.json but for  *)
(* what a failed write left unsaved, through every other request, every     *)
(* crash and every restart; the write that succeeds next leaves nothing     *)
(* unsaved.                                                                 *)
THEOREM AnswersAreDurable == Spec => []Durable
<1>1. DurableInv => Durable
  BY DEF DurableInv
<1> QED BY <1>1, DurableInvariant, PTL
-----------------------------------------------------------------------------
(* Each step preserves ForwardInv.  Most steps work on one rule, or on none *)
(* at all: the others keep their clients and the requests that change them. *)
ClientsStay == \A k \in Creds : clients[k] # Nil => clients'[k] = clients[k]

SameRule(j) ==
  /\ Live(j)' = Live(j)
  /\ j \in rules' <=> j \in rules
  /\ j \in off' <=> j \in off
  /\ conf'[j] = conf[j] /\ byRule'[j] = byRule[j]

LEMMA WorkingKept ==
  ASSUME NEW p \in Procs, Kept(p), NEW q \in Procs \ {p}, NEW j
  PROVE  Working(q, j)' <=> Working(q, j)
BY DEF Kept, Working

LEMMA LiveSame ==
  ASSUME NEW p \in Procs, Kept(p), NEW j,
         frame[p].pc # "shutdown", frame'[p].pc # "shutdown",
         \A c \in Cls : Has(c, j)' <=> Has(c, j)
  PROVE  Live(j)' = Live(j)
<1>1. \A c \in Cls : Doomed(c)' <=> Doomed(c)
  BY DEF Kept, Doomed
<1> QED BY <1>1 DEF Live

LEMMA ChangingKept ==
  ASSUME BaseInv, NEW j \in IDs, NEW p \in Procs, Kept(p), NEW q \in Procs \ {p},
         Working(q, j), Changing(q, j), SameRule(j), ClientsStay
  PROVE  Changing(q, j)'
<1>1. TypeOK /\ FrameOK(q)
  BY BaseParts
<1>2. /\ frame'[q].op = frame[q].op /\ frame'[q].pc = frame[q].pc
      /\ frame'[q].conf = frame[q].conf /\ frame'[q].cl = frame[q].cl
  BY DEF Kept
<1>3. /\ Live(j)' = Live(j) /\ conf'[j] = conf[j] /\ byRule'[j] = byRule[j]
      /\ j \in rules' <=> j \in rules
  BY DEF SameRule
<1>4. frame[q].pc = "unregister" => Live(j) \subseteq {RuleClient(j)'}
  <2> SUFFICES ASSUME frame[q].pc = "unregister" PROVE Live(j) \subseteq {RuleClient(j)'}
    OBVIOUS
  <2>1. Live(j) \subseteq {RuleClient(j)} /\ Nil \notin Live(j)
    BY Numbers DEF Changing, Live
  <2>2. CASE RuleClient(j) = Nil
    BY <2>1, <2>2
  <2>3. CASE RuleClient(j) # Nil
    <3>1. byRule[j] \in Creds /\ clients[byRule[j]] # Nil /\ RuleClient(j) = clients[byRule[j]]
      BY <1>1, <2>3 DEF RuleClient, TypeOK
    <3>2. RuleClient(j)' = clients[byRule[j]]
      BY <1>3, <3>1, Numbers DEF RuleClient, ClientsStay
    <3> QED BY <2>1, <3>1, <3>2
  <2> QED BY <2>2, <2>3
<1>5. frame[q].pc = "add" => clients'[frame[q].conf] = frame[q].cl
  <2> SUFFICES ASSUME frame[q].pc = "add" PROVE clients'[frame[q].conf] = frame[q].cl
    OBVIOUS
  <2>1. clients[frame[q].conf] = frame[q].cl /\ frame[q].cl \in Cls /\ frame[q].conf \in Creds
    BY <1>1 DEF Changing, FrameOK, AddRemotePCs
  <2> QED BY <2>1, Numbers DEF ClientsStay
<1> QED BY <1>2, <1>3, <1>4, <1>5 DEF Changing

LEMMA SettledKept ==
  ASSUME NEW j \in IDs, Settled(j), SameRule(j), ClientsStay
  PROVE  Settled(j)'
<1>1. Remote(j)' <=> Remote(j)
  BY DEF Remote, SameRule
<1>2. CASE j \in rules /\ Remote(j) /\ j \notin off
  <2>1. byRule[j] = conf[j] /\ clients[conf[j]] # Nil /\ Live(j) = {clients[conf[j]]}
    BY <1>2 DEF Settled
  <2>2. clients'[conf[j]] = clients[conf[j]]
    BY <1>2, <2>1 DEF ClientsStay, Remote
  <2> QED BY <1>1, <1>2, <2>1, <2>2 DEF Settled, SameRule
<1>3. CASE ~(j \in rules /\ Remote(j) /\ j \notin off)
  BY <1>1, <1>3 DEF Settled, SameRule
<1> QED BY <1>2, <1>3

(* A rule p does not work on.                                               *)
LEMMA RuleKept ==
  ASSUME BaseInv, NEW j \in IDs, RuleOK(j), NEW p \in Procs, Kept(p),
         ~Working(p, j), ~Working(p, j)', SameRule(j), ClientsStay
  PROVE  RuleOK(j)'
<1>1. \A q \in Procs : Working(q, j)' <=> Working(q, j)
  BY WorkingKept
<1>2. \A q \in Procs : Working(q, j)' => Changing(q, j)'
  BY <1>1, ChangingKept DEF RuleOK
<1>3. (\A q \in Procs : ~Working(q, j)') => Settled(j)'
  BY <1>1, SettledKept DEF RuleOK
<1> QED BY <1>1, <1>2, <1>3 DEF RuleOK

(* The rule p works on, alone.                                              *)
LEMMA RuleMine ==
  ASSUME NEW j \in IDs, NEW p \in Procs, Kept(p),
         \A q \in Procs \ {p} : ~Working(q, j),
         IF Working(p, j)' THEN Changing(p, j)' ELSE Settled(j)'
  PROVE  RuleOK(j)'
<1>1. \A q \in Procs \ {p} : ~Working(q, j)'
  BY WorkingKept
<1>2. CASE Working(p, j)'
  BY <1>1, <1>2 DEF RuleOK
<1>3. CASE ~Working(p, j)'
  BY <1>1, <1>3 DEF RuleOK
<1> QED BY <1>2, <1>3

LEMMA Alone ==
  ASSUME NEW j \in IDs, RuleOK(j), NEW p \in Procs, Working(p, j)
  PROVE  Changing(p, j) /\ \A q \in Procs \ {p} : ~Working(q, j)
BY DEF RuleOK

(* A step that changes neither a rule nor what the manager knows, by a      *)
(* request that is at work on no rule.                                      *)
LEMMA ForwardSame ==
  ASSUME BaseInv, ForwardInv, NEW p \in Procs, Kept(p),
         UNCHANGED <<engine, manager, off, raced>>,
         frame[p].pc # "shutdown", frame'[p].pc # "shutdown",
         \A j \in IDs : ~Working(p, j) /\ ~Working(p, j)'
  PROVE  ForwardInv'
<1>1. \A c \in Cls, j \in IDs : Has(c, j)' <=> Has(c, j)
  BY DEF Has, manager
<1>2. ClientsStay
  BY DEF ClientsStay, manager
<1>3. ASSUME NEW j \in IDs \ raced' PROVE RuleOK(j)'
  <2>1. RuleOK(j)
    BY DEF ForwardInv
  <2>2. Live(j)' = Live(j)
    BY <1>1, LiveSame
  <2>3. SameRule(j)
    BY <2>2 DEF SameRule, engine, manager
  <2> QED BY <1>2, <2>1, <2>3, RuleKept
<1> QED BY <1>3 DEF ForwardInv

(* A step that works on rule i.                                             *)
LEMMA ForwardOne ==
  ASSUME BaseInv, ForwardInv, NEW p \in Procs, Kept(p), NEW i \in IDs,
         frame[p].id \in {Nil, i}, frame'[p].id \in {Nil, i},
         raced \subseteq raced', ClientsStay,
         \A j \in IDs \ {i} : SameRule(j),
         i \notin raced' => RuleOK(i)'
  PROVE  ForwardInv'
<1>1. ASSUME NEW j \in IDs \ raced' PROVE RuleOK(j)'
  <2>1. CASE j = i
    BY <2>1
  <2>2. CASE j # i
    <3>1. RuleOK(j)
      BY DEF ForwardInv
    <3>2. ~Working(p, j) /\ ~Working(p, j)'
      BY <2>2, Numbers DEF Working
    <3> QED BY <2>2, <3>1, <3>2, RuleKept
  <2> QED BY <2>1, <2>2
<1> QED BY <1>1 DEF ForwardInv

(* The rules after a step that changes, of the engine and of m.byRule, at   *)
(* most what they say of rule i.                                            *)
LEMMA SameOthers ==
  ASSUME NEW p \in Procs, Kept(p), NEW i \in IDs,
         frame[p].pc # "shutdown", frame'[p].pc # "shutdown",
         \A j \in IDs \ {i} :
           /\ \A c \in Cls : Has(c, j)' <=> Has(c, j)
           /\ j \in rules' <=> j \in rules
           /\ j \in off' <=> j \in off
           /\ conf'[j] = conf[j] /\ byRule'[j] = byRule[j]
  PROVE  \A j \in IDs \ {i} : SameRule(j)
BY LiveSame DEF SameRule

LEMMA ForwardRegister ==
  ASSUME BaseInv, ForwardInv, NEW p \in Procs, Register(p)
  PROVE  ForwardInv'
<1> DEFINE f == frame[p]
           i == f.id
<1>1. TypeOK /\ FrameOK(p)
  BY BaseParts
<1>2. Moved(p, f.op, "ensure", i, f.conf, f.cl, f.ids, f.late) /\ Kept(p)
  BY <1>1, RegisterMoves
<1>3. /\ f.pc = "register" /\ byRule' = [byRule EXCEPT ![i] = f.conf]
      /\ UNCHANGED <<process, files, engine, store, clients, cl, answers, off, raced>>
  BY DEF Register
<1>4. i \in IDs
  BY <1>1, <1>3 DEF FrameOK, AddRemotePCs
<1>5. /\ frame'[p].pc = "ensure" /\ frame'[p].id = i /\ frame'[p].conf = f.conf
      /\ frame'[p].op = f.op
  BY <1>2 DEF Moved, IsFrame
<1>6. \A c \in Cls, j \in IDs : Has(c, j)' <=> Has(c, j)
  BY <1>3 DEF Has
<1>7. \A j \in IDs \ {i} : SameRule(j)
  <2>1. \A j \in IDs \ {i} : byRule'[j] = byRule[j]
    BY <1>1, <1>3 DEF TypeOK
  <2> QED BY <1>2, <1>3, <1>4, <1>5, <1>6, <2>1, SameOthers DEF engine
<1>8. ASSUME i \notin raced PROVE RuleOK(i)'
  <2>1. Working(p, i) /\ RuleOK(i)
    BY <1>3, <1>4, <1>8 DEF Working, ForwardInv
  <2>2. Changing(p, i) /\ \A q \in Procs \ {p} : ~Working(q, i)
    BY <1>4, <2>1, Alone
  <2>3. Live(i)' = Live(i)
    BY <1>2, <1>3, <1>4, <1>5, <1>6, LiveSame
  <2>4. byRule'[i] = f.conf
    BY <1>1, <1>3, <1>4 DEF TypeOK
  <2>5. Changing(p, i)'
    BY <1>3, <1>5, <2>2, <2>3, <2>4 DEF Changing, AddRemotePCs, engine
  <2> QED BY <1>2, <1>4, <1>5, <2>2, <2>5, RuleMine DEF Working
<1> QED BY <1>2, <1>3, <1>4, <1>5, <1>6, <1>7, <1>8, ForwardOne DEF ClientsStay

LEMMA ForwardEnsureClient ==
  ASSUME BaseInv, ForwardInv, NEW p \in Procs, EnsureClient(p)
  PROVE  ForwardInv'
<1> DEFINE f == frame[p]
           i == f.id
           c == clients[f.conf]
<1>1. TypeOK /\ FrameOK(p)
  BY BaseParts
<1>2. /\ Moved(p, f.op, IF c = Nil THEN "get" ELSE "add", i, f.conf, c, f.ids, f.late)
      /\ Kept(p)
  BY <1>1, EnsureClientMoves
<1>3. /\ f.pc = "ensure"
      /\ UNCHANGED <<process, files, engine, store, manager, answers, off, raced>>
  BY DEF EnsureClient
<1>4. i \in IDs
  BY <1>1, <1>3 DEF FrameOK, AddRemotePCs
<1>5. /\ frame'[p].pc \in {"get", "add"} /\ frame'[p].id = i /\ frame'[p].conf = f.conf
      /\ frame'[p].op = f.op /\ frame'[p].cl = c
  BY <1>2 DEF Moved, IsFrame
<1> HIDE DEF c
<1>6. \A d \in Cls, j \in IDs : Has(d, j)' <=> Has(d, j)
  BY <1>3 DEF Has, manager
<1>7. \A j \in IDs \ {i} : SameRule(j)
  BY <1>2, <1>3, <1>4, <1>5, <1>6, SameOthers DEF engine, manager
<1>8. ASSUME i \notin raced PROVE RuleOK(i)'
  <2>1. Working(p, i) /\ RuleOK(i)
    BY <1>3, <1>4, <1>8 DEF Working, ForwardInv
  <2>2. Changing(p, i) /\ \A q \in Procs \ {p} : ~Working(q, i)
    BY <1>4, <2>1, Alone
  <2>3. Live(i)' = Live(i)
    BY <1>2, <1>3, <1>4, <1>5, <1>6, LiveSame
  <2>4. Changing(p, i)'
    BY <1>3, <1>5, <2>2, <2>3 DEF Changing, AddRemotePCs, engine, manager, c
  <2> QED BY <1>2, <1>4, <1>5, <2>2, <2>4, RuleMine DEF Working
<1> QED BY <1>2, <1>3, <1>4, <1>5, <1>6, <1>7, <1>8, ForwardOne
        DEF ClientsStay, manager

(* The new client has no rules, and nobody knew it.                         *)
LEMMA ForwardStartClient ==
  ASSUME BaseInv, ForwardInv, NEW p \in Procs, StartClient(p)
  PROVE  ForwardInv'
<1> DEFINE f == frame[p]
           i == f.id
<1>1. TypeOK /\ FrameOK(p)
  BY BaseParts
<1>2. PICK c \in Cls :
        /\ cl[c] = Nil
        /\ cl' = [cl EXCEPT ![c] = [cred |-> f.conf, rules |-> {}]]
        /\ Moved(p, f.op, "insert", i, f.conf, c, f.ids, f.late)
        /\ Kept(p)
  BY <1>1, StartClientMoves
<1>3. /\ f.pc = "get"
      /\ UNCHANGED <<process, files, engine, store, byRule, clients, answers, off, raced>>
  BY DEF StartClient
<1>4. i \in IDs
  BY <1>1, <1>3 DEF FrameOK, AddRemotePCs
<1>5. /\ frame'[p].pc = "insert" /\ frame'[p].id = i /\ frame'[p].conf = f.conf
      /\ frame'[p].op = f.op
  BY <1>2 DEF Moved, IsFrame
<1>6. \A d \in Cls, j \in IDs : Has(d, j)' <=> Has(d, j)
  <2>1. \A d \in Cls \ {c} : cl'[d] = cl[d]
    BY <1>1, <1>2 DEF TypeOK
  <2>2. cl'[c].rules = {}
    BY <1>1, <1>2 DEF TypeOK
  <2> QED BY <1>2, <2>1, <2>2 DEF Has
<1>7. \A j \in IDs \ {i} : SameRule(j)
  BY <1>2, <1>3, <1>4, <1>5, <1>6, SameOthers DEF engine
<1>8. ASSUME i \notin raced PROVE RuleOK(i)'
  <2>1. Working(p, i) /\ RuleOK(i)
    BY <1>3, <1>4, <1>8 DEF Working, ForwardInv
  <2>2. Changing(p, i) /\ \A q \in Procs \ {p} : ~Working(q, i)
    BY <1>4, <2>1, Alone
  <2>3. Live(i)' = Live(i)
    BY <1>2, <1>3, <1>4, <1>5, <1>6, LiveSame
  <2>4. Changing(p, i)'
    BY <1>3, <1>5, <2>2, <2>3 DEF Changing, AddRemotePCs, engine
  <2> QED BY <1>2, <1>4, <1>5, <2>2, <2>4, RuleMine DEF Working
<1> QED BY <1>2, <1>3, <1>4, <1>5, <1>6, <1>7, <1>8, ForwardOne DEF ClientsStay

LEMMA ForwardUnavailable ==
  ASSUME BaseInv, ForwardInv, NEW p \in Procs, Unavailable(p)
  PROVE  ForwardInv'
<1> DEFINE f == frame[p]
<1>1. TypeOK /\ FrameOK(p)
  BY BaseParts
<1>2. /\ IF f.op = "boot" THEN Moved(p, "boot", "restore", Nil, Nil, Nil, f.ids, {})
         ELSE Moved(p, f.op, "list", f.id, Nil, Nil, {}, {})
      /\ Kept(p)
  BY <1>1, UnavailableMoves
<1>3. /\ f.pc = "get" /\ off' = off \cup {f.id}
      /\ UNCHANGED <<process, files, engine, store, manager, answers, raced>>
  BY DEF Unavailable
<1>4. PICK i \in IDs : i = f.id
  BY <1>1, <1>3 DEF FrameOK, AddRemotePCs
<1>5. frame'[p].pc # "shutdown" /\ frame'[p].id \in {Nil, i} /\ ~Working(p, i)'
  <2>1. CASE f.op = "boot"
    <3>1. frame'[p].pc = "restore" /\ frame'[p].id = Nil
      BY <1>2, <2>1 DEF Moved, IsFrame
    <3> QED BY <3>1, <1>4, Numbers DEF Working
  <2>2. CASE f.op # "boot"
    <3>1. frame'[p].pc = "list" /\ frame'[p].id = i
      BY <1>2, <1>4, <2>2 DEF Moved, IsFrame
    <3> QED BY <3>1 DEF Working
  <2> QED BY <2>1, <2>2
<1>6. \A d \in Cls, j \in IDs : Has(d, j)' <=> Has(d, j)
  BY <1>3 DEF Has, manager
<1>7. \A j \in IDs \ {i} : SameRule(j)
  BY <1>2, <1>3, <1>4, <1>5, <1>6, SameOthers DEF engine, manager
<1>8. ASSUME i \notin raced PROVE RuleOK(i)'
  <2>1. Working(p, i) /\ RuleOK(i)
    BY <1>3, <1>4, <1>8 DEF Working, ForwardInv
  <2>2. Changing(p, i) /\ \A q \in Procs \ {p} : ~Working(q, i)
    BY <1>4, <2>1, Alone
  <2>3. Live(i)' = Live(i)
    BY <1>2, <1>3, <1>4, <1>5, <1>6, LiveSame
  <2>4. Live(i) = {} /\ i \in off'
    BY <1>3, <1>4, <2>2 DEF Changing, AddRemotePCs
  <2>5. Settled(i)'
    BY <2>3, <2>4 DEF Settled
  <2> QED BY <1>2, <1>4, <1>5, <2>2, <2>5, RuleMine
<1> QED BY <1>2, <1>3, <1>4, <1>5, <1>6, <1>7, <1>8, ForwardOne
        DEF ClientsStay, manager

LEMMA ForwardInsertClient ==
  ASSUME BaseInv, ForwardInv, NEW p \in Procs, InsertClient(p)
  PROVE  ForwardInv'
<1> DEFINE f == frame[p]
           i == f.id
           k == f.conf
           c == IF clients[k] = Nil THEN f.cl ELSE clients[k]
<1>1. TypeOK /\ FrameOK(p) /\ ClientsOK
  BY BaseParts
<1>2. Moved(p, f.op, "add", i, k, c, f.ids, f.late) /\ Kept(p)
  BY <1>1, InsertClientMoves
<1>3. /\ f.pc = "insert"
      /\ IF clients[k] = Nil
         THEN clients' = [clients EXCEPT ![k] = f.cl] /\ UNCHANGED cl
         ELSE cl' = [cl EXCEPT ![f.cl] = Nil] /\ UNCHANGED clients
      /\ UNCHANGED <<process, files, engine, store, byRule, answers, off, raced>>
  BY DEF InsertClient
<1>4. i \in IDs /\ k \in Creds /\ f.cl \in Cls
  BY <1>1, <1>3 DEF FrameOK, AddRemotePCs
<1>5. /\ frame'[p].pc = "add" /\ frame'[p].id = i /\ frame'[p].conf = k
      /\ frame'[p].op = f.op /\ frame'[p].cl = c
  BY <1>2 DEF Moved, IsFrame
<1>6. \A d \in Cls, j \in IDs : Has(d, j)' <=> Has(d, j)
  <2>1. cl[f.cl].rules = {}
    BY <1>1, <1>3 DEF ClientsOK
  <2>2. \A d \in Cls \ {f.cl} : cl'[d] = cl[d]
    BY <1>1, <1>3 DEF TypeOK
  <2>3. cl'[f.cl] \in {cl[f.cl], Nil}
    BY <1>1, <1>3, <1>4 DEF TypeOK
  <2> QED BY <2>1, <2>2, <2>3 DEF Has
<1>7. clients'[k] = c /\ ClientsStay
  BY <1>1, <1>3, <1>4 DEF TypeOK, ClientsStay
<1> HIDE DEF c
<1>8. \A j \in IDs \ {i} : SameRule(j)
  BY <1>2, <1>3, <1>4, <1>5, <1>6, SameOthers DEF engine
<1>9. ASSUME i \notin raced PROVE RuleOK(i)'
  <2>1. Working(p, i) /\ RuleOK(i)
    BY <1>3, <1>4, <1>9 DEF Working, ForwardInv
  <2>2. Changing(p, i) /\ \A q \in Procs \ {p} : ~Working(q, i)
    BY <1>4, <2>1, Alone
  <2>3. Live(i)' = Live(i)
    BY <1>2, <1>3, <1>4, <1>5, <1>6, LiveSame
  <2>4. Changing(p, i)'
    BY <1>3, <1>5, <1>7, <2>2, <2>3 DEF Changing, AddRemotePCs, engine
  <2> QED BY <1>2, <1>4, <1>5, <2>2, <2>4, RuleMine DEF Working
<1> QED BY <1>2, <1>3, <1>4, <1>5, <1>6, <1>7, <1>8, <1>9, ForwardOne

(* A request that ends, or that waits for the list of rules, works on none. *)
LEMMA ForwardEnds ==
  ASSUME BaseInv, ForwardInv, NEW p \in Procs,
         \/ RestoreEnd(p) \/ SaveRules(p) \/ SaveRulesFails(p)
         \/ ForgetCred(p) \/ SaveKey(p)
  PROVE  ForwardInv'
<1>1. TypeOK /\ FrameOK(p)
  BY BaseParts
<1>2. Moved(p, "none", "idle", Nil, Nil, Nil, {}, {}) /\ Kept(p)
  BY <1>1, RestoreEndMoves, SaveMoves, StoreMoves
<1>3. frame'[p].pc = "idle" /\ frame'[p].id = Nil
  BY <1>2 DEF Moved, IsFrame
<1>4. /\ frame[p].pc \in {"restore", "save", "forget", "key"}
      /\ UNCHANGED <<engine, manager, off, raced>>
  BY DEF RestoreEnd, SaveRules, SaveRulesFails, ForgetCred, SaveKey
<1>5. \A j \in IDs : ~Working(p, j) /\ ~Working(p, j)'
  BY <1>1, <1>3, <1>4, Numbers DEF FrameOK, Working
<1> QED BY <1>2, <1>3, <1>4, <1>5, ForwardSame

LEMMA ForwardListRules ==
  ASSUME BaseInv, ForwardInv, NEW p \in Procs, ListRules(p)
  PROVE  ForwardInv'
<1>1. TypeOK
  BY BaseParts
<1>2. frame'[p].pc = "save" /\ Kept(p)
  BY <1>1, ListRulesMoves DEF Moved, IsFrame
<1>3. frame[p].pc = "list" /\ UNCHANGED <<engine, manager, off, raced>>
  BY DEF ListRules
<1> QED BY <1>2, <1>3, ForwardSame DEF Working

LEMMA ForwardCreds ==
  ASSUME BaseInv, ForwardInv, Counted, NEW p \in Procs, NEW k \in Creds,
         AddCred(p) \/ UpdateCred(p, k) \/ DeleteCred(p, k)
  PROVE  ForwardInv'
<1>1. TypeOK
  BY BaseParts
<1>2. frame'[p].pc \in {"idle", "key", "cut"} /\ frame'[p].id = Nil /\ Kept(p)
  BY <1>1, AddCredMoves, UpdateCredMoves, DeleteCredMoves DEF Moved, IsFrame
<1>3. frame[p] = Idle /\ UNCHANGED <<engine, manager, off, raced>>
  BY DEF AddCred, UpdateCred, DeleteCred, Serve
<1>4. frame[p].pc = "idle" /\ frame[p].id = Nil
  BY <1>3, IdleFrame DEF IsFrame
<1> QED BY <1>2, <1>3, <1>4, ForwardSame, Numbers DEF Working

(* The client that the manager has for the rule's credential forwards it    *)
(* now: it runs, and nobody is about to shut it down.                       *)
LEMMA ForwardClientAdd ==
  ASSUME BaseInv, ForwardInv, NEW p \in Procs, ClientAdd(p)
  PROVE  ForwardInv'
<1> DEFINE f == frame[p]
<1>1. TypeOK /\ FrameOK(p) /\ ClientsOK
  BY BaseParts
<1>2. /\ IF f.op = "boot" THEN Moved(p, "boot", "restore", Nil, Nil, Nil, f.ids, {})
         ELSE Moved(p, f.op, "list", f.id, Nil, Nil, {}, {})
      /\ Kept(p)
  BY <1>1, ClientAddMoves
<1>3. /\ f.pc = "add" /\ off' = off \ {f.id}
      /\ UNCHANGED <<process, files, engine, store, byRule, clients, answers, raced>>
  BY DEF ClientAdd
<1>4. PICK i \in IDs : i = f.id
  BY <1>1, <1>3 DEF FrameOK, AddRemotePCs
<1>5. frame'[p].pc # "shutdown" /\ frame'[p].id \in {Nil, i} /\ ~Working(p, i)'
  <2>1. CASE f.op = "boot"
    <3>1. frame'[p].pc = "restore" /\ frame'[p].id = Nil
      BY <1>2, <2>1 DEF Moved, IsFrame
    <3> QED BY <3>1, <1>4, Numbers DEF Working
  <2>2. CASE f.op # "boot"
    <3>1. frame'[p].pc = "list" /\ frame'[p].id = i
      BY <1>2, <1>4, <2>2 DEF Moved, IsFrame
    <3> QED BY <3>1 DEF Working
  <2> QED BY <2>1, <2>2
<1>6. /\ f.cl \in Cls
      /\ \A c \in Cls :
           IF c = f.cl /\ cl[c] # Nil
           THEN cl'[c] # Nil /\ cl'[c].rules = cl[c].rules \cup {i}
           ELSE cl'[c] = cl[c]
  BY <1>4, AddEffect
<1>7. \A d \in Cls, j \in IDs \ {i} : Has(d, j)' <=> Has(d, j)
  BY <1>6 DEF Has
<1>8. \A j \in IDs \ {i} : SameRule(j)
  BY <1>2, <1>3, <1>4, <1>5, <1>7, SameOthers DEF engine
<1>9. ASSUME i \notin raced PROVE RuleOK(i)'
  <2>1. Working(p, i) /\ RuleOK(i)
    BY <1>3, <1>4, <1>9 DEF Working, ForwardInv
  <2>2. Changing(p, i) /\ \A q \in Procs \ {p} : ~Working(q, i)
    BY <1>4, <2>1, Alone
  <2>3. /\ Live(i) = {} /\ f.conf = conf[i] /\ byRule[i] = f.conf
        /\ clients[f.conf] = f.cl /\ f.conf \in Creds /\ i \in rules
    BY <1>1, <1>3, <2>2 DEF Changing, FrameOK, AddRemotePCs
  <2>4. PICK e \in Cls : e = f.cl
    BY <1>6
  <2>5. cl[e] # Nil /\ ~Doomed(e)
    <3>1. clients[f.conf] = e /\ e # Nil
      BY <2>3, <2>4, Numbers
    <3>2. cl[e] # Nil
      BY <1>1, <2>3, <3>1 DEF ClientsOK
    <3>3. \A q \in Procs : frame[q].pc = "shutdown" => frame[q].cl # e
      BY <1>1, <2>3, <3>1 DEF ClientsOK
    <3> QED BY <3>2, <3>3 DEF Doomed
  <2>6. \A c \in Cls : Doomed(c)' <=> Doomed(c)
    BY <1>2, <1>3, <1>5 DEF Kept, Doomed
  <2>7. Has(e, i)' /\ \A c \in Cls \ {e} : Has(c, i)' <=> Has(c, i)
    <3>1. i \in cl'[e].rules /\ cl'[e] # Nil
      BY <1>6, <2>4, <2>5
    <3>2. \A c \in Cls \ {e} : cl'[c] = cl[c]
      BY <1>6, <2>4
    <3> QED BY <3>1, <3>2 DEF Has
  <2>8. Live(i)' = {e}
    BY <2>3, <2>5, <2>6, <2>7 DEF Live
  <2>9. Settled(i)'
    <3>1. Remote(i)' /\ i \in rules' /\ i \notin off'
      BY <1>3, <1>4, <2>3 DEF Remote, engine
    <3>2. byRule'[i] = conf'[i] /\ clients'[conf'[i]] = e /\ e # Nil
      BY <1>3, <2>3, <2>4, Numbers DEF engine
    <3> QED BY <2>8, <3>1, <3>2 DEF Settled
  <2> QED BY <1>2, <1>4, <1>5, <2>2, <2>9, RuleMine
<1> QED BY <1>2, <1>3, <1>4, <1>5, <1>8, <1>9, ForwardOne DEF ClientsStay

(* Whoever forwards the rule is known to the request from here on.          *)
LEMMA ForwardUnregister ==
  ASSUME BaseInv, ForwardInv, NEW p \in Procs, Unregister(p)
  PROVE  ForwardInv'
<1> DEFINE f == frame[p]
<1>1. TypeOK /\ FrameOK(p)
  BY BaseParts
<1>2. Moved(p, f.op, "remove", f.id, f.conf, RuleClient(f.id), f.ids, f.late) /\ Kept(p)
  BY <1>1, UnregisterMoves
<1>3. /\ f.pc = "unregister" /\ byRule' = [byRule EXCEPT ![f.id] = Nil]
      /\ UNCHANGED <<process, files, engine, store, clients, cl, answers, off, raced>>
  BY DEF Unregister
<1>4. PICK i \in IDs : i = f.id
  BY <1>1, <1>3 DEF FrameOK
<1>5. /\ frame'[p].pc = "remove" /\ frame'[p].id = i /\ frame'[p].op = f.op
      /\ frame'[p].cl = RuleClient(i)
  BY <1>2, <1>4 DEF Moved, IsFrame
<1>6. \A c \in Cls, j \in IDs : Has(c, j)' <=> Has(c, j)
  BY <1>3 DEF Has
<1>7. \A j \in IDs \ {i} : SameRule(j)
  <2>1. \A j \in IDs \ {i} : byRule'[j] = byRule[j]
    BY <1>1, <1>3, <1>4 DEF TypeOK
  <2> QED BY <1>2, <1>3, <1>4, <1>5, <1>6, <2>1, SameOthers DEF engine
<1>8. ASSUME i \notin raced PROVE RuleOK(i)'
  <2>1. Working(p, i) /\ RuleOK(i)
    BY <1>3, <1>4, <1>8 DEF Working, ForwardInv
  <2>2. Changing(p, i) /\ \A q \in Procs \ {p} : ~Working(q, i)
    BY <1>4, <2>1, Alone
  <2>3. Live(i)' = Live(i)
    BY <1>2, <1>3, <1>4, <1>5, <1>6, LiveSame
  <2>4. Changing(p, i)'
    BY <1>3, <1>5, <2>2, <2>3 DEF Changing, AddRemotePCs, engine
  <2> QED BY <1>2, <1>4, <1>5, <2>2, <2>4, RuleMine DEF Working
<1> QED BY <1>2, <1>3, <1>4, <1>5, <1>6, <1>7, <1>8, ForwardOne DEF ClientsStay

(* Nobody forwards the rule any more.                                       *)
LEMMA ForwardClientRemove ==
  ASSUME BaseInv, ForwardInv, NEW p \in Procs, ClientRemove(p)
  PROVE  ForwardInv'
<1> DEFINE f == frame[p]
<1>1. TypeOK /\ FrameOK(p)
  BY BaseParts
<1>2. /\ f.pc = "remove"
      /\ UNCHANGED <<process, files, nextID, conf, store, byRule, clients, answers, off, raced>>
  BY DEF ClientRemove
<1>3. PICK i \in IDs : i = f.id
  BY <1>1, <1>2 DEF FrameOK
<1>4. /\ Kept(p)
      /\ \/ /\ f.op = "update" /\ UNCHANGED rules /\ frame'[p].pc = "register"
            /\ frame'[p].conf = conf[i] /\ frame'[p].id = i
         \/ /\ f.op # "update" /\ rules' = rules \ {i} /\ ~Working(p, i)'
            /\ frame'[p].pc \in {"list", "cut"} /\ frame'[p].id \in {Nil, i}
      /\ frame'[p].op = f.op
  BY <1>1, <1>3, ClientRemoveMoves, Numbers DEF Moved, IsFrame, Working
<1>5. \A c \in Cls :
        IF c = f.cl /\ cl[c] # Nil
        THEN cl'[c] # Nil /\ cl'[c].rules = cl[c].rules \ {i}
        ELSE cl'[c] = cl[c]
  BY <1>3, RemoveEffect
<1>6. \A d \in Cls, j \in IDs \ {i} : Has(d, j)' <=> Has(d, j)
  BY <1>5 DEF Has
<1>7. \A j \in IDs \ {i} : SameRule(j)
  BY <1>2, <1>3, <1>4, <1>6, SameOthers
<1>8. ASSUME i \notin raced PROVE RuleOK(i)'
  <2>1. Working(p, i) /\ RuleOK(i)
    BY <1>2, <1>3, <1>8 DEF Working, ForwardInv
  <2>2. Changing(p, i) /\ \A q \in Procs \ {p} : ~Working(q, i)
    BY <1>3, <2>1, Alone
  <2>3. Live(i)' = {}
    <3>1. \A c \in Cls : Doomed(c)' <=> Doomed(c)
      BY <1>2, <1>4 DEF Kept, Doomed
    <3>2. Live(i) \subseteq {f.cl}
      BY <1>2, <2>2 DEF Changing
    <3>3. ASSUME NEW c \in Cls, Has(c, i)', ~Doomed(c) PROVE FALSE
      <4>1. CASE c = f.cl /\ cl[c] # Nil
        BY <1>5, <3>3, <4>1 DEF Has
      <4>2. CASE ~(c = f.cl /\ cl[c] # Nil)
        <5>1. Has(c, i)
          BY <1>5, <3>3, <4>2 DEF Has
        <5> QED BY <3>2, <3>3, <4>2, <5>1 DEF Live, Has
      <4> QED BY <4>1, <4>2
    <3> QED BY <3>1, <3>3 DEF Live
  <2>4. CASE f.op = "update"
    <3>1. Changing(p, i)'
      BY <1>2, <1>4, <2>2, <2>3, <2>4 DEF Changing, AddRemotePCs
    <3> QED BY <1>3, <1>4, <2>2, <2>4, <3>1, RuleMine DEF Working
  <2>5. CASE f.op # "update"
    <3>1. Settled(i)'
      BY <1>4, <2>3, <2>5 DEF Settled
    <3> QED BY <1>3, <1>4, <2>2, <2>5, <3>1, RuleMine
  <2> QED BY <2>4, <2>5
<1> QED BY <1>2, <1>3, <1>4, <1>7, <1>8, ForwardOne DEF ClientsStay

(* A rule that nobody works on is forwarded at most by the client RemoveRemote *)
(* would find for it.                                                       *)
LEMMA SettledClient ==
  ASSUME TypeOK, NEW i \in IDs, Settled(i)
  PROVE  Live(i) \subseteq {RuleClient(i)} /\ (~Remote(i) \/ i \notin rules => Live(i) = {})
BY Numbers DEF Settled, RuleClient, Remote

(* A request that begins to change a rule.  If another is at work on it,    *)
(* both are excepted from here on; otherwise the rule is settled.           *)
LEMMA ForwardBegin ==
  ASSUME BaseInv, ForwardInv, NEW p \in Procs, Kept(p), NEW i \in IDs, Begin(p, i),
         frame[p].id = Nil, frame'[p].id \in {Nil, i},
         frame[p].pc # "shutdown", frame'[p].pc # "shutdown",
         \A j \in IDs \ {i} : (j \in rules' <=> j \in rules) /\ conf'[j] = conf[j],
         UNCHANGED <<manager, off>>,
         Settled(i) /\ Live(i)' = Live(i) =>
           IF Working(p, i)' THEN Changing(p, i)' ELSE Settled(i)'
  PROVE  ForwardInv'
<1>1. \A c \in Cls, j \in IDs : Has(c, j)' <=> Has(c, j)
  BY DEF Has, manager
<1>2. \A j \in IDs \ {i} : SameRule(j)
  BY <1>1, SameOthers DEF manager
<1>3. raced \subseteq raced'
  BY DEF Begin
<1>4. ASSUME i \notin raced' PROVE RuleOK(i)'
  <2>1. i \notin raced /\ \A q \in Procs \ {p} : ~Working(q, i)
    BY <1>4 DEF Begin
  <2>2. ~Working(p, i)
    BY Numbers DEF Working
  <2>3. Settled(i)
    BY <2>1, <2>2 DEF ForwardInv, RuleOK
  <2>4. Live(i)' = Live(i)
    BY <1>1, LiveSame
  <2> QED BY <2>1, <2>3, <2>4, RuleMine
<1> QED BY <1>2, <1>3, <1>4, ForwardOne DEF ClientsStay, manager

LEMMA ForwardAddRule ==
  ASSUME BaseInv, ForwardInv, Counted, NEW p \in Procs, NEW v \in Confs, AddRule(p, v)
  PROVE  ForwardInv'
<1>1. TypeOK
  BY BaseParts
<1>2. /\ \/ /\ v \in Creds /\ frame'[p].pc = "register" /\ frame'[p].id = nextID
            /\ frame'[p].conf = v
         \/ /\ v \in Locals /\ frame'[p].pc = "list" /\ frame'[p].id = nextID
         \/ /\ v \in Locals /\ frame'[p].pc = "idle" /\ frame'[p].id = Nil
      /\ frame'[p].op # "update" /\ nextID \in IDs /\ Kept(p)
  BY <1>1, AddRuleMoves DEF Moved, IsFrame
<1>3. PICK i \in IDs : i = nextID
  BY <1>2
<1>4. /\ frame[p] = Idle /\ rules' = rules \cup {i} /\ conf' = [conf EXCEPT ![i] = v]
      /\ Begin(p, i) /\ UNCHANGED <<manager, off>>
  BY <1>3 DEF AddRule, Serve
<1>5. frame[p].pc = "idle" /\ frame[p].id = Nil
  BY <1>4, IdleFrame DEF IsFrame
<1>6. conf'[i] = v /\ \A j \in IDs \ {i} : conf'[j] = conf[j]
  BY <1>1, <1>4 DEF TypeOK
<1>7. i \notin rules
  BY <1>1, <1>3, RulesTyped
<1>8. ASSUME Settled(i), Live(i)' = Live(i)
      PROVE  IF Working(p, i)' THEN Changing(p, i)' ELSE Settled(i)'
  <2>1. Live(i)' = {}
    BY <1>1, <1>7, <1>8, SettledClient
  <2>2. CASE v \in Creds
    <3>1. frame'[p].pc = "register" /\ frame'[p].id = i /\ frame'[p].conf = v
      BY <1>2, <1>3, <2>2, LocalsAssumption
    <3> QED BY <1>2, <1>4, <1>6, <2>1, <3>1 DEF Changing, AddRemotePCs, Working
  <2>3. CASE v \in Locals
    <3>1. ~Working(p, i)'
      BY <1>2, <2>3, Numbers, LocalsAssumption DEF Working
    <3>2. ~Remote(i)'
      BY <1>6, <2>3, LocalsAssumption DEF Remote
    <3> QED BY <2>1, <3>1, <3>2 DEF Settled
  <2> QED BY <2>2, <2>3 DEF Confs
<1> QED BY <1>2, <1>3, <1>4, <1>5, <1>6, <1>8, ForwardBegin

LEMMA ForwardUpdateRule ==
  ASSUME BaseInv, ForwardInv, Counted, NEW p \in Procs, NEW i \in IDs, NEW v \in Confs,
         UpdateRule(p, i, v)
  PROVE  ForwardInv'
<1>1. TypeOK
  BY BaseParts
<1>2. /\ \/ v \in Creds /\ frame'[p].pc = "unregister" /\ frame'[p].id = i
         \/ v \in Locals /\ frame'[p].pc = "list" /\ frame'[p].id = i
         \/ v \in Locals /\ frame'[p].pc = "idle" /\ frame'[p].id = Nil
      /\ Kept(p)
  BY <1>1, UpdateRuleMoves DEF Moved, IsFrame
<1>3. /\ frame[p] = Idle /\ i \in rules /\ (conf[i] \in Creds <=> v \in Creds)
      /\ conf' = [conf EXCEPT ![i] = v] /\ Begin(p, i)
      /\ UNCHANGED <<rules, manager, off>>
  BY DEF UpdateRule, Serve
<1>4. frame[p].pc = "idle" /\ frame[p].id = Nil
  BY <1>3, IdleFrame DEF IsFrame
<1>5. conf'[i] = v /\ \A j \in IDs \ {i} : conf'[j] = conf[j]
  BY <1>1, <1>3 DEF TypeOK
<1>6. ASSUME Settled(i), Live(i)' = Live(i)
      PROVE  IF Working(p, i)' THEN Changing(p, i)' ELSE Settled(i)'
  <2>1. CASE v \in Creds
    <3>1. frame'[p].pc = "unregister" /\ frame'[p].id = i
      BY <1>2, <2>1, LocalsAssumption
    <3>2. Live(i)' \subseteq {RuleClient(i)'}
      BY <1>1, <1>3, <1>6, SettledClient DEF RuleClient, manager
    <3> QED BY <1>3, <3>1, <3>2 DEF Changing, AddRemotePCs, Working
  <2>2. CASE v \in Locals
    <3>1. ~Working(p, i)'
      BY <1>2, <2>2, Numbers, LocalsAssumption DEF Working
    <3>2. ~Remote(i) /\ ~Remote(i)'
      BY <1>3, <1>5, <2>2, LocalsAssumption DEF Remote
    <3>3. Live(i)' = {}
      BY <1>1, <1>6, <3>2, SettledClient
    <3> QED BY <3>1, <3>2, <3>3 DEF Settled
  <2> QED BY <2>1, <2>2 DEF Confs
<1> QED BY <1>2, <1>3, <1>4, <1>5, <1>6, ForwardBegin

LEMMA ForwardRemoveRule ==
  ASSUME BaseInv, ForwardInv, Counted, NEW p \in Procs, NEW i \in IDs, RemoveRule(p, i)
  PROVE  ForwardInv'
<1>1. TypeOK
  BY BaseParts
<1>2. /\ \/ Remote(i) /\ UNCHANGED rules /\ frame'[p].pc = "unregister"
         \/ ~Remote(i) /\ rules' = rules \ {i} /\ frame'[p].pc = "list"
      /\ frame'[p].op = "delete" /\ frame'[p].id = i /\ Kept(p)
  BY <1>1, RemoveRuleMoves DEF Moved, IsFrame
<1>3. frame[p] = Idle /\ Begin(p, i) /\ UNCHANGED <<conf, manager, off>>
  BY DEF RemoveRule, Serve
<1>4. frame[p].pc = "idle" /\ frame[p].id = Nil
  BY <1>3, IdleFrame DEF IsFrame
<1>5. \A j \in IDs \ {i} : (j \in rules' <=> j \in rules) /\ conf'[j] = conf[j]
  BY <1>2, <1>3
<1>6. ASSUME Settled(i), Live(i)' = Live(i)
      PROVE  IF Working(p, i)' THEN Changing(p, i)' ELSE Settled(i)'
  <2>1. CASE Remote(i)
    <3>1. Live(i)' \subseteq {RuleClient(i)'}
      BY <1>1, <1>3, <1>6, SettledClient DEF RuleClient, manager
    <3> QED BY <1>2, <2>1, <3>1 DEF Changing, AddRemotePCs, Working
  <2>2. CASE ~Remote(i)
    <3>1. Live(i)' = {}
      BY <1>1, <1>6, <2>2, SettledClient
    <3> QED BY <1>2, <2>2, <3>1 DEF Settled, Working
  <2> QED BY <2>1, <2>2
<1> QED BY <1>2, <1>3, <1>4, <1>5, <1>6, ForwardBegin

LEMMA ForwardCutRule ==
  ASSUME BaseInv, ForwardInv, NEW p \in Procs, CutRule(p)
  PROVE  ForwardInv'
<1>1. TypeOK /\ FrameOK(p)
  BY BaseParts
<1>2. /\ frame'[p].pc \in {"cut", "kill"} /\ frame'[p].id = frame[p].id /\ Kept(p)
  BY <1>1, CutRuleMoves DEF Moved, IsFrame
<1>3. /\ frame[p].pc = "cut" /\ UNCHANGED <<engine, manager, off, raced>>
  BY DEF CutRule
<1>4. frame[p].id = Nil
  BY <1>1, <1>3 DEF FrameOK
<1> QED BY <1>2, <1>3, <1>4, ForwardSame, Numbers DEF Working

LEMMA ForwardKillRule ==
  ASSUME BaseInv, ForwardInv, NEW p \in Procs, KillRule(p)
  PROVE  ForwardInv'
<1>1. TypeOK /\ FrameOK(p)
  BY BaseParts
<1>2. PICK i \in IDs :
        /\ \/ /\ i \in rules /\ Begin(p, i) /\ frame'[p].pc = "unregister"
              /\ frame'[p].id = i
           \/ /\ i \notin rules /\ UNCHANGED <<answers, raced>> /\ frame'[p].pc = "cut"
              /\ frame'[p].id = frame[p].id
        /\ frame'[p].op = frame[p].op /\ Kept(p)
  BY <1>1, KillRuleMoves DEF Moved, IsFrame
<1>3. frame[p].pc = "kill" /\ UNCHANGED <<process, files, engine, store, manager, off>>
  BY DEF KillRule
<1>4. frame[p].id = Nil /\ frame[p].op # "update"
  BY <1>1, <1>3 DEF FrameOK, AddRemotePCs
<1>5. CASE i \in rules
  <2>1. Begin(p, i) /\ frame'[p].pc = "unregister" /\ frame'[p].id = i
    BY <1>2, <1>5
  <2>2. ASSUME Settled(i), Live(i)' = Live(i)
        PROVE  IF Working(p, i)' THEN Changing(p, i)' ELSE Settled(i)'
    <3>1. Live(i)' \subseteq {RuleClient(i)'}
      BY <1>1, <1>3, <2>2, SettledClient DEF RuleClient, manager
    <3> QED BY <1>2, <1>4, <2>1, <3>1 DEF Changing, AddRemotePCs, Working
  <2> QED BY <1>2, <1>3, <1>4, <2>1, <2>2, ForwardBegin DEF engine
<1>6. CASE i \notin rules
  <2>1. UNCHANGED raced /\ frame'[p].pc = "cut" /\ frame'[p].id = Nil
    BY <1>2, <1>4, <1>6
  <2> QED BY <1>2, <1>3, <1>4, <2>1, ForwardSame, Numbers DEF Working
<1> QED BY <1>5, <1>6

(* While the rules are restored nobody works on one that is not restored.   *)
LEMMA ForwardRestoreRule ==
  ASSUME BaseInv, ForwardInv, NEW p \in Procs, RestoreRule(p)
  PROVE  ForwardInv'
<1> DEFINE f == frame[p]
<1>1. TypeOK /\ FrameOK(p) /\ BootOK
  BY BaseParts
<1>2. PICK i \in IDs :
        /\ i \in f.ids /\ rules' = rules \cup {i} /\ conf' = [conf EXCEPT ![i] = rfile[i]]
        /\ f.op = "boot"
        /\ \/ /\ rfile[i] \in Creds /\ frame'[p].pc = "register" /\ frame'[p].id = i
              /\ frame'[p].conf = rfile[i]
           \/ /\ rfile[i] \in Locals /\ frame'[p].pc = "restore" /\ frame'[p].id = f.id
        /\ frame'[p].op = "boot" /\ Kept(p) /\ rfile[i] \in Confs
  BY <1>1, RestoreRuleMoves DEF Moved, IsFrame, Confs
<1>3. f.pc = "restore" /\ UNCHANGED <<process, files, store, manager, answers, off, raced>>
  BY DEF RestoreRule
<1>4. f.id = Nil
  BY <1>1, <1>3 DEF FrameOK
<1>5. \A c \in Cls, j \in IDs : Has(c, j)' <=> Has(c, j)
  BY <1>3 DEF Has, manager
<1>6. conf'[i] = rfile[i] /\ \A j \in IDs \ {i} : conf'[j] = conf[j]
  BY <1>1, <1>2 DEF TypeOK
<1>7. \A j \in IDs \ {i} : SameRule(j)
  BY <1>2, <1>3, <1>5, <1>6, SameOthers DEF manager
<1>8. \A q \in Procs : ~Working(q, i)
  BY <1>1, <1>2, <1>4, IdleFrame, Numbers DEF BootOK, Working, IsFrame
<1>9. ASSUME i \notin raced PROVE RuleOK(i)'
  <2>1. Settled(i)
    BY <1>8, <1>9 DEF ForwardInv, RuleOK
  <2>2. i \notin rules
    BY <1>1, <1>2 DEF BootOK
  <2>3. Live(i) = {}
    BY <1>1, <2>1, <2>2, SettledClient
  <2>4. Live(i)' = {}
    BY <1>2, <1>3, <1>5, <2>3, LiveSame
  <2>5. CASE rfile[i] \in Creds
    <3>1. frame'[p].pc = "register" /\ frame'[p].id = i /\ frame'[p].conf = rfile[i]
      BY <1>2, <2>5, LocalsAssumption
    <3>2. Changing(p, i)'
      BY <1>2, <1>6, <2>4, <3>1 DEF Changing, AddRemotePCs
    <3> QED BY <1>2, <1>8, <3>1, <3>2, RuleMine DEF Working
  <2>6. CASE rfile[i] \in Locals
    <3>1. ~Working(p, i)'
      BY <1>2, <1>4, <2>6, Numbers, LocalsAssumption DEF Working
    <3>2. ~Remote(i)'
      BY <1>6, <2>6, LocalsAssumption DEF Remote
    <3>3. Settled(i)'
      BY <2>4, <3>2 DEF Settled
    <3> QED BY <1>2, <1>8, <3>1, <3>3, RuleMine
  <2> QED BY <1>2, <2>5, <2>6 DEF Confs
<1>10. frame'[p].id \in {Nil, i}
  BY <1>2, <1>4
<1> QED BY <1>2, <1>3, <1>4, <1>7, <1>9, <1>10, ForwardOne DEF ClientsStay, manager

(* The client of the credential is on its way out: it forwards no rule any  *)
(* more, those of that credential are cut off, and no other rule had it.    *)
LEMMA ForwardPurgeCred ==
  ASSUME BaseInv, ForwardInv, NEW p \in Procs, PurgeCred(p)
  PROVE  ForwardInv'
<1>1. TypeOK /\ FrameOK(p) /\ ClientsOK
  BY BaseParts
<1>2. PICK k \in Creds : k = frame[p].conf
  BY <1>1, PurgeCredMoves
<1>3. PICK m \in Cls \cup {Nil} : m = clients[k]
  BY <1>1 DEF TypeOK
<1>4. /\ frame'[p].pc = "shutdown" /\ frame'[p].id = frame[p].id /\ frame'[p].cl = m
      /\ Kept(p)
  BY <1>1, <1>2, <1>3, PurgeCredMoves DEF Moved, IsFrame
<1>5. /\ frame[p].pc = "cut"
      /\ byRule' = [j \in IDs |-> IF byRule[j] = k THEN Nil ELSE byRule[j]]
      /\ clients' = [clients EXCEPT ![k] = Nil]
      /\ off' = off \cup {j \in IDs : byRule[j] = k}
      /\ \A j \in IDs \ raced' :
           j \notin raced /\ (byRule[j] = k => \A q \in Procs : ~Working(q, j))
      /\ UNCHANGED <<process, files, engine, store, cl, answers>>
  <2>1. byRule' = [j \in IDs |-> IF j \in {i \in IDs : byRule[i] = k} THEN Nil ELSE byRule[j]]
    BY <1>2 DEF PurgeCred
  <2>2. raced' = raced \cup {j \in {i \in IDs : byRule[i] = k} : \E q \in Procs : Working(q, j)}
    BY <1>2 DEF PurgeCred
  <2>3. /\ frame[p].pc = "cut" /\ clients' = [clients EXCEPT ![k] = Nil]
        /\ off' = off \cup {j \in IDs : byRule[j] = k}
        /\ UNCHANGED <<process, files, engine, store, cl, answers>>
    BY <1>2 DEF PurgeCred
  <2>4. byRule' = [j \in IDs |-> IF byRule[j] = k THEN Nil ELSE byRule[j]]
    BY <2>1
  <2>5. \A j \in IDs \ raced' :
           j \notin raced /\ (byRule[j] = k => \A q \in Procs : ~Working(q, j))
    BY <2>2
  <2> QED BY <2>3, <2>4, <2>5
<1>6. frame[p].id = Nil /\ \A j \in IDs : ~Working(p, j) /\ ~Working(p, j)'
  BY <1>1, <1>4, <1>5, Numbers DEF FrameOK, Working
<1>7. \A i \in Creds \ {k} : clients'[i] = clients[i]
  BY <1>1, <1>5 DEF TypeOK
<1>8. \A c \in Cls : Doomed(c)' <=> Doomed(c) \/ c = m
  BY <1>4, <1>5 DEF Kept, Doomed
<1>9. \A j \in IDs : Live(j)' = Live(j) \ {m}
  BY <1>5, <1>8 DEF Live, Has
<1>10. ASSUME NEW j \in IDs \ raced', byRule[j] = k PROVE RuleOK(j)'
  <2>1. RuleOK(j) /\ \A q \in Procs : ~Working(q, j)
    BY <1>5, <1>10 DEF ForwardInv
  <2>2. Settled(j)
    BY <2>1 DEF RuleOK
  <2>3. Live(j) \subseteq {m}
    BY <1>1, <1>3, <1>10, <2>2, SettledClient, Numbers DEF RuleClient
  <2>4. Settled(j)'
    BY <1>5, <1>9, <1>10, <2>3 DEF Settled
  <2> QED BY <1>4, <1>6, <2>1, <2>4, RuleMine
<1>11. ASSUME NEW j \in IDs \ raced', byRule[j] # k PROVE RuleOK(j)'
  <2>1. RuleOK(j)
    BY <1>5, <1>11 DEF ForwardInv
  <2>2. /\ byRule'[j] = byRule[j] /\ (j \in off' <=> j \in off)
        /\ conf'[j] = conf[j] /\ rules' = rules
    BY <1>5, <1>11 DEF engine
  <2>3. \A q \in Procs : Working(q, j)' <=> Working(q, j)
    BY <1>4, <1>6, WorkingKept
  <2>4. ASSUME Settled(j) PROVE Settled(j)'
    <3>1. Remote(j)' <=> Remote(j)
      BY <2>2 DEF Remote
    <3>2. CASE j \in rules /\ Remote(j) /\ j \notin off
      <4>1. /\ byRule[j] = conf[j] /\ clients[conf[j]] # Nil
            /\ Live(j) = {clients[conf[j]]} /\ conf[j] \in Creds \ {k}
        BY <1>11, <2>4, <3>2 DEF Settled, Remote
      <4>2. clients[conf[j]] # m
        BY <1>1, <1>3, <4>1 DEF ClientsOK
      <4>3. clients'[conf[j]] = clients[conf[j]]
        BY <1>7, <4>1
      <4>4. Live(j)' = {clients[conf[j]]}
        BY <1>9, <4>1, <4>2
      <4> QED BY <2>2, <3>1, <3>2, <4>1, <4>3, <4>4 DEF Settled
    <3>3. CASE ~(j \in rules /\ Remote(j) /\ j \notin off)
      <4>1. Live(j) = {}
        BY <2>4, <3>3 DEF Settled
      <4> QED BY <1>9, <2>2, <3>1, <3>3, <4>1 DEF Settled
    <3> QED BY <3>2, <3>3
  <2>5. ASSUME NEW q \in Procs, Working(q, j), Changing(q, j) PROVE Changing(q, j)'
    <3>1. /\ q # p /\ frame'[q].op = frame[q].op /\ frame'[q].pc = frame[q].pc
          /\ frame'[q].conf = frame[q].conf /\ frame'[q].cl = frame[q].cl
      BY <1>4, <1>6, <2>5 DEF Kept
    <3>2. Live(j)' \subseteq Live(j)
      BY <1>9
    <3>3. RuleClient(j)' = RuleClient(j)
      <4>1. byRule[j] = Nil \/ byRule[j] \in Creds \ {k}
        BY <1>1, <1>11 DEF TypeOK
      <4> QED BY <1>7, <2>2, <4>1 DEF RuleClient
    <3>4. frame[q].pc = "add" => clients'[frame[q].conf] = frame[q].cl
      <4>1. frame[q].pc = "add" => frame[q].conf \in Creds /\ frame[q].conf = byRule[j]
        BY <2>5, BaseParts DEF Changing, FrameOK, AddRemotePCs
      <4> QED BY <1>7, <1>11, <2>5, <4>1 DEF Changing
    <3> QED BY <2>2, <2>5, <3>1, <3>2, <3>3, <3>4 DEF Changing
  <2> QED BY <2>1, <2>3, <2>4, <2>5 DEF RuleOK
<1> QED BY <1>10, <1>11 DEF ForwardInv

LEMMA ForwardShutdownClient ==
  ASSUME BaseInv, ForwardInv, NEW p \in Procs, ShutdownClient(p)
  PROVE  ForwardInv'
<1>1. TypeOK /\ FrameOK(p)
  BY BaseParts
<1>2. frame'[p].pc = "forget" /\ frame'[p].id = frame[p].id /\ Kept(p)
  BY <1>1, ShutdownClientMoves DEF Moved, IsFrame
<1>3. /\ frame[p].pc = "shutdown"
      /\ cl' = [c \in Cls |-> IF c = frame[p].cl THEN Nil ELSE cl[c]]
      /\ UNCHANGED <<process, files, engine, store, byRule, clients, answers, off, raced>>
  BY DEF ShutdownClient
<1>4. \A j \in IDs : ~Working(p, j) /\ ~Working(p, j)'
  BY <1>1, <1>2, <1>3, Numbers DEF FrameOK, Working
<1>5. ASSUME NEW j \in IDs PROVE Live(j)' = Live(j)
  <2>1. ASSUME NEW c \in Cls, c = frame[p].cl PROVE ~Has(c, j)' /\ Doomed(c)
    BY <1>3, <2>1 DEF Has, Doomed
  <2>2. ASSUME NEW c \in Cls, c # frame[p].cl
        PROVE  (Has(c, j)' <=> Has(c, j)) /\ (Doomed(c)' <=> Doomed(c))
    BY <1>2, <1>3, <2>2 DEF Has, Doomed, Kept
  <2> QED BY <2>1, <2>2 DEF Live
<1>6. ASSUME NEW j \in IDs \ raced' PROVE RuleOK(j)'
  <2>1. RuleOK(j)
    BY <1>3, <1>6 DEF ForwardInv
  <2>2. SameRule(j) /\ ClientsStay
    BY <1>3, <1>5 DEF SameRule, ClientsStay, engine
  <2> QED BY <1>2, <1>4, <2>1, <2>2, RuleKept
<1> QED BY <1>6 DEF ForwardInv

LEMMA ForwardBoot ==
  ASSUME BaseInv, ForwardInv, NEW p \in Procs, Boot(p)
  PROVE  ForwardInv'
<1>1. TypeOK /\ BootOK
  BY BaseParts
<1>2. frame'[p].pc = "restore" /\ frame'[p].id = Nil /\ Kept(p)
  BY <1>1, BootMoves DEF Moved, IsFrame
<1>3. up = "down" /\ UNCHANGED <<engine, manager, off, raced>>
  BY DEF Boot
<1>4. frame[p].pc = "idle" /\ frame[p].id = Nil
  BY <1>1, <1>3, IdleFrame DEF BootOK, IsFrame
<1> QED BY <1>2, <1>3, <1>4, ForwardSame, Numbers DEF Working

LEMMA ForwardStutter ==
  ASSUME ForwardInv, UNCHANGED <<engine, manager, frame, off, raced>>
  PROVE  ForwardInv'
<1>1. ASSUME NEW j \in IDs PROVE Live(j)' = Live(j)
  BY DEF Live, Has, Doomed, manager
<1>2. ASSUME NEW j \in IDs PROVE Settled(j)' <=> Settled(j)
  BY <1>1 DEF Settled, Remote, engine, manager
<1>3. ASSUME NEW j \in IDs, NEW p \in Procs PROVE Changing(p, j)' <=> Changing(p, j)
  BY <1>1 DEF Changing, RuleClient, engine, manager
<1>4. ASSUME NEW j \in IDs, NEW p \in Procs PROVE Working(p, j)' <=> Working(p, j)
  BY DEF Working
<1> QED BY <1>2, <1>3, <1>4 DEF ForwardInv, RuleOK

LEMMA ForwardStep ==
  ASSUME BaseInv, ForwardInv, [Next]_vars
  PROVE  ForwardInv'
<1>1. CASE UNCHANGED vars
  BY <1>1, ForwardStutter DEF vars
<1>2. CASE BootFails
  BY <1>2, ForwardStutter DEF BootFails
<1>3. CASE Crash
  <2>1. (\A c \in Cls : cl'[c] = Nil) /\ rules' = {} /\ \A p \in Procs : frame'[p] = Idle
    BY <1>3 DEF Crash
  <2>2. \A p \in Procs, j \in IDs : ~Working(p, j)'
    BY <2>1, IdleFrame, Numbers DEF Working, IsFrame
  <2>3. \A j \in IDs : Settled(j)'
    BY <2>1 DEF Settled, Live, Has
  <2> QED BY <2>2, <2>3 DEF ForwardInv, RuleOK
<1>4. ASSUME NEW p \in Procs, Boot(p) PROVE ForwardInv'
  BY <1>4, ForwardBoot
<1>5. ASSUME NEW p \in Procs, Step(p) PROVE ForwardInv'
  BY <1>5, ForwardRestoreRule, ForwardEnds, ForwardRegister, ForwardEnsureClient,
     ForwardStartClient, ForwardUnavailable, ForwardInsertClient, ForwardClientAdd,
     ForwardUnregister, ForwardClientRemove, ForwardListRules, ForwardCutRule, ForwardKillRule,
     ForwardPurgeCred, ForwardShutdownClient
  DEF Step
<1>6. ASSUME NEW p \in Procs, Request(p) PROVE ForwardInv'
  <2>1. Counted
    BY <1>6 DEF Request, Counted
  <2>2. ASSUME AddCred(p) PROVE ForwardInv'
    <3>1. next + 1 \in Creds
      BY <2>2 DEF AddCred
    <3> QED BY <2>1, <2>2, <3>1, ForwardCreds
  <2> QED BY <1>6, <2>1, <2>2, ForwardAddRule, ForwardUpdateRule, ForwardRemoveRule,
             ForwardCreds DEF Request
<1> QED BY <1>1, <1>2, <1>3, <1>4, <1>5, <1>6 DEF Next
-----------------------------------------------------------------------------
(* In the middle of the requests too, a rule nobody works on is forwarded   *)
(* as it should be, and one in the middle of a change by no client but the  *)
(* one the request is about to take it from.                                *)
THEOREM ForwardInvariant == Spec => []ForwardInv
<1>1. Init => ForwardInv
  <2> SUFFICES ASSUME Init PROVE ForwardInv
    OBVIOUS
  <2>1. (\A c \in Cls : cl[c] = Nil) /\ rules = {} /\ \A p \in Procs : frame[p] = Idle
    BY DEF Init
  <2>2. \A p \in Procs, j \in IDs : ~Working(p, j)
    BY <2>1, IdleFrame, Numbers DEF Working, IsFrame
  <2>3. \A j \in IDs : Settled(j)
    BY <2>1 DEF Settled, Live, Has
  <2> QED BY <2>2, <2>3 DEF ForwardInv, RuleOK
<1>2. BaseInv /\ ForwardInv /\ [Next]_vars => ForwardInv'
  BY ForwardStep
<1> QED BY <1>1, <1>2, BaseInvariant, PTL DEF Spec

(* When no request is between the engine, the manager and the SSH clients,  *)
(* a remote rule is forwarded by the client of the credential it names and  *)
(* by no other, and a rule that is gone or unavailable by none, whatever    *)
(* was created, changed, removed, cut off and restored before.              *)
THEOREM ForwardsCorrect == Spec => []ForwardsAgree
<1>1. BaseInv /\ ForwardInv => ForwardsAgree
  <2> SUFFICES ASSUME BaseInv, ForwardInv, Quiet, NEW i \in IDs \ raced
               PROVE  {c \in Cls : cl[c] # Nil /\ i \in cl[c].rules} =
                        IF i \in rules /\ Remote(i) /\ i \notin off
                        THEN {clients[conf[i]]} ELSE {}
    BY DEF ForwardsAgree
  <2>1. \A p \in Procs : frame[p].pc \in {"idle", "list", "save", "key"}
    BY DEF Quiet
  <2>2. \A p \in Procs : ~Working(p, i)
    BY <2>1, BaseParts, Numbers DEF FrameOK, Working
  <2>3. Settled(i)
    BY <2>2 DEF ForwardInv, RuleOK
  <2>4. Live(i) = {c \in Cls : cl[c] # Nil /\ i \in cl[c].rules}
    BY <2>1 DEF Live, Has, Doomed
  <2> QED BY <2>3, <2>4 DEF Settled
<1> QED BY <1>1, BaseInvariant, ForwardInvariant, PTL
=============================================================================
